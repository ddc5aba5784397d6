----------------------------- MODULE GaugeScope ------------------------------
(***************************************************************************)
(* One gauge field in memory, and the objects that change it in place      *)
(* while they exist: Lattice scales the links of one direction on          *)
(* anisotropic lattices, DiracOp and ParTrans flip the sign of the links   *)
(* that cross an antiperiodic boundary, scale them again, and the classes  *)
(* derived from them lay the field out in another storage order.  Every    *)
(* destructor undoes what its constructor did.  The objects find out about *)
(* each other through static locks, and remember what to undo in static    *)
(* variables.                                                              *)
(*                                                                         *)
(* A link is modelled by what was done to it: its sign and the powers of   *)
(* XiBare and of XiVXi/XiV it was multiplied with.  The staggered phases   *)
(* and daggers that belong to an order come and go with it and are left    *)
(* out.  One node is modelled; bc is the set of directions in which it     *)
(* lies at an antiperiodic boundary.                                       *)
(***************************************************************************)
EXTENDS Integers, Sequences

CONSTANTS
  NX,                  (* NX[mu]: sites of this node in direction mu       *)
  PtGaugeUses,         (* sets of places ParTransGauge may be used in:     *)
                       (* "inside" a DiracOp, "outside" of any             *)
  MaxUpdates           (* bound on the number of changes of the field      *)

Dir == 0..3

ASSUME NXAssumption ==
  /\ NX \in [Dir -> Nat] /\ \A mu \in Dir : NX[mu] > 0 /\ NX[mu] % 2 = 0
  /\ PtGaugeUses \subseteq SUBSET {"inside", "outside"}
  /\ MaxUpdates \in Nat

Site == {x \in [Dir -> UNION {0..(NX[mu] - 1) : mu \in Dir}] :
           \A mu \in Dir : x[mu] < NX[mu]}
Link == Site \X Dir
Vol  == NX[0] * NX[1] * NX[2] * NX[3]
Index == 0..(4 * Vol - 1)

Canon(x)  == x[0] + NX[0] * (x[1] + NX[1] * (x[2] + NX[2] * x[3]))
TFirst(x) == x[3] + NX[3] * (x[0] + NX[0] * (x[1] + NX[1] * x[2]))
Odd(x)    == (x[0] + x[1] + x[2] + x[3]) % 2

\* Where each storage order keeps link mu of site x.
Offset ==
  [CANONICAL  |-> [l \in Link |-> 4 * Canon(l[1]) + l[2]],
   STAG       |-> [l \in Link |-> 4 * Canon(l[1]) + l[2]],
   WILSON     |-> [l \in Link |->
                    4 * (Canon(l[1]) \div 2 + Odd(l[1]) * (Vol \div 2)) + l[2]],
   STAG_BLOCK |-> [l \in Link |->
                    Vol * l[2] + TFirst(l[1]) \div 2 + Odd(l[1]) * (Vol \div 2)]]

StrOrd == DOMAIN Offset

\* The link an order keeps at index i.
LinkAt == [o \in StrOrd |->
            [i \in Index |-> CHOOSE l \in Link : Offset[o][l] = i]]

VARIABLES
  bc, xiDir, ptUse,    (* boundary, anisotropic direction, use of          *)
                       (* ParTransGauge; none of them ever changes         *)
  kind,                (* fermion type of the Lattice object, or "none"    *)
  open,                (* DiracOp and ParTrans objects, the oldest first   *)
  f                    (* the field and the static variables               *)

vars == <<bc, xiDir, ptUse, kind, open, f>>

Plain == [neg |-> FALSE, bare |-> 0, ratio |-> 0]

Init ==
  /\ bc \in SUBSET Dir
  /\ xiDir \in Dir
  /\ ptUse \in PtGaugeUses
  /\ kind = "none"
  /\ open = <<>>
  /\ f = [u |-> [i \in Index |-> Plain],   (* *gauge_field                 *)
          str_ord |-> "CANONICAL",
          updates |-> 0,                   (* changes of the field so far  *)
          diracLock |-> FALSE, parLock |-> FALSE,
          oldStag |-> "CANONICAL",         (* the static old_str_ord of    *)
          oldCb |-> "CANONICAL",           (* ParTransStagTypes, ...Stag-  *)
          oldGauge |-> "CANONICAL",        (* gered_cb and ...Gauge        *)
          smeared |-> FALSE,
          fields |-> [l \in Link |-> Plain], (* smeared links, and from    *)
          fieldsOf |-> 0]                    (* which field they were made *)

Logical(g) == [l \in Link |-> g.u[Offset[g.str_ord][l]]]

-----------------------------------------------------------------------------
(* What is done to the field *)

AtBoundary(x, mu) == mu \in bc /\ x[mu] = NX[mu] - 1

\* BondCond reckons in canonical order whatever the order is.
BondCond(g) ==
  [g EXCEPT !.u = [i \in Index |->
     LET l == LinkAt["CANONICAL"][i] IN
     IF AtBoundary(l[1], l[2]) THEN [g.u[i] EXCEPT !.neg = ~@] ELSE g.u[i]]]

\* MltFloat by XiBare^b * (XiVXi/XiV)^r.
MltFloat(g, b, r) ==
  [g EXCEPT !.u = [i \in Index |->
     IF i % 4 = xiDir THEN [g.u[i] EXCEPT !.bare = @ + b, !.ratio = @ + r]
     ELSE g.u[i]]]

Convert(g, o) ==
  [g EXCEPT !.str_ord = o,
            !.u = [i \in Index |-> g.u[Offset[g.str_ord][LinkAt[o][i]]]]]

\* Unitarize every link, then scale those of the anisotropic direction.
Reunitarized(g) ==
  MltFloat([g EXCEPT !.u = [i \in Index |-> [g.u[i] EXCEPT !.bare = 0,
                                                           !.ratio = 0]],
                     !.smeared = FALSE], 1, 0)

-----------------------------------------------------------------------------
(* Constructors and destructors *)

DiracOp(g) ==
  MltFloat([(IF g.parLock THEN g ELSE BondCond(g)) EXCEPT !.diracLock = TRUE],
           0, 1)

DiracOpEnd(g) ==
  MltFloat([(IF g.parLock THEN g ELSE BondCond(g)) EXCEPT !.diracLock = FALSE],
           0, -1)

ParTrans(g) ==
  MltFloat([(IF g.diracLock THEN g ELSE BondCond(g)) EXCEPT !.parLock = TRUE],
           0, 1)

\* Mutant: the boundary condition is turned off inside a DiracOp, too.
ParTransEnd_Bug(g) ==
  MltFloat([BondCond(g) EXCEPT !.parLock = FALSE], 0, -1)

ParTransEnd(g) ==
  MltFloat([(IF g.diracLock THEN g ELSE BondCond(g)) EXCEPT !.parLock = FALSE],
           0, -1)

\* ParTransAsqtad adds nothing to this: its own conversion finds STAG order.
StagTypes(g) ==
  LET p == ParTrans(g) IN Convert([p EXCEPT !.oldStag = p.str_ord], "STAG")

\* Mutant: the order is left to the caller, as if every caller were a force.
StagTypesEnd_Bug(g) == ParTransEnd(g)

StagTypesEnd(g) ==
  ParTransEnd(IF g.oldStag # "STAG" THEN Convert(g, g.oldStag) ELSE g)

StaggeredCb(g) ==
  LET p == StagTypes(g) IN
  Convert([p EXCEPT !.oldCb = p.str_ord], "STAG_BLOCK")

StaggeredCbEnd(g) ==
  StagTypesEnd(IF g.oldCb # "STAG_BLOCK" THEN Convert(g, g.oldCb) ELSE g)

\* ParTransGauge notes the order only if it converts, but always looks at the
\* note when it ends.
PtGauge(g) ==
  LET p == ParTrans(g) IN
  IF p.str_ord = "CANONICAL" THEN p
  ELSE Convert([p EXCEPT !.oldGauge = p.str_ord], "CANONICAL")

\* Mutant: the order is left as it is.
PtGaugeEnd_Bug(g) == ParTransEnd(g)

PtGaugeEnd(g) ==
  ParTransEnd(IF g.oldGauge # "CANONICAL" THEN Convert(g, g.oldGauge) ELSE g)

\* Fp4::Smear and Fasqtad::Smear use a ParTransAsqtad of their own; at their
\* end the links are marked as smeared and the transporter is destroyed.
SmearDone(p) ==
  StagTypesEnd([p EXCEPT !.fields = Logical(p), !.fieldsOf = p.updates,
                         !.smeared = TRUE])

Smear(g) == IF g.smeared THEN g ELSE SmearDone(StagTypes(g))

-----------------------------------------------------------------------------
(* The program *)

\* Lattice::Lattice with START_CONF_MEM; the constructor of its fermion class
\* leaves the gauge field alone.
OpenLattice(k) ==
  /\ kind = "none"
  /\ kind' = k
  /\ f' = Reunitarized(Convert(f, "CANONICAL"))
  /\ UNCHANGED <<bc, xiDir, ptUse, open>>

CloseLattice ==
  /\ kind # "none" /\ open = <<>>
  /\ kind' = "none"
  /\ f' = MltFloat(f, -1, 0)
  /\ UNCHANGED <<bc, xiDir, ptUse, open>>

\* Construct an object called name, or destroy the youngest, which is name.
Opens(name, g) ==
  /\ open' = Append(open, name)
  /\ f' = g
  /\ UNCHANGED <<bc, xiDir, ptUse, kind>>

Closes(name, g) ==
  /\ open # <<>> /\ open[Len(open)] = name
  /\ open' = SubSeq(open, 1, Len(open) - 1)
  /\ f' = g
  /\ UNCHANGED <<bc, xiDir, ptUse, kind>>

\* DiracOpWilson, DiracOpClover, DiracOpDwf, DiracOpWilsonTm.
OpenWilson ==
  kind = "wilson" /\ open = <<>> /\ Opens("Wilson", Convert(DiracOp(f), "WILSON"))
CloseWilson ==
  Closes("Wilson", DiracOpEnd(Convert(f, "CANONICAL")))

OpenStag ==
  kind = "stag" /\ open = <<>> /\ Opens("Stag", Convert(DiracOp(f), "STAG"))
CloseStag ==
  Closes("Stag", DiracOpEnd(Convert(f, "CANONICAL")))

\* DiracOpP4 keeps a ParTransStaggered_cb for as long as it lives.
OpenP4 ==
  /\ kind = "p4" /\ open = <<>>
  /\ Opens("P4", StaggeredCb(Smear(Convert(DiracOp(f), "STAG"))))
CloseP4 ==
  Closes("P4", DiracOpEnd(Convert(StaggeredCbEnd(f), "CANONICAL")))

\* The forces of Fasqtad and Fp4 convert the field to STAG order before they
\* make a ParTransAsqtad, and back before its destructor runs.
OpenAsqtad ==
  /\ kind = "p4" /\ open = <<>>
  /\ Opens("Asqtad", StagTypes(Convert(f, "STAG")))
CloseAsqtad ==
  Closes("Asqtad", StagTypesEnd(Convert(f, "CANONICAL")))

\* Smear, a public member, called when there is no operator: it finds the field
\* in canonical order.  With the links smeared already it does nothing.
OpenSmear ==
  kind = "p4" /\ open = <<>> /\ ~f.smeared /\ Opens("Smear", StagTypes(f))
CloseSmear ==
  Closes("Smear", SmearDone(f))

\* Gauge forces and AlgHQPotential use a ParTransGauge on its own,
\* DiracOpDwf::MatInv of the cg-dwf library while the DiracOp exists.
OpenGauge ==
  /\ kind # "none"
  /\ \/ open = <<>> /\ "outside" \in ptUse
     \/ open = <<"Wilson">> /\ "inside" \in ptUse
  /\ Opens("Gauge", PtGauge(f))
CloseGauge ==
  Closes("Gauge", PtGaugeEnd(f))

\* Mutant: EvolveGfield does not mark the smeared links as old.
Evolved_Bug(g) == [g EXCEPT !.updates = @ + 1]

Evolved(g) == [g EXCEPT !.updates = @ + 1, !.smeared = FALSE]

EvolveGfield ==
  /\ kind # "none" /\ open = <<>> /\ f.updates < MaxUpdates
  /\ f' = Evolved(f)
  /\ UNCHANGED <<bc, xiDir, ptUse, kind, open>>

\* Lattice::Reunitarize(dev, max_diff) between trajectories.
Reunitarize ==
  /\ kind # "none" /\ open = <<>>
  /\ f' = Reunitarized(MltFloat(f, -1, 0))
  /\ UNCHANGED <<bc, xiDir, ptUse, kind, open>>

Next ==
  \/ \E k \in {"wilson", "stag", "p4"} : OpenLattice(k)
  \/ CloseLattice
  \/ OpenWilson \/ CloseWilson \/ OpenStag \/ CloseStag
  \/ OpenP4 \/ CloseP4 \/ OpenAsqtad \/ CloseAsqtad \/ OpenSmear \/ CloseSmear
  \/ OpenGauge \/ CloseGauge
  \/ EvolveGfield \/ Reunitarize

Spec == Init /\ [][Next]_vars

-----------------------------------------------------------------------------
(* Properties *)

\* While a DiracOp or a ParTrans exists exactly the links across the boundary
\* have changed their sign, once, however the objects are nested; when none
\* exists no link has.
BoundaryWhileInUse ==
  \A l \in Link :
    Logical(f)[l].neg = (open # <<>> /\ AtBoundary(l[1], l[2]))

\* When the last object is gone the field is as a Lattice keeps it: canonical,
\* scaled by XiBare in the anisotropic direction only, and not at all when the
\* Lattice is gone, too.
FieldRestored ==
  open = <<>> =>
    /\ f.str_ord = "CANONICAL"
    /\ \A l \in Link :
         /\ Logical(f)[l].ratio = 0
         /\ Logical(f)[l].bare = IF kind # "none" /\ l[2] = xiDir THEN 1 ELSE 0

\* Every object finds the field in the order its kernels were written for, also
\* after younger objects have come and gone.
Needs == [Wilson |-> "WILSON", Stag |-> "STAG", P4 |-> "STAG_BLOCK",
          Asqtad |-> "STAG", Smear |-> "STAG", Gauge |-> "CANONICAL"]

OrderInUse == open # <<>> => f.str_ord = Needs[open[Len(open)]]

\* The smeared links a DiracOp works with were made from the present field,
\* with the boundary condition, whoever had them smeared.
SmearedCurrent ==
  open # <<>> /\ open[1] = "P4" =>
    /\ f.fieldsOf = f.updates
    /\ \A l \in Link : f.fields[l].neg = AtBoundary(l[1], l[2])
=============================================================================
