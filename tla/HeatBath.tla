----------------------------- MODULE HeatBath -------------------------------
(***************************************************************************)
(* AlgGheatBath on a machine of several nodes with several threads each.   *)
(* A GaugeField holds the links of the node and a halo, a copy of links of *)
(* the neighbours.  The sites are updated colour by colour: a colour is a  *)
(* corner of the 2^n hypercubes, on every other hypercube.  Before each    *)
(* colour the halo is refreshed.  The first iteration fetches the whole    *)
(* halo and records which of its links the staples read; from then on      *)
(* only those are fetched.  The threads of a node share the sites of a     *)
(* colour between them, and nodes wait for each other only inside the      *)
(* refreshes.                                                              *)
(*                                                                         *)
(* Two of the four directions are modelled.  Links are numbers modulo P,   *)
(* the matrix product of a path is a fold that tells apart the links, the  *)
(* order and the daggers, a hit of the kernel is one draw; gfUnitarize,    *)
(* which only removes rounding errors, is left out.                        *)
(***************************************************************************)
EXTENDS Integers, Sequences, FiniteSetsExt

CONSTANTS
  L,                  (* L[i]: sites of the lattice in direction i           *)
  P,                  (* links and generator states are numbers below P      *)
  Jobs                (* what is run: nodes in each direction (sizeN), gauge *)
                      (* action (ga), calls of AlgGheatBath::run (runs) and  *)
                      (* iterations in each of them (num_iter)               *)

Dir == 1..2
GaugeAction == {"WILSON", "IMPR_RECT"}

\* "assuming every dimension can be divided by 4" (ghb.C:62), on each node.
ASSUME HeatBathAssumption ==
  /\ L \in [Dir -> Nat \ {0}] /\ P \in Nat /\ P > 1
  /\ \A j \in Jobs :
       /\ j.ga \in GaugeAction
       /\ j.runs \in Nat \ {0} /\ j.num_iter \in Nat \ {0}
       /\ \A i \in Dir : j.sizeN[i] \in Nat \ {0} /\ L[i] % (4 * j.sizeN[i]) = 0

Site == (0..(L[1] - 1)) \X (0..(L[2] - 1))
Link == Site \X Dir
Cube == (0..(L[1] \div 2 - 1)) \X (0..(L[2] \div 2 - 1))

\* getGeneratorPos4d: a hypercube has one generator.
GeneratorPos(x) == <<x[1] \div 2, x[2] \div 2>>

\* (As Colour, with the parity of the site for that of the hypercube.)
Colour_Bug(x) ==
  4 * ((x[1] + x[2]) % 2) + (x[1] % 2) + 2 * (x[2] % 2)

\* The colour a site is updated in: 4 * checker + lindex, where checker is
\* the parity of its hypercube and lindex its corner.
Colour(x) ==
  4 * ((x[1] \div 2 + x[2] \div 2) % 2) + (x[1] % 2) + 2 * (x[2] % 2)

NColour == 8

\* gfPathOrdProdPlus from the far end of link mu of site 0: the links on a
\* path, each with the site it belongs to and whether it enters daggered.
\* Step +v goes along direction v, step -v against it.
AbsDir(v) == IF v < 0 THEN -v ELSE v
Step(v)   == [i \in Dir |-> IF i # AbsDir(v) THEN 0 ELSE IF v < 0 THEN -1 ELSE 1]
Plus(x, y) == [i \in Dir |-> x[i] + y[i]]
Minus(x)   == [i \in Dir |-> -x[i]]

\* The site reached from x by going d around the lattice.
Around(x, d) == [i \in Dir |-> (x[i] + d[i]) % L[i]]

Path(mu, dirs) ==
  LET at[k \in 0..Len(dirs)] ==
        IF k = 0 THEN Step(mu) ELSE Plus(at[k - 1], Step(dirs[k]))
  IN  [k \in 1..Len(dirs) |->
         [site   |-> IF dirs[k] < 0 THEN at[k] ELSE at[k - 1],
          mu     |-> AbsDir(dirs[k]),
          dagger |-> dirs[k] < 0]]

Other(mu) == {v \in {-2, -1, 1, 2} : AbsDir(v) # mu}

PlaqStaple(mu) == {Path(mu, <<v, -mu, -v>>) : v \in Other(mu)}

RectStaple(mu) ==
  UNION {{Path(mu, <<v, v, -mu, -v, -v>>),
          Path(mu, <<v, -mu, -mu, -v, mu>>),
          Path(mu, <<mu, v, -mu, -mu, -v>>)} : v \in Other(mu)}

\* gfAllStaple: the paths of each action, as displacements from the site.
AllStaple ==
  [ga \in GaugeAction |-> [mu \in Dir |->
    IF ga = "WILSON" THEN PlaqStaple(mu) ELSE PlaqStaple(mu) \cup RectStaple(mu)]]

\* gaInteractionRange: how far a staple reaches, and the width of the halo.
Thick == [WILSON |-> 1, IMPR_RECT |-> 2]

\* Where the staple around link mu of a site looks, and at which link there.
Reads == [ga \in GaugeAction |-> [mu \in Dir |->
           UNION {{<<p[k].site, p[k].mu>> : k \in DOMAIN p} :
                    p \in AllStaple[ga][mu]}]]

\* How far the staples look: no more than two steps in a direction, and not
\* two in both.
InReach(d) == /\ d[1] \in (-2)..2 /\ d[2] \in (-2)..2
              /\ ~(d[1] \in {-2, 2} /\ d[2] \in {-2, 2})

\* All the proofs know of the paths: they stay in reach and within the halo,
\* and a link looks at the links that look at it (both lie on one loop).
ASSUME StaplesInReach ==
  \A ga \in GaugeAction, mu \in Dir : \A r \in Reads[ga][mu] :
    /\ r \in (Int \X Int) \X Dir
    /\ InReach(r[1])
    /\ \A i \in Dir : r[1][i] \in (-Thick[ga])..Thick[ga]
    /\ <<Minus(r[1]), mu>> \in Reads[ga][r[2]]

\* The staple around link mu of a site; v[r] is what is found at r \in
\* Reads[ga][mu].  The two kinds of path have different coefficients.
Staple(ga, mu, v) ==
  LET Factor(s) == LET u == v[<<s.site, s.mu>>]
                   IN  IF s.dagger THEN P - u ELSE u
      Product(p) ==
        LET acc[k \in 0..Len(p)] ==
              IF k = 0 THEN IF Len(p) = 3 THEN 7 ELSE 1
              ELSE (3 * acc[k - 1] + Factor(p[k])) % P
        IN  acc[Len(p)]
  IN  MapThenSumSet(Product, AllStaple[ga][mu])

StapleReads(ga, x, mu) == {<<Plus(x, r[1]), r[2]>> : r \in Reads[ga][mu]}

\* metropolis_kernel: the new link depends on the old one, the staple and the
\* numbers drawn.
NewLink(u, staple, seed) == (2 * u + 5 * staple + 11 * seed) % P
Draw(seed) == (6 * seed + 1) % P

\* Links and generators at the start: all of them different.
U0 == [l \in Link |-> (2 * (l[1][1] + L[1] * l[1][2]) + l[2]) % P]
G0 == [q \in Cube |-> (13 * q[1] + 29 * q[2] + 3) % P]

\* What is found in memory nothing was written to; no link has this value.
Unset == P

VARIABLES
  job,                (* the job; never changes                              *)
  link,               (* the part of every gauge_field that is on its node   *)
  halo,               (* halo[n]: the rest of gauge_field of node n          *)
  ugran_4d,           (* the generators                                      *)
  swept,              (* updates of each link: where the loops stand         *)
  updating,           (* links whose staple has been computed, by thread     *)
  pc, loop,           (* where each node is: run, iteration and colour       *)
  recorded_offsets,   (* halo links read since recordOffsetStart             *)
  record_offset,      (* whether they are recorded                           *)
  offsets_list,       (* what was recorded in each colour                    *)
  offsets_list_initialized,
  sent                (* what each node put on the wires in its last two     *)
                      (* refreshes                                           *)

vars == <<job, link, halo, ugran_4d, swept, updating, pc, loop,
          recorded_offsets, record_offset, offsets_list,
          offsets_list_initialized, sent>>
recording == <<recorded_offsets, record_offset>>
offsets   == <<offsets_list, offsets_list_initialized>>

Node == (0..(job.sizeN[1] - 1)) \X (0..(job.sizeN[2] - 1))
NodeSites(i) == L[i] \div job.sizeN[i]
OnNode(x) == \A i \in Dir : x[i] \in 0..(NodeSites(i) - 1)

LocalSite == (0..(NodeSites(1) - 1)) \X (0..(NodeSites(2) - 1))
HaloLink ==
  LET t == Thick[job.ga]
      box == ((-t)..(NodeSites(1) + t - 1)) \X ((-t)..(NodeSites(2) + t - 1))
  IN  (box \ LocalSite) \X Dir

\* The site of the lattice that is x counted from node n, and whose it is.
Global(n, x) == [i \in Dir |-> (n[i] * NodeSites(i) + x[i]) % L[i]]
Owner(n, x)  == [i \in Dir |-> Global(n, x)[i] \div NodeSites(i)]

\* unsafeGetLink.
GetLink(n, x, mu) == IF OnNode(x) THEN link[<<Global(n, x), mu>>]
                     ELSE halo[n][<<x, mu>>]

Iteration(n) == loop[n].run * job.num_iter + loop[n].i
Round(n)     == Iteration(n) * NColour + loop[n].colour

\* The sites of a node that are updated now, and the links of such a site
\* the loop over mu has still to do.
Active(n) == {x \in LocalSite : Colour(x) = loop[n].colour}
ToDo(n, x) == {mu \in Dir : swept[<<Global(n, x), mu>>] <= Iteration(n)}

Init ==
  /\ job \in Jobs
  /\ link = U0
  /\ ugran_4d = G0
  /\ halo = [n \in Node |-> [o \in HaloLink |-> Unset]]
  /\ swept = [l \in Link |-> 0]
  /\ updating = {}
  /\ pc = [n \in Node |-> "refresh"]
  /\ loop = [n \in Node |-> [run |-> 0, i |-> 0, colour |-> 0]]
  /\ recorded_offsets = [n \in Node |-> {}]
  /\ record_offset = [n \in Node |-> FALSE]
  /\ offsets_list = [n \in Node |-> [c \in 0..(NColour - 1) |-> {}]]
  /\ offsets_list_initialized = [n \in Node |-> FALSE]
  /\ sent = [n \in Node |-> [k \in 0..1 |-> [round |-> -1]]]

\* (As Requested, with the lists indexed by the corner alone.)
Requested_Bug(n) == IF offsets_list_initialized[n]
                    THEN offsets_list[n][loop[n].colour % 4] ELSE HaloLink

\* The halo links node n refreshes before a colour.
Requested(n) == IF offsets_list_initialized[n]
                THEN offsets_list[n][loop[n].colour] ELSE HaloLink

\* fetchLinks, first half: recording ends, and the node copies the links its
\* neighbours need out of its field: it takes them for those it needs itself,
\* moved to its own sites.
SendLinks(n) ==
  /\ pc[n] = "refresh"
  /\ record_offset' = [record_offset EXCEPT ![n] = FALSE]
  /\ recorded_offsets' = [recorded_offsets EXCEPT ![n] = {}]
  /\ LET loffsets == {<<[i \in Dir |-> o[1][i] % NodeSites(i)], o[2]>> : o \in Requested(n)}
     IN  sent' = [sent EXCEPT ![n][Round(n) % 2] =
                    [round |-> Round(n), offsets |-> Requested(n),
                     links |-> [l \in loffsets |-> GetLink(n, l[1], l[2])]]]
  /\ pc' = [pc EXCEPT ![n] = "fetch"]
  /\ UNCHANGED <<job, link, halo, ugran_4d, swept, updating, loop, offsets>>

\* fetchLinks, second half: the transfers complete when every node a link
\* comes from has entered the same refresh with the same list, and the node
\* writes what it got to its halo.  GheatBath::run then starts recording
\* unless it has the lists.
FetchLinks(n) ==
  LET Message(o) == sent[Owner(n, o[1])][Round(n) % 2]
      Home(o) == <<[i \in Dir |-> o[1][i] % NodeSites(i)], o[2]>>
  IN
  /\ pc[n] = "fetch"
  /\ \A o \in Requested(n) : /\ Message(o).round = Round(n)
                             /\ Message(o).offsets = Requested(n)
  /\ halo' = [halo EXCEPT ![n] =
                [o \in HaloLink |-> IF o \in Requested(n) THEN Message(o).links[Home(o)]
                                    ELSE halo[n][o]]]
  /\ record_offset' = [record_offset EXCEPT ![n] = ~offsets_list_initialized[n]]
  /\ pc' = [pc EXCEPT ![n] = "sweep"]
  /\ UNCHANGED <<job, link, ugran_4d, swept, updating, loop, recorded_offsets,
                 offsets, sent>>

\* A thread computes the staple of the next link of its site.
GetStaple(n, x) ==
  /\ pc[n] = "sweep"
  /\ x \in Active(n) /\ ToDo(n, x) # {}
  /\ \A u \in updating : <<u.node, u.x>> # <<n, x>>
  /\ LET mu == CHOOSE m \in ToDo(n, x) : \A k \in ToDo(n, x) : m <= k
     IN
     /\ updating' = updating \cup
          {[node |-> n, x |-> x, mu |-> mu,
            staple |-> Staple(job.ga, mu, [r \in Reads[job.ga][mu] |->
                                             GetLink(n, Plus(x, r[1]), r[2])]),
            seed |-> ugran_4d[GeneratorPos(Global(n, x))]]}
     /\ recorded_offsets' = [recorded_offsets EXCEPT ![n] =
          IF record_offset[n] THEN @ \cup {l \in StapleReads(job.ga, x, mu) : ~OnNode(l[1])}
          ELSE @]
  /\ UNCHANGED <<job, link, halo, ugran_4d, swept, pc, loop, record_offset,
                 offsets, sent>>

\* UpdateLink: the thread replaces the link and the state of its generator.
UpdateLink(u) ==
  LET g == Global(u.node, u.x) IN
  /\ link' = [link EXCEPT ![<<g, u.mu>>] = NewLink(@, u.staple, u.seed)]
  /\ ugran_4d' = [ugran_4d EXCEPT ![GeneratorPos(g)] = Draw(u.seed)]
  /\ swept' = [swept EXCEPT ![<<g, u.mu>>] = @ + 1]
  /\ updating' = updating \ {u}
  /\ UNCHANGED <<job, halo, pc, loop, recording, offsets, sent>>

\* The end of the parallel loop over the sites of a colour, and of the loops
\* around it.
EndColour(n) ==
  LET last == loop[n].colour = NColour - 1
      done == last /\ loop[n].i = job.num_iter - 1
  IN
  /\ pc[n] = "sweep"
  /\ \A x \in Active(n) : ToDo(n, x) = {}
  /\ offsets_list' = [offsets_list EXCEPT ![n][loop[n].colour] =
       IF offsets_list_initialized[n] THEN @ ELSE recorded_offsets[n]]
  /\ record_offset' = [record_offset EXCEPT ![n] = FALSE]
  /\ recorded_offsets' = [recorded_offsets EXCEPT ![n] = {}]
  /\ offsets_list_initialized' = [offsets_list_initialized EXCEPT ![n] = @ \/ last]
  /\ loop' = [loop EXCEPT ![n] =
       IF done THEN @
       ELSE IF last THEN [@ EXCEPT !.i = loop[n].i + 1, !.colour = 0]
       ELSE [@ EXCEPT !.colour = loop[n].colour + 1]]
  /\ pc' = [pc EXCEPT ![n] = IF done THEN "ran" ELSE "refresh"]
  /\ UNCHANGED <<job, link, halo, ugran_4d, swept, updating, sent>>

\* AlgGheatBath::run again: the lattice was set from the field, a new
\* GaugeField is made from it and widened, with nothing in its halo; the
\* GheatBath keeps its lists.
NewRun(n) ==
  /\ pc[n] = "ran"
  /\ loop[n].run < job.runs - 1
  /\ halo' = [halo EXCEPT ![n] = [o \in HaloLink |-> Unset]]
  /\ record_offset' = [record_offset EXCEPT ![n] = FALSE]
  /\ recorded_offsets' = [recorded_offsets EXCEPT ![n] = {}]
  /\ loop' = [loop EXCEPT ![n] = [run |-> @.run + 1, i |-> 0, colour |-> 0]]
  /\ pc' = [pc EXCEPT ![n] = "refresh"]
  /\ UNCHANGED <<job, link, ugran_4d, swept, updating, offsets, sent>>

Finished == \A n \in Node : pc[n] = "ran" /\ loop[n].run = job.runs - 1

Next ==
  \/ \E n \in Node :
       \/ SendLinks(n) \/ FetchLinks(n) \/ EndColour(n) \/ NewRun(n)
       \/ \E x \in LocalSite : GetStaple(n, x)
  \/ \E u \in updating : UpdateLink(u)
  \/ Finished /\ UNCHANGED vars

Spec == Init /\ [][Next]_vars

(***************************************************************************)
(* Properties                                                              *)
(***************************************************************************)

\* The links of the whole lattice, wherever they are kept, and the staple
\* around one of them.
GlobalStaple(ga, U, x, mu) ==
  Staple(ga, mu, [r \in Reads[ga][mu] |-> U[<<Around(x, r[1]), r[2]>>]])

HeatBathOfLink(ga, U, g, l) == NewLink(U[l], GlobalStaple(ga, U, l[1], l[2]), g)

\* The links whose updates do not commute with that of l: those its staple
\* reads, which are also those whose staples read l, and those that draw from
\* the same generator.
NearLink(ga, l) == {<<Around(l[1], r[1]), r[2]>> : r \in Reads[ga][l[2]]}
                     \cup {k \in Link : GeneratorPos(k[1]) = GeneratorPos(l[1])}

Sweeps == INSTANCE LinkSweep WITH
  Generator <- Cube, GeneratorOf <- [l \in Link |-> GeneratorPos(l[1])],
  Heat <- HeatBathOfLink, Near <- NearLink, ga <- job.ga, U <- link, G <- ugran_4d

\* Threads and nodes that work at the same time change the field as if the
\* links were updated one after the other, each with a staple of the links as
\* they are then: the halo, refreshed in full or by the recorded lists, is
\* current wherever it is read, no staple reads a link that another thread or
\* node changes meanwhile, and no two threads draw from one generator.
ImplementsSweep == Sweeps!Spec

\* One thread on one node: the field and the generators after k colours.
UpdateOne(ga, s, l) ==
  LET q == GeneratorPos(l[1])
  IN  [U |-> [s.U EXCEPT ![l] = HeatBathOfLink(ga, s.U, s.G[q], l)],
       G |-> [s.G EXCEPT ![q] = Draw(@)]]

UpdateColour(ga, s, c) ==
  FoldSet(LAMBDA x, r : UpdateOne(ga, UpdateOne(ga, r, <<x, 1>>), <<x, 2>>),
          s, {x \in Site : Colour(x) = c})

MaxColours == NColour * Max({j.runs * j.num_iter : j \in Jobs})

Serial == [ga \in GaugeAction |->
  LET after[k \in 0..MaxColours] ==
        IF k = 0 THEN [U |-> U0, G |-> G0]
        ELSE UpdateColour(ga, after[k - 1], (k - 1) % NColour)
  IN  after]

\* The field and the generators at the end of a job are those of a single
\* thread on a single node that fetches nothing: they do not depend on the
\* number of nodes and threads, on their speed, or on whether the lists of
\* the first iteration were used.
SameOnAnyMachine ==
  Finished =>
    LET s == Serial[job.ga][NColour * job.runs * job.num_iter]
    IN  link = s.U /\ ugran_4d = s.G
=============================================================================
