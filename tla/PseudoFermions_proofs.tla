----------------------- MODULE PseudoFermions_proofs ------------------------
(***************************************************************************)
(* The pseudofermion actions for every set of actions, every tree of       *)
(* integrators and every number of earlier solutions that is kept.         *)
(***************************************************************************)
EXTENDS PseudoFermions, FiniteSetTheorems, TLAPS

-----------------------------------------------------------------------------
(* The inductive invariant.                                                *)

Stages ==
  {"construct", "save", "init", "restore", "heatbath", "h_init", "evolve",
   "h_final", "end_forward", "evolve_back", "h_back", "end_test",
   "metropolis", "done", "stopped"}

\* The stages that go through the leaves.
ByLeaf == {"construct", "init", "heatbath"} \cup Energies

Fields == {"evolved", "heatbathEval", "energyEval", "h_init", "fg_forecast",
           "md_steps", "phi", "v"}

IsObj(x, r) ==
  /\ r = [f \in Fields |-> r[f]]
  /\ r.evolved \in BOOLEAN /\ r.heatbathEval \in BOOLEAN
  /\ r.energyEval \in BOOLEAN /\ r.fg_forecast \in BOOLEAN
  /\ r.md_steps \in Nat /\ r.phi \in Nat
  /\ r.v = [i \in Masses(x) |-> r.v[i]]
  /\ \A i \in Masses(x) : r.v[i] = [s \in Slots(Chrono[x][i]) |-> r.v[i][s]]

IsSeq(s) == \E S : s \in Seq(S)

Types ==
  /\ schedule \in Schedules
  /\ range \in [LeafSet -> Ranges]
  /\ \A l \in LeafSet : ~Split(l) => range[l] = <<0, Degree[ActionOf[l]]>>
  /\ splitCheck \in [Actions -> SUBSET Int]
  /\ obj = [x \in Actions |-> obj[x]]
  /\ \A x \in Actions : IsObj(x, obj[x])
  /\ rng \in Nat /\ saved.rng \in Nat
  /\ pc \in Stages

\* The leaf or the call that is due.
Place ==
  /\ pc \in ByLeaf => pos \in DOMAIN Leaves
  /\ Evolving => pos \in DOMAIN schedule
  /\ pc = "stopped" \/ pc \in ByLeaf \/ Evolving \/ pos = 1

\* The first p - 1 leaves, and their actions.
Before(p) == {Leaves[q] : q \in 1..(p - 1)}
Seen(p)   == {ActionOf[l] : l \in Before(p)}

\* The poles of an action are those of its splits that were constructed.
Splits(L, x) == {l \in L : Split(l) /\ ActionOf[l] = x}

Constructed(L) ==
  \A x \in Actions :
    /\ splitCheck[x] = UNION {Poles(l) : l \in Splits(L, x)}
    /\ \A l, k \in Splits(L, x) : l # k => Poles(l) \cap Poles(k) = {}

Checked(L) ==
  \A l \in L : Split(l) =>
    splitCheck[ActionOf[l]] = 0..(Degree[ActionOf[l]] - 1)

AfterHeatbath ==
  {"h_init", "evolve", "h_final", "end_forward", "evolve_back", "h_back",
   "end_test", "metropolis"}

PolesInv ==
  /\ pc = "construct" => Constructed(Before(pos))
  /\ pc \notin {"construct", "stopped"} => Constructed(LeafSet)
  /\ pc = "heatbath" => Checked(Before(pos))
  /\ pc \in AfterHeatbath => Checked(LeafSet)

\* An action r = obj[x] without earlier solutions; one whose earlier solutions
\* are all of this test.
NoHistory(x, r) == r.md_steps = 0 /\ \A i \in Masses(x) : r.v[i][0] = {}

HistoryOfTest(x, r) ==
  \A i \in Masses(x) : \A s \in Slots(Chrono[x][i]) :
    (s < r.md_steps \/ s = 0) =>
      \A e \in r.v[i][s] : e.serial = serial /\ e.phi = r.phi

LogOfTest ==
  \A p \in DOMAIN log :
    /\ log[p].of \in Actions
    /\ \A i \in DOMAIN log[p].used : \A e \in log[p].used[i] :
         e.serial = serial /\ e.phi = obj[log[p].of].phi

NewTest == {"restore", "heatbath", "h_init"}

HistoryInv ==
  /\ IsSeq(log) /\ LogOfTest
  /\ (pc \in NewTest \/ (pc = "init" /\ pos # 1)) => log = <<>>
  /\ \A x \in Actions : Chronological(x) =>
       /\ (pc = "init" /\ x \in Before(pos)) => NoHistory(x, obj[x])
       /\ pc \in NewTest => NoHistory(x, obj[x])
       /\ pc \in {"evolve", "h_final", "end_forward", "evolve_back"} =>
            HistoryOfTest(x, obj[x])

\* The draws of this test.
DrawsInv ==
  pc = "heatbath" =>
    /\ rng = saved.rng + Cardinality(Seen(pos))
    /\ {obj[x].phi : x \in Seen(pos)} = (saved.rng + 1)..rng

\* The actions that have been evolved by the first p - 1 calls.
Evolved(p) ==
  {ActionOf[schedule[q].leaf] : q \in {q \in 1..(p - 1) : schedule[q].op = "evolve"}}

Boson(x) == Kind[x] = "BOSON"

\* No cached energy and no field of before may be used for an evolved action r.
FlagsEvolved(x, r) ==
  /\ ~Boson(x) => r.evolved
  /\ Rational(x) => ~r.heatbathEval /\ ~r.energyEval

FlagsInv ==
  \A x \in Actions :
    /\ pc \notin {"heatbath", "h_init", "evolve", "evolve_back", "stopped"} =>
         (Rational(x) => ~obj[x].heatbathEval)
    /\ pc = "heatbath" =>
         /\ Rational(x) => (obj[x].heatbathEval <=> x \in Seen(pos))
         /\ x \in Seen(pos) =>
              ~obj[x].energyEval /\ obj[x].h_init = Current(x)
    /\ (Evolving /\ x \in Evolved(pos)) => FlagsEvolved(x, obj[x])
    /\ pc \in Energies =>
         /\ Rational(x) => (obj[x].energyEval <=> x \in Seen(pos))
         /\ (~Boson(x) /\ ~obj[x].evolved) => obj[x].h_init = Current(x)

\* What the leaves so far have added up.
Total == IF pos = 1 THEN <<>> ELSE terms

TermsInv ==
  pc \in Energies =>
    /\ IsSeq(Total) /\ Len(Total) = Cardinality(Seen(pos))
    /\ \A x \in Seen(pos) : \E p \in DOMAIN Total : Total[p] = Current(x)

IInv ==
  Types /\ Place /\ PolesInv /\ HistoryInv /\ DrawsInv /\ FlagsInv /\ TermsInv

-----------------------------------------------------------------------------
(* The tree of integrators.                                                *)

LEMMA LeafFacts ==
  ASSUME NEW l \in LeafSet
  PROVE  /\ ActionOf[l] \in Actions
         /\ Split(l) => Rational(ActionOf[l])
         /\ ~Split(l) => l \in Actions
         /\ ~Rational(ActionOf[l]) => l = ActionOf[l]
BY PseudoFermionsAssumption DEF Split

LEMMA LeafAt ==
  ASSUME NEW p \in DOMAIN Leaves
  PROVE  Leaves[p] \in LeafSet /\ p \in Nat \ {0} /\ p <= Len(Leaves)
<1>1. Leaves \in Seq(STRING)
  BY PseudoFermionsAssumption
<1>2. DOMAIN Leaves = 1..Len(Leaves) /\ Len(Leaves) \in Nat
  BY <1>1
<1> QED BY <1>2 DEF LeafSet

LEMMA LeavesLength ==
  Len(Leaves) \in Nat \ {0} /\ DOMAIN Leaves = 1..Len(Leaves)
BY PseudoFermionsAssumption

LEMMA LeafOfAction ==
  ASSUME NEW x \in Actions
  PROVE  \E l \in LeafSet : ActionOf[l] = x
BY PseudoFermionsAssumption

\* Only rational actions are split.
LEMMA OwnLeaf ==
  ASSUME NEW x \in Actions, ~Rational(x)
  PROVE  x \in LeafSet /\ ActionOf[x] = x
BY LeafOfAction, LeafFacts DEF Split

\* All leaves of an action that is a leaf are that action.
LEMMA WholeAction ==
  ASSUME NEW l \in LeafSet, ActionOf[l] \in LeafSet
  PROVE  l = ActionOf[l]
<1>1. ActionOf[l] \in Actions
  BY LeafFacts
<1> QED BY <1>1, PseudoFermionsAssumption

LEMMA BeforeFirst == Before(1) = {} /\ Seen(1) = {}
BY DEF Before, Seen

LEMMA BeforeNext ==
  ASSUME NEW p \in DOMAIN Leaves
  PROVE  /\ Before(p + 1) = Before(p) \cup {Leaves[p]}
         /\ Seen(p + 1) = Seen(p) \cup {ActionOf[Leaves[p]]}
         /\ Leaves[p] \notin Before(p)
<1>1. p \in Nat \ {0} /\ p <= Len(Leaves)
  BY LeafAt
<1>2. 1..(p + 1 - 1) = (1..(p - 1)) \cup {p}
  BY <1>1
<1>3. Before(p + 1) = Before(p) \cup {Leaves[p]}
  BY <1>2 DEF Before
<1>4. Seen(p + 1) = Seen(p) \cup {ActionOf[Leaves[p]]}
  BY <1>3 DEF Seen
<1>5. ASSUME NEW q \in 1..(p - 1) PROVE Leaves[q] # Leaves[p]
  <2>1. q \in DOMAIN Leaves /\ q # p
    BY <1>1, LeavesLength
  <2> QED BY <2>1, PseudoFermionsAssumption
<1> QED BY <1>3, <1>4, <1>5 DEF Before

LEMMA BeforeEnd ==
  /\ Before(Len(Leaves) + 1) = LeafSet
  /\ Seen(Len(Leaves) + 1) = Actions
<1>1. Len(Leaves) + 1 - 1 = Len(Leaves)
  BY LeavesLength
<1>2. Before(Len(Leaves) + 1) = LeafSet
  BY <1>1, LeavesLength DEF Before, LeafSet
<1>3. \A x \in Actions : \E l \in LeafSet : ActionOf[l] = x
  BY LeafOfAction
<1>4. \A l \in LeafSet : ActionOf[l] \in Actions
  BY LeafFacts
<1> QED BY <1>2, <1>3, <1>4 DEF Seen

LEMMA BeforeLeaves ==
  ASSUME NEW p \in DOMAIN Leaves
  PROVE  Before(p) \subseteq LeafSet /\ Seen(p) \subseteq Actions
<1>1. \A q \in 1..(p - 1) : q \in DOMAIN Leaves
  BY LeavesLength
<1>2. Before(p) \subseteq LeafSet
  BY <1>1, LeafAt DEF Before
<1> QED BY <1>2, LeafFacts DEF Seen

\* A rational action that has been seen has been seen through any of its leaves;
\* any other is new when its leaf is due.
LEMMA NotRationalNew ==
  ASSUME NEW p \in DOMAIN Leaves, ~Rational(ActionOf[Leaves[p]])
  PROVE  ActionOf[Leaves[p]] \notin Seen(p)
<1>1. Leaves[p] = ActionOf[Leaves[p]] /\ Leaves[p] \in LeafSet
  BY LeafAt, LeafFacts
<1>2. ASSUME NEW l \in Before(p), ActionOf[l] = ActionOf[Leaves[p]]
      PROVE  FALSE
  <2>1. l \in LeafSet
    BY BeforeLeaves
  <2>2. l = Leaves[p]
    BY <1>1, <1>2, <2>1, LeafFacts
  <2> QED BY <2>2, BeforeNext
<1> QED BY <1>2 DEF Seen

LEMMA SeenFinite ==
  ASSUME NEW p \in Nat
  PROVE  IsFiniteSet(Seen(p))
<1> DEFINE f == [q \in 1..(p - 1) |-> ActionOf[Leaves[q]]]
<1>1. IsFiniteSet(1..(p - 1))
  BY FS_Interval
<1>2. f \in Surjection(1..(p - 1), Seen(p))
  <2>1. Seen(p) = {ActionOf[Leaves[q]] : q \in 1..(p - 1)}
    BY DEF Seen, Before
  <2> QED BY <2>1 DEF Surjection
<1> QED BY <1>1, <1>2, FS_Surjection

\* The leaf that is due, and the end of a stage.
LEMMA LeafDue ==
  ASSUME Place, pc \in ByLeaf
  PROVE  /\ pos \in DOMAIN Leaves /\ leaf = Leaves[pos] /\ leaf \in LeafSet
         /\ a = ActionOf[Leaves[pos]] /\ a \in Actions
<1>1. pos \in DOMAIN Leaves
  BY DEF Place
<1>2. leaf = Leaves[pos]
  BY DEF leaf, Evolving, ByLeaf, Energies
<1> QED BY <1>1, <1>2, LeafAt, LeafFacts DEF a

LEMMA VisitedSteps ==
  ASSUME Place, pc \in ByLeaf, NEW s, Visited(s)
  PROVE  \/ /\ pos = Len(Leaves) /\ pc' = s /\ pos' = 1
            /\ Before(pos + 1) = LeafSet /\ Seen(pos + 1) = Actions
         \/ pos' = pos + 1 /\ pc' = pc /\ pos' \in DOMAIN Leaves /\ pos' # 1
<1>1. pos \in DOMAIN Leaves
  BY DEF Place
<1>2. pos \in 1..Len(Leaves) /\ Len(Leaves) \in Nat
  BY <1>1, LeavesLength
<1>3. CASE pos = Len(Leaves)
  BY <1>3, BeforeEnd DEF Visited
<1>4. CASE pos # Len(Leaves)
  <2>1. pos' = pos + 1 /\ pc' = pc
    BY <1>4 DEF Visited
  <2>2. pos + 1 \in 1..Len(Leaves) /\ pos + 1 # 1
    BY <1>2, <1>4
  <2> QED BY <2>1, <2>2, LeavesLength
<1> QED BY <1>3, <1>4

\* The call that is due.
LEMMA CallDue ==
  ASSUME Types, Place, Evolving
  PROVE  /\ pos \in DOMAIN schedule /\ call = schedule[pos]
         /\ DOMAIN schedule = 1..Len(schedule) /\ Len(schedule) \in Nat
         /\ call.op \in {"prepare", "evolve"} =>
              leaf = call.leaf /\ leaf \in LeafSet /\ a \in Actions
<1>1. pos \in DOMAIN schedule /\ schedule \in Schedules
  BY DEF Place, Types
<1>2. schedule \in Seq([op : Ops, leaf : STRING, n : Nat \ {0}])
  BY <1>1, PseudoFermionsAssumption
<1>3. call.op \in {"prepare", "evolve"} => call.leaf \in LeafSet
  BY <1>1, PseudoFermionsAssumption DEF call
<1>4. leaf = call.leaf
  BY DEF leaf
<1> QED BY <1>1, <1>2, <1>3, <1>4, LeafFacts DEF call, a

-----------------------------------------------------------------------------
(* What an action leaves alone.                                            *)

LEMMA TypesFrame ==
  ASSUME Types, UNCHANGED <<schedule, range, splitCheck, obj>>,
         rng' \in Nat, saved'.rng \in Nat, pc' \in Stages
  PROVE  Types'
BY DEF Types

\* An action object becomes r.
LEMMA TypesObj ==
  ASSUME Types, UNCHANGED <<schedule, range, splitCheck, saved>>,
         NEW x \in Actions, NEW r, IsObj(x, r), obj' = [obj EXCEPT ![x] = r],
         rng' \in Nat, pc' \in Stages
  PROVE  /\ Types'
         /\ \A y \in Actions : obj'[y] = IF y = x THEN r ELSE obj[y]
<1>1. \A y \in Actions : obj'[y] = IF y = x THEN r ELSE obj[y]
  BY DEF Types
<1>2. obj' = [y \in Actions |-> obj'[y]]
  BY DEF Types
<1>3. \A y \in Actions : IsObj(y, obj'[y])
  BY <1>1 DEF Types
<1> QED BY <1>1, <1>2, <1>3 DEF Types

LEMMA ConstructedFrame ==
  ASSUME NEW L, Constructed(L), UNCHANGED <<range, splitCheck>>
  PROVE  Constructed(L)'
BY DEF Constructed, Poles

\* The splits are the same after the construction.
LEMMA PolesFrame ==
  ASSUME PolesInv, UNCHANGED <<range, splitCheck>>,
         pc \notin {"construct", "heatbath", "stopped"}, pc' # "construct",
         pc' = "heatbath" => pos' = 1,
         pc' \in AfterHeatbath => pc \in AfterHeatbath
  PROVE  PolesInv'
<1>1. Constructed(LeafSet)'
  BY ConstructedFrame DEF PolesInv
<1>2. pc' = "heatbath" => Checked(Before(pos))'
  BY BeforeFirst DEF Checked
<1>3. pc' \in AfterHeatbath => Checked(LeafSet)'
  BY DEF PolesInv, Checked
<1> QED BY <1>1, <1>2, <1>3 DEF PolesInv

LEMMA LogFrame ==
  ASSUME LogOfTest, UNCHANGED <<log, serial>>,
         \A x \in Actions : obj'[x].phi = obj[x].phi
  PROVE  LogOfTest'
BY DEF LogOfTest

-----------------------------------------------------------------------------
(* The steps.                                                              *)

LEMMA StopStep ==
  ASSUME IInv, Stop
  PROVE  IInv'
<1>1. /\ UNCHANGED <<schedule, range, splitCheck, obj, saved, rng, log, serial>>
      /\ pc' = "stopped"
  BY DEF Stop, input, driver, split
<1>2. Types'
  BY <1>1, TypesFrame DEF IInv, Types, Stages
<1>3. Place'
  BY <1>1 DEF Place, ByLeaf, Energies, Evolving
<1>4. PolesInv'
  BY <1>1 DEF PolesInv, AfterHeatbath
<1>5. HistoryInv'
  <2>1. IsSeq(log)' /\ LogOfTest'
    BY <1>1, LogFrame DEF IInv, HistoryInv, IsSeq
  <2> QED BY <1>1, <2>1 DEF HistoryInv, NewTest
<1>6. DrawsInv' /\ FlagsInv' /\ TermsInv'
  BY <1>1 DEF DrawsInv, FlagsInv, TermsInv, Evolving, Energies
<1> QED BY <1>2, <1>3, <1>4, <1>5, <1>6 DEF IInv

\* A leaf is constructed that takes poles nobody has.
LEMMA ConstructStep ==
  ASSUME IInv, Construct
  PROVE  IInv'
<1>1. /\ UNCHANGED <<schedule, range, obj, saved, rng, log, serial>>
      /\ pc = "construct" /\ Visited("save")
      /\ Split(leaf) => Available
      /\ splitCheck' = IF Split(leaf)
                         THEN [splitCheck EXCEPT ![a] = @ \cup Poles(leaf)]
                         ELSE splitCheck
  BY DEF Construct, input, driver
<1>2. /\ pos \in DOMAIN Leaves /\ leaf = Leaves[pos] /\ leaf \in LeafSet
      /\ a = ActionOf[leaf] /\ a \in Actions
  BY <1>1, LeafDue DEF IInv, ByLeaf
<1>3. \/ pc' = "save" /\ pos' = 1 /\ Before(pos + 1) = LeafSet
      \/ pc' = "construct" /\ pos' = pos + 1 /\ pos' \in DOMAIN Leaves
  BY <1>1, VisitedSteps DEF IInv, ByLeaf
<1>4. splitCheck' \in [Actions -> SUBSET Int]
  <2>1. Split(leaf) => Poles(leaf) \subseteq Int
    <3>1. 0..(Degree[a] - 1) \subseteq Int
      OBVIOUS
    <3> QED BY <1>1, <3>1 DEF Available
  <2>2. splitCheck \in [Actions -> SUBSET Int]
    BY DEF IInv, Types
  <2> QED BY <1>1, <1>2, <2>1, <2>2
<1>5. Types'
  BY <1>1, <1>3, <1>4 DEF IInv, Types, Stages
<1>6. Place'
  BY <1>3 DEF Place, ByLeaf, Energies, Evolving
<1> PICK p \in DOMAIN Leaves : p = pos
  BY <1>2
<1>7. Constructed(Before(p + 1))'
  <2> DEFINE B == Before(p)
             C == Before(p + 1)
             l0 == leaf
  <2>1. C = B \cup {l0} /\ l0 \notin B
    BY <1>2, BeforeNext
  <2>2. Constructed(B)
    BY <1>1 DEF IInv, PolesInv
  <2>3. \A l : Poles(l)' = Poles(l)
    BY <1>1 DEF Poles
  <2> SUFFICES ASSUME NEW x \in Actions
               PROVE  /\ splitCheck'[x] = UNION {Poles(l) : l \in Splits(C, x)}
                      /\ \A l, k \in Splits(C, x) :
                           l # k => Poles(l) \cap Poles(k) = {}
    BY <2>3 DEF Constructed
  <2>4. /\ splitCheck[x] = UNION {Poles(l) : l \in Splits(B, x)}
        /\ \A l, k \in Splits(B, x) : l # k => Poles(l) \cap Poles(k) = {}
    BY <2>2 DEF Constructed
  <2> HIDE DEF B, C, l0
  <2>5. CASE Split(leaf) /\ a = x
    <3>1. Splits(C, x) = Splits(B, x) \cup {l0}
      BY <1>2, <2>1, <2>5 DEF Splits, l0
    <3>2. splitCheck'[x] = splitCheck[x] \cup Poles(l0)
      BY <1>1, <1>2, <2>5 DEF IInv, Types, l0
    <3>3. Poles(l0) \cap splitCheck[x] = {}
      BY <1>1, <2>5 DEF Available, l0
    <3>4. \A l \in Splits(B, x) : Poles(l) \subseteq splitCheck[x]
      BY <2>4
    <3>5. \A l \in Splits(B, x) : Poles(l) \cap Poles(l0) = {}
      BY <3>3, <3>4
    <3>6. UNION {Poles(l) : l \in Splits(C, x)} = splitCheck[x] \cup Poles(l0)
      BY <2>4, <3>1
    <3> QED BY <2>4, <3>1, <3>2, <3>5, <3>6
  <2>6. CASE ~(Split(leaf) /\ a = x)
    <3>1. Splits(C, x) = Splits(B, x)
      BY <1>2, <2>1, <2>6 DEF Splits, l0
    <3>2. splitCheck'[x] = splitCheck[x]
      BY <1>1, <1>2, <2>6 DEF IInv, Types
    <3> QED BY <2>4, <3>1, <3>2
  <2> QED BY <2>5, <2>6
<1>8. PolesInv'
  <2>1. CASE pc' = "save"
    <3>1. Before(p + 1) = LeafSet
      BY <1>3, <2>1
    <3>2. Constructed(LeafSet)'
      BY <1>7, <3>1
    <3> QED BY <2>1, <3>2 DEF PolesInv, AfterHeatbath
  <2>2. CASE pc' = "construct"
    <3>1. pos' = p + 1
      BY <1>3, <2>2
    <3>2. Constructed(Before(pos))'
      BY <1>7, <3>1
    <3> QED BY <2>2, <3>2 DEF PolesInv, AfterHeatbath
  <2> QED BY <1>3, <2>1, <2>2
<1>9. HistoryInv'
  <2>1. IsSeq(log)' /\ LogOfTest'
    BY <1>1, LogFrame DEF IInv, HistoryInv, IsSeq
  <2> QED BY <1>3, <2>1 DEF HistoryInv, NewTest
<1>10. DrawsInv' /\ TermsInv'
  BY <1>3 DEF DrawsInv, TermsInv, Energies
<1>11. FlagsInv'
  BY <1>1, <1>3 DEF IInv, FlagsInv, Evolving, Energies
<1> QED BY <1>5, <1>6, <1>8, <1>9, <1>10, <1>11 DEF IInv

LEMMA SaveStep ==
  ASSUME IInv, SaveInitialState
  PROVE  IInv'
<1>1. /\ UNCHANGED <<schedule, range, splitCheck, obj, rng, log, serial, pos>>
      /\ pc = "save" /\ pc' = "init" /\ saved'.rng = rng /\ pos = 1
  BY DEF SaveInitialState, input, split, IInv, Place, ByLeaf, Energies, Evolving
<1>2. Types'
  BY <1>1, TypesFrame DEF IInv, Types, Stages
<1>3. Place'
  BY <1>1, LeavesLength DEF Place, ByLeaf, Energies, Evolving
<1>4. PolesInv'
  BY <1>1, PolesFrame DEF IInv, AfterHeatbath
<1>5. HistoryInv'
  <2>1. IsSeq(log)' /\ LogOfTest'
    BY <1>1, LogFrame DEF IInv, HistoryInv, IsSeq
  <2> QED BY <1>1, <2>1, BeforeFirst DEF HistoryInv, NewTest
<1>6. DrawsInv' /\ TermsInv'
  BY <1>1 DEF DrawsInv, TermsInv, Energies
<1>7. FlagsInv'
  BY <1>1 DEF IInv, FlagsInv, Evolving, Energies
<1> QED BY <1>2, <1>3, <1>4, <1>5, <1>6, <1>7 DEF IInv

LEMMA EmptyLog ==
  ASSUME log' = <<>>
  PROVE  IsSeq(log)' /\ LogOfTest'
<1>1. <<>> \in Seq({})
  OBVIOUS
<1>2. DOMAIN log' = {}
  OBVIOUS
<1> QED BY <1>1, <1>2 DEF IsSeq, LogOfTest

\* init() of an action.
LEMMA ResetObj ==
  ASSUME NEW x \in Actions, IsObj(x, obj[x])
  PROVE  /\ IsObj(x, Reset(x))
         /\ Reset(x).phi = obj[x].phi
         /\ Reset(x).heatbathEval = obj[x].heatbathEval
         /\ Chronological(x) => NoHistory(x, Reset(x))
<1> DEFINE r == [obj[x] EXCEPT !.md_steps = 0]
           w == [i \in Masses(x) |-> [r.v[i] EXCEPT ![0] = {}]]
           q == [r EXCEPT !.evolved = TRUE, !.v = w]
<1>1. /\ IsObj(x, r) /\ r.phi = obj[x].phi /\ r.md_steps = 0
      /\ r.heatbathEval = obj[x].heatbathEval
  BY DEF IsObj, Fields
<1>2. ASSUME NEW i \in Masses(x)
      PROVE  /\ w[i] = [s \in Slots(Chrono[x][i]) |-> w[i][s]] /\ w[i][0] = {}
  <2>1. 0 \in Slots(Chrono[x][i])
    <3>1. Chrono[x][i] \in Nat
      BY PseudoFermionsAssumption DEF Masses
    <3> QED BY <3>1 DEF Slots
  <2>2. r.v[i] = [s \in Slots(Chrono[x][i]) |-> r.v[i][s]]
    BY <1>1 DEF IsObj
  <2>3. w[i] = [r.v[i] EXCEPT ![0] = {}]
    OBVIOUS
  <2> HIDE DEF r, w
  <2> QED BY <2>1, <2>2, <2>3
<1>3. w = [i \in Masses(x) |-> w[i]]
  OBVIOUS
<1> HIDE DEF r, w
<1>4. /\ IsObj(x, q) /\ q.phi = r.phi /\ q.md_steps = 0 /\ q.v = w
      /\ q.heatbathEval = r.heatbathEval
  BY <1>1, <1>2, <1>3 DEF IsObj, Fields
<1>5. Reset(x) = IF Kind[x] \in {"RATIONAL", "BOSON"} THEN r ELSE q
  BY DEF Reset, r, w
<1> HIDE DEF q
<1>6. NoHistory(x, q)
  BY <1>2, <1>4 DEF NoHistory
<1>7. Chronological(x) => Reset(x) = q
  BY <1>5 DEF Chronological
<1> QED BY <1>1, <1>4, <1>5, <1>6, <1>7

LEMMA InitStep ==
  ASSUME IInv, InitLeaf
  PROVE  IInv'
<1>1. /\ UNCHANGED <<schedule, range, splitCheck, saved, rng>>
      /\ pc = "init" /\ Visited("restore")
      /\ obj' = IF Split(leaf) THEN obj ELSE [obj EXCEPT ![a] = Reset(a)]
      /\ log' = <<>>
  BY DEF InitLeaf, input, split, IInv, HistoryInv
<1>2. /\ pos \in DOMAIN Leaves /\ leaf = Leaves[pos] /\ leaf \in LeafSet
      /\ a = ActionOf[leaf] /\ a \in Actions
  BY <1>1, LeafDue DEF IInv, ByLeaf
<1>3. \/ pc' = "restore" /\ pos' = 1 /\ Before(pos + 1) = LeafSet
      \/ pc' = "init" /\ pos' = pos + 1 /\ pos' \in DOMAIN Leaves
  BY <1>1, VisitedSteps DEF IInv, ByLeaf
<1>4. /\ IsObj(a, Reset(a)) /\ Reset(a).heatbathEval = obj[a].heatbathEval
      /\ Chronological(a) => NoHistory(a, Reset(a))
  BY <1>2, ResetObj DEF IInv, Types
<1>5. Types /\ rng' \in Nat /\ saved'.rng \in Nat /\ pc' \in Stages
  BY <1>1, <1>3 DEF IInv, Types, Stages
<1>6. /\ Types'
      /\ \A x \in Actions :
           obj'[x] = IF ~Split(leaf) /\ x = a THEN Reset(a) ELSE obj[x]
  <2>1. CASE Split(leaf)
    BY <1>1, <1>5, <2>1, TypesFrame
  <2>2. CASE ~Split(leaf)
    <3> DEFINE r == Reset(a)
    <3>1. IsObj(a, r) /\ obj' = [obj EXCEPT ![a] = r]
      BY <1>1, <1>4, <2>2
    <3> HIDE DEF r
    <3>2. /\ Types'
          /\ \A y \in Actions : obj'[y] = IF y = a THEN r ELSE obj[y]
      BY <1>1, <1>2, <1>5, <3>1, TypesObj
    <3> QED BY <2>2, <3>2 DEF r
  <2> QED BY <2>1, <2>2
<1>7. Place'
  BY <1>3 DEF Place, ByLeaf, Energies, Evolving
<1>8. PolesInv'
  BY <1>1, <1>3, PolesFrame DEF IInv, AfterHeatbath
<1>9. ASSUME NEW x \in Actions, Chronological(x), x \in Before(pos + 1)
      PROVE  NoHistory(x, obj'[x])
  <2>1. ~Rational(x)
    BY <1>9 DEF Chronological, Rational
  <2>2. CASE x = leaf
    <3>1. a = x /\ ~Split(leaf)
      BY <1>2, <2>1, <2>2, OwnLeaf DEF Split
    <3> QED BY <1>4, <1>6, <1>9, <3>1
  <2>3. CASE x # leaf
    <3>1. x \in Before(pos)
      BY <1>2, <1>9, <2>3, BeforeNext
    <3>2. NoHistory(x, obj[x])
      BY <1>1, <1>9, <3>1 DEF IInv, HistoryInv
    <3> QED BY <1>4, <1>6, <1>9, <3>2
  <2> QED BY <2>2, <2>3
<1>10. HistoryInv'
  <2>1. IsSeq(log)' /\ LogOfTest'
    BY <1>1, EmptyLog
  <2>2. CASE pc' = "restore"
    <3>1. \A x \in Actions : Chronological(x) => NoHistory(x, obj'[x])
      <4>1. \A x \in Actions : Chronological(x) => x \in LeafSet
        BY OwnLeaf DEF Chronological, Rational
      <4> QED BY <1>3, <1>9, <2>2, <4>1
    <3> QED BY <1>1, <2>1, <2>2, <3>1 DEF HistoryInv, NewTest
  <2>3. CASE pc' = "init"
    <3>1. pos' = pos + 1
      BY <1>3, <2>3
    <3> QED BY <1>1, <1>9, <2>1, <2>3, <3>1 DEF HistoryInv, NewTest
  <2> QED BY <1>3, <2>2, <2>3
<1>11. DrawsInv' /\ TermsInv'
  BY <1>3 DEF DrawsInv, TermsInv, Energies
<1>12. FlagsInv'
  <2>1. \A x \in Actions : obj'[x].heatbathEval = obj[x].heatbathEval
    BY <1>4, <1>6
  <2> QED BY <1>1, <1>3, <2>1 DEF IInv, FlagsInv, Evolving, Energies
<1> QED BY <1>6, <1>7, <1>8, <1>10, <1>11, <1>12 DEF IInv

LEMMA RestoreStep ==
  ASSUME IInv, RestoreInitialState
  PROVE  IInv'
<1>1. /\ UNCHANGED <<schedule, range, splitCheck, obj, saved, log, serial, pos>>
      /\ pc = "restore" /\ pc' = "heatbath" /\ rng' = saved.rng /\ pos = 1
  BY DEF RestoreInitialState, input, split, driver, IInv, Place, ByLeaf, Energies, Evolving
<1>2. Types'
  BY <1>1, TypesFrame DEF IInv, Types, Stages
<1>3. Place'
  BY <1>1, LeavesLength DEF Place, ByLeaf, Energies, Evolving
<1>4. PolesInv'
  BY <1>1, PolesFrame DEF IInv, AfterHeatbath
<1>5. HistoryInv'
  <2>1. IsSeq(log)' /\ LogOfTest'
    BY <1>1, LogFrame DEF IInv, HistoryInv, IsSeq
  <2> QED BY <1>1, <2>1 DEF IInv, HistoryInv, NewTest
<1>6. DrawsInv'
  <2>1. Seen(pos') = {} /\ rng' = saved'.rng /\ saved'.rng \in Nat
    BY <1>1, BeforeFirst DEF IInv, Types
  <2>2. Cardinality(Seen(pos')) = 0
    BY <2>1, FS_EmptySet
  <2>3. {obj'[x].phi : x \in Seen(pos')} = {} /\ (saved'.rng + 1)..rng' = {}
    BY <2>1
  <2> QED BY <2>1, <2>2, <2>3 DEF DrawsInv
<1>7. TermsInv'
  BY <1>1 DEF TermsInv, Energies
<1>8. FlagsInv'
  <2>1. ASSUME NEW x \in Actions, Rational(x)
        PROVE  ~obj'[x].heatbathEval /\ x \notin Seen(pos')
    BY <1>1, <2>1, BeforeFirst DEF IInv, FlagsInv
  <2>2. \A x \in Actions : x \notin Seen(pos')
    BY <1>1, BeforeFirst
  <2> QED BY <1>1, <2>1, <2>2 DEF FlagsInv, Evolving, Energies
<1> QED BY <1>2, <1>3, <1>4, <1>5, <1>6, <1>7, <1>8 DEF IInv

\* An action that draws its field.
LEMMA DrawnObj ==
  ASSUME NEW x \in Actions, IsObj(x, obj[x]), rng \in Nat
  PROVE  /\ IsObj(x, Drawn(x))
         /\ Drawn(x).phi = rng + 1 /\ Drawn(x).v = obj[x].v
         /\ Drawn(x).md_steps = obj[x].md_steps
         /\ (Drawn(x).heatbathEval <=> Rational(x)) /\ ~Drawn(x).energyEval
         /\ Drawn(x).h_init = [of |-> x, phi |-> rng + 1, gauge |-> gauge]
<1> DEFINE h == [of |-> x, phi |-> rng + 1, gauge |-> gauge]
           n == rng + 1
           b == Rational(x)
<1>1. n \in Nat /\ b \in BOOLEAN
  BY DEF Rational
<1>2. Drawn(x) = [obj[x] EXCEPT !.phi = n, !.evolved = FALSE, !.heatbathEval = b,
                                !.energyEval = FALSE, !.h_init = h]
  BY DEF Drawn
<1> HIDE DEF h, n, b
<1>3. /\ IsObj(x, Drawn(x)) /\ Drawn(x).phi = n /\ Drawn(x).v = obj[x].v
      /\ Drawn(x).md_steps = obj[x].md_steps
      /\ Drawn(x).heatbathEval = b /\ Drawn(x).energyEval = FALSE
      /\ Drawn(x).h_init = h
  <2> DEFINE d == Drawn(x)
  <2>1. obj[x] = [f \in Fields |-> obj[x][f]]
    BY DEF IsObj
  <2>2. /\ d = [f \in Fields |-> d[f]]
        /\ d.phi = n /\ d.evolved = FALSE /\ d.heatbathEval = b
        /\ d.energyEval = FALSE /\ d.h_init = h
        /\ d.fg_forecast = obj[x].fg_forecast
        /\ d.md_steps = obj[x].md_steps /\ d.v = obj[x].v
    BY <1>2, <2>1 DEF Fields
  <2> HIDE DEF d
  <2>3. IsObj(x, d)
    BY <1>1, <2>2 DEF IsObj
  <2> QED BY <2>2, <2>3 DEF d
<1> QED BY <1>3 DEF h, n, b

\* What is drawn in one step of the heatbath.
LEMMA OneDraw ==
  ASSUME IInv, Heatbath \/ HeatbathRational
  PROVE  /\ a \in Actions
         /\ \/ Draw /\ a \notin Seen(pos)
            \/ UNCHANGED <<obj, rng>> /\ a \in Seen(pos)
         /\ Split(leaf) => AllIncluded
         /\ pc = "heatbath" /\ Visited("h_init")
         /\ UNCHANGED <<schedule, range, splitCheck, saved, gauge, log, serial>>
<1>1. pc = "heatbath" /\ Visited("h_init")
      /\ UNCHANGED <<schedule, range, splitCheck, saved, gauge, log, serial>>
  BY DEF Heatbath, HeatbathRational, input, driver, split
<1>2. /\ pos \in DOMAIN Leaves /\ leaf = Leaves[pos] /\ leaf \in LeafSet
      /\ a = ActionOf[leaf] /\ a \in Actions
  BY <1>1, LeafDue DEF IInv, ByLeaf
<1>3. CASE Heatbath
  <2>1. ~Rational(a) /\ Draw
    BY <1>3 DEF Heatbath
  <2>2. a \notin Seen(pos)
    BY <1>2, <2>1, NotRationalNew
  <2>3. ~Split(leaf)
    BY <1>2, <2>1, LeafFacts
  <2> QED BY <1>1, <1>2, <2>1, <2>2, <2>3
<1>4. CASE HeatbathRational
  <2>1. Rational(a) /\ (Split(leaf) => AllIncluded)
        /\ IF MustDraw THEN Draw ELSE UNCHANGED <<obj, rng>>
    BY <1>4 DEF HeatbathRational
  <2>2. obj[a].heatbathEval <=> a \in Seen(pos)
    BY <1>1, <1>2, <2>1 DEF IInv, FlagsInv
  <2>3. MustDraw <=> a \notin Seen(pos)
    BY <2>2 DEF MustDraw, o
  <2>4. CASE MustDraw
    BY <1>1, <1>2, <2>1, <2>3, <2>4
  <2>5. CASE ~MustDraw
    BY <1>1, <1>2, <2>1, <2>3, <2>5
  <2> QED BY <2>4, <2>5
<1> QED BY <1>3, <1>4

\* The draws up to and including those of leaf p, which is due.
DrawnTo(p) ==
  /\ rng' = saved.rng + Cardinality(Seen(p + 1))
  /\ {obj'[x].phi : x \in Seen(p + 1)} = (saved.rng + 1)..rng'

LEMMA HeatbathStep ==
  ASSUME IInv, Heatbath \/ HeatbathRational
  PROVE  IInv' /\ DrawnTo(pos)
<1>1. /\ a \in Actions
      /\ \/ Draw /\ a \notin Seen(pos)
         \/ UNCHANGED <<obj, rng>> /\ a \in Seen(pos)
      /\ Split(leaf) => AllIncluded
      /\ pc = "heatbath" /\ Visited("h_init")
      /\ UNCHANGED <<schedule, range, splitCheck, saved, gauge, log, serial>>
  BY OneDraw
<1> PICK p \in DOMAIN Leaves : p = pos
  BY <1>1, LeafDue DEF IInv, ByLeaf
<1>2. leaf = Leaves[p] /\ leaf \in LeafSet /\ a = ActionOf[leaf]
  BY <1>1, LeafDue DEF IInv, ByLeaf
<1>3. \/ /\ pc' = "h_init" /\ pos' = 1
         /\ Before(p + 1) = LeafSet /\ Seen(p + 1) = Actions
      \/ pc' = "heatbath" /\ pos' = p + 1 /\ pos' \in DOMAIN Leaves
  BY <1>1, VisitedSteps DEF IInv, ByLeaf
<1> PICK y \in Actions : y = a
  BY <1>1
<1>4. Seen(p + 1) = Seen(p) \cup {y} /\ Seen(p) \subseteq Actions
  BY <1>2, BeforeNext, BeforeLeaves
<1>5. /\ Types /\ rng \in Nat /\ saved.rng \in Nat /\ pc' \in Stages
      /\ \A x \in Actions : IsObj(x, obj[x])
  BY <1>3 DEF IInv, Types, Stages
\* y has the flags of an action that has drawn, and no other action changes
<1>6. /\ Types'
      /\ \A x \in Actions : x # y => obj'[x] = obj[x]
      /\ \/ (obj'[y].heatbathEval <=> Rational(y)) /\ ~obj'[y].energyEval
         \/ y \in Seen(p) /\ obj'[y] = obj[y]
      /\ obj'[y].h_init = [of |-> y, phi |-> obj'[y].phi, gauge |-> gauge]
      /\ obj'[y].v = obj[y].v /\ obj'[y].md_steps = obj[y].md_steps
  <2>1. CASE Draw /\ y \notin Seen(p)
    <3> DEFINE r == Drawn(y)
    <3>1. obj' = [obj EXCEPT ![y] = r] /\ rng' \in Nat
      BY <1>5, <2>1 DEF Draw
    <3>2. IsObj(y, obj[y]) /\ rng \in Nat
      BY <1>5
    <3>3. /\ IsObj(y, r)
          /\ r.phi = rng + 1 /\ r.v = obj[y].v /\ r.md_steps = obj[y].md_steps
          /\ (r.heatbathEval <=> Rational(y)) /\ ~r.energyEval
          /\ r.h_init = [of |-> y, phi |-> rng + 1, gauge |-> gauge]
      BY <3>2, DrawnObj
    <3> HIDE DEF r
    <3>4. IsObj(y, r) /\ rng' \in Nat /\ pc' \in Stages
      BY <1>5, <3>1, <3>3
    <3>5. Types /\ UNCHANGED <<schedule, range, splitCheck, saved>>
      BY <1>1, <1>5
    <3>6. obj' = [obj EXCEPT ![y] = r]
      BY <3>1
    <3>7. /\ Types'
          /\ \A x \in Actions : obj'[x] = IF x = y THEN r ELSE obj[x]
      BY <3>5, <3>6, <3>4, TypesObj
    <3>8. obj'[y] = r
      BY <3>7
    <3>9. \A x \in Actions : x # y => obj'[x] = obj[x]
      BY <3>7
    <3>10. obj'[y].h_init = [of |-> y, phi |-> obj'[y].phi, gauge |-> gauge]
      BY <3>3, <3>8
    <3>11. /\ (obj'[y].heatbathEval <=> Rational(y)) /\ ~obj'[y].energyEval
          /\ obj'[y].v = obj[y].v /\ obj'[y].md_steps = obj[y].md_steps
      BY <3>3, <3>8
    <3> QED BY <3>7, <3>9, <3>10, <3>11
  <2>2. CASE UNCHANGED <<obj, rng>> /\ y \in Seen(p)
    <3>1. Types'
      BY <1>1, <1>5, <2>2, TypesFrame
    <3>2. obj[y].h_init = Current(y)
      BY <1>1, <2>2 DEF IInv, FlagsInv
    <3> QED BY <2>2, <3>1, <3>2 DEF Current
  <2> QED BY <1>1, <2>1, <2>2
<1>7. DrawnTo(p)
  <2> DEFINE S == Seen(p)
             phis == {obj[x].phi : x \in S}
  <2>1. /\ rng = saved.rng + Cardinality(S) /\ phis = (saved.rng + 1)..rng
    BY <1>1 DEF IInv, DrawsInv
  <2>2. IsFiniteSet(S) /\ Cardinality(S) \in Nat
    <3>1. p \in Nat
      BY LeafAt
    <3> QED BY <3>1, SeenFinite, FS_CardinalityType
  <2>3. CASE Draw /\ y \notin S
    <3>1. obj'[y].phi = rng + 1 /\ rng' = rng + 1
      <4>1. obj' = [obj EXCEPT ![y] = Drawn(y)] /\ rng' = rng + 1
        BY <2>3 DEF Draw
      <4>2. obj'[y] = Drawn(y)
        BY <1>1, <1>5, <4>1 DEF Types
      <4> QED BY <1>1, <1>5, <4>1, <4>2, DrawnObj
    <3>2. Cardinality(S \cup {y}) = Cardinality(S) + 1
      BY <2>2, <2>3, FS_AddElement
    <3>3. {obj'[x].phi : x \in S \cup {y}} = phis \cup {rng + 1}
      <4>1. \A x \in S : obj'[x].phi = obj[x].phi
        BY <1>4, <1>6, <2>3
      <4> QED BY <3>1, <4>1
    <3>4. (saved.rng + 1)..(rng + 1) = ((saved.rng + 1)..rng) \cup {rng + 1}
      BY <1>5, <2>1, <2>2
    <3> HIDE DEF S, phis
    <3>5. rng' = saved.rng + Cardinality(S \cup {y})
      BY <1>5, <2>1, <2>2, <3>1, <3>2
    <3>6. {obj'[x].phi : x \in S \cup {y}} = (saved.rng + 1)..rng'
      BY <2>1, <3>1, <3>3, <3>4
    <3> QED BY <1>4, <3>5, <3>6 DEF DrawnTo, S
  <2>4. CASE UNCHANGED <<obj, rng>> /\ y \in S
    <3>1. Seen(p + 1) = S
      BY <1>4, <2>4
    <3> QED BY <2>1, <2>4, <3>1 DEF DrawnTo
  <2> QED BY <1>1, <2>3, <2>4
<1>8. Place'
  BY <1>3, LeavesLength DEF Place, ByLeaf, Energies, Evolving
<1>9. PolesInv'
  <2>1. Constructed(LeafSet)'
    BY <1>1, ConstructedFrame DEF IInv, PolesInv
  <2>2. Checked(Before(p + 1))'
    <3>1. Checked(Before(p))
      BY <1>1 DEF IInv, PolesInv
    <3>2. Before(p + 1) = Before(p) \cup {leaf}
      BY <1>2, BeforeNext
    <3> QED BY <1>1, <1>2, <3>1, <3>2 DEF Checked, AllIncluded
  <2>3. CASE pc' = "h_init"
    <3>1. Before(p + 1) = LeafSet
      BY <1>3, <2>3
    <3>2. Checked(LeafSet)'
      BY <2>2, <3>1
    <3> QED BY <2>1, <2>3, <3>2 DEF PolesInv
  <2>4. CASE pc' = "heatbath"
    <3>1. pos' = p + 1
      BY <1>3, <2>4
    <3>2. Checked(Before(pos))'
      BY <2>2, <3>1
    <3> QED BY <2>1, <2>4, <3>2 DEF PolesInv, AfterHeatbath
  <2> QED BY <1>3, <2>3, <2>4
<1>10. HistoryInv'
  <2>1. log' = <<>>
    BY <1>1 DEF IInv, HistoryInv, NewTest
  <2>2. IsSeq(log)' /\ LogOfTest'
    BY <2>1, EmptyLog
  <2>3. \A x \in Actions : Chronological(x) => NoHistory(x, obj'[x])
    <3>1. \A x \in Actions : Chronological(x) => NoHistory(x, obj[x])
      BY <1>1 DEF IInv, HistoryInv, NewTest
    <3> QED BY <1>6, <3>1 DEF NoHistory
  <2>4. pc' \in NewTest
    BY <1>3 DEF NewTest
  <2> QED BY <2>1, <2>2, <2>3, <2>4 DEF HistoryInv, NewTest
<1>11. ASSUME NEW x \in Seen(p + 1)
       PROVE  /\ x \in Actions /\ ~obj'[x].energyEval
              /\ obj'[x].h_init = Current(x)'
              /\ Rational(x) => obj'[x].heatbathEval
  <2>1. x \in Seen(p) =>
          /\ Rational(x) => obj[x].heatbathEval
          /\ ~obj[x].energyEval /\ obj[x].h_init = Current(x)
    BY <1>1, <1>4 DEF IInv, FlagsInv
  <2>2. CASE x # y
    BY <1>1, <1>4, <1>6, <2>1, <2>2 DEF Current
  <2>3. CASE x = y
    <3>1. obj'[y].h_init = Current(y)'
      BY <1>1, <1>6 DEF Current
    <3> QED BY <1>1, <1>6, <2>1, <2>3, <3>1
  <2> QED BY <2>2, <2>3
<1>12. FlagsInv'
  <2>1. CASE pc' = "h_init"
    <3>1. Seen(pos') = {} /\ Seen(p + 1) = Actions
      BY <1>3, <2>1, BeforeFirst
    <3> QED BY <1>11, <2>1, <3>1 DEF FlagsInv, Evolving, Energies
  <2>2. CASE pc' = "heatbath"
    <3>1. Seen(pos') = Seen(p + 1)
      BY <1>3, <2>2
    <3>2. ASSUME NEW x \in Actions, x \notin Seen(p + 1), Rational(x)
          PROVE  ~obj'[x].heatbathEval
      <4>1. x # y /\ x \notin Seen(p)
        BY <1>4, <3>2
      <4>2. ~obj[x].heatbathEval
        BY <1>1, <3>2, <4>1 DEF IInv, FlagsInv
      <4> QED BY <1>6, <4>1, <4>2
    <3> QED BY <1>11, <2>2, <3>1, <3>2 DEF FlagsInv, Evolving, Energies
  <2> QED BY <1>3, <2>1, <2>2
<1>13. DrawsInv'
  <2>1. CASE pc' = "heatbath"
    <3>1. Seen(pos') = Seen(p + 1) /\ saved' = saved
      BY <1>1, <1>3, <2>1
    <3> QED BY <1>7, <3>1 DEF DrawsInv, DrawnTo
  <2>2. CASE pc' # "heatbath"
    BY <2>2 DEF DrawsInv
  <2> QED BY <2>1, <2>2
<1>14. TermsInv'
  <2>1. CASE pc' = "h_init"
    <3>1. Total' = <<>> /\ Seen(pos') = {}
      BY <1>3, <2>1, BeforeFirst DEF Total
    <3>2. Cardinality(Seen(pos')) = 0 /\ Len(Total') = 0 /\ <<>> \in Seq({})
      BY <3>1, FS_EmptySet
    <3> QED BY <3>1, <3>2 DEF TermsInv, IsSeq
  <2>2. CASE pc' = "heatbath"
    BY <2>2 DEF TermsInv, Energies
  <2> QED BY <1>3, <2>1, <2>2
<1> QED BY <1>6, <1>7, <1>8, <1>9, <1>10, <1>12, <1>13, <1>14 DEF IInv

\* The solutions of a test that has not solved anything yet.
LEMMA NoHistoryIsOfTest ==
  ASSUME NEW x \in Actions, NEW r, NoHistory(x, r)
  PROVE  HistoryOfTest(x, r)
<1>1. ASSUME NEW i \in Masses(x), NEW s \in Slots(Chrono[x][i]),
             s < r.md_steps \/ s = 0
      PROVE  r.v[i][s] = {}
  <2>1. s \in Nat
    BY DEF Slots
  <2>2. s = 0
    BY <1>1, <2>1 DEF NoHistory
  <2> QED BY <2>2 DEF NoHistory
<1> QED BY <1>1 DEF HistoryOfTest

LEMMA ScheduleStarts ==
  ASSUME Types
  PROVE  /\ 1 \in DOMAIN schedule /\ DOMAIN schedule = 1..Len(schedule)
         /\ Len(schedule) \in Nat
<1>1. schedule \in Schedules
  BY DEF Types
<1>2. schedule \in Seq([op : Ops, leaf : STRING, n : Nat \ {0}])
  BY <1>1, PseudoFermionsAssumption
<1>3. DOMAIN schedule = 1..Len(schedule) /\ Len(schedule) \in Nat
  BY <1>2
<1>4. PICK l \in LeafSet : TRUE
  BY LeavesLength DEF LeafSet
<1>5. \E q \in DOMAIN schedule : schedule[q].leaf = l
  BY <1>1, PseudoFermionsAssumption
<1> QED BY <1>3, <1>5

\* What the leaves up to and including p, which is due, have added up.
SumTo(p) ==
  /\ IsSeq(terms') /\ Len(terms') = Cardinality(Seen(p + 1))
  /\ \A x \in Seen(p + 1) : \E q \in DOMAIN terms' : terms'[q] = Current(x)

\* One more term.
LEMMA OneTerm ==
  ASSUME NEW t, IsSeq(t), NEW e
  PROVE  /\ IsSeq(t \o <<e>>) /\ Len(t \o <<e>>) = Len(t) + 1
         /\ \A q \in DOMAIN t : q \in DOMAIN (t \o <<e>>) /\ (t \o <<e>>)[q] = t[q]
         /\ Len(t) + 1 \in DOMAIN (t \o <<e>>) /\ (t \o <<e>>)[Len(t) + 1] = e
<1>1. PICK S : t \in Seq(S)
  BY DEF IsSeq
<1> DEFINE T == S \cup {e}
<1>2. t \in Seq(T) /\ <<e>> \in Seq(T) /\ Len(<<e>>) = 1 /\ <<e>>[1] = e
  BY <1>1
<1> HIDE DEF T
<1>3. t \o <<e>> \in Seq(T) /\ Len(t \o <<e>>) = Len(t) + 1 /\ Len(t) \in Nat
  BY <1>2
<1>4. \A q \in 1..Len(t) : (t \o <<e>>)[q] = t[q]
  BY <1>2
<1>5. (t \o <<e>>)[Len(t) + 1] = e
  BY <1>2
<1>6. DOMAIN t = 1..Len(t) /\ DOMAIN (t \o <<e>>) = 1..(Len(t) + 1)
  BY <1>2, <1>3
<1> QED BY <1>3, <1>4, <1>5, <1>6 DEF IsSeq

\* An energy that has been asked for only changes the flag that says so.
LEMMA AskedObj ==
  ASSUME NEW y \in Actions, IsObj(y, obj[y]), NEW b \in BOOLEAN
  PROVE  LET r == [obj[y] EXCEPT !.energyEval = b] IN
         /\ IsObj(y, r) /\ r.energyEval = b /\ r.heatbathEval = obj[y].heatbathEval
         /\ r.evolved = obj[y].evolved /\ r.h_init = obj[y].h_init
         /\ r.phi = obj[y].phi /\ r.v = obj[y].v /\ r.md_steps = obj[y].md_steps
BY DEF IsObj, Fields

LEMMA EnergyStep ==
  ASSUME IInv, Energy \/ EnergyCounted
  PROVE  IInv' /\ SumTo(pos)
<1>1. /\ UNCHANGED <<schedule, range, splitCheck, saved, rng, gauge, log, serial>>
      /\ pc \in Energies /\ Visited(After(pc)) /\ pc \in ByLeaf
  BY DEF Energy, EnergyCounted, input, driver, split, ByLeaf
<1> PICK p \in DOMAIN Leaves : p = pos
  BY <1>1, LeafDue DEF IInv
<1> PICK y \in Actions : y = a
  BY <1>1, LeafDue DEF IInv
<1>2. leaf = Leaves[p] /\ leaf \in LeafSet /\ y = ActionOf[Leaves[p]]
  BY <1>1, LeafDue DEF IInv
<1>3. After(pc) \in {"evolve", "end_forward", "end_test"}
  BY <1>1 DEF After, Energies
<1>4. \/ pc' = After(pc) /\ pos' = 1 /\ Seen(p + 1) = Actions
      \/ pc' = pc /\ pos' = p + 1 /\ pos' \in DOMAIN Leaves /\ pos' # 1
  BY <1>1, VisitedSteps DEF IInv
<1>5. Seen(p + 1) = Seen(p) \cup {y} /\ Seen(p) \subseteq Actions
  BY <1>2, BeforeNext, BeforeLeaves
<1>6. /\ IsSeq(Total) /\ Len(Total) = Cardinality(Seen(p))
      /\ \A x \in Seen(p) : \E q \in DOMAIN Total : Total[q] = Current(x)
  BY <1>1 DEF IInv, TermsInv
<1>7. /\ Types /\ Types' \in BOOLEAN /\ rng' \in Nat /\ saved'.rng \in Nat
      /\ pc' \in Stages /\ IsObj(y, obj[y])
  BY <1>1, <1>3, <1>4 DEF IInv, Types, Stages, Energies
\* the energy of y is added if it is new
<1>8. \/ y \in Seen(p) /\ terms' = Total /\ obj' = obj
      \/ /\ y \notin Seen(p) /\ terms' = Total \o <<Current(y)>>
         /\ obj' = [obj EXCEPT ![y] = [obj[y] EXCEPT !.energyEval = Rational(y)]]
  <2>1. Rational(y) => (obj[y].energyEval <=> y \in Seen(p))
    BY <1>1 DEF IInv, FlagsInv
  <2>2. CASE EnergyCounted
    <3>1. CountedBefore /\ terms' = Total \o <<>> /\ obj' = obj
      BY <2>2 DEF EnergyCounted, Add, Total
    <3>2. y \in Seen(p)
      BY <2>1, <3>1 DEF CountedBefore, o
    <3>3. Total \o <<>> = Total
      BY <1>6 DEF IsSeq
    <3> QED BY <3>1, <3>2, <3>3
  <2>3. CASE Energy
    <3>1. /\ ~CountedBefore
          /\ terms' = Total \o <<IF CacheValid THEN o.h_init ELSE Current(a)>>
          /\ obj' = [obj EXCEPT ![a].energyEval = Rational(a)]
      BY <2>3 DEF Energy, Add, Total
    <3>2. y \notin Seen(p)
      <4>1. CASE Rational(y)
        BY <2>1, <3>1, <4>1 DEF CountedBefore, o
      <4>2. CASE ~Rational(y)
        BY <1>2, <4>2, NotRationalNew
      <4> QED BY <4>1, <4>2
    <3>3. (IF CacheValid THEN o.h_init ELSE Current(a)) = Current(y)
      <4>1. CASE CacheValid
        <5>1. ~Boson(y) /\ ~obj[y].evolved
          BY <4>1 DEF CacheValid, Boson, o
        <5>2. obj[y].h_init = Current(y)
          BY <1>1, <5>1 DEF IInv, FlagsInv
        <5> QED BY <4>1, <5>2 DEF o
      <4>2. CASE ~CacheValid
        BY <4>2
      <4> QED BY <4>1, <4>2
    <3>4. obj' = [obj EXCEPT ![y] = [obj[y] EXCEPT !.energyEval = Rational(y)]]
      BY <3>1
    <3> QED BY <3>1, <3>2, <3>3, <3>4
  <2> QED BY <2>2, <2>3
<1>9. SumTo(p)
  <2>1. IsFiniteSet(Seen(p)) /\ Cardinality(Seen(p)) \in Nat
    <3>1. p \in Nat
      BY LeafAt
    <3> QED BY <3>1, SeenFinite, FS_CardinalityType
  <2>2. CASE y \in Seen(p) /\ terms' = Total
    <3>1. Seen(p + 1) = Seen(p)
      BY <1>5, <2>2
    <3> QED BY <1>6, <2>2, <3>1 DEF SumTo
  <2>3. CASE y \notin Seen(p) /\ terms' = Total \o <<Current(y)>>
    <3> DEFINE t == Total
               e == Current(y)
               u == t \o <<e>>
    <3>1. /\ IsSeq(u) /\ Len(u) = Len(t) + 1
          /\ \A q \in DOMAIN t : q \in DOMAIN u /\ u[q] = t[q]
          /\ Len(t) + 1 \in DOMAIN u /\ u[Len(t) + 1] = e
      BY <1>6, OneTerm
    <3>2. Cardinality(Seen(p) \cup {y}) = Cardinality(Seen(p)) + 1
      BY <2>1, <2>3, FS_AddElement
    <3>3. terms' = u
      BY <2>3
    <3> HIDE DEF u
    <3>4. \A x \in Seen(p) : \E q \in DOMAIN u : u[q] = Current(x)
      BY <1>6, <3>1
    <3>5. \E q \in DOMAIN u : u[q] = Current(y)
      BY <3>1
    <3> HIDE DEF t, e
    <3>6. Len(u) = Cardinality(Seen(p + 1))
      BY <1>5, <1>6, <3>1, <3>2 DEF t
    <3>7. \A x \in Seen(p + 1) : \E q \in DOMAIN u : u[q] = Current(x)
      BY <1>5, <3>4, <3>5
    <3> QED BY <3>1, <3>3, <3>6, <3>7 DEF SumTo
  <2> QED BY <1>8, <2>2, <2>3
<1>10. /\ Types'
       /\ \A x \in Actions :
            /\ obj'[x].heatbathEval = obj[x].heatbathEval
            /\ obj'[x].evolved = obj[x].evolved /\ obj'[x].h_init = obj[x].h_init
            /\ obj'[x].phi = obj[x].phi /\ obj'[x].v = obj[x].v
            /\ obj'[x].md_steps = obj[x].md_steps
       /\ \A x \in Actions : Rational(x) =>
            (obj'[x].energyEval <=> x \in Seen(p + 1))
  <2>1. \A x \in Actions : Rational(x) => (obj[x].energyEval <=> x \in Seen(p))
    BY <1>1 DEF IInv, FlagsInv
  <2>2. CASE y \in Seen(p) /\ obj' = obj
    <3>1. Types'
      BY <1>1, <1>7, <2>2, TypesFrame
    <3>2. Seen(p + 1) = Seen(p)
      BY <1>5, <2>2
    <3> QED BY <2>1, <2>2, <3>1, <3>2
  <2>3. CASE /\ y \notin Seen(p)
             /\ obj' = [obj EXCEPT ![y] = [obj[y] EXCEPT !.energyEval = Rational(y)]]
    <3> DEFINE b == Rational(y)
               r == [obj[y] EXCEPT !.energyEval = b]
    <3>1. b \in BOOLEAN
      BY DEF Rational
    <3>2. obj' = [obj EXCEPT ![y] = r]
      BY <2>3
    <3> HIDE DEF b
    <3>3. /\ IsObj(y, r) /\ r.energyEval = b
          /\ r.heatbathEval = obj[y].heatbathEval
          /\ r.evolved = obj[y].evolved /\ r.h_init = obj[y].h_init
          /\ r.phi = obj[y].phi /\ r.v = obj[y].v /\ r.md_steps = obj[y].md_steps
      BY <1>7, <3>1, AskedObj
    <3> HIDE DEF r
    <3>4. /\ Types'
          /\ \A x \in Actions : obj'[x] = IF x = y THEN r ELSE obj[x]
      BY <1>1, <1>7, <3>2, <3>3, TypesObj
    <3>5. ASSUME NEW x \in Actions, Rational(x)
          PROVE  obj'[x].energyEval <=> x \in Seen(p + 1)
      <4>1. CASE x = y
        <5>1. obj'[x].energyEval = b
          BY <3>3, <3>4, <4>1
        <5> QED BY <1>5, <3>5, <4>1, <5>1 DEF b
      <4>2. CASE x # y
        BY <1>5, <2>1, <3>4, <3>5, <4>2
      <4> QED BY <4>1, <4>2
    <3> QED BY <3>3, <3>4, <3>5
  <2> QED BY <1>8, <2>2, <2>3
<1>11. Place'
  <2>1. Types
    BY DEF IInv
  <2> QED BY <1>1, <1>3, <1>4, <2>1, ScheduleStarts
          DEF Place, ByLeaf, Energies, Evolving
<1>12. PolesInv'
  BY <1>1, <1>3, <1>4, PolesFrame DEF IInv, AfterHeatbath, Energies
<1>13. HistoryInv'
  <2>1. IsSeq(log)' /\ LogOfTest'
    BY <1>1, <1>10, LogFrame DEF IInv, HistoryInv, IsSeq
  <2>2. (pc' \in NewTest \/ pc' = "init") => pc = "h_init"
    BY <1>1, <1>3, <1>4 DEF NewTest, Energies
  <2>3. pc' \in NewTest => log' = <<>>
    BY <1>1, <2>2 DEF IInv, HistoryInv, NewTest
  <2>4. ASSUME NEW x \in Actions, Chronological(x), pc = "h_init"
        PROVE  NoHistory(x, obj[x])' /\ HistoryOfTest(x, obj[x])'
    <3>1. NoHistory(x, obj[x])
      BY <2>4 DEF IInv, HistoryInv, NewTest
    <3>2. NoHistory(x, obj'[x])
      BY <1>10, <3>1 DEF NoHistory
    <3>3. HistoryOfTest(x, obj'[x])
      BY <3>2, NoHistoryIsOfTest
    <3> QED BY <1>1, <3>2, <3>3 DEF HistoryOfTest
  <2>5. ASSUME NEW x \in Actions, Chronological(x), pc = "h_final"
        PROVE  HistoryOfTest(x, obj[x])'
    <3>1. HistoryOfTest(x, obj[x])
      BY <2>5 DEF IInv, HistoryInv
    <3> QED BY <1>1, <1>10, <3>1 DEF HistoryOfTest
  <2>6. CASE pc = "h_init"
    <3>1. pc' \in {"h_init", "evolve"}
      BY <1>4, <2>6 DEF After
    <3>2. \A x \in Actions : Chronological(x) =>
            NoHistory(x, obj[x])' /\ HistoryOfTest(x, obj[x])'
      BY <2>4, <2>6
    <3> QED BY <2>1, <2>3, <3>1, <3>2 DEF HistoryInv, NewTest
  <2>7. CASE pc = "h_final"
    <3>1. pc' \in {"h_final", "end_forward"}
      BY <1>4, <2>7 DEF After
    <3> QED BY <2>1, <2>5, <2>7, <3>1 DEF HistoryInv, NewTest
  <2>8. CASE pc = "h_back"
    <3>1. pc' \in {"h_back", "end_test"}
      BY <1>4, <2>8 DEF After
    <3> QED BY <2>1, <3>1 DEF HistoryInv, NewTest
  <2> QED BY <1>1, <2>6, <2>7, <2>8 DEF Energies
<1>14. DrawsInv'
  BY <1>1, <1>3, <1>4 DEF DrawsInv, Energies
<1>15. FlagsInv'
  <2>1. ASSUME pc' = pc, NEW x \in Actions
        PROVE  /\ pc' # "h_init" => (Rational(x) => ~obj'[x].heatbathEval)
               /\ Rational(x) => (obj'[x].energyEval <=> x \in Seen(pos'))
               /\ (~Boson(x) /\ ~obj'[x].evolved) => obj'[x].h_init = Current(x)'
    <3>1. pos' = p + 1
      BY <1>1, <1>3, <1>4, <2>1 DEF Energies
    <3>2. (~Boson(x) /\ ~obj[x].evolved) => obj[x].h_init = Current(x)
      BY <1>1 DEF IInv, FlagsInv
    <3>3. Current(x)' = Current(x)
      BY <1>1, <1>10 DEF Current
    <3>4. pc # "h_init" => (Rational(x) => ~obj[x].heatbathEval)
      BY <1>1 DEF IInv, FlagsInv, Energies
    <3> QED BY <1>10, <2>1, <3>1, <3>2, <3>3, <3>4
  <2>2. CASE pc' = pc
    BY <1>1, <2>1, <2>2 DEF FlagsInv, Energies, Evolving
  <2>3. CASE pc' = After(pc) /\ pos' = 1 /\ pc = "h_init"
    <3>1. Evolved(pos)' = {} /\ pc' = "evolve"
      BY <2>3 DEF Evolved, After
    <3> QED BY <3>1 DEF FlagsInv, Energies, Evolving
  <2>4. CASE pc' = After(pc) /\ pos' = 1 /\ pc # "h_init"
    <3>1. pc' \in {"end_forward", "end_test"}
      BY <1>1, <2>4 DEF After, Energies
    <3>2. \A x \in Actions : Rational(x) => ~obj'[x].heatbathEval
      BY <1>1, <1>10, <2>4 DEF IInv, FlagsInv, Energies
    <3> QED BY <3>1, <3>2 DEF FlagsInv, Energies, Evolving
  <2> QED BY <1>4, <2>2, <2>3, <2>4
<1>16. TermsInv'
  <2>1. CASE pc' = pc /\ pos' = p + 1 /\ pos' # 1
    <3>1. Total' = terms'
      BY <2>1 DEF Total
    <3>2. \A x \in Actions : Current(x)' = Current(x)
      BY <1>1, <1>10 DEF Current
    <3>3. Seen(pos') = Seen(p + 1) /\ Seen(p + 1) \subseteq Actions
      BY <1>5, <2>1
    <3> QED BY <1>9, <3>1, <3>2, <3>3 DEF SumTo, TermsInv, IsSeq
  <2>2. CASE pc' = After(pc)
    BY <1>3, <2>2 DEF TermsInv, Energies
  <2> QED BY <1>4, <2>1, <2>2
<1> QED BY <1>9, <1>10, <1>11, <1>12, <1>13, <1>14, <1>15, <1>16 DEF IInv

-----------------------------------------------------------------------------
(* The solver and its earlier solutions.                                   *)

LEMMA ModBounds ==
  ASSUME NEW z \in Int, NEW c \in Nat \ {0}
  PROVE  z % c \in 0..(c - 1) /\ (z \in 0..(c - 1) => z % c = z)
OBVIOUS

LEMMA SlotInRing ==
  ASSUME NEW m \in Nat, NEW c \in Nat
  PROVE  Slot(m, c) \in Slots(c) /\ (m \in Slots(c) => Slot(m, c) = m)
<1>1. CASE c = 0
  BY <1>1 DEF Slot, Slots
<1>2. CASE c > 0
  <2>1. m % c \in 0..(c - 1) /\ (m \in 0..(c - 1) => m % c = m)
    BY <1>2, ModBounds
  <2> QED BY <1>2, <2>1 DEF Slot, Slots
<1> QED BY <1>1, <1>2

\* The solutions that are given to FminResExt have been found before.
LEMMA OldSlot ==
  ASSUME NEW m \in Nat, NEW c \in Nat, NEW k \in 1..Deg(m, c)
  PROVE  Old(m, c, k) \in Slots(c) /\ Old(m, c, k) < m
<1>1. m > 0 /\ c > 0 /\ k \in Nat /\ k >= 1 /\ k <= m /\ k <= c
  BY DEF Deg
<1>2. Slot(m, c) = m % c /\ m % c \in 0..(c - 1)
  BY <1>1, ModBounds DEF Slot
<1>3. Old(m, c, k) \in 0..(c - 1)
  <2> DEFINE z == Slot(m, c) - k
  <2>1. z \in Int /\ Old(m, c, k) = z % c
    BY <1>1, <1>2 DEF Old
  <2> HIDE DEF z
  <2> QED BY <1>1, <2>1, ModBounds
<1>4. m < c => Old(m, c, k) = m - k
  <2> SUFFICES ASSUME m < c PROVE Old(m, c, k) = m - k
    OBVIOUS
  <2> DEFINE z == m - k
  <2>1. m \in 0..(c - 1) /\ z \in 0..(c - 1) /\ c \in Nat \ {0}
    BY <1>1
  <2>2. m % c = m
    BY <2>1, ModBounds
  <2>3. Old(m, c, k) = z % c
    BY <1>2, <2>2 DEF Old
  <2> HIDE DEF z
  <2>4. z % c = z
    <3>1. z \in Int /\ z >= 0 /\ z < c
      BY <2>1
    <3> QED BY <2>1, <3>1
  <2> QED BY <2>3, <2>4 DEF z
<1> QED BY <1>1, <1>3, <1>4 DEF Slots

\* Every part of a guess is one of these solutions.
LEMMA GuessFrom ==
  ASSUME NEW w, NEW m \in Nat, NEW c \in Nat, NEW e \in MinRes(w, m, c)
  PROVE  \E s \in Slots(c) : s < m /\ e \in w[s]
<1>1. PICK j \in 1..Deg(m, c) : e \in Orthogonal(w, m, c, j)
  BY DEF MinRes
<1>2. PICK k \in 1..j : e \in w[Old(m, c, k)]
  BY <1>1 DEF Orthogonal
<1>3. k \in 1..Deg(m, c)
  BY DEF Deg
<1> QED BY <1>2, <1>3, OldSlot

\* So is every part of a vector that has been made orthogonal to them.
LEMMA OrthogonalFrom ==
  ASSUME NEW w, NEW m \in Nat, NEW c \in Nat, NEW s \in DOMAIN w,
         NEW e \in Orthogonalised(w, m, c)[s]
  PROVE  e \in w[s] \/ \E t \in Slots(c) : t < m /\ e \in w[t]
<1>1. CASE \E j \in 1..Deg(m, c) : Old(m, c, j) = s
  <2> DEFINE j == CHOOSE j \in 1..Deg(m, c) : Old(m, c, j) = s
  <2>1. j \in 1..Deg(m, c)
    BY <1>1
  <2>2. e \in Orthogonal(w, m, c, j)
    BY <1>1 DEF Orthogonalised
  <2> HIDE DEF j
  <2>3. PICK k \in 1..j : e \in w[Old(m, c, k)]
    BY <2>2 DEF Orthogonal
  <2>4. k \in 1..Deg(m, c)
    BY <2>1 DEF Deg
  <2> QED BY <2>3, <2>4, OldSlot
<1>2. CASE ~\E j \in 1..Deg(m, c) : Old(m, c, j) = s
  BY <1>2 DEF Orthogonalised
<1> QED BY <1>1, <1>2

LEMMA Chronos ==
  ASSUME NEW x \in Actions, NEW i \in Masses(x)
  PROVE  Chrono[x][i] \in Nat
BY PseudoFermionsAssumption DEF Masses

\* What the solver is started from belongs to this test.
LEMMA GuessOfTest ==
  ASSUME Types, NEW y \in Actions, y = a, HistoryOfTest(y, obj[y]),
         NEW forecast \in BOOLEAN, NEW i \in Masses(y)
  PROVE  \A e \in Used(forecast, i) : e.serial = serial /\ e.phi = obj[y].phi
<1> DEFINE w == obj[y].v[i]
           m == obj[y].md_steps
           c == Chrono[y][i]
<1>1. m \in Nat /\ c \in Nat
  BY Chronos DEF Types, IsObj
<1>2. \A s \in Slots(c) : s < m \/ s = 0 =>
        \A e \in w[s] : e.serial = serial /\ e.phi = obj[y].phi
  BY DEF HistoryOfTest
<1>3. CASE Skip(forecast, i)
  <2>1. Used(forecast, i) = w[0]
    BY <1>3 DEF Used, o
  <2>2. 0 \in Slots(c)
    BY <1>1 DEF Slots
  <2> QED BY <1>2, <2>1, <2>2
<1>4. CASE ~Skip(forecast, i)
  <2>1. Used(forecast, i) = MinRes(w, m, c)
    BY <1>4 DEF Used, o
  <2> HIDE DEF w, m, c
  <2> QED BY <1>1, <1>2, <2>1, GuessFrom
<1> QED BY <1>3, <1>4

\* What the vectors hold after a solve.
LEMMA SolvedOfTest ==
  ASSUME Types, NEW y \in Actions, y = a, HistoryOfTest(y, obj[y])
  PROVE  /\ Solved = [i \in Masses(y) |-> Solved[i]]
         /\ \A i \in Masses(y) :
              /\ Solved[i] = [s \in Slots(Chrono[y][i]) |-> Solved[i][s]]
              /\ \A s \in Slots(Chrono[y][i]) :
                   (s < obj[y].md_steps + 1 \/ s = 0) =>
                      \A e \in Solved[i][s] :
                         e.serial = serial /\ e.phi = obj[y].phi
<1> DEFINE solution == [serial |-> serial, md |-> o.md_steps,
                        phi |-> o.phi, gauge |-> gauge]
<1>1. /\ Solved = [i \in Masses(y) |-> Solved[i]]
      /\ \A i \in Masses(y) : Solved[i] =
           [Orthogonalised(obj[y].v[i], obj[y].md_steps, Chrono[y][i])
              EXCEPT ![Slot(obj[y].md_steps, Chrono[y][i])] = {solution}]
  BY DEF Solved, o
<1>2. solution.serial = serial /\ solution.phi = obj[y].phi
  BY DEF o
<1> HIDE DEF solution
<1> SUFFICES ASSUME NEW i \in Masses(y)
             PROVE  /\ Solved[i] = [s \in Slots(Chrono[y][i]) |-> Solved[i][s]]
                    /\ \A s \in Slots(Chrono[y][i]) :
                         (s < obj[y].md_steps + 1 \/ s = 0) =>
                            \A e \in Solved[i][s] :
                               e.serial = serial /\ e.phi = obj[y].phi
  BY <1>1
<1> DEFINE w == obj[y].v[i]
           m == obj[y].md_steps
           c == Chrono[y][i]
           u == Orthogonalised(w, m, c)
<1>3. m \in Nat /\ c \in Nat /\ w = [s \in Slots(c) |-> w[s]]
  BY Chronos DEF Types, IsObj
<1>4. \A s \in Slots(c) : (s < m \/ s = 0) =>
        \A e \in w[s] : e.serial = serial /\ e.phi = obj[y].phi
  BY DEF HistoryOfTest
<1>5. Solved[i] = [u EXCEPT ![Slot(m, c)] = {solution}]
  BY <1>1
<1>6. DOMAIN w = Slots(c)
  BY <1>3
<1>7. u = [s \in Slots(c) |-> u[s]]
  BY <1>6 DEF Orthogonalised
<1>8. \A s \in Slots(c) : Solved[i][s] = IF s = Slot(m, c) THEN {solution} ELSE u[s]
  BY <1>5, <1>7
<1>9. Solved[i] = [s \in Slots(c) |-> Solved[i][s]]
  BY <1>5, <1>7
<1> HIDE DEF u, w, m, c
<1>10. ASSUME NEW s \in Slots(c), s < m + 1 \/ s = 0, NEW e \in Solved[i][s]
       PROVE  e.serial = serial /\ e.phi = obj[y].phi
  <2>1. CASE s = Slot(m, c)
    BY <1>2, <1>8, <1>10, <2>1
  <2>2. CASE s # Slot(m, c)
    <3>1. e \in u[s]
      BY <1>8, <1>10, <2>2
    <3>2. s \in Nat
      BY <1>3 DEF Slots
    <3>3. s < m \/ s = 0
      <4>1. s # m
        BY <1>3, <2>2, SlotInRing
      <4> QED BY <1>3, <1>10, <3>2, <4>1
    <3>4. e \in w[s] \/ \E t \in Slots(c) : t < m /\ e \in w[t]
      BY <1>3, <1>6, <3>1, OrthogonalFrom DEF u
    <3> QED BY <1>4, <3>3, <3>4
  <2> QED BY <2>1, <2>2
<1> QED BY <1>9, <1>10 DEF m, c

-----------------------------------------------------------------------------
(* Molecular dynamics.                                                     *)

LEMMA EvolvedNext ==
  ASSUME Types, NEW p \in DOMAIN schedule
  PROVE  Evolved(p + 1) = Evolved(p) \cup
           (IF schedule[p].op = "evolve" THEN {ActionOf[schedule[p].leaf]} ELSE {})
<1>1. p \in Nat \ {0}
  BY ScheduleStarts
<1>2. 1..(p + 1 - 1) = (1..(p - 1)) \cup {p}
  BY <1>1
<1> QED BY <1>2 DEF Evolved

\* The schedule of a tree evolves all its leaves.
LEMMA AllEvolved ==
  ASSUME Types, NEW x \in Actions
  PROVE  x \in Evolved(Len(schedule) + 1)
<1>1. PICK l \in LeafSet : ActionOf[l] = x
  BY LeafOfAction
<1>2. PICK q \in DOMAIN schedule : schedule[q].op = "evolve" /\ schedule[q].leaf = l
  BY PseudoFermionsAssumption DEF Types
<1>3. q \in 1..(Len(schedule) + 1 - 1)
  BY ScheduleStarts
<1> QED BY <1>1, <1>2, <1>3 DEF Evolved

LEMMA CalledSteps ==
  ASSUME Types, Place, Evolving, Called
  PROVE  \/ /\ pos = Len(schedule) /\ pos' = 1
            /\ pc' = IF pc = "evolve" THEN "h_final" ELSE "h_back"
         \/ pc' = pc /\ pos' = pos + 1 /\ pos' \in DOMAIN schedule
<1>1. pos \in 1..Len(schedule) /\ Len(schedule) \in Nat
      /\ DOMAIN schedule = 1..Len(schedule)
  BY ScheduleStarts DEF Place
<1>2. CASE pos = Len(schedule)
  BY <1>2 DEF Called, Evolving
<1>3. CASE pos # Len(schedule)
  <2>1. pc' = pc /\ pos' = pos + 1
    BY <1>3 DEF Called
  <2> DEFINE n == Len(schedule)
  <2>2. pos \in 1..n /\ n \in Nat /\ pos # n
    BY <1>1, <1>3
  <2> HIDE DEF n
  <2>3. pos + 1 \in 1..n
    BY <2>2
  <2> QED BY <1>1, <2>1, <2>3 DEF n
<1> QED BY <1>2, <1>3

LEMMA StepCalls == Stepped => Called \/ UNCHANGED <<pc, pos>>
BY DEF Stepped

\* A call of evolve or one of its steps.
LEMMA MdStep ==
  ASSUME IInv, Evolving, Types',
         UNCHANGED <<schedule, range, splitCheck, saved, rng, serial>>,
         Called \/ UNCHANGED <<pc, pos>>,
         IsSeq(log)', LogOfTest',
         \A x \in Actions : Chronological(x) =>
           (HistoryOfTest(x, obj[x]) => HistoryOfTest(x, obj[x])'),
         \A x \in Actions :
           (FlagsEvolved(x, obj[x]) \/ (x = a /\ call.op = "evolve")) =>
              FlagsEvolved(x, obj[x])'
  PROVE  IInv'
<1>1. Types /\ Place /\ pc \in {"evolve", "evolve_back"}
  BY DEF IInv, Evolving
<1> PICK p \in DOMAIN schedule : p = pos
  BY <1>1, CallDue
<1>2. \/ UNCHANGED <<pc, pos>>
      \/ /\ p = Len(schedule) /\ pos' = 1
         /\ pc' = IF pc = "evolve" THEN "h_final" ELSE "h_back"
      \/ pc' = pc /\ pos' = p + 1 /\ pos' \in DOMAIN schedule
  BY <1>1, CalledSteps
<1>3. pc' \in {"evolve", "evolve_back", "h_final", "h_back"}
      /\ (pc' \in {"evolve", "evolve_back"} => pc' = pc)
      /\ (pc' \in {"h_final", "h_back"} => pos' = 1 /\ p = Len(schedule))
  BY <1>1, <1>2
<1>4. Place'
  BY <1>1, <1>2, <1>3, LeavesLength DEF Place, ByLeaf, Energies, Evolving
<1>5. PolesInv'
  BY <1>1, <1>3, PolesFrame DEF IInv, AfterHeatbath
<1>6. HistoryInv'
  <2>1. \A x \in Actions : Chronological(x) => HistoryOfTest(x, obj[x])'
    BY <1>1 DEF IInv, HistoryInv
  <2> QED BY <1>3, <2>1 DEF HistoryInv, NewTest
<1>7. DrawsInv'
  BY <1>3 DEF DrawsInv
<1>8. \A x \in Evolved(p) : x \in Actions => FlagsEvolved(x, obj[x])'
  BY <1>1 DEF IInv, FlagsInv
<1>9. \A x \in Evolved(p + 1) : x \in Actions => FlagsEvolved(x, obj[x])'
  <2>1. schedule[p].op = "evolve" => call.op = "evolve" /\ a = ActionOf[schedule[p].leaf]
    BY <1>1, CallDue DEF a, leaf, call
  <2> QED BY <1>1, <1>8, <2>1, EvolvedNext
<1>10. FlagsInv'
  <2>2. CASE pc' = pc
    <3>1. Evolved(pos)' \subseteq Evolved(p) \cup Evolved(p + 1)
      <4>1. pos' = p \/ pos' = p + 1
        BY <1>1, <1>2, <1>3, <2>2
      <4> QED BY <4>1 DEF Evolved
    <3> QED BY <1>1, <1>8, <1>9, <2>2, <3>1 DEF FlagsInv, Evolving, Energies
  <2>3. CASE pc' \in {"h_final", "h_back"}
    <3>1. \A x \in Actions : FlagsEvolved(x, obj[x])'
      BY <1>1, <1>3, <1>9, <2>3, AllEvolved
    <3>2. Seen(pos') = {}
      BY <1>3, <2>3, BeforeFirst
    <3> QED BY <2>3, <3>1, <3>2 DEF FlagsInv, FlagsEvolved, Evolving, Energies
  <2> QED BY <1>3, <2>2, <2>3
<1>11. TermsInv'
  <2>1. CASE pc' \in {"h_final", "h_back"}
    <3>1. Total' = <<>> /\ Seen(pos') = {}
      BY <1>3, <2>1, BeforeFirst DEF Total
    <3>2. Cardinality(Seen(pos')) = 0 /\ Len(Total') = 0 /\ <<>> \in Seq({})
      BY <3>1, FS_EmptySet
    <3> QED BY <3>1, <3>2 DEF TermsInv, IsSeq
  <2>2. CASE pc' \notin {"h_final", "h_back"}
    BY <1>3, <2>2 DEF TermsInv, Energies
  <2> QED BY <2>1, <2>2
<1> QED BY <1>4, <1>5, <1>6, <1>7, <1>10, <1>11 DEF IInv

\* A call that leaves the actions alone.
LEMMA QuietStep ==
  ASSUME IInv, Evolving, Called \/ UNCHANGED <<pc, pos>>,
         UNCHANGED <<schedule, range, splitCheck, obj, saved, rng, serial, log>>,
         call.op = "evolve" => a \in Actions /\ Boson(a)
  PROVE  IInv'
<1>1. Types /\ Place /\ pc \in {"evolve", "evolve_back"} /\ HistoryInv
  BY DEF IInv, Evolving
<1>2. pc' \in {"evolve", "evolve_back", "h_final", "h_back"}
  BY <1>1, CalledSteps
<1>3. Types'
  BY <1>1, <1>2, TypesFrame DEF Types, Stages
<1>4. IsSeq(log)' /\ LogOfTest'
  BY <1>1, LogFrame DEF HistoryInv, IsSeq
<1>5. \A x \in Actions : HistoryOfTest(x, obj[x]) => HistoryOfTest(x, obj[x])'
  BY DEF HistoryOfTest
<1>6. \A x \in Actions :
        (FlagsEvolved(x, obj[x]) \/ (x = a /\ call.op = "evolve")) =>
           FlagsEvolved(x, obj[x])'
  BY DEF FlagsEvolved, Boson, Rational
<1> QED BY <1>3, <1>4, <1>5, <1>6, MdStep

LEMMA MoveStep ==
  ASSUME IInv, MoveGauge
  PROVE  IInv'
BY QuietStep DEF MoveGauge, input, driver, split

LEMMA PrepareRationalStep ==
  ASSUME IInv, PrepareFgRational
  PROVE  IInv'
BY QuietStep DEF PrepareFgRational, input, driver, split

LEMMA BosonStep ==
  ASSUME IInv, EvolveBoson
  PROVE  IInv'
<1>1. Evolving /\ call.op \in {"prepare", "evolve"} /\ Boson(a)
      /\ UNCHANGED <<schedule, range, splitCheck, obj, saved, rng, serial, log>>
      /\ (Stepped \/ Called)
  BY DEF EvolveBoson, input, driver, split, Boson
<1>2. a \in Actions
  BY <1>1, CallDue DEF IInv
<1> QED BY <1>1, <1>2, QuietStep, StepCalls

LEMMA RationalStep ==
  ASSUME IInv, EvolveRational
  PROVE  IInv'
<1>1. /\ Evolving /\ call.op = "evolve" /\ Rational(a) /\ (Stepped \/ Called)
      /\ UNCHANGED <<schedule, range, splitCheck, saved, rng, serial, log>>
      /\ Called \/ UNCHANGED <<pc, pos>>
  BY StepCalls DEF EvolveRational, input, driver, split
<1>2. Types /\ Place /\ pc \in {"evolve", "evolve_back"} /\ HistoryInv
  BY <1>1 DEF IInv, Evolving
<1>3. a \in Actions
  BY <1>1, <1>2, CallDue
<1> PICK y \in Actions : y = a
  BY <1>3
<1> DEFINE r == [obj[y] EXCEPT !.evolved = TRUE, !.heatbathEval = FALSE,
                               !.energyEval = FALSE, !.md_steps = @ + 1]
<1>4. obj' = [obj EXCEPT ![y] = r]
  <2>1. obj' = [obj EXCEPT ![y].evolved = TRUE, ![y].heatbathEval = FALSE,
                           ![y].energyEval = FALSE, ![y].md_steps = @ + 1]
    BY DEF EvolveRational, HeatbathEvalAfterMd
  <2>2. obj = [x \in Actions |-> obj[x]]
    BY <1>2 DEF Types
  <2> QED BY <2>1, <2>2
<1>5. /\ IsObj(y, r) /\ r.evolved /\ ~r.heatbathEval /\ ~r.energyEval
      /\ r.phi = obj[y].phi
  <2>1. IsObj(y, obj[y])
    BY <1>2 DEF Types
  <2>2. obj[y] = [f \in Fields |-> obj[y][f]] /\ obj[y].md_steps + 1 \in Nat
    BY <2>1 DEF IsObj
  <2>3. /\ r = [f \in Fields |-> r[f]]
        /\ r.evolved = TRUE /\ r.heatbathEval = FALSE /\ r.energyEval = FALSE
        /\ r.md_steps = obj[y].md_steps + 1 /\ r.h_init = obj[y].h_init
        /\ r.fg_forecast = obj[y].fg_forecast
        /\ r.phi = obj[y].phi /\ r.v = obj[y].v
    BY <2>2 DEF Fields
  <2> HIDE DEF r
  <2>4. IsObj(y, r)
    <3>1. r.md_steps \in Nat /\ r.phi \in Nat /\ r.fg_forecast \in BOOLEAN
      BY <2>1, <2>2, <2>3 DEF IsObj
    <3>2. r.v = [i \in Masses(y) |-> r.v[i]]
      BY <2>1, <2>3 DEF IsObj
    <3>3. \A i \in Masses(y) : r.v[i] = [s \in Slots(Chrono[y][i]) |-> r.v[i][s]]
      <4>1. \A i \in Masses(y) :
              obj[y].v[i] = [s \in Slots(Chrono[y][i]) |-> obj[y].v[i][s]]
        BY <2>1 DEF IsObj
      <4>2. r.v = obj[y].v
        BY <2>3
      <4> QED BY <4>1, <4>2
    <3> QED BY <2>3, <3>1, <3>2, <3>3 DEF IsObj
  <2> QED BY <2>3, <2>4
<1> HIDE DEF r
<1>6. pc' \in {"evolve", "evolve_back", "h_final", "h_back"}
  BY <1>1, <1>2, CalledSteps
<1>7. Types' /\ \A x \in Actions : obj'[x] = IF x = y THEN r ELSE obj[x]
  <2>1. rng' \in Nat /\ pc' \in Stages
    BY <1>1, <1>2, <1>6 DEF Types, Stages
  <2> QED BY <1>1, <1>2, <1>4, <1>5, <2>1, TypesObj
<1>8. IsSeq(log)' /\ LogOfTest'
  BY <1>1, <1>2, <1>5, <1>7, LogFrame DEF HistoryInv, IsSeq
<1>9. \A x \in Actions : Chronological(x) =>
        (HistoryOfTest(x, obj[x]) => HistoryOfTest(x, obj[x])')
  <2> SUFFICES ASSUME NEW x \in Actions, Chronological(x), HistoryOfTest(x, obj[x])
               PROVE  HistoryOfTest(x, obj[x])'
    OBVIOUS
  <2>1. x # y
    BY <1>1 DEF Chronological, Rational
  <2>2. obj'[x] = obj[x] /\ serial' = serial
    BY <1>1, <1>7, <2>1
  <2> QED BY <2>2 DEF HistoryOfTest
<1>10. \A x \in Actions :
         (FlagsEvolved(x, obj[x]) \/ (x = a /\ call.op = "evolve")) =>
            FlagsEvolved(x, obj[x])'
  BY <1>5, <1>7 DEF FlagsEvolved, Boson, Rational
<1> QED BY <1>1, <1>7, <1>8, <1>9, <1>10, MdStep

\* A solve: the action becomes r, and the guesses are noted in the log.
LEMMA SolveStep ==
  ASSUME IInv, Evolving, Called \/ UNCHANGED <<pc, pos>>,
         UNCHANGED <<schedule, range, splitCheck, saved, rng, serial>>,
         NEW y \in Actions, y = a, Chronological(y),
         NEW forecast \in BOOLEAN, log' = Guesses(forecast),
         NEW r, obj' = [obj EXCEPT ![y] = r], IsObj(y, r),
         r.v = Solved, r.phi = obj[y].phi, r.md_steps = obj[y].md_steps + 1,
         call.op = "evolve" \/ obj[y].evolved => r.evolved
  PROVE  IInv'
<1>1. Types /\ Place /\ pc \in {"evolve", "evolve_back"} /\ HistoryInv
  BY DEF IInv, Evolving
<1>2. HistoryOfTest(y, obj[y])
  BY <1>1 DEF HistoryInv
<1>3. pc' \in {"evolve", "evolve_back", "h_final", "h_back"}
  BY <1>1, CalledSteps
<1>4. Types' /\ \A x \in Actions : obj'[x] = IF x = y THEN r ELSE obj[x]
  <2>1. rng' \in Nat /\ pc' \in Stages
    BY <1>1, <1>3 DEF Types, Stages
  <2> QED BY <1>1, <2>1, TypesObj
<1>5. \A x \in Actions : obj'[x].phi = obj[x].phi
  BY <1>4
<1>6. IsSeq(log)' /\ LogOfTest'
  <2> DEFINE guess == [of    |-> a,
                       used  |-> [i \in Masses(a) |-> Used(forecast, i)],
                       given |-> [i \in Masses(a) |-> Given(forecast, i)]]
  <2>1. log' = Append(log, guess)
    BY DEF Guesses
  <2>2. guess.of = y /\ \A i \in DOMAIN guess.used : i \in Masses(y)
          /\ guess.used[i] = Used(forecast, i)
    OBVIOUS
  <2> HIDE DEF guess
  <2>3. \A i \in DOMAIN guess.used : \A e \in guess.used[i] :
          e.serial = serial /\ e.phi = obj[y].phi
    BY <1>1, <1>2, <2>2, GuessOfTest
  <2>4. PICK S : log \in Seq(S)
    BY <1>1 DEF HistoryInv, IsSeq
  <2> DEFINE T == S \cup {guess}
  <2>5. log \in Seq(T) /\ guess \in T
    BY <2>4
  <2> HIDE DEF T
  <2>6. log' \in Seq(T) /\ Len(log) \in Nat /\ DOMAIN log = 1..Len(log)
        /\ DOMAIN log' = 1..(Len(log) + 1)
        /\ \A p \in 1..(Len(log) + 1) :
             log'[p] = IF p = Len(log) + 1 THEN guess ELSE log[p]
    BY <2>1, <2>5
  <2>7. LogOfTest
    BY <1>1 DEF HistoryInv
  <2>8. ASSUME NEW p \in DOMAIN log'
        PROVE  /\ log'[p].of \in Actions
               /\ \A i \in DOMAIN log'[p].used : \A e \in log'[p].used[i] :
                    e.serial = serial' /\ e.phi = obj'[log'[p].of].phi
    <3>1. CASE p = Len(log) + 1
      BY <1>5, <2>2, <2>3, <2>6, <3>1
    <3>2. CASE p # Len(log) + 1
      <4>1. p \in DOMAIN log /\ log'[p] = log[p]
        BY <2>6, <3>2
      <4> QED BY <1>5, <2>7, <4>1 DEF LogOfTest
    <3> QED BY <3>1, <3>2
  <2> QED BY <2>6, <2>8 DEF LogOfTest, IsSeq
<1>7. \A x \in Actions : Chronological(x) =>
        (HistoryOfTest(x, obj[x]) => HistoryOfTest(x, obj[x])')
  <2> SUFFICES ASSUME NEW x \in Actions, HistoryOfTest(x, obj[x])
               PROVE  HistoryOfTest(x, obj[x])'
    OBVIOUS
  <2>1. CASE x = y
    <3>1. obj'[x] = r
      BY <1>4, <2>1
    <3>2. \A i \in Masses(y) : \A s \in Slots(Chrono[y][i]) :
            (s < obj[y].md_steps + 1 \/ s = 0) =>
               \A e \in Solved[i][s] : e.serial = serial /\ e.phi = obj[y].phi
      BY <1>1, <1>2, SolvedOfTest
    <3>3. \A i \in Masses(y) : \A s \in Slots(Chrono[y][i]) :
            (s < r.md_steps \/ s = 0) =>
               \A e \in r.v[i][s] : e.serial = serial' /\ e.phi = r.phi
      BY <3>2
    <3> QED BY <2>1, <3>1, <3>3 DEF HistoryOfTest
  <2>2. CASE x # y
    <3>1. obj'[x] = obj[x]
      BY <1>4, <2>2
    <3> QED BY <3>1 DEF HistoryOfTest
  <2> QED BY <2>1, <2>2
<1>8. \A x \in Actions :
        (FlagsEvolved(x, obj[x]) \/ (x = a /\ call.op = "evolve")) =>
           FlagsEvolved(x, obj[x])'
  BY <1>4 DEF FlagsEvolved, Boson, Rational, Chronological
<1> QED BY <1>1, <1>4, <1>6, <1>7, <1>8, MdStep

\* A solve replaces the contents of the vectors.
LEMMA SolvedShape ==
  ASSUME Types, NEW y \in Actions, y = a, NEW i \in Masses(y)
  PROVE  Solved[i] = [s \in Slots(Chrono[y][i]) |-> Solved[i][s]]
<1> DEFINE w == obj[y].v[i]
           m == obj[y].md_steps
           c == Chrono[y][i]
           u == Orthogonalised(w, m, c)
           e == [serial |-> serial, md |-> o.md_steps, phi |-> o.phi, gauge |-> gauge]
<1>1. w = [s \in Slots(c) |-> w[s]]
  BY DEF Types, IsObj
<1>2. u = [s \in Slots(c) |-> u[s]]
  BY <1>1 DEF Orthogonalised
<1>3. Solved[i] = [u EXCEPT ![Slot(m, c)] = {e}]
  BY DEF Solved, o
<1> HIDE DEF u, w, m, c, e
<1>4. Solved[i] = [s \in Slots(c) |-> Solved[i][s]]
  BY <1>2, <1>3
<1> QED BY <1>4 DEF c

LEMMA PrepareStep ==
  ASSUME IInv, PrepareFg
  PROVE  IInv'
<1>1. /\ Evolving /\ call.op = "prepare" /\ Chronological(a) /\ Called
      /\ UNCHANGED <<schedule, range, splitCheck, saved, rng, serial>>
      /\ log' = Guesses(FALSE)
  BY DEF PrepareFg, input, driver, split
<1>2. Types /\ Place
  BY DEF IInv
<1>3. a \in Actions
  BY <1>1, <1>2, CallDue
<1> PICK y \in Actions : y = a
  BY <1>3
<1> DEFINE u == Solved
           r == [obj[y] EXCEPT !.v = u, !.fg_forecast = TRUE, !.md_steps = @ + 1]
<1>4. /\ u = [i \in Masses(y) |-> u[i]]
      /\ \A i \in Masses(y) : u[i] = [s \in Slots(Chrono[y][i]) |-> u[i][s]]
  <2>1. u = [i \in Masses(y) |-> u[i]]
    BY DEF Solved
  <2>2. \A i \in Masses(y) : u[i] = [s \in Slots(Chrono[y][i]) |-> u[i][s]]
    BY <1>2, SolvedShape
  <2> QED BY <2>1, <2>2
<1>5. obj' = [obj EXCEPT ![y] = r]
  <2>1. obj' = [obj EXCEPT ![y].v = u, ![y].fg_forecast = TRUE, ![y].md_steps = @ + 1]
    BY DEF PrepareFg
  <2>2. obj = [x \in Actions |-> obj[x]]
    BY <1>2 DEF Types
  <2> HIDE DEF u
  <2> QED BY <2>1, <2>2
<1> HIDE DEF u
<1>6. /\ IsObj(y, r) /\ r.v = u /\ r.phi = obj[y].phi
      /\ r.md_steps = obj[y].md_steps + 1 /\ r.evolved = obj[y].evolved
  <2>1. IsObj(y, obj[y])
    BY <1>2 DEF Types
  <2>2. obj[y] = [f \in Fields |-> obj[y][f]] /\ obj[y].md_steps + 1 \in Nat
    BY <2>1 DEF IsObj
  <2>3. /\ r = [f \in Fields |-> r[f]]
        /\ r.v = u /\ r.fg_forecast = TRUE /\ r.md_steps = obj[y].md_steps + 1
        /\ r.evolved = obj[y].evolved /\ r.phi = obj[y].phi /\ r.h_init = obj[y].h_init
        /\ r.heatbathEval = obj[y].heatbathEval
        /\ r.energyEval = obj[y].energyEval
    BY <2>2 DEF Fields
  <2> HIDE DEF r
  <2>4. IsObj(y, r)
    BY <1>4, <2>1, <2>2, <2>3 DEF IsObj
  <2> QED BY <2>3, <2>4
<1> HIDE DEF r
<1>7. r.v = Solved
  BY <1>6 DEF u
<1> QED BY <1>1, <1>5, <1>6, <1>7, SolveStep

LEMMA EvolveStep ==
  ASSUME IInv, Evolve
  PROVE  IInv'
<1>1. /\ Evolving /\ call.op = "evolve" /\ Chronological(a) /\ Stepped
      /\ UNCHANGED <<schedule, range, splitCheck, saved, rng, serial>>
      /\ log' = Guesses(o.fg_forecast)
  BY DEF Evolve, input, driver, split
<1>2. Types /\ Place
  BY DEF IInv
<1>3. a \in Actions
  BY <1>1, <1>2, CallDue
<1> PICK y \in Actions : y = a
  BY <1>3
<1> DEFINE u == Solved
           r == [obj[y] EXCEPT !.v = u, !.fg_forecast = FALSE, !.md_steps = @ + 1,
                               !.evolved = TRUE]
<1>4. /\ u = [i \in Masses(y) |-> u[i]]
      /\ \A i \in Masses(y) : u[i] = [s \in Slots(Chrono[y][i]) |-> u[i][s]]
  <2>1. u = [i \in Masses(y) |-> u[i]]
    BY DEF Solved
  <2>2. \A i \in Masses(y) : u[i] = [s \in Slots(Chrono[y][i]) |-> u[i][s]]
    BY <1>2, SolvedShape
  <2> QED BY <2>1, <2>2
<1>5. obj' = [obj EXCEPT ![y] = r]
  <2>1. obj' = [obj EXCEPT ![y].v = u, ![y].fg_forecast = FALSE, ![y].md_steps = @ + 1,
                           ![y].evolved = TRUE]
    BY DEF Evolve
  <2>2. obj = [x \in Actions |-> obj[x]]
    BY <1>2 DEF Types
  <2> HIDE DEF u
  <2> QED BY <2>1, <2>2
<1> HIDE DEF u
<1>6. /\ IsObj(y, r) /\ r.v = u /\ r.phi = obj[y].phi
      /\ r.md_steps = obj[y].md_steps + 1 /\ r.evolved
      /\ o.fg_forecast \in BOOLEAN
  <2>1. IsObj(y, obj[y])
    BY <1>2 DEF Types
  <2>2. obj[y] = [f \in Fields |-> obj[y][f]] /\ obj[y].md_steps + 1 \in Nat
    BY <2>1 DEF IsObj
  <2>3. /\ r = [f \in Fields |-> r[f]]
        /\ r.v = u /\ r.fg_forecast = FALSE /\ r.md_steps = obj[y].md_steps + 1
        /\ r.evolved = TRUE /\ r.phi = obj[y].phi /\ r.h_init = obj[y].h_init
        /\ r.heatbathEval = obj[y].heatbathEval
        /\ r.energyEval = obj[y].energyEval
    BY <2>2 DEF Fields
  <2> HIDE DEF r
  <2>4. IsObj(y, r)
    BY <1>4, <2>1, <2>2, <2>3 DEF IsObj
  <2>5. o.fg_forecast \in BOOLEAN
    BY <2>1 DEF IsObj, o
  <2> QED BY <2>3, <2>4, <2>5
<1> HIDE DEF r
<1>7. r.v = Solved
  BY <1>6 DEF u
<1> QED BY <1>1, <1>5, <1>6, <1>7, SolveStep, StepCalls

-----------------------------------------------------------------------------
(* The ends of an evolution, of a test and of a trajectory.                *)

LEMMA SaveFinalStep ==
  ASSUME IInv, SaveFinalState
  PROVE  IInv'
<1>1. /\ UNCHANGED <<schedule, range, splitCheck, obj, rng, saved, log, serial, pos>>
      /\ pc = "end_forward" /\ pc' \in {"evolve_back", "end_test"} /\ pos = 1
  BY DEF SaveFinalState, input, split, IInv, Place, ByLeaf, Energies, Evolving
<1>2. Types'
  BY <1>1, TypesFrame DEF IInv, Types, Stages
<1>3. Place'
  BY <1>1, ScheduleStarts DEF IInv, Place, ByLeaf, Energies, Evolving
<1>4. PolesInv'
  BY <1>1, PolesFrame DEF IInv, AfterHeatbath
<1>5. HistoryInv'
  <2>1. IsSeq(log)' /\ LogOfTest'
    BY <1>1, LogFrame DEF IInv, HistoryInv, IsSeq
  <2>2. \A x \in Actions : Chronological(x) => HistoryOfTest(x, obj[x])
    BY <1>1 DEF IInv, HistoryInv
  <2>3. \A x \in Actions : Chronological(x) => HistoryOfTest(x, obj[x])'
    BY <1>1, <2>2 DEF HistoryOfTest
  <2> QED BY <1>1, <2>1, <2>3 DEF HistoryInv, NewTest
<1>6. DrawsInv' /\ TermsInv'
  BY <1>1 DEF DrawsInv, TermsInv, Energies
<1>7. FlagsInv'
  <2>1. Evolved(1)' = {}
    BY DEF Evolved
  <2> QED BY <1>1, <2>1 DEF IInv, FlagsInv, Evolving, Energies
<1> QED BY <1>2, <1>3, <1>4, <1>5, <1>6, <1>7 DEF IInv

\* A stage without leaves is followed by another or by init, with the actions
\* as they are.
LEMMA NextStage ==
  ASSUME IInv, pc \in {"end_test", "metropolis"},
         pc' \in {"init", "metropolis", "save", "done"},
         UNCHANGED <<schedule, range, splitCheck, obj, saved, log, serial, pos>>,
         rng' \in Nat
  PROVE  IInv'
<1>1. pos = 1
  BY DEF IInv, Place, ByLeaf, Energies, Evolving
<1>2. Types'
  BY TypesFrame DEF IInv, Types, Stages
<1>3. Place'
  BY <1>1, LeavesLength DEF Place, ByLeaf, Energies, Evolving
<1>4. PolesInv'
  BY PolesFrame DEF IInv, AfterHeatbath
<1>5. HistoryInv'
  <2>1. IsSeq(log)' /\ LogOfTest'
    BY LogFrame DEF IInv, HistoryInv, IsSeq
  <2> QED BY <1>1, <2>1, BeforeFirst DEF HistoryInv, NewTest
<1>6. DrawsInv' /\ TermsInv'
  BY DEF DrawsInv, TermsInv, Energies
<1>7. FlagsInv'
  BY DEF IInv, FlagsInv, Evolving, Energies
<1> QED BY <1>2, <1>3, <1>4, <1>5, <1>6, <1>7 DEF IInv

LEMMA EndTestStep ==
  ASSUME IInv, EndTest
  PROVE  IInv'
BY NextStage DEF EndTest, input, split, IInv, Types

LEMMA MetropolisStep ==
  ASSUME IInv, Metropolis
  PROVE  IInv'
<1>1. rng' \in Nat
  BY DEF Metropolis, IInv, Types
<1> QED BY <1>1, NextStage DEF Metropolis, input, split

-----------------------------------------------------------------------------
(* The invariant.                                                          *)

LEMMA NewObjIsObj ==
  ASSUME NEW x \in Actions
  PROVE  IsObj(x, NewObj(x)) /\ ~NewObj(x).heatbathEval
<1> DEFINE u == [i \in Masses(x) |-> [s \in Slots(Chrono[x][i]) |->
                   IF s = 0 THEN {} ELSE {Unwritten}]]
           h == [of |-> x, phi |-> 0, gauge |-> 0]
           r == NewObj(x)
<1>1. r = [evolved |-> TRUE, heatbathEval |-> FALSE, energyEval |-> FALSE,
           h_init |-> h, fg_forecast |-> FALSE, md_steps |-> 0, phi |-> 0, v |-> u]
  BY DEF NewObj
<1>2. /\ u = [i \in Masses(x) |-> u[i]]
      /\ \A i \in Masses(x) : u[i] = [s \in Slots(Chrono[x][i]) |-> u[i][s]]
  OBVIOUS
<1> HIDE DEF u, h, r
<1>3. /\ r = [f \in Fields |-> r[f]]
      /\ r.evolved = TRUE /\ r.heatbathEval = FALSE /\ r.energyEval = FALSE
      /\ r.fg_forecast = FALSE /\ r.md_steps = 0 /\ r.phi = 0 /\ r.v = u
  BY <1>1 DEF Fields
<1>4. IsObj(x, r)
  <2>1. /\ r.v = [i \in Masses(x) |-> r.v[i]]
        /\ \A i \in Masses(x) : r.v[i] = [s \in Slots(Chrono[x][i]) |-> r.v[i][s]]
    BY <1>2, <1>3
  <2>2. r.md_steps \in Nat /\ r.phi \in Nat
    BY <1>3
  <2> QED BY <1>3, <2>1, <2>2 DEF IsObj
<1> QED BY <1>3, <1>4 DEF r

LEMMA InitIInv ==
  ASSUME Init
  PROVE  IInv
<1>1. /\ schedule \in Schedules /\ pc = "construct" /\ pos = 1
      /\ obj = [x \in Actions |-> NewObj(x)] /\ log = <<>>
      /\ splitCheck = [x \in Actions |-> {}]
  BY DEF Init
<1>2. Types
  <2>1. obj = [x \in Actions |-> obj[x]] /\ \A x \in Actions : IsObj(x, obj[x])
    BY <1>1, NewObjIsObj
  <2>2. rng \in Nat /\ saved.rng \in Nat
    BY DEF Init
  <2>3. splitCheck \in [Actions -> SUBSET Int]
    BY <1>1
  <2> QED BY <1>1, <2>1, <2>2, <2>3 DEF Types, Init, Stages
<1>3. Place
  BY <1>1, LeavesLength DEF Place, ByLeaf, Energies, Evolving
<1>4. PolesInv
  <2>1. \A x \in Actions : Splits(Before(1), x) = {} /\ splitCheck[x] = {}
    BY <1>1, BeforeFirst DEF Splits
  <2> QED BY <1>1, <2>1 DEF PolesInv, Constructed, AfterHeatbath
<1>5. HistoryInv
  <2>1. log \in Seq({})
    BY <1>1
  <2>2. IsSeq(log)
    BY <2>1 DEF IsSeq
  <2> QED BY <1>1, <2>2 DEF HistoryInv, LogOfTest, NewTest
<1>6. DrawsInv /\ TermsInv
  BY <1>1 DEF DrawsInv, TermsInv, Energies
<1>7. FlagsInv
  BY <1>1, NewObjIsObj DEF FlagsInv, Evolving, Energies
<1> QED BY <1>2, <1>3, <1>4, <1>5, <1>6, <1>7 DEF IInv

LEMMA StutterStep ==
  ASSUME IInv, UNCHANGED vars
  PROVE  IInv'
<1>1. UNCHANGED <<schedule, range, splitCheck, obj, gauge, rng, saved, pc, pos,
                  terms, log, serial>>
  BY DEF vars
<1>2. Types' /\ Place'
  BY <1>1 DEF IInv, Types, Place, Evolving
<1>3. PolesInv'
  <2>1. \A L : Constructed(L) <=> Constructed(L)'
    BY <1>1 DEF Constructed, Poles
  <2>2. \A L : Checked(L) <=> Checked(L)'
    BY <1>1 DEF Checked
  <2> QED BY <1>1, <2>1, <2>2 DEF IInv, PolesInv
<1>4. HistoryInv'
  BY <1>1 DEF IInv, HistoryInv, LogOfTest, HistoryOfTest
<1>5. DrawsInv' /\ TermsInv'
  BY <1>1 DEF IInv, DrawsInv, TermsInv, Total, Current
<1>6. FlagsInv'
  BY <1>1 DEF IInv, FlagsInv, Evolving, Evolved, Current
<1> QED BY <1>2, <1>3, <1>4, <1>5, <1>6 DEF IInv

LEMMA NextStep ==
  ASSUME IInv, [Next]_vars
  PROVE  IInv'
<1>1. CASE Construct
  BY <1>1, ConstructStep
<1>2. CASE ConstructFails \/ HeatbathFails \/ PrepareFgFails
  BY <1>2, StopStep DEF ConstructFails, HeatbathFails, PrepareFgFails
<1>3. CASE SaveInitialState
  BY <1>3, SaveStep
<1>4. CASE InitLeaf
  BY <1>4, InitStep
<1>5. CASE RestoreInitialState
  BY <1>5, RestoreStep
<1>6. CASE Heatbath \/ HeatbathRational
  BY <1>6, HeatbathStep
<1>7. CASE Energy \/ EnergyCounted
  BY <1>7, EnergyStep
<1>8. CASE MoveGauge
  BY <1>8, MoveStep
<1>9. CASE PrepareFg
  BY <1>9, PrepareStep
<1>10. CASE Evolve
  BY <1>10, EvolveStep
<1>11. CASE PrepareFgRational
  BY <1>11, PrepareRationalStep
<1>12. CASE EvolveRational
  BY <1>12, RationalStep
<1>13. CASE EvolveBoson
  BY <1>13, BosonStep
<1>14. CASE SaveFinalState
  BY <1>14, SaveFinalStep
<1>15. CASE EndTest
  BY <1>15, EndTestStep
<1>16. CASE Metropolis
  BY <1>16, MetropolisStep
<1>17. CASE UNCHANGED vars
  BY <1>17, StutterStep
<1> QED
  BY <1>1, <1>2, <1>3, <1>4, <1>5, <1>6, <1>7, <1>8, <1>9, <1>10, <1>11, <1>12,
     <1>13, <1>14, <1>15, <1>16, <1>17 DEF Next

\* The leaf, the flags, the poles, the draws, the vectors and the sum are at all
\* times what the calls so far have made of them (IInv is inductive).
THEOREM Invariance == Spec => []IInv
<1>1. Init => IInv
  BY InitIInv
<1>2. IInv /\ [Next]_vars => IInv'
  BY NextStep
<1> QED BY <1>1, <1>2, PTL DEF Spec

-----------------------------------------------------------------------------
(* The properties.                                                         *)

\* The solver is only ever started from solutions of the same test and the same
\* pseudofermion field, for every number of earlier solutions that is kept and
\* every order of prepare_fg and evolve.
THEOREM OnlyThisTest == Spec => []GuessesOfThisTest
<1>1. IInv => GuessesOfThisTest
  BY DEF IInv, HistoryInv, LogOfTest, GuessesOfThisTest
<1> QED BY <1>1, Invariance, PTL

\* Every set of splits that passes setSplit and checkSplit evolves each pole of
\* the rational approximation exactly once.
THEOREM EachPoleOnce == Spec => []PolesPartitioned
<1>1. ASSUME IInv, pc \in {"evolve", "evolve_back"},
             NEW x \in Actions, Rational(x), NEW j \in 0..(Degree[x] - 1)
      PROVE  \E l \in LeafSet :
               \A k \in LeafSet : ActionOf[k] = x => (j \in Poles(k) <=> k = l)
  <2>1. Constructed(LeafSet) /\ Checked(LeafSet)
    BY <1>1 DEF IInv, PolesInv, AfterHeatbath
  <2>2. CASE x \in LeafSet /\ ActionOf[x] = x
    <3>1. ~Split(x)
      BY <2>2 DEF Split
    <3>2. range[x] = <<0, Degree[x]>>
      BY <1>1, <2>2, <3>1 DEF IInv, Types
    <3>3. j \in Poles(x)
      BY <3>2 DEF Poles
    <3>4. \A k \in LeafSet : ActionOf[k] = x => k = x
      BY <2>2, WholeAction
    <3> QED BY <2>2, <3>3, <3>4
  <2>3. CASE ~(x \in LeafSet /\ ActionOf[x] = x)
    <3>1. \A k \in LeafSet : ActionOf[k] = x => Split(k)
      BY <2>3 DEF Split
    <3>2. PICK h \in LeafSet : ActionOf[h] = x
      BY LeafOfAction
    <3>3. splitCheck[x] = 0..(Degree[x] - 1)
      BY <2>1, <3>1, <3>2 DEF Checked
    <3>4. splitCheck[x] = UNION {Poles(l) : l \in Splits(LeafSet, x)}
          /\ \A l, k \in Splits(LeafSet, x) : l # k => Poles(l) \cap Poles(k) = {}
      BY <2>1 DEF Constructed
    <3>5. PICK l \in Splits(LeafSet, x) : j \in Poles(l)
      <4>1. j \in splitCheck[x]
        BY <1>1, <3>3
      <4>2. j \in UNION {Poles(l) : l \in Splits(LeafSet, x)}
        BY <3>4, <4>1
      <4> QED BY <4>2
    <3>6. \A k \in LeafSet : ActionOf[k] = x => k \in Splits(LeafSet, x)
      BY <3>1 DEF Splits
    <3>7. l \in LeafSet
      BY DEF Splits
    <3>8. \A k \in LeafSet : ActionOf[k] = x => (j \in Poles(k) <=> k = l)
      BY <3>4, <3>5, <3>6
    <3> QED BY <3>7, <3>8
  <2> QED BY <2>2, <2>3
<1>2. IInv => PolesPartitioned
  BY <1>1 DEF PolesPartitioned
<1> QED BY <1>2, Invariance, PTL

\* The last leaf of a stage has been visited.
LEMMA LastLeaf ==
  ASSUME IInv, pc \in ByLeaf, NEW s, Visited(s), pc' # pc
  PROVE  Seen(pos + 1) = Actions
BY VisitedSteps DEF IInv

\* A heatbath draws one field for every action, whatever leaves share it, from
\* random numbers of its own.
THEOREM OneDrawForEach == Spec => HeatbathDrawsEachOnce
<1> DEFINE Goal == (pc = "heatbath" /\ pc' = "h_init") =>
                     (/\ rng' = saved.rng + Cardinality(Actions)
                      /\ {obj'[x].phi : x \in Actions} = (saved.rng + 1)..rng')
<1>1. IInv /\ [Next]_vars => Goal
  <2> SUFFICES ASSUME IInv, [Next]_vars, pc = "heatbath", pc' = "h_init"
               PROVE  /\ rng' = saved.rng + Cardinality(Actions)
                      /\ {obj'[x].phi : x \in Actions} = (saved.rng + 1)..rng'
    OBVIOUS
  <2>1. Heatbath \/ HeatbathRational
    BY DEF Next, vars, Evolving, Energies, Stop, Construct, ConstructFails,
           SaveInitialState, InitLeaf, RestoreInitialState, HeatbathFails, Energy,
           EnergyCounted, MoveGauge, PrepareFg, Evolve, PrepareFgRational,
           PrepareFgFails, EvolveRational, EvolveBoson, SaveFinalState, EndTest,
           Metropolis
  <2>2. DrawnTo(pos) /\ Visited("h_init")
    BY <2>1, HeatbathStep, OneDraw
  <2>3. Seen(pos + 1) = Actions
    BY <2>2, LastLeaf DEF ByLeaf
  <2> QED BY <2>2, <2>3 DEF DrawnTo
<1>2. IInv /\ [Next]_vars => [Goal]_vars
  BY <1>1
<1> QED BY <1>2, Invariance, PTL DEF Spec, HeatbathDrawsEachOnce

\* The energy of the tree holds every action once, as the fields are now, though
\* energies are cached and leaves share actions.
THEOREM EachEnergyOnce == Spec => EnergyCountedOnce
<1> DEFINE Goal == (pc \in Energies /\ pc' # pc) =>
                     (/\ Len(terms') = Cardinality(Actions)
                      /\ \A x \in Actions :
                           \E p \in DOMAIN terms' : terms'[p] = Current(x))
<1>1. IInv /\ [Next]_vars => Goal
  <2> SUFFICES ASSUME IInv, [Next]_vars, pc \in Energies, pc' # pc
               PROVE  /\ Len(terms') = Cardinality(Actions)
                      /\ \A x \in Actions :
                           \E p \in DOMAIN terms' : terms'[p] = Current(x)
    OBVIOUS
  <2>1. Energy \/ EnergyCounted
    BY DEF Next, vars, Evolving, Energies, Construct, ConstructFails,
           SaveInitialState, InitLeaf, RestoreInitialState, Heatbath,
           HeatbathRational, HeatbathFails, MoveGauge, PrepareFg, Evolve,
           PrepareFgRational, PrepareFgFails, EvolveRational, EvolveBoson,
           SaveFinalState, EndTest, Metropolis
  <2>2. SumTo(pos) /\ Visited(After(pc))
    BY <2>1, EnergyStep DEF Energy, EnergyCounted
  <2>3. Seen(pos + 1) = Actions
    BY <2>2, LastLeaf DEF ByLeaf
  <2> QED BY <2>2, <2>3 DEF SumTo
<1>2. IInv /\ [Next]_vars => [Goal]_vars
  BY <1>1
<1> QED BY <1>2, Invariance, PTL DEF Spec, EnergyCountedOnce

-----------------------------------------------------------------------------
(* The second test.  What a test has done so far, without its number, is a *)
(* view; each call leads from one view to the next.                        *)

Solvers == {x \in Actions : Chronological(x)}

\* What of vector s, with contents S, was written in m solves.
Kept(m, s, S) == IF s < m \/ s = 0 THEN Names(S) ELSE {}

\* Vector s of w after a solve that found e.
AfterSolve(w, m, c, e, s) ==
  IF s = Slot(m, c) THEN {e} ELSE Orthogonalised(w, m, c)[s]

\* An object r of action x.
Sketch(x, r) ==
  [md |-> r.md_steps, fg |-> r.fg_forecast,
   w |-> [i \in Masses(x) |-> [s \in Slots(Chrono[x][i]) |->
            Kept(r.md_steps, s, r.v[i][s])]]]

Noted(e) ==
  [of |-> e.of, used |-> [i \in DOMAIN e.used |-> Names(e.used[i])]]

NotedLog(l) == [p \in 1..Len(l) |-> Noted(l[p])]

\* Where a test is, apart from sums of energies.
Begins(s) == [pc |-> s, pos |-> 1, step |-> 1]

At ==
  IF Evolving THEN [pc |-> pc, pos |-> pos, step |-> step]
  ELSE IF pc = "h_init" THEN Begins("evolve")
  ELSE IF pc \in {"h_final", "end_forward"} /\ reverse THEN Begins("evolve_back")
  ELSE Begins("end")

View ==
  [at |-> At, gauge |-> gauge, n |-> Len(log), log |-> NotedLog(log),
   of |-> [x \in Solvers |-> Sketch(x, obj[x])]]

NoSketch(x) ==
  [md |-> 0, fg |-> FALSE,
   w |-> [i \in Masses(x) |-> [s \in Slots(Chrono[x][i]) |-> {}]]]

FirstView ==
  [at |-> Begins("evolve"), gauge |-> saved.gauge, n |-> 0, log |-> NotedLog(<<>>),
   of |-> [x \in Solvers |-> NoSketch(x)]]

\* The field that a test draws for an action that is a leaf.
Field(x) ==
  saved.rng + Cardinality(Seen(CHOOSE p \in DOMAIN Leaves : Leaves[p] = x)) + 1

\* The call that is due in view V, and the action it is made to.
CallOf(V)  == schedule[V.at.pos]
ActorOf(V) == ActionOf[CallOf(V).leaf]

Solves(V) ==
  CallOf(V).op \in {"prepare", "evolve"} /\ Chronological(ActorOf(V))

ForecastOf(V) == CallOf(V).op = "evolve" /\ V.of[ActorOf(V)].fg

GuessOf(V, x) ==
  [i \in Masses(x) |->
     IF ForecastOf(V) /\ Deg(V.of[x].md, Chrono[x][i]) = 0 THEN V.of[x].w[i][0]
     ELSE MinRes(V.of[x].w[i], V.of[x].md, Chrono[x][i])]

SolutionOf(V, x) == [md |-> V.of[x].md, phi |-> Field(x), gauge |-> V.gauge]

SolvedBy(V, x) ==
  [md |-> V.of[x].md + 1, fg |-> CallOf(V).op = "prepare",
   w |-> [i \in Masses(x) |-> [s \in Slots(Chrono[x][i]) |->
            AfterSolve(V.of[x].w[i], V.of[x].md, Chrono[x][i], SolutionOf(V, x), s)]]]

MovedBy(V) ==
  CASE CallOf(V).op = "drift"   -> [V.gauge EXCEPT !.traj = traj, !.n = @ + 1]
    [] CallOf(V).op = "shift"   -> [V.gauge EXCEPT !.moved = TRUE]
    [] CallOf(V).op = "restore" -> [V.gauge EXCEPT !.moved = FALSE]
    [] OTHER                    -> V.gauge

ThenAt(V) ==
  IF CallOf(V).op = "evolve" /\ V.at.step # CallOf(V).n
    THEN [pc |-> V.at.pc, pos |-> V.at.pos, step |-> V.at.step + 1]
  ELSE IF V.at.pos # Len(schedule)
    THEN [pc |-> V.at.pc, pos |-> V.at.pos + 1, step |-> 1]
  ELSE IF V.at.pc = "evolve" /\ reverse THEN Begins("evolve_back")
  ELSE Begins("end")

NextView(V) ==
  [at |-> ThenAt(V), gauge |-> MovedBy(V),
   n |-> IF Solves(V) THEN V.n + 1 ELSE V.n,
   log |-> IF Solves(V)
             THEN [p \in 1..(V.n + 1) |->
                     IF p <= V.n THEN V.log[p]
                     ELSE [of |-> ActorOf(V), used |-> GuessOf(V, ActorOf(V))]]
             ELSE V.log,
   of |-> [x \in Solvers |->
             IF Solves(V) /\ x = ActorOf(V) THEN SolvedBy(V, x) ELSE V.of[x]]]

\* The first k views of a test, of which only the last can be its end.
Prefix(s, t) == \A p \in DOMAIN s : p \in DOMAIN t /\ s[p] = t[p]

Views(T, k) ==
  /\ k \in Nat \ {0} /\ T[1] = FirstView
  /\ \A i \in 1..(k - 1) : T[i].at.pc # "end" /\ T[i + 1] = NextView(T[i])
  /\ \A i \in 1..k : Prefix(T[i].log, T[k].log)

\* All views of the first test.
FirstTest(T, k) ==
  Views(T, k) /\ T[k].at.pc = "end" /\ T[k].log = NotedLog(first)

\* The view is one of the first test.
Repeats == \E T, k : FirstTest(T, k) /\ \E j \in 1..k : View = T[j]

Running == {"h_init", "evolve", "h_final", "end_forward", "evolve_back",
            "h_back", "end_test"}

ViewsInv ==
  /\ test = 1 /\ pc \in Running => \E T, k : Views(T, k) /\ View = T[k]
  /\ test = 2 /\ pc \in {"init", "restore", "heatbath"} => \E T, k : FirstTest(T, k)
  /\ test = 2 /\ pc \in Running => Repeats

\* What the views rest on.
TestsInv ==
  /\ test \in 1..2 /\ tests \in 1..2 /\ IsSeq(first)
  /\ pc = "stopped" \/ Evolving \/ step = 1
  /\ pc \in {"heatbath", "h_init"} => gauge = saved.gauge

FieldsInv ==
  /\ pc = "heatbath" => \A x \in Solvers : x \in Seen(pos) => obj[x].phi = Field(x)
  /\ pc \in Running => \A x \in Solvers : obj[x].phi = Field(x)

\* A solution that was noted for the force gradient is used in the same test.
ToEvolve(x, p) ==
  \E q \in p..Len(schedule) : schedule[q].op = "evolve" /\ schedule[q].leaf = x

ForecastInv ==
  \A x \in Solvers : obj[x].fg_forecast =>
    pc = "stopped" \/ (Evolving /\ ToEvolve(x, pos))

SameInv == TestsInv /\ FieldsInv /\ ForecastInv /\ ViewsInv /\ SameGuesses

\* Names go with unions, so that a guess has the names of what it is made of.
LEMMA OrthogonalNames ==
  ASSUME NEW v, NEW w, NEW m \in Nat, NEW c \in Nat, NEW j \in 1..Deg(m, c),
         \A s \in Slots(c) : s < m => w[s] = Names(v[s])
  PROVE  Names(Orthogonal(v, m, c, j)) = Orthogonal(w, m, c, j)
<1>1. \A k \in 1..j : w[Old(m, c, k)] = Names(v[Old(m, c, k)])
  <2> TAKE k \in 1..j
  <2>1. k \in 1..Deg(m, c)
    BY DEF Deg
  <2> QED BY <2>1, OldSlot
<1>2. ASSUME NEW e \in Names(Orthogonal(v, m, c, j))
      PROVE  e \in Orthogonal(w, m, c, j)
  <2>1. PICK x \in Orthogonal(v, m, c, j) :
          e = [md |-> x.md, phi |-> x.phi, gauge |-> x.gauge]
    BY DEF Names
  <2>2. PICK k \in 1..j : x \in v[Old(m, c, k)]
    BY DEF Orthogonal
  <2>3. e \in Names(v[Old(m, c, k)])
    BY <2>1, <2>2 DEF Names
  <2> QED BY <1>1, <2>3 DEF Orthogonal
<1>3. ASSUME NEW e \in Orthogonal(w, m, c, j)
      PROVE  e \in Names(Orthogonal(v, m, c, j))
  <2>1. PICK k \in 1..j : e \in w[Old(m, c, k)]
    BY DEF Orthogonal
  <2>2. PICK x \in v[Old(m, c, k)] :
          e = [md |-> x.md, phi |-> x.phi, gauge |-> x.gauge]
    BY <1>1, <2>1 DEF Names
  <2>3. x \in Orthogonal(v, m, c, j)
    BY DEF Orthogonal
  <2> QED BY <2>2, <2>3 DEF Names
<1> QED BY <1>2, <1>3

LEMMA MinResNames ==
  ASSUME NEW v, NEW w, NEW m \in Nat, NEW c \in Nat,
         \A s \in Slots(c) : s < m => w[s] = Names(v[s])
  PROVE  Names(MinRes(v, m, c)) = MinRes(w, m, c)
<1> DEFINE J == {k \in 1..Deg(m, c) : Old(m, c, k) # Slot(m, c)}
<1>1. \A j \in J : Names(Orthogonal(v, m, c, j)) = Orthogonal(w, m, c, j)
  BY OrthogonalNames
<1>2. /\ MinRes(v, m, c) = UNION {Orthogonal(v, m, c, j) : j \in J}
      /\ MinRes(w, m, c) = UNION {Orthogonal(w, m, c, j) : j \in J}
  BY DEF MinRes
<1> HIDE DEF J
<1>3. ASSUME NEW e \in Names(MinRes(v, m, c))
      PROVE  e \in MinRes(w, m, c)
  <2>1. PICK x \in MinRes(v, m, c) :
          e = [md |-> x.md, phi |-> x.phi, gauge |-> x.gauge]
    BY DEF Names
  <2>2. PICK j \in J : x \in Orthogonal(v, m, c, j)
    BY <1>2
  <2>3. e \in Names(Orthogonal(v, m, c, j))
    BY <2>1, <2>2 DEF Names
  <2> QED BY <1>1, <1>2, <2>3
<1>4. ASSUME NEW e \in MinRes(w, m, c)
      PROVE  e \in Names(MinRes(v, m, c))
  <2>1. PICK j \in J : e \in Orthogonal(w, m, c, j)
    BY <1>2
  <2>2. PICK x \in Orthogonal(v, m, c, j) :
          e = [md |-> x.md, phi |-> x.phi, gauge |-> x.gauge]
    BY <1>1, <2>1 DEF Names
  <2>3. x \in MinRes(v, m, c)
    BY <1>2, <2>2
  <2> QED BY <2>2, <2>3 DEF Names
<1> QED BY <1>3, <1>4

\* The vectors of one mass after a solve.
LEMMA RingNames ==
  ASSUME NEW m \in Nat, NEW c \in Nat, NEW v, NEW w, NEW e, NEW f,
         DOMAIN v = Slots(c), DOMAIN w = Slots(c),
         \A t \in Slots(c) : w[t] = Kept(m, t, v[t]),
         f = [md |-> e.md, phi |-> e.phi, gauge |-> e.gauge],
         NEW s \in Slots(c)
  PROVE  Kept(m + 1, s, AfterSolve(v, m, c, e, s)) = AfterSolve(w, m, c, f, s)
<1> DEFINE u == AfterSolve(v, m, c, e, s)
<1> SUFFICES Kept(m + 1, s, u) = AfterSolve(w, m, c, f, s)
  OBVIOUS
<1>1. DOMAIN v = Slots(c) /\ DOMAIN w = Slots(c)
  OBVIOUS
<1>2. u = IF s = Slot(m, c) THEN {e} ELSE Orthogonalised(v, m, c)[s]
  BY DEF AfterSolve
<1> HIDE DEF u
<1>3. Slot(m, c) < m + 1 \/ Slot(m, c) = 0
  <2>1. CASE c = 0
    BY <2>1 DEF Slot
  <2>2. CASE c > 0
    <3>1. m % c \in 0..(c - 1) /\ (m \in 0..(c - 1) => m % c = m)
      BY <2>2, ModBounds
    <3> DEFINE r == m % c
    <3>2. Slot(m, c) = r
      BY <2>2 DEF Slot
    <3> HIDE DEF r
    <3>3. r \in 0..(c - 1) /\ (m \in 0..(c - 1) => r = m)
      BY <3>1 DEF r
    <3> QED BY <2>2, <3>2, <3>3
  <2> QED BY <2>1, <2>2
<1>4. CASE s = Slot(m, c)
  <2>1. Names({e}) = {f}
    BY DEF Names
  <2> QED BY <1>2, <1>3, <1>4, <2>1 DEF Kept, AfterSolve
<1>5. CASE s # Slot(m, c)
  <2>1. s # m
    BY <1>5, SlotInRing
  <2>2. s \in Nat
    BY DEF Slots
  <2>3. s < m + 1 <=> s < m
    BY <2>1, <2>2
  <2>4. \A t \in Slots(c) : t < m => w[t] = Names(v[t])
    BY DEF Kept
  <2>5. CASE \E j \in 1..Deg(m, c) : Old(m, c, j) = s
    <3> DEFINE j == CHOOSE j \in 1..Deg(m, c) : Old(m, c, j) = s
    <3>1. j \in 1..Deg(m, c) /\ Old(m, c, j) = s
      BY <2>5
    <3>2. /\ Orthogonalised(v, m, c)[s] = Orthogonal(v, m, c, j)
          /\ Orthogonalised(w, m, c)[s] = Orthogonal(w, m, c, j)
      BY <1>1, <2>5 DEF Orthogonalised
    <3> HIDE DEF j
    <3>3. s < m
      BY <3>1, OldSlot
    <3>4. Names(Orthogonal(v, m, c, j)) = Orthogonal(w, m, c, j)
      BY <2>4, <3>1, OrthogonalNames
    <3> QED BY <1>2, <1>5, <2>3, <3>2, <3>3, <3>4 DEF Kept, AfterSolve
  <2>6. CASE ~\E j \in 1..Deg(m, c) : Old(m, c, j) = s
    <3>1. Orthogonalised(v, m, c)[s] = v[s] /\ Orthogonalised(w, m, c)[s] = w[s]
      BY <1>1, <2>6 DEF Orthogonalised
    <3> QED BY <1>2, <1>5, <2>3, <3>1 DEF Kept, AfterSolve
  <2> QED BY <2>5, <2>6
<1> QED BY <1>4, <1>5

\* The view when a call is due.
LEMMA ViewOf ==
  ASSUME Types, Place, Evolving
  PROVE  /\ View.at = [pc |-> pc, pos |-> pos, step |-> step]
         /\ CallOf(View) = call /\ View.gauge = gauge /\ View.n = Len(log)
         /\ View.log = NotedLog(log) /\ View.at.pc # "end"
         /\ call.op \in {"prepare", "evolve"} => ActorOf(View) = a
         /\ \A x \in Solvers : View.of[x] = Sketch(x, obj[x])
<1>1. View.at = [pc |-> pc, pos |-> pos, step |-> step]
  BY DEF View, At
<1>2. CallOf(View) = call
  BY <1>1 DEF CallOf, call
<1>3. call.op \in {"prepare", "evolve"} => ActorOf(View) = a
  BY <1>2, CallDue DEF ActorOf, a
<1>4. View.at.pc # "end"
  BY <1>1 DEF Evolving
<1> QED BY <1>1, <1>2, <1>3, <1>4 DEF View

\* The place that follows.
LEMMA PlaceView ==
  ASSUME Types, Place, Evolving, UNCHANGED <<schedule, reverse>>,
         IF call.op = "evolve" THEN Stepped ELSE Called
  PROVE  At' = ThenAt(View) /\ pc' \in {"evolve", "evolve_back", "h_final", "h_back"}
<1>1. View.at = [pc |-> pc, pos |-> pos, step |-> step] /\ CallOf(View) = call
  BY ViewOf
<1>2. pc \in {"evolve", "evolve_back"}
  BY DEF Evolving
<1>3. CASE call.op = "evolve" /\ step # call.n
  <2>1. pc' = pc /\ pos' = pos /\ step' = step + 1
    BY <1>3 DEF Stepped
  <2>2. At' = [pc |-> pc, pos |-> pos, step |-> step + 1]
    BY <1>2, <2>1 DEF At, Evolving
  <2>3. ThenAt(View) = [pc |-> pc, pos |-> pos, step |-> step + 1]
    BY <1>1, <1>3 DEF ThenAt
  <2> QED BY <1>2, <2>1, <2>2, <2>3
<1>4. CASE ~(call.op = "evolve" /\ step # call.n)
  <2>1. Called
    BY <1>4 DEF Stepped
  <2>2. CASE pos # Len(schedule)
    <3>1. pc' = pc /\ pos' = pos + 1 /\ step' = 1
      BY <2>1, <2>2 DEF Called
    <3>2. At' = [pc |-> pc, pos |-> pos + 1, step |-> 1]
      BY <1>2, <3>1 DEF At, Evolving
    <3>3. ThenAt(View) = [pc |-> pc, pos |-> pos + 1, step |-> 1]
      BY <1>1, <1>4, <2>2 DEF ThenAt
    <3> QED BY <1>2, <3>1, <3>2, <3>3
  <2>3. CASE pos = Len(schedule) /\ pc = "evolve"
    <3>1. pc' = "h_final"
      BY <2>1, <2>3 DEF Called
    <3>2. At' = IF reverse THEN Begins("evolve_back") ELSE Begins("end")
      BY <3>1 DEF At, Evolving, Begins
    <3>3. ThenAt(View) = IF reverse THEN Begins("evolve_back") ELSE Begins("end")
      BY <1>1, <1>4, <2>3 DEF ThenAt
    <3> QED BY <3>1, <3>2, <3>3
  <2>4. CASE pos = Len(schedule) /\ pc # "evolve"
    <3>1. pc' = "h_back"
      BY <2>1, <2>4 DEF Called
    <3>2. At' = Begins("end")
      BY <3>1 DEF At, Evolving, Begins
    <3>3. ThenAt(View) = Begins("end")
      BY <1>1, <1>4, <2>4 DEF ThenAt
    <3> QED BY <3>1, <3>2, <3>3
  <2> QED BY <2>2, <2>3, <2>4
<1> QED BY <1>3, <1>4

\* An action that is left as it is.
LEMMA SketchFrame ==
  ASSUME NEW x, NEW r, NEW q, q.v = r.v, q.md_steps = r.md_steps,
         q.fg_forecast = r.fg_forecast
  PROVE  Sketch(x, q) = Sketch(x, r)
BY DEF Sketch

\* A call that solves nothing.
LEMMA QuietView ==
  ASSUME Types, Place, Evolving, UNCHANGED <<schedule, reverse, log>>,
         IF call.op = "evolve" THEN Stepped ELSE Called,
         ~(call.op \in {"prepare", "evolve"} /\ Chronological(a)),
         gauge' = MovedBy(View), \A x \in Solvers : obj'[x] = obj[x]
  PROVE  View' = NextView(View)
<1>1. ~Solves(View)
  BY ViewOf DEF Solves
<1>2. At' = ThenAt(View)
  BY PlaceView
<1>3. Len(log)' = View.n /\ NotedLog(log)' = View.log
  BY ViewOf DEF NotedLog, Noted
<1>4. [x \in Solvers |-> Sketch(x, obj[x])'] = [x \in Solvers |-> View.of[x]]
  BY ViewOf DEF Sketch
<1>5. View' = [at |-> At', gauge |-> gauge', n |-> Len(log)', log |-> NotedLog(log)',
               of |-> [x \in Solvers |-> Sketch(x, obj[x])']]
  BY DEF View, Solvers
<1> QED BY <1>1, <1>2, <1>3, <1>4, <1>5 DEF NextView

LEMMA MoveView ==
  ASSUME IInv, MoveGauge
  PROVE  View' = NextView(View)
<1>1. /\ Types /\ Place /\ Evolving /\ call.op \in {"drift", "shift", "restore"}
      /\ Called /\ UNCHANGED <<schedule, reverse, log, obj>>
  BY DEF IInv, MoveGauge, input
<1>2. gauge' = MovedBy(View)
  BY <1>1, ViewOf DEF MoveGauge, MovedBy
<1> QED BY <1>1, <1>2, QuietView

\* Calls of other actions.
LEMMA StayView ==
  ASSUME Types, Place, Evolving, call.op \in {"prepare", "evolve"}
  PROVE  MovedBy(View) = gauge
BY ViewOf DEF MovedBy

LEMMA OtherView ==
  ASSUME IInv, PrepareFgRational \/ EvolveBoson \/ EvolveRational
  PROVE  View' = NextView(View)
<1>1. /\ Types /\ Place /\ Evolving /\ call.op \in {"prepare", "evolve"}
      /\ ~Chronological(a) /\ UNCHANGED <<schedule, reverse, log, gauge>>
      /\ IF call.op = "evolve" THEN Stepped ELSE Called
  BY DEF IInv, PrepareFgRational, EvolveBoson, EvolveRational, input,
         Chronological, Rational
<1>2. \A x \in Solvers : obj'[x] = obj[x]
  <2> SUFFICES ASSUME NEW x \in Solvers PROVE obj'[x] = obj[x]
    OBVIOUS
  <2>1. x # a
    BY <1>1 DEF Solvers
  <2>2. obj = [z \in Actions |-> obj[z]] /\ x \in Actions
    BY <1>1 DEF Types, Solvers
  <2>3. CASE EvolveRational
    <3>1. obj' = [obj EXCEPT ![a].evolved = TRUE,
                        ![a].heatbathEval = HeatbathEvalAfterMd,
                        ![a].energyEval = FALSE,
                        ![a].md_steps = @ + 1]
      BY <2>3 DEF EvolveRational
    <3> QED BY <2>1, <2>2, <3>1
  <2>4. CASE PrepareFgRational \/ EvolveBoson
    BY <2>4 DEF PrepareFgRational, EvolveBoson
  <2> QED BY <2>3, <2>4
<1> QED BY <1>1, <1>2, StayView, QuietView

\* What the guesses of a solve are called in the log.
LEMMA GuessView ==
  ASSUME Types, Place, Evolving, NEW y \in Solvers, y = a,
         call.op \in {"prepare", "evolve"},
         NEW forecast \in BOOLEAN, forecast = ForecastOf(View)
  PROVE  [i \in Masses(y) |-> Names(Used(forecast, i))] = GuessOf(View, y)
<1>1. y \in Actions /\ View.of[y] = Sketch(y, obj[y])
  BY ViewOf DEF Solvers
<1> SUFFICES ASSUME NEW i \in Masses(y)
             PROVE  Names(Used(forecast, i)) =
                      IF forecast /\ Deg(View.of[y].md, Chrono[y][i]) = 0
                        THEN View.of[y].w[i][0]
                      ELSE MinRes(View.of[y].w[i], View.of[y].md, Chrono[y][i])
  BY DEF GuessOf
<1> DEFINE v == obj[y].v[i]
           m == obj[y].md_steps
           c == Chrono[y][i]
           w == View.of[y].w[i]
<1>2. m \in Nat /\ c \in Nat
  BY <1>1, Chronos DEF Types, IsObj
<1>3. View.of[y].md = m
      /\ w = [s \in Slots(c) |-> Kept(m, s, v[s])]
  BY <1>1 DEF Sketch
<1>4. Skip(forecast, i) <=> forecast /\ Deg(m, c) = 0
  BY DEF Skip, o
<1>5. /\ Skip(forecast, i) => Used(forecast, i) = v[0]
      /\ ~Skip(forecast, i) => Used(forecast, i) = MinRes(v, m, c)
  BY DEF Used, o
<1> HIDE DEF v, m, c, w
<1>6. 0 \in Slots(c)
  BY <1>2 DEF Slots
<1>7. w[0] = Names(v[0]) /\ \A s \in Slots(c) : s < m => w[s] = Names(v[s])
  BY <1>3, <1>6 DEF Kept
<1>8. Names(MinRes(v, m, c)) = MinRes(w, m, c)
  BY <1>2, <1>7, MinResNames
<1>9. Names(Used(forecast, i)) =
        IF forecast /\ Deg(m, c) = 0 THEN w[0] ELSE MinRes(w, m, c)
  BY <1>4, <1>5, <1>7, <1>8
<1> QED BY <1>3, <1>9 DEF w, c

\* What the vectors are called after it.
LEMMA SolvedView ==
  ASSUME Types, Place, Evolving, NEW y \in Solvers, y = a,
         call.op \in {"prepare", "evolve"}, obj[y].phi = Field(y),
         NEW r, r.v = Solved, r.md_steps = obj[y].md_steps + 1,
         r.fg_forecast = (call.op = "prepare")
  PROVE  Sketch(y, r) = SolvedBy(View, y)
<1>1. /\ y \in Actions /\ View.of[y] = Sketch(y, obj[y])
      /\ CallOf(View) = call /\ View.gauge = gauge
  BY ViewOf DEF Solvers
<1> DEFINE n == obj[y].md_steps
           e == [serial |-> serial, md |-> n, phi |-> obj[y].phi, gauge |-> gauge]
           f == SolutionOf(View, y)
<1>2. View.of[y].md = n /\ f = [md |-> e.md, phi |-> e.phi, gauge |-> e.gauge]
  BY <1>1 DEF Sketch, SolutionOf
<1>3. ASSUME NEW i \in Masses(y)
      PROVE  [s \in Slots(Chrono[y][i]) |->
                Kept(n + 1, s, r.v[i][s])] =
             [s \in Slots(Chrono[y][i]) |->
                AfterSolve(View.of[y].w[i], n, Chrono[y][i], f, s)]
  <2> DEFINE v == obj[y].v[i]
             c == Chrono[y][i]
             w == View.of[y].w[i]
             u == r.v[i]
  <2>1. n \in Nat /\ c \in Nat /\ v = [s \in Slots(c) |-> v[s]]
    BY <1>1, Chronos DEF Types, IsObj
  <2>2. w = [s \in Slots(c) |-> Kept(n, s, v[s])]
    BY <1>1 DEF Sketch
  <2>3. u = [Orthogonalised(v, n, c) EXCEPT ![Slot(n, c)] = {e}]
    BY DEF Solved, o
  <2> HIDE DEF n, e, f, v, c, w, u
  <2>4. \A s \in Slots(c) : Kept(n + 1, s, u[s]) = AfterSolve(w, n, c, f, s)
    <3> TAKE s \in Slots(c)
    <3>1. DOMAIN v = Slots(c) /\ DOMAIN w = Slots(c)
      BY <2>1, <2>2
    <3>2. \A t \in Slots(c) : w[t] = Kept(n, t, v[t])
      BY <2>2
    <3>3. u[s] = AfterSolve(v, n, c, e, s)
      BY <2>3, <3>1 DEF Orthogonalised, AfterSolve
    <3>4. f = [md |-> e.md, phi |-> e.phi, gauge |-> e.gauge]
      BY <1>2
    <3>5. n \in Nat /\ c \in Nat
      BY <2>1
    <3>6. n \in Nat /\ c \in Nat /\ DOMAIN v = Slots(c) /\ DOMAIN w = Slots(c)
          /\ s \in Slots(c)
      BY <3>1, <3>5
    <3>7. Kept(n + 1, s, AfterSolve(v, n, c, e, s)) = AfterSolve(w, n, c, f, s)
      BY ONLY <3>2, <3>4, <3>6, RingNames, SMT
    <3> QED BY <3>3, <3>7
  <2> QED BY <2>4 DEF c, w, u
<1>4. Sketch(y, r) =
        [md |-> n + 1, fg |-> call.op = "prepare",
         w |-> [i \in Masses(y) |-> [s \in Slots(Chrono[y][i]) |->
                  Kept(n + 1, s, r.v[i][s])]]]
  BY DEF Sketch
<1>5. SolvedBy(View, y) =
        [md |-> n + 1, fg |-> call.op = "prepare",
         w |-> [i \in Masses(y) |-> [s \in Slots(Chrono[y][i]) |->
                  AfterSolve(View.of[y].w[i], n, Chrono[y][i], f, s)]]]
  BY <1>1, <1>2 DEF SolvedBy
<1> DEFINE left == [i \in Masses(y) |-> [s \in Slots(Chrono[y][i]) |->
                      Kept(n + 1, s, r.v[i][s])]]
           right == [i \in Masses(y) |-> [s \in Slots(Chrono[y][i]) |->
                       AfterSolve(View.of[y].w[i], n, Chrono[y][i], f, s)]]
<1> HIDE DEF n, e, f
<1>6. left = right
  BY <1>3
<1> HIDE DEF left, right
<1>7. /\ Sketch(y, r) = [md |-> n + 1, fg |-> call.op = "prepare", w |-> left]
      /\ SolvedBy(View, y) = [md |-> n + 1, fg |-> call.op = "prepare", w |-> right]
  BY <1>4, <1>5 DEF left, right
<1> QED BY <1>6, <1>7

\* A solve.
LEMMA SolveView ==
  ASSUME IInv, Evolving, UNCHANGED <<schedule, reverse, gauge>>,
         IF call.op = "evolve" THEN Stepped ELSE Called,
         call.op \in {"prepare", "evolve"},
         NEW y \in Solvers, y = a, obj[y].phi = Field(y),
         NEW forecast \in BOOLEAN, log' = Guesses(forecast),
         forecast = ForecastOf(View),
         NEW r, obj' = [obj EXCEPT ![y] = r],
         r.v = Solved, r.md_steps = obj[y].md_steps + 1,
         r.fg_forecast = (call.op = "prepare")
  PROVE  View' = NextView(View)
<1>1. Types /\ Place /\ y \in Actions /\ Chronological(y) /\ IsSeq(log)
  BY DEF IInv, HistoryInv, Solvers
<1>2. Solves(View) /\ ActorOf(View) = y
  BY <1>1, ViewOf DEF Solves
<1>3. At' = ThenAt(View)
  BY <1>1, PlaceView
<1>4. gauge' = MovedBy(View)
  BY <1>1, StayView
<1>5. [x \in Solvers |-> Sketch(x, obj[x])'] =
        [x \in Solvers |-> IF x = y THEN SolvedBy(View, y) ELSE View.of[x]]
  <2>1. Sketch(y, r) = SolvedBy(View, y)
    BY <1>1, SolvedView
  <2>2. \A x \in Solvers : obj'[x] = IF x = y THEN r ELSE obj[x]
    BY <1>1 DEF Types, Solvers
  <2>3. \A x \in Solvers : Sketch(x, obj[x])' = Sketch(x, obj'[x])
    BY DEF Sketch
  <2>4. \A x \in Solvers : View.of[x] = Sketch(x, obj[x])
    BY <1>1, ViewOf
  <2> QED BY <2>1, <2>2, <2>3, <2>4
<1>6. /\ Len(log)' = View.n + 1
      /\ NotedLog(log)' = [p \in 1..(View.n + 1) |->
           IF p <= View.n THEN View.log[p]
           ELSE [of |-> y, used |-> GuessOf(View, y)]]
  <2> DEFINE e == [of    |-> a,
                   used  |-> [i \in Masses(a) |-> Used(forecast, i)],
                   given |-> [i \in Masses(a) |-> Given(forecast, i)]]
  <2>1. log' = Append(log, e)
    BY DEF Guesses
  <2>2. PICK S : log \in Seq(S)
    BY <1>1 DEF IsSeq
  <2>3. Noted(e) = [of |-> y, used |-> GuessOf(View, y)]
    <3>1. Noted(e) = [of |-> y, used |-> [i \in Masses(y) |-> Names(Used(forecast, i))]]
      BY DEF Noted
    <3> QED BY <1>1, <3>1, GuessView
  <2> HIDE DEF e
  <2>4. /\ Len(log') = Len(log) + 1 /\ Len(log) \in Nat
        /\ \A p \in 1..(Len(log) + 1) :
             log'[p] = IF p <= Len(log) THEN log[p] ELSE e
    <3>1. log \in Seq(S \cup {e}) /\ e \in S \cup {e}
      BY <2>2
    <3>2. \A p \in 1..(Len(log) + 1) : p <= Len(log) => p \in 1..Len(log)
      BY <2>2
    <3> QED BY <2>1, <3>1, <3>2
  <2>5. View.n = Len(log) /\ View.log = NotedLog(log)
    BY <1>1, ViewOf
  <2>6. \A p \in 1..(Len(log) + 1) : p <= Len(log) => View.log[p] = Noted(log[p])
    BY <2>4, <2>5 DEF NotedLog
  <2>7. NotedLog(log)' = [p \in 1..(Len(log) + 1) |-> Noted(log'[p])]
    BY <2>4 DEF NotedLog, Noted
  <2> QED BY <2>3, <2>4, <2>5, <2>6, <2>7
<1>7. View' = [at |-> At', gauge |-> gauge', n |-> Len(log)', log |-> NotedLog(log)',
               of |-> [x \in Solvers |-> Sketch(x, obj[x])']]
  BY DEF View, Solvers
<1> QED BY <1>2, <1>3, <1>4, <1>5, <1>6, <1>7 DEF NextView

LEMMA PrepareView ==
  ASSUME IInv, FieldsInv, PrepareFg
  PROVE  View' = NextView(View)
<1>1. /\ Types /\ Place /\ Evolving /\ call.op = "prepare" /\ Chronological(a) /\ Called
      /\ UNCHANGED <<schedule, reverse, gauge>> /\ log' = Guesses(FALSE)
  BY DEF IInv, PrepareFg, input
<1> PICK y \in Solvers : y = a
  BY <1>1, CallDue DEF Solvers
<1>2. obj[y].phi = Field(y)
  BY <1>1 DEF FieldsInv, Running, Evolving
<1>3. ForecastOf(View) = FALSE
  BY <1>1, ViewOf DEF ForecastOf
<1> DEFINE u == Solved
           r == [obj[y] EXCEPT !.v = u, !.fg_forecast = TRUE, !.md_steps = @ + 1]
<1>4. obj' = [obj EXCEPT ![y] = r]
  <2>1. obj' = [obj EXCEPT ![y].v = u, ![y].fg_forecast = TRUE, ![y].md_steps = @ + 1]
    BY DEF PrepareFg
  <2>2. obj = [x \in Actions |-> obj[x]]
    BY <1>1 DEF Types
  <2> HIDE DEF u
  <2> QED BY <2>1, <2>2
<1> HIDE DEF u
<1>5. r.v = u /\ r.md_steps = obj[y].md_steps + 1 /\ r.fg_forecast = TRUE
  <2>1. obj[y] = [f \in Fields |-> obj[y][f]]
    BY <1>1 DEF Types, IsObj, Solvers
  <2> QED BY <2>1 DEF Fields
<1> HIDE DEF r
<1>6. r.v = Solved /\ r.fg_forecast = (call.op = "prepare")
  BY <1>1, <1>5 DEF u
<1> QED BY <1>1, <1>2, <1>3, <1>4, <1>5, <1>6, SolveView

LEMMA EvolveView ==
  ASSUME IInv, FieldsInv, Evolve
  PROVE  View' = NextView(View)
<1>1. /\ Types /\ Place /\ Evolving /\ call.op = "evolve" /\ Chronological(a) /\ Stepped
      /\ UNCHANGED <<schedule, reverse, gauge>> /\ log' = Guesses(o.fg_forecast)
  BY DEF IInv, Evolve, input
<1> PICK y \in Solvers : y = a
  BY <1>1, CallDue DEF Solvers
<1>2. obj[y].phi = Field(y)
  BY <1>1 DEF FieldsInv, Running, Evolving
<1>3. o.fg_forecast \in BOOLEAN
  BY <1>1 DEF Types, IsObj, Solvers, o
<1>4. ForecastOf(View) = o.fg_forecast
  <2>1. View.of[y].fg = o.fg_forecast
    <3>1. View.of[y] = Sketch(y, obj[y]) /\ o = obj[y]
      BY <1>1, ViewOf DEF o
    <3>2. Sketch(y, obj[y]).fg = obj[y].fg_forecast
      BY DEF Sketch
    <3> QED BY <3>1, <3>2
  <2>2. CallOf(View) = call /\ ActorOf(View) = y
    BY <1>1, ViewOf
  <2> QED BY <1>1, <2>1, <2>2, <1>3 DEF ForecastOf
<1> DEFINE u == Solved
           r == [obj[y] EXCEPT !.v = u, !.fg_forecast = FALSE, !.md_steps = @ + 1,
                               !.evolved = TRUE]
<1>5. obj' = [obj EXCEPT ![y] = r]
  <2>1. obj' = [obj EXCEPT ![y].v = u, ![y].fg_forecast = FALSE, ![y].md_steps = @ + 1,
                           ![y].evolved = TRUE]
    BY DEF Evolve
  <2>2. obj = [x \in Actions |-> obj[x]]
    BY <1>1 DEF Types
  <2> HIDE DEF u
  <2> QED BY <2>1, <2>2
<1> HIDE DEF u
<1>6. r.v = u /\ r.md_steps = obj[y].md_steps + 1 /\ r.fg_forecast = FALSE
  <2>1. obj[y] = [f \in Fields |-> obj[y][f]]
    BY <1>1 DEF Types, IsObj, Solvers
  <2> QED BY <2>1 DEF Fields
<1> HIDE DEF r
<1>7. r.v = Solved /\ r.fg_forecast = (call.op = "prepare")
  BY <1>1, <1>6 DEF u
<1> QED BY <1>1, <1>2, <1>3, <1>4, <1>5, <1>6, <1>7, SolveView

\* The view of a test that begins.
LEMMA BeginView == IInv /\ TestsInv /\ ForecastInv /\ pc = "h_init" => View = FirstView
<1> SUFFICES ASSUME IInv, TestsInv, ForecastInv, pc = "h_init" PROVE View = FirstView
  OBVIOUS
<1>1. Types /\ log = <<>> /\ gauge = saved.gauge /\ At = Begins("evolve")
  BY DEF IInv, HistoryInv, NewTest, TestsInv, At, Evolving
<1>2. ASSUME NEW x \in Solvers
      PROVE  Sketch(x, obj[x]) = NoSketch(x)
  <2>1. x \in Actions /\ NoHistory(x, obj[x]) /\ IsObj(x, obj[x])
    BY DEF IInv, HistoryInv, NewTest, Types, Solvers
  <2>2. obj[x].md_steps = 0 /\ obj[x].fg_forecast = FALSE
    BY <2>1 DEF NoHistory, IsObj, ForecastInv, Evolving
  <2>3. ASSUME NEW i \in Masses(x), NEW s \in Slots(Chrono[x][i])
        PROVE  Kept(0, s, obj[x].v[i][s]) = {}
    <3>1. s \in Nat
      BY <2>1, Chronos DEF Slots
    <3>2. obj[x].v[i][0] = {}
      BY <2>1 DEF NoHistory
    <3>3. Names({}) = {}
      BY DEF Names
    <3>4. s < 0 \/ s = 0 <=> s = 0
      BY <3>1
    <3> HIDE <2>2
    <3> QED BY <3>2, <3>3, <3>4 DEF Kept
  <2> QED BY <2>2, <2>3 DEF Sketch, NoSketch
<1> QED BY <1>1, <1>2 DEF View, FirstView

\* Views are those of a trajectory.
LEMMA ViewsFrame ==
  ASSUME UNCHANGED <<schedule, reverse, saved, traj>>, NEW T, NEW k
  PROVE  /\ Views(T, k)' <=> Views(T, k)
         /\ first' = first => (FirstTest(T, k)' <=> FirstTest(T, k))
<1>1. FirstView' = FirstView
  BY DEF FirstView, Begins, NotedLog, Noted, NoSketch, Solvers
<1>2. ASSUME NEW V PROVE NextView(V)' = NextView(V)
  BY DEF NextView, ThenAt, MovedBy, Solves, ActorOf, CallOf, GuessOf, ForecastOf,
         SolvedBy, SolutionOf, Field, AfterSolve, Begins, Solvers
<1>3. Views(T, k)' <=> Views(T, k)
  BY <1>1, <1>2 DEF Views
<1>4. first' = first => NotedLog(first)' = NotedLog(first)
  BY DEF NotedLog, Noted
<1> QED BY <1>3, <1>4 DEF FirstTest

\* The log of a view continues in the next.
LEMMA ContinuedLog ==
  ASSUME NEW V, V.n \in Nat, DOMAIN V.log = 1..V.n
  PROVE  Prefix(V.log, NextView(V).log)
<1>1. CASE Solves(V)
  <2>1. NextView(V).log =
          [p \in 1..(V.n + 1) |->
             IF p <= V.n THEN V.log[p]
             ELSE [of |-> ActorOf(V), used |-> GuessOf(V, ActorOf(V))]]
    BY <1>1 DEF NextView
  <2> DEFINE e == [of |-> ActorOf(V), used |-> GuessOf(V, ActorOf(V))]
  <2> HIDE DEF e
  <2>2. NextView(V).log = [p \in 1..(V.n + 1) |-> IF p <= V.n THEN V.log[p] ELSE e]
    BY <2>1 DEF e
  <2> QED BY <2>2 DEF Prefix
<1>2. CASE ~Solves(V)
  BY <1>2 DEF Prefix, NextView
<1> QED BY <1>1, <1>2

\* The first test leads from one view to the next.
LEMMA MoreViews ==
  ASSUME NEW T, NEW k, Views(T, k), NEW V, V = T[k], V.at.pc # "end",
         V.n \in Nat, DOMAIN V.log = 1..V.n
  PROVE  \E U : Views(U, k + 1) /\ U[k + 1] = NextView(V)
<1> DEFINE U == [i \in Nat |-> IF i = k + 1 THEN NextView(V) ELSE T[i]]
<1>1. k \in Nat \ {0}
  BY DEF Views
<1>2. /\ U[k + 1] = NextView(V)
      /\ \A i \in 1..k : U[i] = T[i]
  BY <1>1
<1> HIDE DEF U
<1>3. U[1] = FirstView
  BY <1>1, <1>2 DEF Views
<1>4. ASSUME NEW i \in 1..k
      PROVE  U[i].at.pc # "end" /\ U[i + 1] = NextView(U[i])
  <2>1. CASE i = k
    BY <1>2, <2>1
  <2>2. CASE i # k
    <3>1. i \in 1..(k - 1) /\ i + 1 \in 1..k
      BY <1>1, <2>2
    <3> QED BY <1>2, <3>1 DEF Views
  <2> QED BY <2>1, <2>2
<1>5. ASSUME NEW i \in 1..(k + 1)
      PROVE  Prefix(U[i].log, U[k + 1].log)
  <2>1. CASE i = k + 1
    BY <2>1 DEF Prefix
  <2>2. CASE i # k + 1
    <3>1. i \in 1..k
      BY <1>1, <2>2
    <3>2. Prefix(T[i].log, T[k].log) /\ U[i] = T[i]
      BY <1>2, <3>1 DEF Views
    <3>3. Prefix(T[k].log, U[k + 1].log)
      BY <1>2, ContinuedLog
    <3> QED BY <3>2, <3>3 DEF Prefix
  <2> QED BY <2>1, <2>2
<1>6. k + 1 \in Nat \ {0} /\ k + 1 - 1 = k
  BY <1>1
<1>7. Views(U, k + 1)
  BY <1>3, <1>4, <1>5, <1>6 DEF Views
<1> QED BY <1>2, <1>7

\* In the second test the view is one of the first test, and so is the next.
LEMMA SameViews ==
  ASSUME NEW T, NEW k, FirstTest(T, k), NEW j \in 1..k, T[j].at.pc # "end"
  PROVE  j + 1 \in 1..k /\ T[j + 1] = NextView(T[j])
<1>1. j # k /\ k \in Nat \ {0}
  BY DEF FirstTest, Views
<1>2. j \in 1..(k - 1) /\ j + 1 \in 1..k
  BY <1>1
<1> QED BY <1>2 DEF FirstTest, Views

\* What is in the log of the second test is in that of the first.
LEMMA SameLogs ==
  Repeats /\ IsSeq(log) /\ IsSeq(first) => SameGuesses
<1> SUFFICES ASSUME NEW T, NEW k, FirstTest(T, k), NEW j \in 1..k, View = T[j],
                    IsSeq(log), IsSeq(first)
             PROVE  SameGuesses
  BY DEF Repeats
<1>1. Prefix(NotedLog(log), NotedLog(first))
  BY DEF FirstTest, Views, View
<1>2. DOMAIN log = 1..Len(log) /\ DOMAIN first = 1..Len(first)
  BY DEF IsSeq
<1>3. ASSUME NEW p \in DOMAIN log
      PROVE  p \in DOMAIN first /\ Noted(log[p]) = Noted(first[p])
  BY <1>1, <1>2 DEF Prefix, NotedLog
<1>4. ASSUME NEW p \in DOMAIN log
      PROVE  /\ first[p].of = log[p].of
             /\ \A i \in DOMAIN log[p].used :
                  Names(first[p].used[i]) = Names(log[p].used[i])
  <2> DEFINE g == [i \in DOMAIN log[p].used |-> Names(log[p].used[i])]
             h == [i \in DOMAIN first[p].used |-> Names(first[p].used[i])]
  <2>1. log[p].of = first[p].of /\ g = h
    BY <1>3 DEF Noted
  <2>2. DOMAIN g = DOMAIN log[p].used /\ DOMAIN h = DOMAIN first[p].used
    OBVIOUS
  <2>3. \A i \in DOMAIN log[p].used : g[i] = Names(log[p].used[i])
    OBVIOUS
  <2>4. \A i \in DOMAIN first[p].used : h[i] = Names(first[p].used[i])
    OBVIOUS
  <2> HIDE DEF g, h
  <2> QED BY <2>1, <2>2, <2>3, <2>4
<1> QED BY <1>3, <1>4 DEF SameGuesses

-----------------------------------------------------------------------------
(* The steps of the second test.                                           *)

\* Between calls the view stays.
LEMMA StayStep ==
  ASSUME ViewsInv, SameGuesses, pc \in Running, pc' \in Running, View' = View,
         UNCHANGED <<schedule, reverse, saved, traj, test, first, log>>
  PROVE  ViewsInv' /\ SameGuesses'
<1>1. pc \notin {"init", "restore", "heatbath"} /\ pc' \notin {"init", "restore", "heatbath"}
  BY DEF Running
<1>2. ASSUME test = 1 PROVE ViewsInv'
  <2>1. PICK T, k : Views(T, k) /\ View = T[k]
    BY <1>2 DEF ViewsInv
  <2>2. Views(T, k)' /\ View' = T[k]
    BY <2>1, ViewsFrame
  <2> QED BY <1>1, <1>2, <2>2 DEF ViewsInv
<1>3. ASSUME test = 2 PROVE ViewsInv'
  <2>1. PICK T, k : FirstTest(T, k) /\ \E j \in 1..k : View = T[j]
    BY <1>3 DEF ViewsInv, Repeats
  <2>2. FirstTest(T, k)' /\ \E j \in 1..k : View' = T[j]
    BY <2>1, ViewsFrame
  <2> QED BY <1>1, <1>3, <2>2 DEF ViewsInv, Repeats
<1>4. ViewsInv'
  BY <1>2, <1>3 DEF ViewsInv
<1>5. SameGuesses'
  BY <1>1 DEF SameGuesses, Names
<1> QED BY <1>4, <1>5

\* A call leads to the next view.
LEMMA CallStep ==
  ASSUME ViewsInv, SameGuesses, Types, Place, Evolving, IsSeq(log), IsSeq(log)',
         IsSeq(first), pc' \in Running, View' = NextView(View),
         UNCHANGED <<schedule, reverse, saved, traj, test, first>>
  PROVE  ViewsInv' /\ SameGuesses'
<1>1. pc' \notin {"init", "restore", "heatbath"} /\ pc \in Running
  BY DEF Running, Evolving
<1>2. View.at.pc # "end" /\ View.n \in Nat /\ DOMAIN View.log = 1..View.n
  <2>1. Len(log) \in Nat
    BY DEF IsSeq
  <2> QED BY <2>1, ViewOf DEF NotedLog
<1>3. ASSUME test = 1 PROVE ViewsInv' /\ SameGuesses'
  <2>1. PICK T, k : Views(T, k) /\ View = T[k]
    BY <1>1, <1>3 DEF ViewsInv
  <2>2. PICK U : Views(U, k + 1) /\ U[k + 1] = NextView(View)
    BY <1>2, <2>1, MoreViews
  <2>3. Views(U, k + 1)' /\ View' = U[k + 1]
    BY <2>2, ViewsFrame
  <2>4. ViewsInv'
    BY <1>1, <1>3, <2>3 DEF ViewsInv
  <2> QED BY <1>3, <2>4 DEF SameGuesses
<1>4. ASSUME test = 2 PROVE ViewsInv' /\ SameGuesses'
  <2>1. PICK T, k : FirstTest(T, k) /\ \E j \in 1..k : View = T[j]
    BY <1>1, <1>4 DEF ViewsInv, Repeats
  <2>2. PICK j \in 1..k : View = T[j]
    BY <2>1
  <2>3. j + 1 \in 1..k /\ T[j + 1] = NextView(View)
    BY <1>2, <2>1, <2>2, SameViews
  <2>4. FirstTest(T, k)' /\ \E i \in 1..k : View' = T[i]
    BY <2>1, <2>3, ViewsFrame
  <2>5. Repeats'
    BY <2>4 DEF Repeats
  <2>6. ViewsInv'
    BY <1>1, <1>4, <2>5 DEF ViewsInv
  <2>7. (Repeats /\ IsSeq(log) /\ IsSeq(first) => SameGuesses)'
    BY SameLogs, PTL
  <2>8. IsSeq(first)'
    BY DEF IsSeq
  <2> QED BY <2>5, <2>6, <2>7, <2>8
<1>5. CASE test \notin {1, 2}
  BY <1>5 DEF ViewsInv, SameGuesses
<1> QED BY <1>3, <1>4, <1>5

\* Where no test has come to its first energy.
LEMMA BeforeTestStep ==
  ASSUME ViewsInv, pc' \notin Running,
         test' = 2 /\ pc' \in {"init", "restore", "heatbath"} =>
           /\ test = 2 /\ pc \in {"init", "restore", "heatbath"}
           /\ UNCHANGED <<schedule, reverse, saved, traj, first>>
  PROVE  ViewsInv'
<1>1. ASSUME test' = 2, pc' \in {"init", "restore", "heatbath"}
      PROVE  \E T, k : FirstTest(T, k)'
  <2>1. PICK T, k : FirstTest(T, k)
    BY <1>1 DEF ViewsInv
  <2> QED BY <1>1, <2>1, ViewsFrame
<1> QED BY <1>1 DEF ViewsInv

\* The end of the program.
LEMMA StopSame ==
  ASSUME SameInv, Stop, pc # "init"
  PROVE  SameInv'
<1>1. /\ pc' = "stopped"
      /\ UNCHANGED <<schedule, reverse, saved, traj, first, test, tests, obj, log>>
  BY DEF Stop, input, driver
<1>2. TestsInv'
  BY <1>1 DEF SameInv, TestsInv, IsSeq
<1>3. FieldsInv' /\ ForecastInv'
  BY <1>1 DEF FieldsInv, ForecastInv, Running
<1>4. ViewsInv'
  BY <1>1, BeforeTestStep DEF SameInv, Running
<1>5. SameGuesses'
  BY <1>1 DEF SameInv, SameGuesses, Names
<1> QED BY <1>2, <1>3, <1>4, <1>5 DEF SameInv

\* Construction, and the beginning and end of a trajectory.
LEMMA OutsideSame ==
  ASSUME IInv, SameInv,
         pc \in {"construct", "save", "metropolis"},
         pc' \in {"construct", "save", "init", "done"},
         UNCHANGED <<schedule, reverse, tests, obj, log, first, step>>,
         test' = test \/ test' = 1, pc' = "init" => test' = 1
  PROVE  SameInv'
<1>1. TestsInv'
  BY DEF SameInv, TestsInv, IsSeq, Evolving
<1>2. FieldsInv'
  BY DEF FieldsInv, Running
<1>3. ForecastInv'
  BY DEF SameInv, ForecastInv, Evolving, Solvers
<1>4. ViewsInv'
  BY BeforeTestStep DEF SameInv, Running
<1>5. SameGuesses'
  BY DEF SameInv, SameGuesses, Names
<1> QED BY <1>1, <1>2, <1>3, <1>4, <1>5 DEF SameInv

LEMMA ResetForecast ==
  ASSUME NEW x \in Actions, IsObj(x, obj[x])
  PROVE  Reset(x).fg_forecast = obj[x].fg_forecast
<1>1. obj[x] = [f \in Fields |-> obj[x][f]]
  BY DEF IsObj
<1> QED BY <1>1 DEF Reset, Fields

LEMMA InitSame ==
  ASSUME IInv, IInv', SameInv, InitLeaf
  PROVE  SameInv'
<1>1. /\ Types /\ pc = "init" /\ Visited("restore")
      /\ UNCHANGED <<schedule, reverse, saved, traj, first, test, tests, step>>
      /\ obj' = IF Split(leaf) THEN obj ELSE [obj EXCEPT ![a] = Reset(a)]
  BY DEF IInv, InitLeaf, input
<1>2. pc' \in {"init", "restore"}
  BY <1>1 DEF Visited
<1>3. TestsInv'
  BY <1>1, <1>2 DEF SameInv, TestsInv, IsSeq, Evolving
<1>4. FieldsInv'
  BY <1>2 DEF FieldsInv, Running
<1>5. ForecastInv'
  <2>1. ASSUME NEW x \in Solvers PROVE obj'[x].fg_forecast = obj[x].fg_forecast
    <3>1. x \in Actions /\ IsObj(x, obj[x]) /\ obj = [z \in Actions |-> obj[z]]
      BY <1>1 DEF Types, Solvers
    <3>2. CASE x = a /\ ~Split(leaf)
      BY <1>1, <3>1, <3>2, ResetForecast
    <3>3. CASE x # a \/ Split(leaf)
      BY <1>1, <3>1, <3>3
    <3> QED BY <3>2, <3>3
  <2> QED BY <1>1, <1>2, <2>1 DEF SameInv, ForecastInv, Evolving, Solvers
<1>6. ViewsInv'
  BY <1>1, <1>2, BeforeTestStep DEF SameInv, Running
<1>7. SameGuesses'
  <2>1. pc' = "restore" => log' = <<>>
    BY DEF IInv, HistoryInv, NewTest
  <2> QED BY <1>2, <2>1 DEF SameGuesses
<1> QED BY <1>3, <1>4, <1>5, <1>6, <1>7 DEF SameInv

LEMMA RestoreSame ==
  ASSUME IInv, SameInv, RestoreInitialState
  PROVE  SameInv'
<1>1. /\ pc = "restore" /\ pc' = "heatbath" /\ gauge' = saved.gauge
      /\ UNCHANGED <<schedule, reverse, saved, traj, first, test, tests, step, obj, log, pos>>
  BY DEF RestoreInitialState, input, driver
<1>2. TestsInv'
  BY <1>1 DEF SameInv, TestsInv, IsSeq, Evolving
<1>3. FieldsInv'
  <2>1. pos' = 1
    BY <1>1 DEF IInv, Place, ByLeaf, Energies, Evolving
  <2> QED BY <1>1, <2>1, BeforeFirst DEF FieldsInv, Running
<1>4. ForecastInv'
  BY <1>1 DEF SameInv, ForecastInv, Evolving, Solvers
<1>5. ViewsInv'
  BY <1>1, BeforeTestStep DEF SameInv, Running
<1>6. SameGuesses'
  BY <1>1 DEF SameInv, SameGuesses, Names
<1> QED BY <1>2, <1>3, <1>4, <1>5, <1>6 DEF SameInv

\* The field of an action is its own leaf's draw.
LEMMA FieldDrawn ==
  ASSUME NEW p \in DOMAIN Leaves
  PROVE  Field(Leaves[p]) = saved.rng + Cardinality(Seen(p)) + 1
<1>1. \A q \in DOMAIN Leaves : Leaves[q] = Leaves[p] => q = p
  BY PseudoFermionsAssumption
<1>2. (CHOOSE q \in DOMAIN Leaves : Leaves[q] = Leaves[p]) = p
  BY <1>1
<1> QED BY <1>2 DEF Field

LEMMA HeatbathSame ==
  ASSUME IInv, IInv', SameInv, Heatbath \/ HeatbathRational
  PROVE  SameInv'
<1>1. /\ Types /\ Place /\ pc = "heatbath" /\ Visited("h_init")
      /\ UNCHANGED <<schedule, reverse, saved, traj, first, test, tests, step, gauge, log>>
  BY DEF IInv, Heatbath, HeatbathRational, input, driver
<1>2. /\ pos \in DOMAIN Leaves /\ leaf = Leaves[pos] /\ leaf \in LeafSet
      /\ a = ActionOf[leaf] /\ a \in Actions
  BY <1>1, LeafDue DEF ByLeaf
<1>3. \/ pc' = "h_init" /\ pos' = 1 /\ Seen(pos + 1) = Actions
      \/ pc' = "heatbath" /\ pos' = pos + 1
  BY <1>1, VisitedSteps DEF ByLeaf
<1>4. \/ Draw /\ a \notin Seen(pos)
      \/ UNCHANGED <<obj, rng>> /\ a \in Seen(pos)
  BY OneDraw
<1>5. TestsInv'
  BY <1>1, <1>3 DEF SameInv, TestsInv, IsSeq, Evolving
<1>6. ASSUME NEW x \in Solvers
      PROVE  /\ obj'[x].fg_forecast = obj[x].fg_forecast
             /\ x \in Seen(pos + 1) => obj'[x].phi = Field(x)
  <2>1. x \in Actions /\ IsObj(x, obj[x]) /\ ~Rational(x)
        /\ obj = [z \in Actions |-> obj[z]]
    BY <1>1 DEF Types, Solvers, Chronological, Rational
  <2>2. x \in Seen(pos) => obj[x].phi = Field(x)
    BY <1>1 DEF SameInv, FieldsInv
  <2>3. x \in Seen(pos + 1) => x = a \/ x \in Seen(pos)
    BY <1>2, BeforeNext
  <2>4. CASE UNCHANGED obj /\ a \in Seen(pos)
    BY <2>2, <2>3, <2>4
  <2>5. CASE Draw /\ x # a
    <3>1. obj'[x] = obj[x]
      BY <2>1, <2>5 DEF Draw
    <3> QED BY <2>2, <2>3, <2>5, <3>1
  <2>6. CASE Draw /\ x = a
    <3>1. obj'[x] = Drawn(x)
      BY <2>1, <2>6 DEF Draw
    <3>2. rng \in Nat /\ rng = saved.rng + Cardinality(Seen(pos))
      BY <1>1 DEF IInv, DrawsInv, Types
    <3>3. Drawn(x).phi = rng + 1
      BY <2>1, <3>2, DrawnObj
    <3>4. x = Leaves[pos]
      BY <1>2, <2>1, <2>6, LeafFacts
    <3>5. Field(x) = saved.rng + Cardinality(Seen(pos)) + 1
      BY <1>2, <3>4, FieldDrawn
    <3>6. Drawn(x).fg_forecast = obj[x].fg_forecast
      <4>1. obj[x] = [f \in Fields |-> obj[x][f]]
        BY <2>1 DEF IsObj
      <4> DEFINE n == rng + 1
                 b == Rational(x)
                 h == [of |-> x, phi |-> rng + 1, gauge |-> gauge]
      <4>2. Drawn(x) = [obj[x] EXCEPT !.phi = n, !.evolved = FALSE, !.heatbathEval = b,
                                      !.energyEval = FALSE, !.h_init = h]
        BY DEF Drawn
      <4> HIDE DEF n, b, h
      <4> QED BY <4>1, <4>2 DEF Fields
    <3> QED BY <3>1, <3>2, <3>3, <3>5, <3>6
  <2> QED BY <1>4, <2>4, <2>5, <2>6
<1>7. \A x \in Solvers : Field(x)' = Field(x)
  BY <1>1 DEF Field
<1>8. FieldsInv'
  <2>1. Solvers' = Solvers /\ Solvers \subseteq Actions
    BY DEF Solvers
  <2>2. CASE pc' = "h_init"
    <3>1. \A x \in Solvers : obj'[x].phi = Field(x)'
      BY <1>3, <1>6, <1>7, <2>1, <2>2
    <3> QED BY <2>2, <3>1 DEF FieldsInv
  <2>3. CASE pc' = "heatbath"
    <3>1. Seen(pos)' = Seen(pos + 1)
      BY <1>3, <2>3 DEF Seen, Before
    <3>2. \A x \in Solvers : x \in Seen(pos)' => obj'[x].phi = Field(x)'
      BY <1>6, <1>7, <3>1
    <3> QED BY <2>3, <3>2 DEF FieldsInv, Running
  <2> QED BY <1>3, <2>2, <2>3
<1>9. ForecastInv'
  BY <1>1, <1>3, <1>6 DEF SameInv, ForecastInv, Evolving, Solvers
<1>10. SameGuesses'
  BY <1>1 DEF SameInv, SameGuesses, Names
<1>11. ViewsInv'
  <2>1. CASE pc' = "heatbath"
    BY <1>1, <2>1, BeforeTestStep DEF SameInv, Running
  <2>2. CASE pc' = "h_init"
    <3>1. (IInv /\ TestsInv /\ ForecastInv /\ pc = "h_init" => View = FirstView)'
      BY BeginView, PTL
    <3>2. View' = FirstView'
      BY <1>5, <1>9, <2>2, <3>1
    <3>3. ASSUME test' = 1 PROVE \E T, k : Views(T, k)' /\ View' = T[k]
      <4>0. PICK T : T = [i \in Nat |-> FirstView']
        OBVIOUS
      <4>1. T[1] = FirstView'
        BY <4>0
      <4>2. Views(T, 1)'
        <5>1. \A i \in 1..(1 - 1) : FALSE
          OBVIOUS
        <5>2. \A i \in 1..1 : i = 1
          OBVIOUS
        <5> QED BY <4>1, <5>1, <5>2 DEF Views, Prefix
      <4> QED BY <3>2, <4>1, <4>2
    <3>4. ASSUME test' = 2
          PROVE  Repeats'
      <4>1. PICK T, k : FirstTest(T, k)
        BY <1>1, <3>4 DEF SameInv, ViewsInv
      <4>2. FirstTest(T, k)'
        BY <1>1, <4>1, ViewsFrame
      <4>3. 1 \in 1..k /\ T[1] = FirstView
        BY <4>1 DEF FirstTest, Views
      <4>4. FirstView' = FirstView
        BY <1>1 DEF FirstView, Begins, NotedLog, Noted, NoSketch, Solvers
      <4> QED BY <3>2, <4>2, <4>3, <4>4 DEF Repeats
    <3> QED BY <2>2, <3>3, <3>4 DEF ViewsInv
  <2> QED BY <1>3, <2>1, <2>2
<1> QED BY <1>5, <1>8, <1>9, <1>10, <1>11 DEF SameInv

LEMMA EnergySame ==
  ASSUME IInv, SameInv, Energy \/ EnergyCounted
  PROVE  SameInv'
<1>1. /\ Types /\ Place /\ pc \in Energies /\ Visited(After(pc))
      /\ UNCHANGED <<schedule, reverse, saved, traj, first, test, tests, step, gauge, log>>
      /\ UNCHANGED obj \/ obj' = [obj EXCEPT ![a].energyEval = Rational(a)]
  BY DEF IInv, Energy, EnergyCounted, input, driver
<1>2. \/ pc' = After(pc) /\ pos' = 1
      \/ pc' = pc
  BY <1>1, VisitedSteps DEF ByLeaf
<1>3. ASSUME NEW x \in Solvers
      PROVE  /\ obj'[x].fg_forecast = obj[x].fg_forecast /\ obj'[x].phi = obj[x].phi
             /\ obj'[x].v = obj[x].v /\ obj'[x].md_steps = obj[x].md_steps
  <2>1. x \in Actions /\ obj[x] = [f \in Fields |-> obj[x][f]]
        /\ obj = [z \in Actions |-> obj[z]]
    BY <1>1 DEF Types, IsObj, Solvers
  <2>2. CASE UNCHANGED obj
    BY <2>2
  <2>3. CASE obj' = [obj EXCEPT ![a].energyEval = Rational(a)]
    <3> DEFINE b == Rational(a)
    <3>1. obj' = [obj EXCEPT ![a].energyEval = b]
      BY <2>3
    <3> HIDE DEF b
    <3>2. obj'[x] = IF x = a THEN [obj[x] EXCEPT !.energyEval = b] ELSE obj[x]
      BY <2>1, <3>1
    <3> QED BY <2>1, <3>2 DEF Fields
  <2> QED BY <1>1, <2>2, <2>3
<1>4. pc \in Running /\ pc' \in Running /\ pc \notin {"stopped", "heatbath"}
      /\ pc' \notin {"stopped", "heatbath"} /\ ~Evolving
  BY <1>1, <1>2 DEF Energies, After, Running, Evolving
<1>5. step = 1 /\ step' = 1
  BY <1>1, <1>4 DEF SameInv, TestsInv
<1>6. TestsInv'
  BY <1>1, <1>2, <1>5 DEF SameInv, TestsInv, IsSeq, Energies, After
<1>7. FieldsInv'
  <2>1. \A x \in Solvers : Field(x)' = Field(x) /\ obj[x].phi = Field(x)
    BY <1>1, <1>4 DEF Field, SameInv, FieldsInv
  <2>2. Solvers' = Solvers
    BY DEF Solvers
  <2> QED BY <1>3, <1>4, <2>1, <2>2 DEF FieldsInv
<1>8. ForecastInv'
  <2>1. \A x \in Solvers : ~obj'[x].fg_forecast
    BY <1>3, <1>4 DEF SameInv, ForecastInv
  <2> QED BY <2>1 DEF ForecastInv, Solvers
<1>9. View' = View
  <2>1. At' = At
    <3>1. CASE pc' = pc
      BY <1>1, <1>4, <3>1 DEF At, Evolving
    <3>2. CASE pc' = After(pc) /\ pos' = 1 /\ pc = "h_init"
      BY <1>4, <1>5, <3>2 DEF At, After, Evolving, Begins
    <3>3. CASE pc' = After(pc) /\ pos' = 1 /\ pc \in {"h_final", "h_back"}
      BY <1>1, <1>4, <1>5, <3>3 DEF At, After, Evolving, Begins
    <3> QED BY <1>1, <1>2, <3>1, <3>2, <3>3 DEF Energies
  <2>2. [x \in Solvers |-> Sketch(x, obj[x])'] = [x \in Solvers |-> Sketch(x, obj[x])]
    <3>1. ASSUME NEW x \in Solvers PROVE Sketch(x, obj[x])' = Sketch(x, obj[x])
      <4>1. Sketch(x, obj[x])' = Sketch(x, obj'[x])
        BY DEF Sketch, Kept, Names
      <4> QED BY <1>3, <4>1, SketchFrame
    <3> QED BY <3>1
  <2>3. /\ Len(log)' = Len(log) /\ NotedLog(log)' = NotedLog(log)
    BY <1>1 DEF NotedLog, Noted
  <2>4. View' = [at |-> At', gauge |-> gauge', n |-> Len(log)', log |-> NotedLog(log)',
                 of |-> [x \in Solvers |-> Sketch(x, obj[x])']]
    BY DEF View, Solvers
  <2> QED BY <1>1, <2>1, <2>2, <2>3, <2>4 DEF View
<1>10. ViewsInv' /\ SameGuesses'
  BY <1>1, <1>4, <1>9, StayStep DEF SameInv
<1> QED BY <1>6, <1>7, <1>8, <1>10 DEF SameInv

LEMMA SaveFinalSame ==
  ASSUME IInv, SameInv, SaveFinalState
  PROVE  SameInv'
<1>1. /\ pc = "end_forward" /\ pos = 1
      /\ pc' = IF reverse THEN "evolve_back" ELSE "end_test"
      /\ UNCHANGED <<schedule, reverse, saved, traj, first, test, tests, step, gauge, log,
                     obj, pos>>
  BY DEF IInv, Place, ByLeaf, Energies, Evolving, SaveFinalState, input
<1>2. step = 1
  BY <1>1 DEF SameInv, TestsInv, Evolving
<1>3. TestsInv'
  BY <1>1, <1>2 DEF SameInv, TestsInv, IsSeq
<1>4. FieldsInv'
  BY <1>1 DEF SameInv, FieldsInv, Field, Solvers, Running
<1>5. ForecastInv'
  BY <1>1 DEF SameInv, ForecastInv, Evolving, Solvers
<1>6. View' = View
  <2>1. At' = At
    BY <1>1, <1>2 DEF At, Evolving, Begins
  <2> QED BY <1>1, <2>1 DEF View, NotedLog, Noted, Sketch, Kept, Names, Solvers
<1>7. ViewsInv' /\ SameGuesses'
  BY <1>1, <1>6, StayStep DEF SameInv, Running
<1> QED BY <1>3, <1>4, <1>5, <1>7 DEF SameInv

\* After the first test its views are known.
LEMMA EndTestSame ==
  ASSUME IInv, SameInv, EndTest
  PROVE  SameInv'
<1>1. /\ pc = "end_test" /\ first' = IF test = 1 THEN log ELSE first
      /\ IF test < tests THEN test' = test + 1 /\ pc' = "init"
         ELSE test' = test /\ pc' = "metropolis"
      /\ UNCHANGED <<schedule, reverse, saved, traj, tests, step, log, obj, pos>>
  BY DEF EndTest, input
<1>2. test \in 1..2 /\ tests \in 1..2
  BY DEF SameInv, TestsInv
<1>3. \/ test = 1 /\ test' = 2 /\ pc' = "init"
      \/ test' = test /\ pc' = "metropolis"
  BY <1>1, <1>2
<1>4. TestsInv'
  <2>1. IsSeq(first)'
    <3>1. IsSeq(first) /\ IsSeq(log)
      BY DEF SameInv, TestsInv, IInv, HistoryInv
    <3>2. CASE test = 1
      BY <1>1, <3>1, <3>2 DEF IsSeq
    <3>3. CASE test # 1
      BY <1>1, <3>1, <3>3 DEF IsSeq
    <3> QED BY <3>2, <3>3
  <2>2. step = 1
    BY <1>1 DEF SameInv, TestsInv, Evolving
  <2> QED BY <1>1, <1>2, <1>3, <2>1, <2>2 DEF TestsInv
<1>5. FieldsInv'
  BY <1>3 DEF FieldsInv, Running
<1>6. ForecastInv'
  BY <1>1, <1>3 DEF SameInv, ForecastInv, Evolving, Solvers
<1>7. ViewsInv'
  <2>1. CASE pc' = "metropolis"
    BY <2>1 DEF ViewsInv, Running
  <2>2. CASE test = 1 /\ test' = 2 /\ pc' = "init"
    <3>1. PICK T, k : Views(T, k) /\ View = T[k]
      BY <1>1, <2>2 DEF SameInv, ViewsInv, Running
    <3>2. View.at.pc = "end" /\ View.log = NotedLog(log)
      <4>1. At = Begins("end")
        BY <1>1 DEF At, Evolving
      <4> QED BY <4>1 DEF View, Begins
    <3>3. NotedLog(first)' = NotedLog(log)
      <4>1. first' = log
        BY <1>1, <2>2
      <4> QED BY <4>1 DEF NotedLog, Noted
    <3>4. Views(T, k)'
      BY <1>1, <3>1, ViewsFrame
    <3>5. FirstTest(T, k)'
      BY <3>1, <3>2, <3>3, <3>4 DEF FirstTest
    <3> QED BY <2>2, <3>5 DEF ViewsInv, Running
  <2> QED BY <1>3, <2>1, <2>2
<1>8. SameGuesses'
  <2>1. CASE test = 1 \/ pc' = "init"
    BY <1>3, <2>1 DEF SameGuesses
  <2>2. CASE test # 1 /\ pc' # "init"
    <3>1. first' = first /\ test' = test /\ log' = log
      BY <1>1, <1>3, <2>2
    <3> QED BY <1>1, <3>1 DEF SameInv, SameGuesses, Names
  <2> QED BY <2>1, <2>2
<1> QED BY <1>4, <1>5, <1>6, <1>7, <1>8 DEF SameInv

\* A call of the tree.
Calls == MoveGauge \/ PrepareFg \/ Evolve \/ PrepareFgRational \/ EvolveRational
           \/ EvolveBoson

LEMMA CallFacts ==
  ASSUME IInv, Calls
  PROVE  /\ Evolving
         /\ IF call.op = "evolve" THEN Stepped ELSE Called
         /\ UNCHANGED <<schedule, reverse, saved, traj, first, test, tests>>
         /\ \A x \in Solvers : obj'[x].phi = obj[x].phi
<1>1. /\ Evolving
      /\ IF call.op = "evolve" THEN Stepped ELSE Called
      /\ UNCHANGED <<schedule, reverse, saved, traj, first, test, tests>>
  BY DEF Calls, MoveGauge, PrepareFg, Evolve, PrepareFgRational, EvolveRational,
         EvolveBoson, input, driver
<1>2. ASSUME NEW x \in Solvers PROVE obj'[x].phi = obj[x].phi
  <2>1. x \in Actions /\ obj[x] = [f \in Fields |-> obj[x][f]]
        /\ obj = [z \in Actions |-> obj[z]]
    BY DEF IInv, Types, IsObj, Solvers
  <2> DEFINE u == Solved
             b == HeatbathEvalAfterMd
  <2>2. CASE MoveGauge \/ PrepareFgRational \/ EvolveBoson
    BY <2>2 DEF MoveGauge, PrepareFgRational, EvolveBoson
  <2>3. CASE PrepareFg
    <3>1. obj' = [obj EXCEPT ![a].v = u, ![a].fg_forecast = TRUE, ![a].md_steps = @ + 1]
      BY <2>3 DEF PrepareFg
    <3> HIDE DEF u
    <3> QED BY <2>1, <3>1 DEF Fields
  <2>4. CASE Evolve
    <3>1. obj' = [obj EXCEPT ![a].v = u, ![a].fg_forecast = FALSE,
                             ![a].md_steps = @ + 1, ![a].evolved = TRUE]
      BY <2>4 DEF Evolve
    <3> HIDE DEF u
    <3> QED BY <2>1, <3>1 DEF Fields
  <2>5. CASE EvolveRational
    <3>1. obj' = [obj EXCEPT ![a].evolved = TRUE, ![a].heatbathEval = b,
                             ![a].energyEval = FALSE, ![a].md_steps = @ + 1]
      BY <2>5 DEF EvolveRational
    <3> HIDE DEF b
    <3> QED BY <2>1, <3>1 DEF Fields
  <2> QED BY <2>2, <2>3, <2>4, <2>5 DEF Calls
<1> QED BY <1>1, <1>2

LEMMA CallView ==
  ASSUME IInv, FieldsInv, Calls
  PROVE  View' = NextView(View)
BY MoveView, OtherView, PrepareView, EvolveView DEF Calls

\* prepare_fg is followed by evolve, which uses up what it noted.
LEMMA CallForecast ==
  ASSUME IInv, SameInv, Calls, View' = NextView(View)
  PROVE  ForecastInv'
<1>1. /\ Types /\ Place /\ Evolving /\ UNCHANGED schedule
      /\ IF call.op = "evolve" THEN Stepped ELSE Called
  BY CallFacts DEF IInv
<1>2. /\ pos \in DOMAIN schedule /\ call = schedule[pos] /\ Len(schedule) \in Nat
      /\ DOMAIN schedule = 1..Len(schedule) /\ schedule \in Schedules
      /\ pc \in {"evolve", "evolve_back"}
  BY <1>1, CallDue DEF Types, Evolving
<1>3. pos # Len(schedule) => pc' = pc /\ pos' \in {pos, pos + 1}
  BY <1>1 DEF Stepped, Called
<1> SUFFICES ASSUME NEW x \in Solvers, obj'[x].fg_forecast
             PROVE  pc' = pc /\ ToEvolve(x, pos')
  BY <1>1, <1>2 DEF ForecastInv, Evolving, Solvers, ToEvolve
<1>4. x \in Actions /\ ~Rational(x)
  BY DEF Solvers, Chronological, Rational
<1>5. obj'[x].fg_forecast =
        IF Solves(View) /\ x = ActorOf(View) THEN call.op = "prepare"
        ELSE obj[x].fg_forecast
  <2>1. View'.of[x] = Sketch(x, obj'[x])
    BY DEF View, Solvers, Sketch, Kept, Names
  <2>2. View'.of[x].fg = obj'[x].fg_forecast
    <3>1. Sketch(x, obj'[x]).fg = obj'[x].fg_forecast
      BY DEF Sketch
    <3> QED BY <2>1, <3>1
  <2>3. NextView(View).of[x] =
          IF Solves(View) /\ x = ActorOf(View) THEN SolvedBy(View, x) ELSE View.of[x]
    BY DEF NextView
  <2>4. SolvedBy(View, x).fg = (call.op = "prepare")
    BY <1>1, ViewOf DEF SolvedBy
  <2>5. View.of[x].fg = obj[x].fg_forecast
    <3>1. View.of[x] = Sketch(x, obj[x])
      BY <1>1, ViewOf
    <3>2. Sketch(x, obj[x]).fg = obj[x].fg_forecast
      BY DEF Sketch
    <3> QED BY <3>1, <3>2
  <2> QED BY <2>2, <2>3, <2>4, <2>5
<1>6. \E q \in (pos + 1)..Len(schedule) :
        schedule[q].op = "evolve" /\ schedule[q].leaf = x
  <2>1. CASE Solves(View) /\ x = ActorOf(View)
    <3>1. call.op = "prepare"
      BY <1>5, <2>1
    <3>2. leaf = call.leaf /\ leaf \in LeafSet /\ a = x
      <4>1. leaf = call.leaf /\ leaf \in LeafSet
        BY <1>1, <3>1, CallDue
      <4>2. ActorOf(View) = a
        BY <1>1, <3>1, ViewOf
      <4> QED BY <2>1, <4>1, <4>2
    <3>3. call.leaf = x
      <4>1. ActionOf[leaf] = x
        BY <3>2 DEF a
      <4>2. ~Rational(ActionOf[leaf])
        BY <1>4, <4>1
      <4> QED BY <3>2, <4>1, <4>2, LeafFacts
    <3>4. PICK q \in pos..Len(schedule) :
            schedule[q].op = "evolve" /\ schedule[q].leaf = schedule[pos].leaf
      <4>1. schedule[pos].op = "prepare"
        BY <1>2, <3>1
      <4>2. \A s \in Schedules : \A p \in DOMAIN s : s[p].op = "prepare" =>
              \E q \in p..Len(s) : s[q].op = "evolve" /\ s[q].leaf = s[p].leaf
        BY PseudoFermionsAssumption
      <4> QED BY <1>2, <4>1, <4>2
    <3>5. q # pos
      BY <1>2, <3>1, <3>4
    <3>6. q \in (pos + 1)..Len(schedule)
      BY <1>2, <3>5
    <3> QED BY <1>2, <3>3, <3>4, <3>6
  <2>2. CASE ~(Solves(View) /\ x = ActorOf(View))
    <3>1. ToEvolve(x, pos)
      BY <1>2, <1>5, <2>2 DEF SameInv, ForecastInv
    <3>2. PICK q \in pos..Len(schedule) :
            schedule[q].op = "evolve" /\ schedule[q].leaf = x
      BY <3>1 DEF ToEvolve
    <3>3. q # pos
      <4> SUFFICES ASSUME q = pos PROVE FALSE
        OBVIOUS
      <4>1. call.op = "evolve" /\ call.leaf = x
        BY <1>2, <3>2
      <4>2. ActionOf[x] = x
        BY <1>4, OwnLeaf
      <4>3. a = x
        BY <1>1, <4>1, <4>2, CallDue DEF a
      <4>4. CallOf(View) = call /\ ActorOf(View) = x
        BY <1>1, <4>1, <4>3, ViewOf
      <4> QED BY <2>2, <4>1, <4>4 DEF Solves, Solvers
    <3>4. q \in (pos + 1)..Len(schedule)
      BY <1>2, <3>3
    <3> QED BY <3>2, <3>4
  <2> QED BY <2>1, <2>2
<1>7. pos # Len(schedule)
  BY <1>2, <1>6
<1>8. ToEvolve(x, pos) /\ ToEvolve(x, pos + 1)
  <2>1. \A q \in (pos + 1)..Len(schedule) : q \in pos..Len(schedule)
    BY <1>2
  <2> QED BY <1>6, <2>1 DEF ToEvolve
<1>9. schedule' = schedule
  BY <1>1
<1> QED BY <1>3, <1>7, <1>8

LEMMA CallSame ==
  ASSUME IInv, IInv', SameInv, Calls
  PROVE  SameInv'
<1>1. /\ Types /\ Place /\ Evolving
      /\ IF call.op = "evolve" THEN Stepped ELSE Called
      /\ UNCHANGED <<schedule, reverse, saved, traj, first, test, tests>>
      /\ \A x \in Solvers : obj'[x].phi = obj[x].phi
  BY CallFacts DEF IInv
<1>2. View' = NextView(View)
  BY CallView DEF SameInv
<1>3. pc' \in {"evolve", "evolve_back", "h_final", "h_back"}
  BY <1>1, PlaceView
<1>4. TestsInv'
  <2>1. pc' \in {"h_final", "h_back"} => step' = 1
    BY <1>1 DEF Stepped, Called, Evolving
  <2>2. IsSeq(first)'
    BY <1>1 DEF SameInv, TestsInv, IsSeq
  <2> QED BY <1>1, <1>3, <2>1, <2>2 DEF SameInv, TestsInv, Evolving
<1>5. FieldsInv'
  <2>1. \A x \in Solvers : Field(x)' = Field(x) /\ obj[x].phi = Field(x)
    BY <1>1 DEF Field, SameInv, FieldsInv, Running, Evolving
  <2>2. Solvers' = Solvers
    BY DEF Solvers
  <2> QED BY <1>1, <1>3, <2>1, <2>2 DEF FieldsInv
<1>6. ForecastInv'
  BY <1>2, CallForecast
<1>7. ViewsInv' /\ SameGuesses'
  <2>1. IsSeq(log) /\ IsSeq(log)' /\ IsSeq(first) /\ pc' \in Running
    BY <1>3 DEF IInv, HistoryInv, SameInv, TestsInv, Running
  <2> QED BY <1>1, <1>2, <2>1, CallStep DEF SameInv
<1> QED BY <1>4, <1>5, <1>6, <1>7 DEF SameInv

LEMMA StutterSame ==
  ASSUME SameInv, UNCHANGED vars
  PROVE  SameInv'
<1>1. UNCHANGED <<schedule, tests, reverse, obj, gauge, saved, pc, pos, step, test,
                  traj, log, first>>
  BY DEF vars
<1>2. TestsInv'
  BY <1>1 DEF SameInv, TestsInv, IsSeq, Evolving
<1>3. FieldsInv' /\ ForecastInv'
  BY <1>1 DEF SameInv, FieldsInv, ForecastInv, Field, Solvers, Evolving, ToEvolve
<1>4. View' = View
  BY <1>1 DEF View, At, Evolving, NotedLog, Noted, Sketch, Kept, Names, Solvers, Begins
<1>5. SameGuesses'
  BY <1>1 DEF SameInv, SameGuesses, Names
<1>6. ViewsInv'
  <2>1. CASE pc \in Running
    BY <1>1, <1>4, <2>1, StayStep DEF SameInv
  <2>2. CASE pc \notin Running
    BY <1>1, <2>2, BeforeTestStep DEF SameInv
  <2> QED BY <2>1, <2>2
<1> QED BY <1>2, <1>3, <1>5, <1>6 DEF SameInv

LEMMA InitSameInv ==
  ASSUME Init
  PROVE  SameInv
<1>1. /\ test = 1 /\ tests \in Testss /\ first = <<>> /\ step = 1 /\ pc = "construct"
      /\ obj = [x \in Actions |-> NewObj(x)]
  BY DEF Init
<1>2. TestsInv
  <2>1. <<>> \in Seq({})
    OBVIOUS
  <2> QED BY <1>1, <2>1, PseudoFermionsAssumption DEF TestsInv, IsSeq
<1>3. FieldsInv /\ ViewsInv /\ SameGuesses
  BY <1>1 DEF FieldsInv, ViewsInv, SameGuesses, Running
<1>4. ForecastInv
  BY <1>1 DEF ForecastInv, Solvers, NewObj
<1> QED BY <1>2, <1>3, <1>4 DEF SameInv

LEMMA NextSame ==
  ASSUME IInv, SameInv, [Next]_vars
  PROVE  SameInv'
<1>1. IInv'
  BY NextStep
<1>2. CASE Construct
  <2>1. pc' \in {"construct", "save"}
    BY <1>2 DEF Construct, Visited
  <2> QED BY <1>2, <2>1, OutsideSame DEF Construct, input, driver
<1>3. CASE ConstructFails \/ HeatbathFails \/ PrepareFgFails
  BY <1>3, StopSame DEF ConstructFails, HeatbathFails, PrepareFgFails, Evolving
<1>4. CASE SaveInitialState
  BY <1>4, OutsideSame DEF SaveInitialState, input
<1>5. CASE InitLeaf
  BY <1>1, <1>5, InitSame
<1>6. CASE RestoreInitialState
  BY <1>6, RestoreSame
<1>7. CASE Heatbath \/ HeatbathRational
  BY <1>1, <1>7, HeatbathSame
<1>8. CASE Energy \/ EnergyCounted
  BY <1>8, EnergySame
<1>9. CASE Calls
  BY <1>1, <1>9, CallSame
<1>10. CASE SaveFinalState
  BY <1>10, SaveFinalSame
<1>11. CASE EndTest
  BY <1>11, EndTestSame
<1>12. CASE Metropolis
  <2>1. pc' \in {"save", "done"}
    BY <1>12 DEF Metropolis
  <2> QED BY <1>12, <2>1, OutsideSame DEF Metropolis, input
<1>13. CASE UNCHANGED vars
  BY <1>13, StutterSame
<1> QED
  BY <1>2, <1>3, <1>4, <1>5, <1>6, <1>7, <1>8, <1>9, <1>10, <1>11, <1>12, <1>13
     DEF Next, Calls

\* The second test starts every solver as the first one did: whatever was left
\* in memory, what it is given are the solutions of the same steps, from the same
\* fields, in the same places.
THEOREM TestsAgree == Spec => []SameGuesses
<1>1. Init => IInv /\ SameInv
  BY InitIInv, InitSameInv
<1>2. IInv /\ SameInv /\ [Next]_vars => (IInv /\ SameInv)'
  BY NextStep, NextSame
<1>3. SameInv => SameGuesses
  BY DEF SameInv
<1> QED BY <1>1, <1>2, <1>3, PTL DEF Spec
=============================================================================
