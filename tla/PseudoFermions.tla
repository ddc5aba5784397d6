--------------------------- MODULE PseudoFermions ---------------------------
(***************************************************************************)
(* The pseudofermion actions (alg_action_*.C) as AlgHmc::run uses them:    *)
(* init, heatbath, energy, prepare_fg and evolve, called leaf by leaf      *)
(* through the tree of integrators.  What they keep between these calls is *)
(* modelled: the flags that say when a cached energy may be used, the      *)
(* action that several AlgActionRationalSplit leaves share, and the        *)
(* earlier solutions from which the solver is started (FminResExt).        *)
(*                                                                         *)
(* A pseudofermion field is the number of the draw that made it, a gauge   *)
(* field is named by the moves that led to it, and the contents of a       *)
(* vector is the set of solutions of which it is a linear combination.     *)
(* Momenta, the gauge action, the values of energies and forces and the    *)
(* counters of solver calls are left out.                                  *)
(***************************************************************************)
EXTENDS Integers, Sequences, FiniteSets

CONSTANTS
  Actions,             (* objects AlgActionFermion, ...Boson, ...Rational   *)
  Kind,                (* their classes                                     *)
  Chrono,              (* Chrono[a][i]: solutions kept for mass i           *)
  Degree,              (* poles of the rational approximation               *)
  Leaves,              (* leaves of the integrator tree, in calling order   *)
  ActionOf,            (* the action that a leaf is, or is a split of       *)
  Ranges,              (* <<split_low, split_high>> that may be configured  *)
  Schedules,           (* calls that one evolve of the tree makes           *)
  Testss, Reverses,    (* HmcArg: tests per trajectory, reversibility test  *)
  MaxTraj              (* bound: trajectories                               *)

Kinds == {"FERMION", "QUOTIENT", "BOSON", "RATIONAL"}

Masses(a) == DOMAIN Chrono[a]

\* Calls that evolve of the tree makes to the momenta and to the actions.
Ops == {"drift", "shift", "restore", "prepare", "evolve"}

LeafSet == {Leaves[p] : p \in DOMAIN Leaves}

\* A leaf is an action, or an AlgActionRationalSplit of a rational action.
Split(l) == l # ActionOf[l]

Rational(a) == Kind[a] = "RATIONAL"

\* An action is a leaf, or is rational and all its leaves are splits; no leaf is
\* in the tree twice.  Each call of prepare_fg is followed by one of evolve, and
\* every leaf is evolved.
ASSUME PseudoFermionsAssumption ==
  /\ Kind \in [Actions -> Kinds]
  /\ \A a \in Actions : Chrono[a] \in Seq(Nat) /\ Chrono[a] # <<>>
  /\ Degree \in [Actions -> Nat]
  /\ Leaves \in Seq(STRING) /\ Leaves # <<>>
  /\ ActionOf \in [LeafSet -> Actions]
  /\ \A l \in LeafSet : Split(l) => ~(l \in Actions) /\ Rational(ActionOf[l])
  /\ \A a \in Actions : \E l \in LeafSet : ActionOf[l] = a
  /\ \A a \in Actions \cap LeafSet : \A l \in LeafSet : ActionOf[l] = a => l = a
  /\ \A p, q \in DOMAIN Leaves : Leaves[p] = Leaves[q] => p = q
  /\ Ranges \subseteq Nat \X Nat
  /\ Schedules \subseteq Seq([op : Ops, leaf : STRING, n : Nat \ {0}])
  /\ \A s \in Schedules : \A p \in DOMAIN s :
       s[p].op \in {"prepare", "evolve"} => s[p].leaf \in LeafSet
  /\ \A s \in Schedules : \A p \in DOMAIN s : s[p].op = "prepare" =>
       \E q \in p..Len(s) : s[q].op = "evolve" /\ s[q].leaf = s[p].leaf
  /\ \A s \in Schedules : \A l \in LeafSet :
       \E q \in DOMAIN s : s[q].op = "evolve" /\ s[q].leaf = l
  /\ Testss \subseteq 1..2 /\ Reverses \subseteq BOOLEAN /\ MaxTraj \in Nat

VARIABLES
  schedule, tests, reverse,
  range, splitCheck,   (* fractionSplit of a leaf; splitCheck of an action  *)
  obj,                 (* the members of every action                       *)
  gauge, rng,
  saved, final,        (* copies that AlgHmc keeps                          *)
  pc, pos, step,       (* stage of run(), leaf or call, step of evolve      *)
  test, traj,
  terms,               (* history: what energy() has added up               *)
  log, first,          (* history: guesses of this and of the first test    *)
  serial               (* history: tests so far                             *)

vars == <<schedule, tests, reverse, range, splitCheck, obj, gauge, rng, saved,
          final, pc, pos, step, test, traj, terms, log, first, serial>>

input == <<schedule, tests, reverse>>
driver == <<saved, final, test, traj, serial, first>>
split == <<range, splitCheck>>

-----------------------------------------------------------------------------
(* Construction *)

\* What memory contains that nothing was written to.
Unwritten == [serial |-> 0, md |-> 0, phi |-> 0, gauge |-> 0]

Slots(c) == 0..(IF c > 0 THEN c - 1 ELSE 0)

NewObj(a) ==
  [evolved |-> TRUE, heatbathEval |-> FALSE, energyEval |-> FALSE,
   h_init |-> [of |-> a, phi |-> 0, gauge |-> 0],
   fg_forecast |-> FALSE, md_steps |-> 0, phi |-> 0,
   v |-> [i \in Masses(a) |-> [s \in Slots(Chrono[a][i]) |->
            IF s = 0 THEN {} ELSE {Unwritten}]]]

Init ==
  /\ schedule \in Schedules /\ tests \in Testss /\ reverse \in Reverses
  /\ range \in [LeafSet -> Ranges]
  /\ \A l \in LeafSet : ~Split(l) => range[l] = <<0, Degree[ActionOf[l]]>>
  /\ splitCheck = [a \in Actions |-> {}]
  /\ obj = [a \in Actions |-> NewObj(a)]
  /\ gauge = [traj |-> 0, n |-> 0, moved |-> FALSE]
  /\ rng = 0
  /\ saved = [gauge |-> gauge, rng |-> 0] /\ final = gauge
  /\ pc = "construct" /\ pos = 1 /\ step = 1 /\ test = 1 /\ traj = 1
  /\ terms = <<>> /\ log = <<>> /\ first = <<>> /\ serial = 0

\* The call of schedule, or the leaf, that is due.
Evolving == pc \in {"evolve", "evolve_back"}
call == schedule[pos]
leaf == IF Evolving THEN call.leaf ELSE Leaves[pos]
a == ActionOf[leaf]
o == obj[a]

\* One leaf has been visited; when all are, stage s follows.
Visited(s) ==
  IF pos = Len(Leaves) THEN pc' = s /\ pos' = 1
  ELSE pc' = pc /\ pos' = pos + 1

Poles(l) == range[l][1]..(range[l][2] - 1)

\* Mutant: a pole that another leaf evolves is not noticed.
Available_Bug == Poles(leaf) \subseteq 0..(Degree[a] - 1)

\* setSplit accepts the poles of the leaf.
Available == Poles(leaf) \subseteq (0..(Degree[a] - 1)) \ splitCheck[a]

Construct ==
  /\ pc = "construct"
  /\ Split(leaf) => Available
  /\ splitCheck' = IF Split(leaf)
                     THEN [splitCheck EXCEPT ![a] = @ \cup Poles(leaf)]
                     ELSE splitCheck
  /\ Visited("save")
  /\ UNCHANGED <<input, driver, range, obj, gauge, rng, step, terms, log>>

\* ERR.General ends the program.
Stop ==
  /\ pc' = "stopped"
  /\ UNCHANGED <<input, driver, split, obj, gauge, rng, pos, step, terms, log>>

ConstructFails == pc = "construct" /\ Split(leaf) /\ ~Available /\ Stop

-----------------------------------------------------------------------------
(* AlgHmc::run, up to the heatbath *)

SaveInitialState ==
  /\ pc = "save"
  /\ saved' = [gauge |-> gauge, rng |-> rng]
  /\ test' = 1
  /\ pc' = "init"
  /\ UNCHANGED <<input, split, obj, gauge, rng, final, pos, step, traj, terms,
                 log, first, serial>>

\* Mutant: the history of solutions outlives the test.
Reset_Bug(x) ==
  IF Rational(x) THEN obj[x] ELSE [obj[x] EXCEPT !.evolved = TRUE]

\* init(): AlgActionRational only has init(int), so AlgActionBilinear::init() is
\* what is called for it, and its flags stay.
Reset(x) ==
  LET r == [obj[x] EXCEPT !.md_steps = 0] IN
  IF Kind[x] \in {"RATIONAL", "BOSON"} THEN r
  ELSE [r EXCEPT !.evolved = TRUE,
                 !.v = [i \in Masses(x) |-> [@[i] EXCEPT ![0] = {}]]]

\* A split inherits init(), which resets counters of its own that nothing uses.
InitLeaf ==
  /\ pc = "init"
  /\ obj' = IF Split(leaf) THEN obj ELSE [obj EXCEPT ![a] = Reset(a)]
  /\ IF pos = 1
       THEN /\ serial' = serial + 1
            /\ log' = <<>>
       ELSE UNCHANGED <<serial, log>>
  /\ Visited("restore")
  /\ UNCHANGED <<input, split, gauge, rng, saved, final, first, step, test, traj,
                 terms>>

RestoreInitialState ==
  /\ pc = "restore"
  /\ gauge' = saved.gauge /\ rng' = saved.rng
  /\ pc' = "heatbath"
  /\ UNCHANGED <<input, driver, split, obj, pos, step, terms, log>>

\* heatbath() draws phi and notes its energy in the present gauge field.
Drawn(x) ==
  [obj[x] EXCEPT !.phi = rng + 1, !.evolved = FALSE, !.heatbathEval = Rational(x),
                 !.energyEval = FALSE,
                 !.h_init = [of |-> x, phi |-> rng + 1, gauge |-> gauge]]

Draw ==
  /\ obj' = [obj EXCEPT ![a] = Drawn(a)]
  /\ rng' = rng + 1

Heatbath ==
  /\ pc = "heatbath" /\ ~Rational(a)
  /\ Draw
  /\ Visited("h_init")
  /\ UNCHANGED <<input, driver, split, gauge, step, terms, log>>

\* checkSplit
AllIncluded == splitCheck[a] = 0..(Degree[a] - 1)

\* Mutant: every split draws the field of the action it shares.
MustDraw_Bug == TRUE

MustDraw == ~o.heatbathEval

HeatbathRational ==
  /\ pc = "heatbath" /\ Rational(a)
  /\ Split(leaf) => AllIncluded
  /\ IF MustDraw THEN Draw ELSE UNCHANGED <<obj, rng>>
  /\ Visited("h_init")
  /\ UNCHANGED <<input, driver, split, gauge, step, terms, log>>

HeatbathFails == pc = "heatbath" /\ Split(leaf) /\ ~AllIncluded /\ Stop

-----------------------------------------------------------------------------
(* energy() *)

Energies == {"h_init", "h_final", "h_back"}

After(stage) ==
  CASE stage = "h_init"  -> "evolve"
    [] stage = "h_final" -> "end_forward"
    [] stage = "h_back"  -> "end_test"

\* The sum starts with the first leaf.
Add(t) == terms' = (IF pos = 1 THEN <<>> ELSE terms) \o t

Current(x) == [of |-> x, phi |-> obj[x].phi, gauge |-> gauge]

\* Mutant: the cached energy is used after molecular dynamics too.
CacheValid_Bug == Kind[a] # "BOSON"

CacheValid == Kind[a] # "BOSON" /\ ~o.evolved

\* Mutant: every leaf of a rational action contributes its energy.
CountedBefore_Bug == FALSE

\* Another leaf of the same rational action has been asked.
CountedBefore == Rational(a) /\ o.energyEval

EnergyCounted ==
  /\ pc \in Energies
  /\ CountedBefore
  /\ Add(<<>>)
  /\ Visited(After(pc))
  /\ UNCHANGED <<input, driver, split, obj, gauge, rng, step, log>>

Energy ==
  /\ pc \in Energies
  /\ ~CountedBefore
  /\ Add(<<IF CacheValid THEN o.h_init ELSE Current(a)>>)
  /\ obj' = [obj EXCEPT ![a].energyEval = Rational(a)]
  /\ Visited(After(pc))
  /\ UNCHANGED <<input, driver, split, gauge, rng, step, log>>

-----------------------------------------------------------------------------
(* The start of the solver *)

\* With m the number of earlier solves and c = chrono[i].
Deg(m, c)  == IF m > c THEN c ELSE m
Slot(m, c) == IF c > 0 THEN m % c ELSE 0

\* cg_sol_old[i][j - 1]
Old(m, c, j) == (Slot(m, c) - j) % c

\* FminResExt makes the vectors it is given orthogonal, each to those before.
Orthogonal(w, m, c, j) == UNION {w[Old(m, c, k)] : k \in 1..j}

Orthogonalised(w, m, c) ==
  [s \in DOMAIN w |->
     IF \E j \in 1..Deg(m, c) : Old(m, c, j) = s
       THEN Orthogonal(w, m, c, CHOOSE j \in 1..Deg(m, c) : Old(m, c, j) = s)
       ELSE w[s]]

Offered(w, m, c) == Orthogonal(w, m, c, Deg(m, c))

\* The vector that receives the guess is set to zero before they are added up.
MinRes(w, m, c) ==
  UNION {Orthogonal(w, m, c, j) :
           j \in {k \in 1..Deg(m, c) : Old(m, c, k) # Slot(m, c)}}

\* Solutions named without the test that found them.
Names(S) == {[md |-> x.md, phi |-> x.phi, gauge |-> x.gauge] : x \in S}

\* The initial guess for mass i.  If no earlier solutions are kept, the solution
\* of a force gradient solve is used as it is (forecast).
Skip(forecast, i) == forecast /\ Deg(o.md_steps, Chrono[a][i]) = 0

Used(forecast, i) ==
  IF Skip(forecast, i) THEN o.v[i][0]
  ELSE MinRes(o.v[i], o.md_steps, Chrono[a][i])

Given(forecast, i) ==
  IF Skip(forecast, i) THEN o.v[i][0]
  ELSE Offered(o.v[i], o.md_steps, Chrono[a][i])

Guesses(forecast) ==
  Append(log, [of    |-> a,
               used  |-> [i \in Masses(a) |-> Used(forecast, i)],
               given |-> [i \in Masses(a) |-> Given(forecast, i)]])

\* The solution is written over the guess.
Solved ==
  LET solution == [serial |-> serial, md |-> o.md_steps,
                   phi |-> o.phi, gauge |-> gauge]
  IN  [i \in Masses(a) |->
         [Orthogonalised(o.v[i], o.md_steps, Chrono[a][i])
            EXCEPT ![Slot(o.md_steps, Chrono[a][i])] = {solution}]]

-----------------------------------------------------------------------------
(* evolve() *)

\* Call pos has been made.
Called ==
  IF pos = Len(schedule)
    THEN /\ pc' = IF pc = "evolve" THEN "h_final" ELSE "h_back"
         /\ pos' = 1 /\ step' = 1
    ELSE pc' = pc /\ pos' = pos + 1 /\ step' = 1

\* One of the steps of evolve(dt, steps) has been made.
Stepped == IF step = call.n THEN Called ELSE step' = step + 1 /\ UNCHANGED <<pc, pos>>

\* AlgMomentum moves the gauge field; "shift" and "restore" are evolve_fg's.
MoveGauge ==
  /\ Evolving /\ call.op \in {"drift", "shift", "restore"}
  /\ gauge' = CASE call.op = "drift"   -> [gauge EXCEPT !.traj = traj, !.n = @ + 1]
                [] call.op = "shift"   -> [gauge EXCEPT !.moved = TRUE]
                [] call.op = "restore" -> [gauge EXCEPT !.moved = FALSE]
  /\ Called
  /\ UNCHANGED <<input, driver, split, obj, rng, terms, log>>

\* AlgActionFermion and AlgActionQuotient.
Chronological(x) == Kind[x] \in {"FERMION", "QUOTIENT"}

PrepareFg ==
  /\ Evolving /\ call.op = "prepare" /\ Chronological(a)
  /\ log' = Guesses(FALSE)
  /\ obj' = [obj EXCEPT ![a].v = Solved, ![a].fg_forecast = TRUE,
                        ![a].md_steps = @ + 1]
  /\ Called
  /\ UNCHANGED <<input, driver, split, gauge, rng, terms>>

Evolve ==
  /\ Evolving /\ call.op = "evolve" /\ Chronological(a)
  /\ log' = Guesses(o.fg_forecast)
  /\ obj' = [obj EXCEPT ![a].v = Solved, ![a].fg_forecast = FALSE,
                        ![a].md_steps = @ + 1, ![a].evolved = TRUE]
  /\ Stepped
  /\ UNCHANGED <<input, driver, split, gauge, rng, terms>>

PrepareFgRational ==
  /\ Evolving /\ call.op = "prepare" /\ Rational(a) /\ ~Split(leaf)
  /\ Called
  /\ UNCHANGED <<input, driver, split, obj, gauge, rng, terms, log>>

\* AlgActionRationalSplit has no force gradient.
PrepareFgFails ==
  Evolving /\ call.op = "prepare" /\ Split(leaf) /\ Stop

\* Mutant: the field is not drawn anew for the next trajectory.
HeatbathEvalAfterMd_Bug == TRUE

HeatbathEvalAfterMd == FALSE

EvolveRational ==
  /\ Evolving /\ call.op = "evolve" /\ Rational(a)
  /\ obj' = [obj EXCEPT ![a].evolved = TRUE,
                        ![a].heatbathEval = HeatbathEvalAfterMd,
                        ![a].energyEval = FALSE,
                        ![a].md_steps = @ + 1]
  /\ Stepped
  /\ UNCHANGED <<input, driver, split, gauge, rng, terms, log>>

\* The force of AlgActionBoson needs no solver.
EvolveBoson ==
  /\ Evolving /\ call.op \in {"prepare", "evolve"} /\ Kind[a] = "BOSON"
  /\ IF call.op = "evolve" THEN Stepped ELSE Called
  /\ UNCHANGED <<input, driver, split, obj, gauge, rng, terms, log>>

-----------------------------------------------------------------------------
(* AlgHmc::run, after the final energy *)

\* The reversibility test keeps the final field and evolves back.
SaveFinalState ==
  /\ pc = "end_forward"
  /\ final' = gauge
  /\ pc' = IF reverse THEN "evolve_back" ELSE "end_test"
  /\ UNCHANGED <<input, split, obj, gauge, rng, saved, first, pos, step, test,
                 traj, terms, log, serial>>

\* The last test is followed by the Metropolis step.
EndTest ==
  /\ pc = "end_test"
  /\ gauge' = final
  /\ first' = IF test = 1 THEN log ELSE first
  /\ IF test < tests
       THEN test' = test + 1 /\ pc' = "init"
       ELSE test' = test /\ pc' = "metropolis"
  /\ UNCHANGED <<input, split, obj, rng, saved, final, pos, step, traj, terms,
                 log, serial>>

Metropolis ==
  /\ pc = "metropolis"
  /\ gauge' \in {gauge, saved.gauge}
  /\ rng' = rng + 1
  /\ IF traj < MaxTraj THEN traj' = traj + 1 /\ pc' = "save"
     ELSE traj' = traj /\ pc' = "done"
  /\ UNCHANGED <<input, split, obj, saved, final, pos, step, test, terms, log,
                 first, serial>>

Next ==
  \/ Construct \/ ConstructFails
  \/ SaveInitialState \/ InitLeaf \/ RestoreInitialState
  \/ Heatbath \/ HeatbathRational \/ HeatbathFails
  \/ Energy \/ EnergyCounted
  \/ MoveGauge \/ PrepareFg \/ Evolve \/ PrepareFgRational \/ PrepareFgFails
  \/ EvolveRational \/ EvolveBoson
  \/ SaveFinalState \/ EndTest \/ Metropolis

Spec == Init /\ [][Next]_vars

-----------------------------------------------------------------------------
(* Properties *)

\* When the tree has been asked for its energy, the sum holds every action once,
\* in the gauge field and with the pseudofermion field of this moment, though
\* energies are cached and several leaves may share an action.
EnergyCountedOnce ==
  [][(pc \in Energies /\ pc' # pc) =>
       (/\ Len(terms') = Cardinality(Actions)
        /\ \A x \in Actions : \E p \in DOMAIN terms' : terms'[p] = Current(x))]_vars

\* Every test draws a field of its own for every action, no two from the same
\* random numbers, and uses up as many whatever the number of leaves.
HeatbathDrawsEachOnce ==
  [][(pc = "heatbath" /\ pc' = "h_init") =>
       (/\ rng' = saved.rng + Cardinality(Actions)
        /\ {obj'[x].phi : x \in Actions} = (saved.rng + 1)..rng')]_vars

\* The solver is only ever started from solutions of the same test and of the
\* same pseudofermion field: no memory of an earlier trajectory, which would
\* make the trajectory irreversible, and no unwritten memory.
GuessesOfThisTest ==
  \A p \in DOMAIN log : \A i \in DOMAIN log[p].used :
    \A x \in log[p].used[i] : x.serial = serial /\ x.phi = obj[log[p].of].phi

\* The test that checks reproducibility starts each solver as the first one did.
SameGuesses ==
  test = 2 /\ pc # "init" =>
    \A p \in DOMAIN log :
      /\ p \in DOMAIN first
      /\ first[p].of = log[p].of
      /\ \A i \in DOMAIN log[p].used : Names(first[p].used[i]) = Names(log[p].used[i])

\* Once trajectories run, the leaves of a rational action evolve each of its
\* poles exactly once.
PolesPartitioned ==
  pc \in {"evolve", "evolve_back"} =>
    \A x \in {x \in Actions : Rational(x)} : \A j \in 0..(Degree[x] - 1) :
      \E l \in LeafSet :
        \A k \in LeafSet : ActionOf[k] = x => (j \in Poles(k) <=> k = l)

\* "This computes the guess solution as a linear combination of a given number
\* of previous solutions": all those it is given contribute.
GuessUsesHistory ==
  \A p \in DOMAIN log : log[p].used = log[p].given
=============================================================================
