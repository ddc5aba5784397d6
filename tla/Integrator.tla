----------------------------- MODULE Integrator -----------------------------
(***************************************************************************)
(* The molecular dynamics integrators (alg_int_*.C): a tree whose inner    *)
(* nodes are integrators of two operators A and B and whose leaves are the *)
(* momenta (AlgMomentum, which moves the gauge field) and the actions      *)
(* (which move the momenta by their force).  evolve() of an inner node     *)
(* calls evolve() of A and B in turn; with force gradient it moves the     *)
(* gauge field aside for one of these calls and puts it back.              *)
(*                                                                         *)
(* Real numbers are modelled by the integers modulo the prime P, in which  *)
(* the coefficients of the schedules, halves and quotients exist: an       *)
(* identity that the code relies on holds there too, and a state is one    *)
(* number for the gauge field and one for the momenta.  Rounding, and with *)
(* it the size of the reversibility violation that AlgHmc reports, is left *)
(* out; so is how an action computes its force.                            *)
(***************************************************************************)
EXTENDS Integers, Sequences

CONSTANTS
  P,                   (* a prime                                          *)
  Trees,               (* trees: functions from node names to nodes        *)
  ForceOf(_, _),         (* force of an action in a gauge field              *)
  dts, stepss          (* arguments of the top level evolve()              *)

Num == 0..(P - 1)

AB == {"LEAP", "OMELYAN", "CAMPOSTRINI", "OMELYAN_44", "OMELYAN_45",
       "FORCE_GRAD_PQPQP", "FORCE_GRAD_QPQPQ", "SUM"}

Coefs == {"lambda", "sigma", "rho", "theta", "mu", "chi"}

\* The node "top" is the root; leaves have type "MOM" or "ACTION".  The numbers
\* an integrator keeps besides A_steps and B_steps are in its field k.
ASSUME IntegratorAssumption ==
  /\ P \in Nat /\ P > 2
  /\ \A t \in Trees : "top" \in DOMAIN t
  /\ \A t \in Trees : \A n \in DOMAIN t :
       \/ t[n].type \in {"MOM", "ACTION"}
       \/ /\ t[n].type \in AB
          /\ {t[n].A, t[n].B} \subseteq DOMAIN t
          /\ {t[n].A_steps, t[n].B_steps} \subseteq Nat \ {0}
          /\ t[n].k \in [Coefs -> Int]
  /\ \A t \in Trees : t["top"].type \in AB
  /\ dts \subseteq Num /\ stepss \subseteq Nat \ {0}

\* Nodes that move the momenta only: the actions, and sums of them.
Kicks(t) ==
  UNION {S \in SUBSET DOMAIN t : \A n \in S :
           \/ t[n].type = "ACTION"
           \/ t[n].type = "SUM" /\ {t[n].A, t[n].B} \subseteq S}

\* A node is built from two that exist already.  Only what commutes is added up
\* (alg_int_sum.C: "If they do not commute, then the care must be taken"), and
\* only actions and their sums have a prepare_fg.
ASSUME TreesAssumption ==
  \A t \in Trees :
    /\ \A S \in SUBSET DOMAIN t : S # {} => \E n \in S :
         t[n].type \in AB => {t[n].A, t[n].B} \cap S = {}
    /\ \A n \in DOMAIN t :
         /\ t[n].type = "SUM" => n \in Kicks(t)
         /\ t[n].type = "FORCE_GRAD_PQPQP" => t[n].A \in Kicks(t)
         /\ t[n].type = "FORCE_GRAD_QPQPQ" => t[n].B \in Kicks(t)

\* The leaves below a node.
Leaves(t, w) ==
  {n \in DOMAIN t :
     /\ t[n].type \notin AB
     /\ \A S \in SUBSET DOMAIN t :
          w \in S /\ (\A m \in S : t[m].type \in AB => {t[m].A, t[m].B} \subseteq S)
            => n \in S}

\* For the times: P is a prime, nothing is divided by zero, every leaf is below
\* the root and none is below both operators of a node, and a sum evolves its
\* operators once (as every program that has one sets it).
ASSUME TimesAssumption ==
  /\ \A x \in 1..(P - 1) : \E y \in Num : (x * y) % P = 1
  /\ \A t \in Trees :
       /\ \A n \in DOMAIN t : t[n].type \notin AB => n \in Leaves(t, "top")
       /\ \A n \in DOMAIN t : t[n].type \in AB =>
            /\ Leaves(t, t[n].A) \cap Leaves(t, t[n].B) = {}
            /\ t[n].A_steps % P # 0 /\ t[n].B_steps % P # 0
            /\ t[n].type = "SUM" => t[n].A_steps = 1 /\ t[n].B_steps = 1
            /\ t[n].type = "CAMPOSTRINI" => (2 - t[n].k.sigma) % P # 0

ASSUME ForceAssumption ==
  \A t \in Trees : \A n \in DOMAIN t, g \in Num :
    t[n].type = "ACTION" => ForceOf(n, g) \in Int

VARIABLES
  tree, dt, steps,
  gauge, mom,
  stack,               (* calls of evolve() under way, innermost first     *)
  phase,               (* "start", "forward", "back" or "done"             *)
  clock,               (* history: time every leaf has evolved forward     *)
  begin                (* history: gauge and mom before                    *)

vars == <<tree, dt, steps, gauge, mom, stack, phase, clock, begin>>

args == <<tree, dt, steps, begin>>

-----------------------------------------------------------------------------
(* Arithmetic of Num *)

a (+) b == (a + b) % P
a (-) b == (a - b) % P
a (.) b == (a * b) % P

\* A division by zero gives some number or other.
Quotient == [a \in Num |-> [b \in Num |->
  CHOOSE q \in Num : (\E r \in Num : (r * b) % P = a) => (q * b) % P = a]]
a (/) b == Quotient[a % P][b % P]

-----------------------------------------------------------------------------
(* Schedules.  All integrators but AlgIntSum open with A, repeat an inner   *)
(* sequence of calls, join repetitions with A and close with A.             *)

\* A call of A or B that evolves it by time t, and whether it is made by
\* evolve_fg, with fg_dt.
Plain(who, t)     == [who |-> who, t |-> t, fg |-> FALSE, fg_dt |-> 0]
Fg(who, fg_dt, t) == [who |-> who, t |-> t, fg |-> TRUE, fg_dt |-> fg_dt]

Two(a) == 2 (.) a

\* A scheme: tau is the step, k the coefficients, edge the time of the first
\* and the last call of A, inner the calls in between.
Scheme(edge, inner) == [edge |-> edge, inner |-> inner]

Leap(k, tau) == Scheme(tau (/) 2, <<Plain("B", tau)>>)

Omelyan(k, tau) ==
  LET b == Plain("B", tau (/) 2) IN
  Scheme(k.lambda (.) tau,
         <<b, Plain("A", (1 (-) Two(k.lambda)) (.) tau), b>>)

Campostrini(k, tau) ==
  LET epsilon == tau (/) (2 (-) k.sigma)
      a == Plain("A", ((1 (-) k.sigma) (.) epsilon) (/) 2)
      b == Plain("B", epsilon)
  IN  Scheme(epsilon (/) 2,
             <<b, a, Plain("B", (0 (-) epsilon) (.) k.sigma), a, b>>)

Omelyan44(k, tau) ==
  LET b  == Plain("B", k.lambda (.) tau)
      a  == Plain("A", k.theta (.) tau)
      b2 == Plain("B", ((1 (-) Two(k.lambda)) (.) tau) (/) 2)
  IN  Scheme(k.rho (.) tau,
             <<b, a, b2, Plain("A", (1 (-) Two(k.theta (+) k.rho)) (.) tau),
               b2, a, b>>)

Omelyan45(k, tau) ==
  LET b  == Plain("B", k.rho (.) tau)
      a  == Plain("A", k.lambda (.) tau)
      b2 == Plain("B", k.mu (.) tau)
      a2 == Plain("A", ((1 (-) Two(k.lambda (+) k.theta)) (.) tau) (/) 2)
  IN  Scheme(k.theta (.) tau,
             <<b, a, b2, a2, Plain("B", (1 (-) Two(k.mu (+) k.rho)) (.) tau),
               a2, b2, a, b>>)

ForceGradPQPQP(k, tau) ==
  LET b == Plain("B", tau (/) 2)
      t == (1 (-) Two(k.lambda)) (.) tau
      Chi == k.chi (.) (tau (.) (tau (.) tau))
  IN  Scheme(k.lambda (.) tau, <<b, Fg("A", Two(Chi) (/) t, t), b>>)

ForceGradQPQPQ(k, tau) ==
  LET Theta == k.theta (.) (tau (.) (tau (.) tau))
      b == Fg("B", (4 (.) Theta) (/) tau, tau (/) 2)
  IN  Scheme(k.lambda (.) tau,
             <<b, Plain("A", (1 (-) Two(k.lambda)) (.) tau), b>>)

SchemeOf(type, k, tau) ==
  CASE type = "LEAP"             -> Leap(k, tau)
    [] type = "OMELYAN"          -> Omelyan(k, tau)
    [] type = "CAMPOSTRINI"      -> Campostrini(k, tau)
    [] type = "OMELYAN_44"       -> Omelyan44(k, tau)
    [] type = "OMELYAN_45"       -> Omelyan45(k, tau)
    [] type = "FORCE_GRAD_PQPQP" -> ForceGradPQPQP(k, tau)
    [] type = "FORCE_GRAD_QPQPQ" -> ForceGradQPQPQ(k, tau)

Edge(type, k, tau)  == SchemeOf(type, k, tau).edge
Inner(type, k, tau) == SchemeOf(type, k, tau).inner

\* Mutant: the half step of the last repetition is made after every one.
Join_Bug(type, k, tau) == Edge(type, k, tau)

\* Between two repetitions the last and the first call of A are made as one.
Join(type, k, tau) == Two(Edge(type, k, tau))

\* Calls of evolve(tau, n), and the j-th of them.
Period(type, k, tau) == Len(Inner(type, k, tau)) + 1

NCalls(type, k, tau, n) ==
  IF type = "SUM" THEN 2 * n ELSE n * Period(type, k, tau) + 1

Call(type, k, tau, n, j) ==
  IF type = "SUM"
    THEN Plain(IF j % 2 = 1 THEN "A" ELSE "B", tau)
  ELSE LET i == (j - 1) % Period(type, k, tau) IN
    IF i # 0 THEN Inner(type, k, tau)[i]
    ELSE IF j \in {1, NCalls(type, k, tau, n)} THEN Plain("A", Edge(type, k, tau))
    ELSE Plain("A", Join(type, k, tau))

-----------------------------------------------------------------------------
(* evolve() *)

\* No gauge field is kept aside.
NoField == P

Frame(n, tau, k) ==
  [node |-> n, tau |-> tau, n |-> k, j |-> 1, saved |-> NoField, at |-> "call"]

Init ==
  /\ tree \in Trees /\ dt \in dts /\ steps \in stepss
  /\ gauge \in Num /\ mom \in Num
  /\ stack = <<>>
  /\ phase = "start"
  /\ clock = [n \in DOMAIN tree |-> 0]
  /\ begin = [gauge |-> gauge, mom |-> mom]

f == Head(stack)
node == tree[f.node]
Done == f.j > NCalls(node.type, node.k, f.tau, f.n)
call == Call(node.type, node.k, f.tau, f.n, f.j)
who  == IF call.who = "A" THEN node.A ELSE node.B

\* The arguments of the evolve() that is called: the time of one step and the
\* number of steps.
sub_steps == IF call.who = "A" THEN node.A_steps ELSE node.B_steps

\* Mutant: the step is divided by the other operator's number of steps.
sub_dt_Bug ==
  IF node.type = "SUM" THEN call.t
  ELSE call.t (/) (IF call.who = "A" THEN node.B_steps ELSE node.A_steps)

sub_dt == IF node.type = "SUM" THEN call.t ELSE call.t (/) sub_steps

Run == stack # <<>> /\ ~Done /\ UNCHANGED <<args, phase>>

\* The frame once call j has been made: next is call j + 1, or, in evolve_fg,
\* the gauge field is still to be restored.
After == IF call.fg THEN [f EXCEPT !.at = "back"] ELSE [f EXCEPT !.j = @ + 1]

Ready == f.at = IF call.fg THEN "moved" ELSE "call"

Tick ==
  clock' = IF phase = "forward"
             THEN [clock EXCEPT ![who] = @ (+) (sub_steps (.) sub_dt)]
             ELSE clock

\* AlgMomentum::evolve
EvolveMomentum ==
  /\ Run /\ Ready
  /\ tree[who].type = "MOM"
  /\ gauge' = gauge (+) (sub_steps (.) (sub_dt (.) mom))
  /\ Tick
  /\ stack' = <<After>> \o Tail(stack)
  /\ UNCHANGED mom

\* evolve of an action
EvolveAction ==
  /\ Run /\ Ready
  /\ tree[who].type = "ACTION"
  /\ mom' = mom (+) (sub_steps (.) (sub_dt (.) ForceOf(who, gauge)))
  /\ Tick
  /\ stack' = <<After>> \o Tail(stack)
  /\ UNCHANGED gauge

\* evolve of an inner integrator
EvolveAB ==
  /\ Run /\ Ready
  /\ tree[who].type \in AB
  /\ stack' = <<Frame(who, sub_dt, sub_steps), After>> \o Tail(stack)
  /\ UNCHANGED <<gauge, mom, clock>>

\* prepare_fg: actions add their force, AlgIntSum asks both its operators.
FgForce ==
  LET force[n \in DOMAIN tree] ==
        IF tree[n].type = "SUM" THEN force[tree[n].A] (+) force[tree[n].B]
        ELSE ForceOf(n, gauge)
  IN  force[who]

\* The first half of evolve_fg: the field is saved and moved aside.
PrepareFg ==
  /\ Run
  /\ call.fg /\ f.at = "call"
  /\ gauge' = gauge (+) (call.fg_dt (.) FgForce)
  /\ stack' = <<[f EXCEPT !.saved = gauge, !.at = "moved"]>> \o Tail(stack)
  /\ UNCHANGED <<mom, clock>>

\* Mutant: the field stays where it was moved.
Restored_Bug == gauge

Restored == f.saved

\* The second half, when evolve() has returned.
RestoreField ==
  /\ Run
  /\ call.fg /\ f.at = "back"
  /\ gauge' = Restored
  /\ stack' = <<[f EXCEPT !.saved = NoField, !.at = "call", !.j = @ + 1]>>
                 \o Tail(stack)
  /\ UNCHANGED <<mom, clock>>

Return ==
  /\ stack # <<>> /\ Done
  /\ stack' = Tail(stack)
  /\ UNCHANGED <<args, gauge, mom, phase, clock>>

\* AlgHmc::run: evolve, and in the reversibility test reverse and evolve again.
Evolve ==
  /\ phase = "start"
  /\ phase' = "forward"
  /\ stack' = <<Frame("top", dt, steps)>>
  /\ UNCHANGED <<args, gauge, mom, clock>>

Reverse ==
  /\ phase = "forward" /\ stack = <<>>
  /\ phase' = "back"
  /\ mom' = 0 (-) mom
  /\ stack' = <<Frame("top", dt, steps)>>
  /\ UNCHANGED <<args, gauge, clock>>

Finish ==
  /\ phase = "back" /\ stack = <<>>
  /\ phase' = "done"
  /\ UNCHANGED <<args, gauge, mom, stack, clock>>

Next ==
  \/ Evolve \/ EvolveMomentum \/ EvolveAction \/ EvolveAB
  \/ PrepareFg \/ RestoreField \/ Return \/ Reverse \/ Finish

Spec == Init /\ [][Next]_vars

-----------------------------------------------------------------------------
(* Properties *)

\* Integrating back with reversed momenta ends exactly where it began, for
\* every scheme and every nesting of schemes: what AlgHmc's reversibility test
\* measures, and what makes the Metropolis test sample the right distribution.
Reversible ==
  phase = "done" => gauge = begin.gauge /\ mom = 0 (-) begin.mom

\* Every momentum and every action evolves by exactly the time asked for,
\* whatever the scheme, the nesting and the numbers of inner steps.
FullTime ==
  phase = "forward" /\ stack = <<>> =>
    \A n \in DOMAIN tree :
      tree[n].type \in {"MOM", "ACTION"} => clock[n] = steps (.) dt
=============================================================================
