------------------------- MODULE Integrator_proofs --------------------------
(***************************************************************************)
(* A trajectory is reversible (Reversible) and evolves every leaf by the   *)
(* whole time (FullTime), for every tree of integrators.                   *)
(*                                                                         *)
(* The schedules read the same forwards and backwards (Palindromic).  What *)
(* evolve() of a node does is a relation between states, the least one     *)
(* that is closed under making the calls of the schedule in turn (Effect); *)
(* being the least, it has only the members that such calls give it, and   *)
(* every one is undone by evolving again with reversed momenta             *)
(* (EffectReverse) and is the only outcome (EffectAlone).  The program,    *)
(* whose calls are frames on a stack, follows this relation (Trips).       *)
(*                                                                         *)
(* The times of the calls of one evolve() add up to the same total for     *)
(* both operators (CallsTimes): scheme by scheme for the calls between two *)
(* at the edge, repetition by repetition for the rest.  Each frame on the  *)
(* stack has advanced the leaves below it by the calls it has made         *)
(* (ClockRight).                                                           *)
(***************************************************************************)
EXTENDS Integrator, WellFoundedInduction, TLAPS

Schemes == AB \ {"SUM"}

\* The mirror image of position i in n periods of length m.
LEMMA ModMirror ==
  ASSUME NEW m \in {2, 4, 6, 8, 10}, NEW n \in Nat, NEW i \in 0..(n * m)
  PROVE  (n * m - i) % m = IF i % m = 0 THEN 0 ELSE m - (i % m)
<1>1. CASE m = 2 BY <1>1
<1>2. CASE m = 4 BY <1>2
<1>3. CASE m = 6 BY <1>3
<1>4. CASE m = 8 BY <1>4
<1>5. CASE m = 10 BY <1>5
<1> QED BY <1>1, <1>2, <1>3, <1>4, <1>5

\* The inner sequence of every scheme is its own mirror image.
LEMMA InnerPalindromic ==
  ASSUME NEW type \in Schemes, NEW k, NEW tau
  PROVE  /\ Period(type, k, tau) \in {2, 4, 6, 8, 10}
         /\ \A i \in 1..(Period(type, k, tau) - 1) :
              Inner(type, k, tau)[i]
                = Inner(type, k, tau)[Period(type, k, tau) - i]
<1>1. CASE type = "LEAP"
  <2>1. Inner(type, k, tau) = Leap(k, tau).inner
    BY <1>1 DEF Inner, SchemeOf
  <2> QED BY <2>1 DEF Leap, Scheme, Period
<1>2. CASE type = "OMELYAN"
  <2>1. Inner(type, k, tau) = Omelyan(k, tau).inner
    BY <1>2 DEF Inner, SchemeOf
  <2> QED BY <2>1 DEF Omelyan, Scheme, Period
<1>3. CASE type = "CAMPOSTRINI"
  <2>1. Inner(type, k, tau) = Campostrini(k, tau).inner
    BY <1>3 DEF Inner, SchemeOf
  <2> QED BY <2>1 DEF Campostrini, Scheme, Period
<1>4. CASE type = "OMELYAN_44"
  <2>1. Inner(type, k, tau) = Omelyan44(k, tau).inner
    BY <1>4 DEF Inner, SchemeOf
  <2> QED BY <2>1 DEF Omelyan44, Scheme, Period
<1>5. CASE type = "OMELYAN_45"
  <2>1. Inner(type, k, tau) = Omelyan45(k, tau).inner
    BY <1>5 DEF Inner, SchemeOf
  <2> QED BY <2>1 DEF Omelyan45, Scheme, Period
<1>6. CASE type = "FORCE_GRAD_PQPQP"
  <2>1. Inner(type, k, tau) = ForceGradPQPQP(k, tau).inner
    BY <1>6 DEF Inner, SchemeOf
  <2> QED BY <2>1 DEF ForceGradPQPQP, Scheme, Period
<1>7. CASE type = "FORCE_GRAD_QPQPQ"
  <2>1. Inner(type, k, tau) = ForceGradQPQPQ(k, tau).inner
    BY <1>7 DEF Inner, SchemeOf
  <2> QED BY <2>1 DEF ForceGradQPQPQ, Scheme, Period
<1> QED BY <1>1, <1>2, <1>3, <1>4, <1>5, <1>6, <1>7 DEF Schemes, AB

\* The calls of A and B that evolve(tau, n) makes are the same read backwards,
\* for every scheme except AlgIntSum, every choice of its coefficients, every
\* step and every number of steps: the schedule is symmetric in time, which is
\* what makes the trajectory reversible (Reversible of Integrator).
THEOREM Palindromic ==
  ASSUME NEW type \in Schemes, NEW k, NEW tau, NEW n \in Nat,
         NEW j \in 1..NCalls(type, k, tau, n)
  PROVE  Call(type, k, tau, n, j)
           = Call(type, k, tau, n, NCalls(type, k, tau, n) + 1 - j)
<1> DEFINE m == Period(type, k, tau)
           mirror == NCalls(type, k, tau, n) + 1 - j
           last == NCalls(type, k, tau, n)
           inner == Inner(type, k, tau)
           edge == Plain("A", Edge(type, k, tau))
           join == Plain("A", Join(type, k, tau))
<1>1. m \in {2, 4, 6, 8, 10} /\ \A i \in 1..(m - 1) : inner[i] = inner[m - i]
  BY InnerPalindromic
<1>2. last = n * m + 1
  BY DEF NCalls, Schemes
<1>3. \A i : /\ (i - 1) % m # 0 =>
                Call(type, k, tau, n, i) = inner[(i - 1) % m]
             /\ (i - 1) % m = 0 /\ i \in {1, last} =>
                Call(type, k, tau, n, i) = edge
             /\ (i - 1) % m = 0 /\ i \notin {1, last} =>
                Call(type, k, tau, n, i) = join
  BY DEF Call, Schemes
<1>4. /\ last \in Nat /\ mirror \in 1..last /\ j \in 1..last
      /\ n * m \in Nat
  <2>1. n * m \in Nat
    BY <1>1
  <2> HIDE DEF m
  <2> QED BY <2>1, <1>2
<1>5. (mirror - 1) % m = IF (j - 1) % m = 0 THEN 0 ELSE m - ((j - 1) % m)
  <2> HIDE DEF m
  <2>1. j - 1 \in 0..(n * m)
    BY <1>2, <1>4
  <2>2. mirror - 1 = n * m - (j - 1)
    BY <1>2, <1>4
  <2> QED BY <2>1, <2>2, <1>1, ModMirror
<1>6. j \in {1, last} <=> mirror \in {1, last}
  BY <1>4
<1> HIDE DEF m, last, inner, edge, join, mirror
<1>7. (j - 1) % m \in 0..(m - 1)
  BY <1>1, <1>4
<1>8. Call(type, k, tau, n, j) = Call(type, k, tau, n, mirror)
  <2>1. CASE (j - 1) % m = 0
    <3>1. (mirror - 1) % m = 0
      BY <1>5, <2>1, Zenon
    <3> QED BY <1>3, <1>6, <2>1, <3>1, Zenon
  <2>2. CASE (j - 1) % m # 0
    <3>1. /\ (j - 1) % m \in 1..(m - 1)
          /\ m - ((j - 1) % m) # 0
      BY <1>1, <1>7, <2>2
    <3>2. inner[(j - 1) % m] = inner[m - ((j - 1) % m)]
      BY <1>1, <3>1
    <3>3. (mirror - 1) % m = m - ((j - 1) % m)
      BY <1>5, <2>2, Zenon
    <3> QED BY <1>3, <2>2, <3>1, <3>2, <3>3, Zenon
  <2> QED BY <2>1, <2>2
<1> QED BY <1>8 DEF mirror

-----------------------------------------------------------------------------
(* Arithmetic modulo P                                                     *)

\* What % is: the remainder is the one number below P in the residue class.
LEMMA Remainder ==
  ASSUME NEW x \in Int, NEW z \in Int, NEW r \in Num, x = z * P + r
  PROVE  x % P = r
<1> DEFINE q == x \div P
           w == x % P
<1>1. P \in Nat /\ P > 2
  BY IntegratorAssumption
<1>2. x = q * P + w /\ q \in Int /\ w \in Num
  BY <1>1 DEF Num
<1> HIDE DEF q, w
<1>3. (q - z) * P = r - w
  BY <1>1, <1>2 DEF Num
<1>4. q - z = 0
  <2>1. -P < (q - z) * P /\ (q - z) * P < P
    BY <1>1, <1>2, <1>3 DEF Num
  <2> DEFINE d == q - z
  <2>2. d \in Int /\ -P < d * P /\ d * P < P
    BY <1>2, <2>1
  <2> HIDE DEF d
  <2>3. d = 0
    BY <1>1, <2>2
  <2> QED BY <2>3 DEF d
<1>5. r = w
  BY <1>1, <1>2, <1>3, <1>4 DEF Num
<1> QED BY <1>5 DEF w

\* Close to zero the remainder is found by adding or subtracting P.
LEMMA NearRemainder ==
  ASSUME NEW x \in (-P)..(2 * P - 1)
  PROVE  x % P = IF x < 0 THEN x + P ELSE IF x < P THEN x ELSE x - P
<1>1. P \in Nat /\ P > 2
  BY IntegratorAssumption
<1>2. CASE x < 0
  <2>1. x + P \in Num /\ x = (-1) * P + (x + P) /\ x \in Int
    BY <1>1, <1>2 DEF Num
  <2> QED BY <1>2, <2>1, Remainder
<1>3. CASE 0 <= x /\ x < P
  <2>1. x \in Num /\ x = 0 * P + x
    BY <1>1, <1>3 DEF Num
  <2> QED BY <1>3, <2>1, Remainder
<1>4. CASE x >= P
  <2>1. x - P \in Num /\ x = 1 * P + (x - P) /\ x \in Int
    BY <1>1, <1>4 DEF Num
  <2> QED BY <1>1, <1>4, <2>1, Remainder
<1> QED BY <1>1, <1>2, <1>3, <1>4

LEMMA NumFacts ==
  /\ P \in Nat /\ P > 2 /\ Num \subseteq Int /\ 0 \in Num /\ 1 \in Num /\ 2 \in Num
  /\ \A x, y \in Int : /\ x (+) y \in Num /\ x (-) y \in Num
                       /\ x (.) y \in Num /\ x (/) y \in Num
<1>1. P \in Nat /\ P > 2
  BY IntegratorAssumption
<1>2. ASSUME NEW x \in Int, NEW y \in Int
      PROVE  x (+) y \in Num /\ x (-) y \in Num /\ x (.) y \in Num
  <2>1. x * y \in Int
    OBVIOUS
  <2> DEFINE z == x * y
  <2>2. (x + y) % P \in Num /\ (x - y) % P \in Num
    BY <1>1 DEF Num
  <2> HIDE DEF z
  <2>3. z % P \in Num
    BY <1>1, <2>1 DEF Num, z
  <2> QED BY <2>2, <2>3 DEF (+), (-), (.), z
<1>3. ASSUME NEW x \in Int, NEW y \in Int
      PROVE  x (/) y \in Num
  <2> DEFINE u == x % P
             v == y % P
             good(q) == (\E r \in Num : (r * v) % P = u) => (q * v) % P = u
  <2>1. u \in Num /\ v \in Num
    BY <1>1 DEF Num
  <2>2. Quotient[u][v] = CHOOSE q \in Num : good(q)
    <3> HIDE DEF u, v
    <3> QED BY <2>1 DEF Quotient
  <2>3. \E q \in Num : good(q)
    <3>1. 0 \in Num
      BY <1>1 DEF Num
    <3> HIDE DEF u, v
    <3> QED BY <3>1
  <2> HIDE DEF good
  <2>4. Quotient[u][v] \in Num
    BY <2>2, <2>3
  <2> QED BY <2>4 DEF (/)
<1> QED BY <1>1, <1>2, <1>3 DEF Num

LEMMA NumInts ==
  P \in Nat /\ P > 2 /\ Num \subseteq Int /\ 0 \in Num /\ 1 \in Num /\ 2 \in Num
BY NumFacts, Zenon

LEMMA AddCases ==
  \A x, y \in Num :
    /\ x (+) y = IF x + y < P THEN x + y ELSE x + y - P
    /\ x (-) y = IF x < y THEN x - y + P ELSE x - y
    /\ x (+) y \in Num /\ x (-) y \in Num
<1> SUFFICES ASSUME NEW x \in Num, NEW y \in Num
             PROVE  /\ x (+) y = IF x + y < P THEN x + y ELSE x + y - P
                    /\ x (-) y = IF x < y THEN x - y + P ELSE x - y
                    /\ x (+) y \in Num /\ x (-) y \in Num
  OBVIOUS
<1> DEFINE a == x + y
           b == x - y
<1>1. /\ a \in (-P)..(2 * P - 1) /\ b \in (-P)..(2 * P - 1)
      /\ P \in Nat /\ P > 2
  BY IntegratorAssumption DEF Num
<1>2. x \in 0..(P - 1) /\ y \in 0..(P - 1) /\ a = x + y /\ b = x - y
  BY DEF Num
<1>3. x (+) y = a % P /\ x (-) y = b % P
  BY DEF (+), (-)
<1>4. x (+) y \in Num /\ x (-) y \in Num
  BY NumFacts
<1> HIDE DEF a, b
<1>5. /\ a % P = IF a < 0 THEN a + P ELSE IF a < P THEN a ELSE a - P
      /\ b % P = IF b < 0 THEN b + P ELSE IF b < P THEN b ELSE b - P
  BY <1>1, NearRemainder, Zenon
<1> QED BY <1>1, <1>2, <1>3, <1>4, <1>5

\* The identities that reversal and translation of momenta need.
LEMMA MomentumIdentities ==
  ASSUME NEW p \in Num, NEW q \in Num, NEW r \in Num, NEW x \in Num
  PROVE  /\ 0 (-) (0 (-) p) = p
         /\ (0 (-) (p (+) x)) (+) x = 0 (-) p
         /\ p (+) (q (-) q) = p
         /\ q (+) ((p (+) x) (-) r) = (q (+) (p (-) r)) (+) x
         /\ (0 (-) q) (+) (q (-) p) = 0 (-) p
         /\ p (+) (q (-) p) = q
<1>1. PICK n \in Num : n = 0 (-) p
  BY NumFacts
<1>2. PICK u \in Num : u = p (+) x
  BY NumFacts
<1>3. PICK v \in Num : v = 0 (-) u
  BY NumFacts
<1>4. PICK w \in Num : w = q (-) q
  BY NumFacts
<1>5. PICK a \in Num : a = u (-) r
  BY NumFacts
<1>6. PICK b \in Num : b = p (-) r
  BY NumFacts
<1>7. PICK c \in Num : c = q (+) b
  BY NumFacts
<1>8. PICK d \in Num : d = 0 (-) q
  BY NumFacts
<1>9. PICK e \in Num : e = q (-) p
  BY NumFacts
<1>10. PICK f1 \in Num : f1 = 0 (-) n
  BY NumFacts
<1>11. PICK f2 \in Num : f2 = v (+) x
  BY NumFacts
<1>12. PICK f3 \in Num : f3 = p (+) w
  BY NumFacts
<1>13. PICK f4 \in Num : f4 = q (+) a
  BY NumFacts
<1>14. PICK f5 \in Num : f5 = c (+) x
  BY NumFacts
<1>15. PICK f6 \in Num : f6 = d (+) e
  BY NumFacts
<1>16. PICK f7 \in Num : f7 = p (+) e
  BY NumFacts
<1>17. /\ n = IF 0 < p THEN 0 - p + P ELSE 0 - p
       /\ u = IF p + x < P THEN p + x ELSE p + x - P
       /\ v = IF 0 < u THEN 0 - u + P ELSE 0 - u
       /\ w = IF q < q THEN q - q + P ELSE q - q
       /\ a = IF u < r THEN u - r + P ELSE u - r
       /\ b = IF p < r THEN p - r + P ELSE p - r
       /\ c = IF q + b < P THEN q + b ELSE q + b - P
       /\ d = IF 0 < q THEN 0 - q + P ELSE 0 - q
       /\ e = IF q < p THEN q - p + P ELSE q - p
  BY <1>1, <1>2, <1>3, <1>4, <1>5, <1>6, <1>7, <1>8, <1>9, NumFacts, AddCases
<1>18. /\ f1 = IF 0 < n THEN 0 - n + P ELSE 0 - n
       /\ f2 = IF v + x < P THEN v + x ELSE v + x - P
       /\ f3 = IF p + w < P THEN p + w ELSE p + w - P
       /\ f4 = IF q + a < P THEN q + a ELSE q + a - P
       /\ f5 = IF c + x < P THEN c + x ELSE c + x - P
       /\ f6 = IF d + e < P THEN d + e ELSE d + e - P
       /\ f7 = IF p + e < P THEN p + e ELSE p + e - P
  BY <1>10, <1>11, <1>12, <1>13, <1>14, <1>15, <1>16, NumFacts, AddCases
<1>19. /\ P \in Nat /\ p \in 0..(P - 1) /\ q \in 0..(P - 1) /\ r \in 0..(P - 1)
       /\ x \in 0..(P - 1)
  BY NumFacts DEF Num
<1>20. f1 = p /\ f2 = n /\ f3 = p /\ f6 = n /\ f7 = q
  BY <1>17, <1>18, <1>19
<1>21. f4 = f5
  BY <1>17, <1>18, <1>19
<1> QED BY <1>1, <1>2, <1>3, <1>4, <1>5, <1>6, <1>7, <1>8, <1>9, <1>10, <1>11,
           <1>12, <1>13, <1>14, <1>15, <1>16, <1>20, <1>21, Zenon

\* Only the residue class counts.
LEMMA SameClass ==
  ASSUME NEW x \in Int, NEW y \in Int, NEW z \in Int, x = y + z * P
  PROVE  x % P = y % P
<1> DEFINE r == y % P
           q == y \div P
<1>1. P \in Nat /\ P > 2 /\ r \in Num /\ q \in Int /\ y = q * P + r
  BY IntegratorAssumption DEF Num
<1> HIDE DEF r, q
<1>2. x = (q + z) * P + r /\ q + z \in Int
  BY <1>1 DEF Num
<1>3. x % P = r
  BY <1>1, <1>2, Remainder
<1> QED BY <1>3 DEF r

\* A product may be reduced before or after.
LEMMA ReducedFactor ==
  ASSUME NEW x \in Int, NEW y \in Int
  PROVE  x (.) (y % P) = x (.) y
<1> DEFINE r == y % P
           q == y \div P
<1>1. P \in Nat /\ P > 2 /\ r \in Int /\ q \in Int /\ y = q * P + r
  BY IntegratorAssumption DEF Num
<1> HIDE DEF r, q
<1>2. x * y = x * r + (x * q) * P /\ x * y \in Int /\ x * r \in Int /\ x * q \in Int
  BY <1>1
<1>3. (x * y) % P = (x * r) % P
  BY <1>2, SameClass, Zenon
<1> QED BY <1>3 DEF (.), r

\* Moving with reversed momenta undoes a move.
LEMMA MoveReversed ==
  ASSUME NEW g \in Num, NEW p \in Num, NEW d \in Num, NEW m \in Nat
  PROVE  (g (+) (m (.) (d (.) p))) (+) (m (.) (d (.) (0 (-) p))) = g
<1> DEFINE n == m * (d * p)
<1>0. m \in Int /\ d \in Int /\ p \in Int /\ g \in Int /\ P \in Int
  BY NumFacts DEF Num
<1>1. d * p \in Int /\ n \in Int /\ m * d \in Int
  BY <1>0
<1>2. m (.) (d (.) p) = n % P
  BY <1>0, <1>1, ReducedFactor DEF (.)
<1>3. m (.) (d (.) (0 (-) p)) = (-n) % P
  <2>1. d (.) (0 (-) p) = (d * (-p)) % P
    <3>1. 0 (-) p = (-p) % P
      BY <1>0 DEF (-)
    <3>2. d (.) (0 (-) p) = d (.) (-p)
      BY <1>0, <3>1, ReducedFactor
    <3> QED BY <3>2 DEF (.)
  <2>2. d * (-p) \in Int /\ m * (d * (-p)) = -n
    BY <1>0, <1>1
  <2>3. m (.) (d (.) (0 (-) p)) = m (.) (d * (-p))
    BY <1>0, <2>1, <2>2, ReducedFactor
  <2> QED BY <2>2, <2>3 DEF (.)
<1> HIDE DEF n
<1> DEFINE r == n % P
           s == (-n) % P
<1>4. r \in Num /\ s \in Num
  <2>1. P \in Nat /\ P > 2 /\ n \in Int /\ -n \in Int
    BY <1>1, NumFacts
  <2> QED BY <2>1 DEF Num
<1>5. s = 0 (-) r
  <2> DEFINE q == n \div P
  <2>1. n = q * P + r /\ q \in Int /\ r \in Int /\ P \in Int /\ n \in Int
    BY <1>1, NumFacts
  <2> HIDE DEF q, r, s
  <2>2. -n = (-r) + (-q) * P /\ -q \in Int /\ -r \in Int /\ -n \in Int
    BY <2>1
  <2>3. (-n) % P = (-r) % P
    BY <2>2, SameClass, Zenon
  <2> QED BY <1>4, <2>3 DEF (-), s, Num
<1> HIDE DEF r, s
<1>6. (g (+) r) (+) s = g
  <2>1. PICK u \in Num : u = g (+) r
    BY <1>4, NumFacts
  <2>2. PICK v \in Num : v = u (+) s
    BY <1>4, NumFacts
  <2>3. /\ u = IF g + r < P THEN g + r ELSE g + r - P
        /\ s = IF 0 < r THEN 0 - r + P ELSE 0 - r
        /\ v = IF u + s < P THEN u + s ELSE u + s - P
    BY <1>4, <1>5, <2>1, <2>2, NumFacts, AddCases
  <2>4. P \in Nat /\ g \in 0..(P - 1) /\ r \in 0..(P - 1) /\ s \in 0..(P - 1)
    BY <1>4, NumFacts DEF Num
  <2>5. v = g
    BY <2>3, <2>4
  <2> QED BY <2>1, <2>2, <2>5
<1> QED BY <1>2, <1>3, <1>6 DEF r, s

\* A set of naturals that is not empty has a smallest member.
LEMMA SmallestMember ==
  ASSUME NEW S \in SUBSET Nat, S # {}
  PROVE  \E j \in S : \A k \in S : j <= k
<1>1. \E j \in S : \A k \in S : <<k, j>> \notin OpToRel(<, Nat)
  BY NatLessThanWellFounded, WFMin, Zenon
<1>2. \A j, k \in Nat : <<k, j>> \notin OpToRel(<, Nat) => j <= k
  BY DEF OpToRel
<1> QED BY <1>1, <1>2

-----------------------------------------------------------------------------
(* What evolve() of a node does, as a relation.  R is a set of <<n, tau, k,  *)
(* s, e>>: evolve(tau, k) of integrator n leads from state s to state e.     *)

State == Num \X Num
Flip(s) == <<s[1], 0 (-) s[2]>>

Integrators(t) == {n \in DOMAIN t : t[n].type \in AB}

CallAt(t, n, tau, k, i) == Call(t[n].type, t[n].k, tau, k, i)
Calls(t, n, tau, k) == NCalls(t[n].type, t[n].k, tau, k)

Who(t, n, c) == IF c.who = "A" THEN t[n].A ELSE t[n].B
SubSteps(t, n, c) == IF c.who = "A" THEN t[n].A_steps ELSE t[n].B_steps
SubDt(t, n, c) == IF t[n].type = "SUM" THEN c.t ELSE c.t (/) SubSteps(t, n, c)

FgForceAt(t, w, g) ==
  LET force[n \in DOMAIN t] ==
        IF t[n].type = "SUM" THEN force[t[n].A] (+) force[t[n].B]
        ELSE ForceOf(n, g)
  IN  force[w]

\* evolve(d, m) of node w.
Sub(t, R, w, d, m, s, e) ==
  \/ t[w].type = "MOM" /\ e = <<s[1] (+) (m (.) (d (.) s[2])), s[2]>>
  \/ t[w].type = "ACTION" /\ e = <<s[1], s[2] (+) (m (.) (d (.) ForceOf(w, s[1])))>>
  \/ t[w].type \in AB /\ <<w, d, m, s, e>> \in R

\* The field moved aside.
Moved(t, n, c, s) == <<s[1] (+) (c.fg_dt (.) FgForceAt(t, Who(t, n, c), s[1])), s[2]>>

\* Call c of node n leads from s to e.
CallDone(t, R, n, c, s, e) ==
  IF c.fg
    THEN /\ e[1] = s[1]
         /\ \E g \in Num : Sub(t, R, Who(t, n, c), SubDt(t, n, c), SubSteps(t, n, c),
                               Moved(t, n, c, s), <<g, e[2]>>)
    ELSE Sub(t, R, Who(t, n, c), SubDt(t, n, c), SubSteps(t, n, c), s, e)

\* The states between the first j calls of evolve(tau, k) of n.
Chain(t, R, n, tau, k, j, st) ==
  /\ st \in [0..j -> State]
  /\ \A i \in 1..j : CallDone(t, R, n, CallAt(t, n, tau, k, i), st[i - 1], st[i])

Work(t) == Integrators(t) \X Num \X Nat \X State \X State

Closed(t, R) ==
  \A n \in Integrators(t), tau \in Num, k \in Nat :
    \A st : Chain(t, R, n, tau, k, Calls(t, n, tau, k), st) =>
              <<n, tau, k, st[0], st[Calls(t, n, tau, k)]>> \in R

\* The least such relation.
Effect(t) == {x \in Work(t) : \A R \in SUBSET Work(t) : Closed(t, R) => x \in R}

-----------------------------------------------------------------------------
(* The calls an integrator makes                                           *)

LEMMA TreeFacts ==
  ASSUME NEW t \in Trees
  PROVE  /\ "top" \in Integrators(t)
         /\ \A n \in DOMAIN t : t[n].type \in {"MOM", "ACTION"} \/ n \in Integrators(t)
         /\ \A n \in Integrators(t) :
              /\ n \in DOMAIN t /\ t[n].type \in AB
              /\ t[n].A \in DOMAIN t /\ t[n].B \in DOMAIN t
              /\ t[n].A_steps \in Nat \ {0} /\ t[n].B_steps \in Nat \ {0}
              /\ t[n].k \in [Coefs -> Int]
<1>1. \A n \in DOMAIN t :
        \/ t[n].type \in {"MOM", "ACTION"}
        \/ /\ t[n].type \in AB
           /\ {t[n].A, t[n].B} \subseteq DOMAIN t
           /\ {t[n].A_steps, t[n].B_steps} \subseteq Nat \ {0}
           /\ t[n].k \in [Coefs -> Int]
  BY IntegratorAssumption
<1>2. "top" \in DOMAIN t /\ t["top"].type \in AB
  BY IntegratorAssumption
<1>3. \A n \in DOMAIN t : ~(t[n].type \in {"MOM", "ACTION"} /\ t[n].type \in AB)
  BY DEF AB
<1> QED BY <1>1, <1>2, <1>3 DEF Integrators

LEMMA KicksFacts ==
  ASSUME NEW t \in Trees
  PROVE  \A n \in Kicks(t) :
           /\ n \in DOMAIN t
           /\ \/ t[n].type = "ACTION"
              \/ t[n].type = "SUM" /\ t[n].A \in Kicks(t) /\ t[n].B \in Kicks(t)
<1> SUFFICES ASSUME NEW n \in Kicks(t)
             PROVE  /\ n \in DOMAIN t
                    /\ \/ t[n].type = "ACTION"
                       \/ t[n].type = "SUM" /\ t[n].A \in Kicks(t) /\ t[n].B \in Kicks(t)
  OBVIOUS
<1>1. PICK S \in SUBSET DOMAIN t :
        /\ n \in S
        /\ \A m \in S : \/ t[m].type = "ACTION"
                        \/ t[m].type = "SUM" /\ {t[m].A, t[m].B} \subseteq S
  BY DEF Kicks
<1>2. S \subseteq Kicks(t)
  BY <1>1, Zenon DEF Kicks
<1> QED BY <1>1, <1>2

\* The calls between two calls of A at the edge.
LEMMA InnerTyped ==
  ASSUME NEW type \in Schemes, NEW k \in [Coefs -> Int], NEW tau \in Num
  PROVE  /\ Edge(type, k, tau) \in Num
         /\ \A i \in 1..(Period(type, k, tau) - 1) :
              LET c == Inner(type, k, tau)[i] IN
              /\ c.who \in {"A", "B"} /\ c.t \in Num /\ c.fg \in BOOLEAN /\ c.fg_dt \in Num
              /\ c.fg => \/ type = "FORCE_GRAD_PQPQP" /\ c.who = "A"
                         \/ type = "FORCE_GRAD_QPQPQ" /\ c.who = "B"
<1> DEFINE Fine(c) == /\ c.who \in {"A", "B"} /\ c.t \in Num /\ c.fg \in BOOLEAN
                      /\ c.fg_dt \in Num
                      /\ c.fg => \/ type = "FORCE_GRAD_PQPQP" /\ c.who = "A"
                                 \/ type = "FORCE_GRAD_QPQPQ" /\ c.who = "B"
           in == Inner(type, k, tau)
<1>1. ASSUME NEW w \in {"A", "B"}, NEW s \in Num PROVE Fine(Plain(w, s))
  BY NumFacts DEF Plain
<1>2. /\ k.lambda \in Int /\ k.sigma \in Int /\ k.rho \in Int /\ k.theta \in Int
      /\ k.mu \in Int /\ k.chi \in Int
  BY DEF Coefs
<1>3. tau \in Int /\ 2 \in Int /\ 1 \in Int /\ 0 \in Int /\ 4 \in Int
  BY NumFacts
<1>4. \A x, y \in Int : /\ x (+) y \in Num /\ x (-) y \in Num /\ x (.) y \in Num
                        /\ x (/) y \in Num /\ Two(x) \in Num
                        /\ x (+) y \in Int /\ x (-) y \in Int /\ x (.) y \in Int
                        /\ x (/) y \in Int /\ Two(x) \in Int
  BY NumFacts DEF Two
<1> HIDE DEF Fine, in
<1> SUFFICES /\ Edge(type, k, tau) \in Num
             /\ \A i \in 1..Len(in) : Fine(in[i])
  BY NumFacts DEF Fine, in, Period
<1>5. CASE type = "LEAP"
  <2>1. in = Leap(k, tau).inner /\ Edge(type, k, tau) = Leap(k, tau).edge
    BY <1>5 DEF in, Inner, Edge, SchemeOf
  <2>2. in = <<Plain("B", tau)>> /\ Edge(type, k, tau) = tau (/) 2
    BY <2>1 DEF Leap, Scheme
  <2> QED BY <1>1, <1>3, <1>4, <2>2
<1>6. CASE type = "OMELYAN"
  <2> DEFINE b == Plain("B", tau (/) 2)
             x == Plain("A", (1 (-) Two(k.lambda)) (.) tau)
  <2>1. in = Omelyan(k, tau).inner /\ Edge(type, k, tau) = Omelyan(k, tau).edge
    BY <1>6 DEF in, Inner, Edge, SchemeOf
  <2>2. in = <<b, x, b>> /\ Edge(type, k, tau) = k.lambda (.) tau
    BY <2>1 DEF Omelyan, Scheme
  <2>3. Fine(b) /\ Fine(x) /\ k.lambda (.) tau \in Num
    BY <1>1, <1>2, <1>3, <1>4
  <2> HIDE DEF b, x
  <2> QED BY <2>2, <2>3
<1>7. CASE type = "CAMPOSTRINI"
  <2> DEFINE epsilon == tau (/) (2 (-) k.sigma)
             x == Plain("A", ((1 (-) k.sigma) (.) epsilon) (/) 2)
             b == Plain("B", epsilon)
             y == Plain("B", (0 (-) epsilon) (.) k.sigma)
  <2>1. in = Campostrini(k, tau).inner /\ Edge(type, k, tau) = Campostrini(k, tau).edge
    BY <1>7 DEF in, Inner, Edge, SchemeOf
  <2>2. in = <<b, x, y, x, b>> /\ Edge(type, k, tau) = epsilon (/) 2
    BY <2>1 DEF Campostrini, Scheme
  <2>3. epsilon \in Num /\ epsilon \in Int
    BY <1>2, <1>3, <1>4
  <2> HIDE DEF epsilon
  <2>4. Fine(b) /\ Fine(x) /\ Fine(y) /\ epsilon (/) 2 \in Num
    BY <1>1, <1>2, <1>3, <1>4, <2>3
  <2> HIDE DEF b, x, y
  <2> QED BY <2>2, <2>4
<1>8. CASE type = "OMELYAN_44"
  <2> DEFINE b == Plain("B", k.lambda (.) tau)
             x == Plain("A", k.theta (.) tau)
             b2 == Plain("B", ((1 (-) Two(k.lambda)) (.) tau) (/) 2)
             y == Plain("A", (1 (-) Two(k.theta (+) k.rho)) (.) tau)
  <2>1. in = Omelyan44(k, tau).inner /\ Edge(type, k, tau) = Omelyan44(k, tau).edge
    BY <1>8 DEF in, Inner, Edge, SchemeOf
  <2>2. in = <<b, x, b2, y, b2, x, b>> /\ Edge(type, k, tau) = k.rho (.) tau
    BY <2>1 DEF Omelyan44, Scheme
  <2>3. Fine(b) /\ Fine(x) /\ Fine(b2) /\ Fine(y) /\ k.rho (.) tau \in Num
    BY <1>1, <1>2, <1>3, <1>4
  <2> HIDE DEF b, x, b2, y
  <2> QED BY <2>2, <2>3
<1>9. CASE type = "OMELYAN_45"
  <2> DEFINE b == Plain("B", k.rho (.) tau)
             x == Plain("A", k.lambda (.) tau)
             b2 == Plain("B", k.mu (.) tau)
             x2 == Plain("A", ((1 (-) Two(k.lambda (+) k.theta)) (.) tau) (/) 2)
             y == Plain("B", (1 (-) Two(k.mu (+) k.rho)) (.) tau)
  <2>1. in = Omelyan45(k, tau).inner /\ Edge(type, k, tau) = Omelyan45(k, tau).edge
    BY <1>9 DEF in, Inner, Edge, SchemeOf
  <2>2. in = <<b, x, b2, x2, y, x2, b2, x, b>> /\ Edge(type, k, tau) = k.theta (.) tau
    BY <2>1 DEF Omelyan45, Scheme
  <2>3. Fine(b) /\ Fine(x) /\ Fine(b2) /\ Fine(x2) /\ Fine(y) /\ k.theta (.) tau \in Num
    BY <1>1, <1>2, <1>3, <1>4
  <2> HIDE DEF b, x, b2, x2, y
  <2> QED BY <2>2, <2>3
<1>10. CASE type = "FORCE_GRAD_PQPQP"
  <2> DEFINE b == Plain("B", tau (/) 2)
             s == (1 (-) Two(k.lambda)) (.) tau
             Chi == k.chi (.) (tau (.) (tau (.) tau))
             x == Fg("A", Two(Chi) (/) s, s)
  <2>1. in = ForceGradPQPQP(k, tau).inner /\ Edge(type, k, tau) = ForceGradPQPQP(k, tau).edge
    BY <1>10 DEF in, Inner, Edge, SchemeOf
  <2>2. in = <<b, x, b>> /\ Edge(type, k, tau) = k.lambda (.) tau
    BY <2>1 DEF ForceGradPQPQP, Scheme
  <2>3. s \in Num /\ s \in Int /\ Chi \in Int
    BY <1>2, <1>3, <1>4
  <2> HIDE DEF s, Chi
  <2>4. Two(Chi) (/) s \in Num
    BY <1>4, <2>3
  <2>5. Fine(x)
    BY <1>10, <2>3, <2>4 DEF Fine, Fg
  <2>6. Fine(b) /\ k.lambda (.) tau \in Num
    BY <1>1, <1>2, <1>3, <1>4
  <2> HIDE DEF b, x
  <2> QED BY <2>2, <2>5, <2>6
<1>11. CASE type = "FORCE_GRAD_QPQPQ"
  <2> DEFINE Theta == k.theta (.) (tau (.) (tau (.) tau))
             b == Fg("B", (4 (.) Theta) (/) tau, tau (/) 2)
             x == Plain("A", (1 (-) Two(k.lambda)) (.) tau)
  <2>1. in = ForceGradQPQPQ(k, tau).inner /\ Edge(type, k, tau) = ForceGradQPQPQ(k, tau).edge
    BY <1>11 DEF in, Inner, Edge, SchemeOf
  <2>2. in = <<b, x, b>> /\ Edge(type, k, tau) = k.lambda (.) tau
    BY <2>1 DEF ForceGradQPQPQ, Scheme
  <2>3. Theta \in Int
    BY <1>2, <1>3, <1>4
  <2> HIDE DEF Theta
  <2>4. (4 (.) Theta) (/) tau \in Num /\ tau (/) 2 \in Num
    BY <1>3, <1>4, <2>3
  <2>5. Fine(b)
    BY <1>11, <2>4 DEF Fine, Fg
  <2>6. Fine(x) /\ k.lambda (.) tau \in Num
    BY <1>1, <1>2, <1>3, <1>4
  <2> HIDE DEF b, x
  <2> QED BY <2>2, <2>5, <2>6
<1> QED BY <1>5, <1>6, <1>7, <1>8, <1>9, <1>10, <1>11 DEF Schemes, AB

\* Every call names one of the two operators and evolves it by a number of
\* whole steps; what is called with force gradient changes the momenta only.
LEMMA CallFacts ==
  ASSUME NEW t \in Trees, NEW n \in Integrators(t), NEW tau \in Num, NEW k \in Nat
  PROVE  /\ Calls(t, n, tau, k) \in Nat
         /\ \A i \in 1..Calls(t, n, tau, k) :
              LET c == CallAt(t, n, tau, k, i) IN
              /\ c.who \in {"A", "B"} /\ c.fg \in BOOLEAN /\ c.fg_dt \in Num
              /\ c.t \in Num
              /\ Who(t, n, c) \in DOMAIN t
              /\ SubDt(t, n, c) \in Num /\ SubSteps(t, n, c) \in Nat \ {0}
              /\ c.fg => Who(t, n, c) \in Kicks(t)
<1> DEFINE type == t[n].type
           coef == t[n].k
           m == Period(type, coef, tau)
           last == Calls(t, n, tau, k)
<1>1. type \in AB /\ coef \in [Coefs -> Int] /\ n \in DOMAIN t
  BY TreeFacts
<1>2. \A c : c.who \in {"A", "B"} /\ c.t \in Num =>
        /\ Who(t, n, c) \in DOMAIN t
        /\ SubSteps(t, n, c) \in Nat \ {0}
        /\ SubDt(t, n, c) \in Num
  <2> SUFFICES ASSUME NEW c, c.who \in {"A", "B"}, c.t \in Num
               PROVE  /\ Who(t, n, c) \in DOMAIN t
                      /\ SubSteps(t, n, c) \in Nat \ {0}
                      /\ SubDt(t, n, c) \in Num
    OBVIOUS
  <2>1. SubSteps(t, n, c) \in Nat \ {0} /\ Who(t, n, c) \in DOMAIN t
    BY TreeFacts DEF SubSteps, Who
  <2>2. c.t \in Int /\ SubSteps(t, n, c) \in Int
    <3>1. c.t \in Int
      BY NumInts, Zenon
    <3>2. SubSteps(t, n, c) \in Int
      BY <2>1
    <3> QED BY <3>1, <3>2
  <2>3. c.t (/) SubSteps(t, n, c) \in Num
    BY <2>2, NumFacts
  <2> QED BY <2>1, <2>3 DEF SubDt
<1>3. CASE type = "SUM"
  <2>1. last = 2 * k
    BY <1>3 DEF Calls, NCalls
  <2>2. ASSUME NEW i \in 1..last
        PROVE  LET c == CallAt(t, n, tau, k, i) IN
               c.who \in {"A", "B"} /\ c.fg = FALSE /\ c.fg_dt = 0 /\ c.t = tau
    BY <1>3 DEF CallAt, Call, Plain
  <2> HIDE DEF last, type
  <2>3. last \in Nat
    BY <2>1
  <2> QED BY <1>2, <2>2, <2>3, NumFacts DEF last
<1>4. CASE type # "SUM"
  <2>1. type \in Schemes
    BY <1>1, <1>4 DEF Schemes
  <2>2. m \in {2, 4, 6, 8, 10}
    BY <2>1, InnerPalindromic
  <2>3. last = k * m + 1
    BY <1>4 DEF Calls, NCalls
  <2>4. last \in Nat
    <3> HIDE DEF m, last
    <3> QED BY <2>2, <2>3
  <2>5. \A j \in 1..(m - 1) :
          LET c == Inner(type, coef, tau)[j] IN
          /\ c.who \in {"A", "B"} /\ c.t \in Num /\ c.fg \in BOOLEAN /\ c.fg_dt \in Num
          /\ c.fg => \/ type = "FORCE_GRAD_PQPQP" /\ c.who = "A"
                     \/ type = "FORCE_GRAD_QPQPQ" /\ c.who = "B"
    BY <1>1, <2>1, InnerTyped
  <2>6. Edge(type, coef, tau) \in Num /\ Join(type, coef, tau) \in Num
    BY <1>1, <2>1, InnerTyped, NumFacts DEF Join, Two
  <2>7. ASSUME NEW i \in 1..last
        PROVE  LET c == CallAt(t, n, tau, k, i) IN
               /\ c.who \in {"A", "B"} /\ c.t \in Num /\ c.fg \in BOOLEAN /\ c.fg_dt \in Num
               /\ c.fg => \/ type = "FORCE_GRAD_PQPQP" /\ c.who = "A"
                          \/ type = "FORCE_GRAD_QPQPQ" /\ c.who = "B"
    <3> DEFINE j == (i - 1) % m
               c == CallAt(t, n, tau, k, i)
    <3>1. j \in 0..(m - 1)
      <4> HIDE DEF m
      <4> QED BY <2>2, <2>4
    <3>2. CASE j # 0
      <4>1. c = Inner(type, coef, tau)[j] /\ j \in 1..(m - 1)
        <5>1. c = Inner(type, coef, tau)[j]
          BY <1>4, <3>2 DEF CallAt, Call
        <5> HIDE DEF j, m, c
        <5> QED BY <5>1, <3>1, <3>2, <2>2
      <4> HIDE DEF j, m, c
      <4> QED BY <4>1, <2>5 DEF c
    <3>3. CASE j = 0
      <4>1. \/ c = Plain("A", Edge(type, coef, tau))
            \/ c = Plain("A", Join(type, coef, tau))
        BY <1>4, <3>3 DEF CallAt, Call
      <4> HIDE DEF c
      <4>2. c.who = "A" /\ c.fg = FALSE /\ c.fg_dt = 0 /\ c.t \in Num
        BY <4>1, <2>6 DEF Plain
      <4> QED BY <4>2, NumFacts DEF c
    <3> QED BY <3>2, <3>3
  <2>8. /\ type = "FORCE_GRAD_PQPQP" => t[n].A \in Kicks(t)
        /\ type = "FORCE_GRAD_QPQPQ" => t[n].B \in Kicks(t)
    BY <1>1, TreesAssumption
  <2>9. ASSUME NEW i \in 1..last
        PROVE  CallAt(t, n, tau, k, i).fg => Who(t, n, CallAt(t, n, tau, k, i)) \in Kicks(t)
    <3> HIDE DEF last
    <3> QED BY <2>7, <2>8 DEF Who
  <2> HIDE DEF last
  <2> QED BY <1>2, <2>4, <2>7, <2>9, Zenon DEF last
<1> QED BY <1>3, <1>4

\* The force that moves the field aside is a number: a tree has a lowest node
\* among those for which it might not be.
LEMMA ForceSolution ==
  ASSUME NEW t \in Trees, NEW g
  PROVE  \E h : h = [n \in DOMAIN t |-> IF t[n].type = "SUM" THEN h[t[n].A] (+) h[t[n].B]
                                        ELSE ForceOf(n, g)]
<1> DEFINE Value(h, n) == IF t[n].type = "SUM" THEN h[t[n].A] (+) h[t[n].B]
                          ELSE ForceOf(n, g)
           Down(S) == \A n \in S : t[n].type = "SUM" => t[n].A \in S /\ t[n].B \in S
           Part(S, h) == /\ S \in SUBSET DOMAIN t /\ Down(S)
                         /\ h = [n \in S |-> Value(h, n)]
           Bad == {n \in DOMAIN t : ~\E S, h : Part(S, h) /\ n \in S}
<1>1. \A S \in SUBSET DOMAIN t : S # {} => \E n \in S :
        t[n].type = "SUM" => t[n].A \notin S /\ t[n].B \notin S
  BY TreesAssumption DEF AB
<1>2. ASSUME NEW S, NEW h, Part(S, h), NEW U, NEW v, Part(U, v)
      PROVE  \A n \in S \cap U : h[n] = v[n]
  <2> DEFINE D == {n \in S \cap U : h[n] # v[n]}
  <2> SUFFICES ASSUME D # {} PROVE FALSE
    OBVIOUS
  <2>1. D \in SUBSET DOMAIN t
    BY <1>2
  <2>2. PICK n \in D : t[n].type = "SUM" => t[n].A \notin D /\ t[n].B \notin D
    <3> HIDE DEF D
    <3> QED BY <1>1, <2>1
  <2>3. h[n] = Value(h, n) /\ v[n] = Value(v, n)
    <3>1. n \in S /\ n \in U
      BY <2>2
    <3>2. h = [i \in S |-> Value(h, i)] /\ v = [i \in U |-> Value(v, i)]
      BY <1>2
    <3> HIDE DEF Value, D
    <3>3. [i \in S |-> Value(h, i)][n] = Value(h, n) /\ [i \in U |-> Value(v, i)][n] = Value(v, n)
      BY <3>1
    <3> QED BY <3>2, <3>3, Zenon
  <2>4. Value(h, n) = Value(v, n)
    BY <1>2, <2>2
  <2> QED BY <2>2, <2>3, <2>4
<1>3. Bad = {}
  <2> SUFFICES ASSUME Bad # {} PROVE FALSE
    OBVIOUS
  <2>1. PICK n \in Bad : t[n].type = "SUM" => t[n].A \notin Bad /\ t[n].B \notin Bad
    <3>1. Bad \in SUBSET DOMAIN t
      OBVIOUS
    <3> HIDE DEF Bad
    <3> QED BY <1>1, <3>1
  <2>2. CASE t[n].type # "SUM"
    <3> DEFINE h == [i \in {n} |-> ForceOf(i, g)]
    <3>1. h = [i \in {n} |-> Value(h, i)]
      BY <2>2
    <3>2. Part({n}, h)
      <4> HIDE DEF h, Value
      <4> QED BY <2>1, <2>2, <3>1
    <3> HIDE DEF Part
    <3> QED BY <2>1, <3>2
  <2>3. CASE t[n].type = "SUM"
    <3>1. t[n].A \in DOMAIN t /\ t[n].B \in DOMAIN t
      BY <2>1, <2>3, TreeFacts DEF Integrators, AB
    <3>2. PICK S1, h1 : Part(S1, h1) /\ t[n].A \in S1
      BY <2>1, <2>3, <3>1
    <3>3. PICK S2, h2 : Part(S2, h2) /\ t[n].B \in S2
      BY <2>1, <2>3, <3>1
    <3> DEFINE S == S1 \cup S2 \cup {n}
               old(i) == IF i \in S1 THEN h1[i] ELSE h2[i]
               h == [i \in S |-> IF i \in S1 \cup S2 THEN old(i)
                                 ELSE old(t[n].A) (+) old(t[n].B)]
    <3>4. n \notin S1 /\ n \notin S2
      <4> HIDE DEF Part
      <4> QED BY <2>1, <3>2, <3>3
    <3>5. \A i \in S1 : h[i] = h1[i]
      OBVIOUS
    <3>6. \A i \in S2 : h[i] = h2[i]
      <4>1. \A i \in S1 \cap S2 : h1[i] = h2[i]
        <5> HIDE DEF Part
        <5> QED BY <1>2, <3>2, <3>3
      <4> QED BY <4>1
    <3>7. ASSUME NEW i \in S PROVE h[i] = Value(h, i)
      <4>1. CASE i \in S1
        <5>1. h1[i] = Value(h1, i)
          <6>1. h1 = [j \in S1 |-> Value(h1, j)]
            BY <3>2
          <6> HIDE DEF Value
          <6>2. [j \in S1 |-> Value(h1, j)][i] = Value(h1, i)
            BY <4>1
          <6> QED BY <6>1, <6>2, Zenon
        <5>2. Value(h1, i) = Value(h, i)
          <6>1. t[i].type = "SUM" => t[i].A \in S1 /\ t[i].B \in S1
            BY <3>2, <4>1
          <6> HIDE DEF h
          <6> QED BY <3>5, <6>1
        <5> HIDE DEF h, Value
        <5> QED BY <3>5, <4>1, <5>1, <5>2
      <4>2. CASE i \in S2
        <5>1. h2[i] = Value(h2, i)
          <6>1. h2 = [j \in S2 |-> Value(h2, j)]
            BY <3>3
          <6> HIDE DEF Value
          <6>2. [j \in S2 |-> Value(h2, j)][i] = Value(h2, i)
            BY <4>2
          <6> QED BY <6>1, <6>2, Zenon
        <5>2. Value(h2, i) = Value(h, i)
          <6>1. t[i].type = "SUM" => t[i].A \in S2 /\ t[i].B \in S2
            BY <3>3, <4>2
          <6> HIDE DEF h
          <6> QED BY <3>6, <6>1
        <5> HIDE DEF h, Value
        <5> QED BY <3>6, <4>2, <5>1, <5>2
      <4>3. CASE i \notin S1 /\ i \notin S2
        <5>1. i = n
          BY <4>3
        <5>2. h[n] = old(t[n].A) (+) old(t[n].B)
          BY <3>4
        <5>3. h[t[n].A] = old(t[n].A) /\ h[t[n].B] = old(t[n].B)
          BY <3>2, <3>3
        <5> HIDE DEF h, old
        <5> QED BY <2>3, <5>1, <5>2, <5>3
      <4> QED BY <4>1, <4>2, <4>3
    <3>8. h = [i \in S |-> Value(h, i)]
      <4>1. h = [i \in S |-> h[i]]
        OBVIOUS
      <4> HIDE DEF h, Value, S
      <4> QED BY <3>7, <4>1
    <3>9. S \in SUBSET DOMAIN t /\ Down(S)
      <4>1. S1 \in SUBSET DOMAIN t /\ S2 \in SUBSET DOMAIN t /\ Down(S1) /\ Down(S2)
        BY <3>2, <3>3
      <4> QED BY <4>1, <2>1, <3>2, <3>3
    <3>10. Part(S, h) /\ n \in S
      <4> HIDE DEF h, Value, Down
      <4> QED BY <3>8, <3>9
    <3> HIDE DEF Part, h, S
    <3> QED BY <2>1, <3>10
  <2> QED BY <2>2, <2>3
<1> DEFINE of(n) == CHOOSE x : \E S, h : Part(S, h) /\ n \in S /\ x = h[n]
           H == [n \in DOMAIN t |-> of(n)]
<1>4. ASSUME NEW S, NEW h, Part(S, h), NEW n \in S PROVE H[n] = h[n]
  <2>1. n \in DOMAIN t
    BY <1>4
  <2>2. \E x : \E U, v : Part(U, v) /\ n \in U /\ x = v[n]
    <3> HIDE DEF Part
    <3> QED BY <1>4
  <2>3. PICK U, v : Part(U, v) /\ n \in U /\ of(n) = v[n]
    <3> HIDE DEF Part
    <3> QED BY <2>2, Zenon
  <2>4. v[n] = h[n]
    <3> HIDE DEF Part
    <3> QED BY <1>2, <1>4, <2>3
  <2> HIDE DEF Part, of
  <2> QED BY <2>1, <2>3, <2>4
<1>5. ASSUME NEW n \in DOMAIN t PROVE H[n] = Value(H, n)
  <2>1. PICK S, h : Part(S, h) /\ n \in S
    <3> HIDE DEF Part
    <3> QED BY <1>3
  <2>2. h[n] = Value(h, n)
    <3>1. h = [j \in S |-> Value(h, j)]
      BY <2>1
    <3> HIDE DEF Value
    <3>2. [j \in S |-> Value(h, j)][n] = Value(h, n)
      BY <2>1
    <3> QED BY <3>1, <3>2, Zenon
  <2>3. \A i \in S : H[i] = h[i]
    <3> HIDE DEF Part, H
    <3> QED BY <1>4, <2>1
  <2>4. t[n].type = "SUM" => t[n].A \in S /\ t[n].B \in S
    BY <2>1
  <2> HIDE DEF H
  <2> QED BY <2>1, <2>2, <2>3, <2>4
<1>6. H = [n \in DOMAIN t |-> Value(H, n)]
  <2>1. H = [n \in DOMAIN t |-> H[n]]
    OBVIOUS
  <2> HIDE DEF H, Value
  <2> QED BY <1>5, <2>1
<1> HIDE DEF H
<1> QED BY <1>6

LEMMA ForceTyped ==
  ASSUME NEW t \in Trees, NEW g \in Num, NEW w \in Kicks(t)
  PROVE  FgForceAt(t, w, g) \in Int
<1> DEFINE h == CHOOSE h : h = [n \in DOMAIN t |->
                  IF t[n].type = "SUM" THEN h[t[n].A] (+) h[t[n].B] ELSE ForceOf(n, g)]
           Bad == {n \in Kicks(t) : h[n] \notin Int}
<1>1. FgForceAt(t, w, g) = h[w]
  BY DEF FgForceAt
<1>2. h = [n \in DOMAIN t |-> IF t[n].type = "SUM" THEN h[t[n].A] (+) h[t[n].B]
                              ELSE ForceOf(n, g)]
  BY ForceSolution, Zenon
<1> HIDE DEF h
<1>3. \A n \in DOMAIN t : h[n] = IF t[n].type = "SUM" THEN h[t[n].A] (+) h[t[n].B]
                                 ELSE ForceOf(n, g)
  BY <1>2
<1>4. Bad = {}
  <2> SUFFICES ASSUME Bad # {} PROVE FALSE
    OBVIOUS
  <2>1. Bad \in SUBSET DOMAIN t
    BY KicksFacts
  <2>2. PICK n \in Bad : t[n].type \in AB => {t[n].A, t[n].B} \cap Bad = {}
    <3> HIDE DEF Bad
    <3> QED BY <2>1, TreesAssumption
  <2>3. CASE t[n].type = "ACTION"
    <3>1. ForceOf(n, g) \in Int
      BY <2>1, <2>3, ForceAssumption
    <3> QED BY <1>3, <2>1, <2>2, <2>3, <3>1
  <2>4. CASE t[n].type = "SUM"
    <3>1. t[n].A \in Kicks(t) /\ t[n].B \in Kicks(t)
      BY <2>2, <2>4, KicksFacts
    <3>2. h[t[n].A] \in Int /\ h[t[n].B] \in Int
      BY <2>2, <2>4, <3>1 DEF AB
    <3>3. h[n] \in Int
      BY <1>3, <2>1, <2>4, <3>2, NumFacts
    <3> QED BY <2>2, <3>3
  <2> QED BY <2>2, <2>3, <2>4, KicksFacts
<1> QED BY <1>1, <1>4

-----------------------------------------------------------------------------
(* The least relation is closed, and nothing else is in it                 *)

LEMMA CallMono ==
  ASSUME NEW t, NEW R, NEW Q, R \subseteq Q, NEW n, NEW c, NEW s, NEW e,
         CallDone(t, R, n, c, s, e)
  PROVE  CallDone(t, Q, n, c, s, e)
<1>1. \A w, d, m, u, v : Sub(t, R, w, d, m, u, v) => Sub(t, Q, w, d, m, u, v)
  BY DEF Sub
<1> QED BY <1>1 DEF CallDone

LEMMA ChainMono ==
  ASSUME NEW t, NEW R, NEW Q, R \subseteq Q, NEW n, NEW tau, NEW k, NEW j, NEW st,
         Chain(t, R, n, tau, k, j, st)
  PROVE  Chain(t, Q, n, tau, k, j, st)
BY CallMono, Zenon DEF Chain

LEMMA ChainEnds ==
  ASSUME NEW t, NEW R, NEW n, NEW tau, NEW k, NEW j \in Nat, NEW st,
         Chain(t, R, n, tau, k, j, st)
  PROVE  st[0] \in State /\ st[j] \in State /\ \A i \in 0..j : st[i] \in State
BY DEF Chain

LEMMA EffectTyped ==
  ASSUME NEW t, NEW x \in Effect(t)
  PROVE  /\ x \in Work(t)
         /\ x[1] \in Integrators(t) /\ x[2] \in Num /\ x[3] \in Nat
         /\ x[4] \in State /\ x[5] \in State
         /\ x = <<x[1], x[2], x[3], x[4], x[5]>>
BY DEF Effect, Work

LEMMA EffectClosed ==
  ASSUME NEW t \in Trees
  PROVE  Closed(t, Effect(t))
<1> SUFFICES ASSUME NEW n \in Integrators(t), NEW tau \in Num, NEW k \in Nat, NEW st,
                    Chain(t, Effect(t), n, tau, k, Calls(t, n, tau, k), st)
             PROVE  <<n, tau, k, st[0], st[Calls(t, n, tau, k)]>> \in Effect(t)
  BY DEF Closed
<1> DEFINE last == Calls(t, n, tau, k)
           x == <<n, tau, k, st[0], st[last]>>
<1>1. last \in Nat
  BY CallFacts
<1>2. st[0] \in State /\ st[last] \in State
  BY <1>1, ChainEnds
<1>3. x \in Work(t)
  BY <1>2 DEF Work
<1>4. ASSUME NEW R \in SUBSET Work(t), Closed(t, R) PROVE x \in R
  <2>1. Effect(t) \subseteq R
    BY <1>4 DEF Effect
  <2>2. Chain(t, R, n, tau, k, last, st)
    BY <2>1, ChainMono
  <2> QED BY <1>4, <2>2 DEF Closed
<1> HIDE DEF x
<1>5. x \in Effect(t)
  BY <1>3, <1>4 DEF Effect
<1> QED BY <1>5 DEF x

LEMMA EffectLeast ==
  ASSUME NEW t, NEW Q \in SUBSET Effect(t), Closed(t, Q)
  PROVE  Effect(t) \subseteq Q
BY DEF Effect

\* What leads to an effect.
LEMMA EffectInversion ==
  ASSUME NEW t \in Trees, NEW x \in Effect(t)
  PROVE  \E st : /\ Chain(t, Effect(t), x[1], x[2], x[3], Calls(t, x[1], x[2], x[3]), st)
                 /\ st[0] = x[4] /\ st[Calls(t, x[1], x[2], x[3])] = x[5]
<1> DEFINE Chained(y) ==
             \E st : /\ Chain(t, Effect(t), y[1], y[2], y[3], Calls(t, y[1], y[2], y[3]), st)
                     /\ st[0] = y[4] /\ st[Calls(t, y[1], y[2], y[3])] = y[5]
           Q == {y \in Effect(t) : Chained(y)}
<1>1. Closed(t, Q)
  <2> SUFFICES ASSUME NEW n \in Integrators(t), NEW tau \in Num, NEW k \in Nat, NEW st,
                      Chain(t, Q, n, tau, k, Calls(t, n, tau, k), st)
               PROVE  <<n, tau, k, st[0], st[Calls(t, n, tau, k)]>> \in Q
    BY DEF Closed
  <2> DEFINE y == <<n, tau, k, st[0], st[Calls(t, n, tau, k)]>>
  <2>1. Chain(t, Effect(t), n, tau, k, Calls(t, n, tau, k), st)
    <3>1. Q \subseteq Effect(t)
      OBVIOUS
    <3> HIDE DEF Q
    <3> QED BY <3>1, ChainMono
  <2>2. y \in Effect(t)
    BY <2>1, EffectClosed DEF Closed
  <2>3. Chained(y)
    BY <2>1
  <2> HIDE DEF Chained, y
  <2>4. y \in Q
    BY <2>2, <2>3
  <2> QED BY <2>4 DEF y
<1>2. Effect(t) \subseteq Q
  <2>1. Q \in SUBSET Effect(t)
    OBVIOUS
  <2> HIDE DEF Q
  <2> QED BY <1>1, <2>1, EffectLeast
<1>3. Chained(x)
  <2> HIDE DEF Chained
  <2> QED BY <1>2
<1> QED BY <1>3

-----------------------------------------------------------------------------
(* Actions and their sums move the momenta by what depends on the field    *)

Shifted(x, q) == <<x[1], x[2], x[3], <<x[4][1], q>>,
                   <<x[4][1], q (+) (x[5][2] (-) x[4][2])>>>>

KicksOnly(t, x) ==
  x[1] \in Kicks(t) => /\ x[5][1] = x[4][1]
                       /\ \A q \in Num : Shifted(x, q) \in Effect(t)

LEMMA KickAdded ==
  ASSUME NEW p \in Num, NEW q \in Num, NEW x \in Num
  PROVE  q (+) ((p (+) x) (-) p) = q (+) x
<1>1. q (+) ((p (+) x) (-) p) = (q (+) (p (-) p)) (+) x
  BY MomentumIdentities
<1>2. q (+) (p (-) p) = q
  BY MomentumIdentities
<1> QED BY <1>1, <1>2

LEMMA SubKick ==
  ASSUME NEW t \in Trees, NEW R \in SUBSET Effect(t), \A x \in R : KicksOnly(t, x),
         NEW w \in Kicks(t), NEW d \in Num, NEW m \in Nat,
         NEW s \in State, NEW e \in State, Sub(t, R, w, d, m, s, e), NEW q \in Num
  PROVE  /\ e[1] = s[1]
         /\ Sub(t, Effect(t), w, d, m, <<s[1], q>>, <<s[1], q (+) (e[2] (-) s[2])>>)
<1>0. s[1] \in Num /\ s[2] \in Num /\ e[1] \in Num /\ e[2] \in Num
  BY DEF State
<1>1. CASE t[w].type = "ACTION"
  <2> DEFINE x == m (.) (d (.) ForceOf(w, s[1]))
  <2>1. e = <<s[1], s[2] (+) x>>
    BY <1>1 DEF Sub, AB
  <2>2. x \in Num
    <3>1. w \in DOMAIN t
      BY KicksFacts
    <3>2. ForceOf(w, s[1]) \in Int
      BY <1>0, <1>1, <3>1, ForceAssumption
    <3>3. d \in Int /\ m \in Int
      BY NumInts
    <3>4. d (.) ForceOf(w, s[1]) \in Num
      BY <3>2, <3>3, NumFacts
    <3>5. d (.) ForceOf(w, s[1]) \in Int
      BY <3>4, NumInts, Zenon
    <3> QED BY <3>3, <3>5, NumFacts
  <2> HIDE DEF x
  <2>3. q (+) (e[2] (-) s[2]) = q (+) x
    <3>1. q (+) ((s[2] (+) x) (-) s[2]) = q (+) x
      BY <1>0, <2>2, KickAdded, Zenon
    <3> QED BY <2>1, <3>1
  <2>4. Sub(t, Effect(t), w, d, m, <<s[1], q>>, <<s[1], q (+) x>>)
    BY <1>1 DEF Sub, x
  <2> QED BY <2>1, <2>3, <2>4
<1>2. CASE t[w].type # "ACTION"
  <2>1. t[w].type = "SUM"
    BY <1>2, KicksFacts
  <2> DEFINE x == <<w, d, m, s, e>>
  <2>2. x \in R
    BY <2>1 DEF Sub
  <2>3. KicksOnly(t, x)
    BY <2>2
  <2>4. x[1] = w /\ x[2] = d /\ x[3] = m /\ x[4] = s /\ x[5] = e
    OBVIOUS
  <2> HIDE DEF x
  <2>5. e[1] = s[1] /\ Shifted(x, q) \in Effect(t)
    BY <2>3, <2>4 DEF KicksOnly
  <2>6. <<w, d, m, <<s[1], q>>, <<s[1], q (+) (e[2] (-) s[2])>>>> \in Effect(t)
    BY <2>4, <2>5 DEF Shifted
  <2>7. t[w].type \in AB
    BY <2>1 DEF AB
  <2> QED BY <2>5, <2>6, <2>7 DEF Sub
<1> QED BY <1>1, <1>2

\* A sum calls its two operators in turn, without force gradient.
LEMMA SumCalls ==
  ASSUME NEW t \in Trees, NEW n \in Integrators(t), t[n].type = "SUM",
         NEW tau, NEW k, NEW i
  PROVE  LET c == CallAt(t, n, tau, k, i) IN
         c.fg = FALSE /\ (n \in Kicks(t) => Who(t, n, c) \in Kicks(t))
<1>1. CallAt(t, n, tau, k, i).fg = FALSE
  BY DEF CallAt, Call, Plain
<1>2. n \in Kicks(t) => t[n].A \in Kicks(t) /\ t[n].B \in Kicks(t)
  BY KicksFacts
<1> QED BY <1>1, <1>2 DEF Who

LEMMA EffectKicks ==
  ASSUME NEW t \in Trees
  PROVE  \A x \in Effect(t) : KicksOnly(t, x)
<1> DEFINE Q == {x \in Effect(t) : KicksOnly(t, x)}
<1>1. Closed(t, Q)
  <2> SUFFICES ASSUME NEW n \in Integrators(t), NEW tau \in Num, NEW k \in Nat, NEW st,
                      Chain(t, Q, n, tau, k, Calls(t, n, tau, k), st)
               PROVE  <<n, tau, k, st[0], st[Calls(t, n, tau, k)]>> \in Q
    BY DEF Closed
  <2> DEFINE last == Calls(t, n, tau, k)
             x == <<n, tau, k, st[0], st[last]>>
             c(i) == CallAt(t, n, tau, k, i)
  <2>1. x \in Effect(t)
    <3>1. Q \subseteq Effect(t)
      OBVIOUS
    <3> HIDE DEF Q
    <3>2. Chain(t, Effect(t), n, tau, k, last, st)
      BY <3>1, ChainMono
    <3> QED BY <3>2, EffectClosed DEF Closed
  <2>2. last \in Nat
    BY CallFacts
  <2>3. \A i \in 0..last : st[i] \in State
    BY <2>2, ChainEnds
  <2>4. ASSUME n \in Kicks(t), NEW q \in Num
        PROVE  st[last][1] = st[0][1] /\ Shifted(x, q) \in Effect(t)
    <3>1. t[n].type = "SUM"
      BY <2>4, KicksFacts DEF Integrators, AB
    <3> DEFINE g == st[0][1]
               p == st[0][2]
               ut == [i \in 0..last |-> <<g, q (+) (st[i][2] (-) p)>>]
    <3>2. ASSUME NEW i \in 1..last, NEW r \in Num
          PROVE  /\ st[i][1] = st[i - 1][1]
                 /\ CallDone(t, Effect(t), n, c(i), <<st[i - 1][1], r>>,
                      <<st[i - 1][1], r (+) (st[i][2] (-) st[i - 1][2])>>)
      <4> DEFINE w == Who(t, n, c(i))
                 d == SubDt(t, n, c(i))
                 m == SubSteps(t, n, c(i))
      <4>1. c(i).fg = FALSE /\ w \in Kicks(t)
        BY <2>4, <3>1, SumCalls
      <4>2. d \in Num /\ m \in Nat
        BY <2>2, CallFacts
      <4>3. CallDone(t, Q, n, c(i), st[i - 1], st[i])
        BY DEF Chain
      <4>4. st[i - 1] \in State /\ st[i] \in State
        BY <2>2, <2>3
      <4>5. Sub(t, Q, w, d, m, st[i - 1], st[i])
        BY <4>1, <4>3 DEF CallDone
      <4>6. Q \in SUBSET Effect(t) /\ \A y \in Q : KicksOnly(t, y)
        OBVIOUS
      <4> HIDE DEF Q, w, d, m, c
      <4>7. /\ st[i][1] = st[i - 1][1]
            /\ Sub(t, Effect(t), w, d, m, <<st[i - 1][1], r>>,
                   <<st[i - 1][1], r (+) (st[i][2] (-) st[i - 1][2])>>)
        BY <4>1, <4>2, <4>4, <4>5, <4>6, SubKick
      <4> QED BY <4>1, <4>7 DEF CallDone, w, d, m
    <3>3. \A i \in 0..last : st[i][1] = g
      <4> DEFINE Bad == {i \in 0..last : st[i][1] # g}
      <4> SUFFICES ASSUME Bad # {} PROVE FALSE
        OBVIOUS
      <4>1. Bad \in SUBSET Nat
        BY <2>2
      <4>2. PICK i \in Bad : \A l \in Bad : i <= l
        <5> HIDE DEF Bad
        <5> QED BY <4>1, SmallestMember
      <4>3. i # 0 /\ i \in 0..last
        BY <4>2
      <4>4. i \in 1..last /\ i - 1 \in 0..last /\ i - 1 < i
        BY <2>2, <4>3
      <4>5. st[i - 1][1] = g
        BY <4>2, <4>4
      <4>6. st[i][1] = st[i - 1][1]
        <5> HIDE DEF g, p, ut, c
        <5> QED BY <2>4, <3>2, <4>4
      <4> QED BY <4>2, <4>5, <4>6
    <3>4. g \in Num /\ p \in Num /\ \A i \in 0..last : st[i][2] \in Num
      BY <2>2, <2>3 DEF State
    <3>5. ASSUME NEW i \in 0..last
          PROVE  ut[i] = <<g, q (+) (st[i][2] (-) p)>> /\ ut[i] \in State
      <4>1. q (+) (st[i][2] (-) p) \in Num
        BY <2>4, <3>4, AddCases
      <4> HIDE DEF g, p
      <4> QED BY <3>4, <4>1 DEF State
    <3>6. ASSUME NEW i \in 1..last
          PROVE  CallDone(t, Effect(t), n, c(i), ut[i - 1], ut[i])
      <4>1. i \in 0..last /\ i - 1 \in 0..last
        BY <2>2
      <4> DEFINE a1 == st[i - 1][2]
                 b1 == st[i][2]
                 r == q (+) (a1 (-) p)
      <4>2. r \in Num /\ a1 \in Num /\ b1 \in Num /\ b1 (-) a1 \in Num
        BY <2>4, <3>4, <4>1, AddCases
      <4>3. r (+) (b1 (-) a1) = q (+) (b1 (-) p)
        <5> HIDE DEF a1, b1, p
        <5>1. q (+) ((a1 (+) (b1 (-) a1)) (-) p) = (q (+) (a1 (-) p)) (+) (b1 (-) a1)
          BY <2>4, <3>4, <4>2, MomentumIdentities
        <5>2. a1 (+) (b1 (-) a1) = b1
          BY <2>4, <3>4, <4>2, MomentumIdentities
        <5> QED BY <5>1, <5>2
      <4>4. CallDone(t, Effect(t), n, c(i), <<st[i - 1][1], r>>,
                     <<st[i - 1][1], r (+) (b1 (-) a1)>>)
        <5> HIDE DEF r, c
        <5> QED BY <3>2, <4>2
      <4>5. st[i - 1][1] = g
        BY <3>3, <4>1
      <4>6. ut[i - 1] = <<g, r>> /\ ut[i] = <<g, q (+) (b1 (-) p)>>
        BY <4>1
      <4> HIDE DEF ut, r, a1, b1, g, c, p
      <4> QED BY <4>3, <4>4, <4>5, <4>6
    <3>7. Chain(t, Effect(t), n, tau, k, last, ut)
      <4>1. ut \in [0..last -> State]
        <5>1. ut = [i \in 0..last |-> ut[i]]
          OBVIOUS
        <5> HIDE DEF ut
        <5> QED BY <3>5, <5>1
      <4> HIDE DEF ut
      <4> QED BY <3>6, <4>1 DEF Chain
    <3>8. ut[0] = <<g, q>> /\ ut[last] = <<g, q (+) (st[last][2] (-) p)>>
      <4>1. 0 \in 0..last /\ last \in 0..last
        BY <2>2
      <4>2. q (+) (p (-) p) = q
        BY <2>4, <3>4, MomentumIdentities
      <4> QED BY <4>1, <4>2
    <3>9. <<n, tau, k, ut[0], ut[last]>> \in Effect(t)
      <4> HIDE DEF ut
      <4> QED BY <3>7, EffectClosed DEF Closed
    <3>10. Shifted(x, q) = <<n, tau, k, ut[0], ut[last]>>
      <4> HIDE DEF ut
      <4> QED BY <3>8 DEF Shifted
    <3>11. st[last][1] = g
      BY <2>2, <3>3
    <3> QED BY <3>9, <3>10, <3>11
  <2>5. KicksOnly(t, x)
    <3>1. x[1] = n /\ x[4] = st[0] /\ x[5] = st[last]
      OBVIOUS
    <3>2. 0 \in Num
      BY NumInts
    <3> HIDE DEF x, last
    <3> QED BY <2>4, <3>1, <3>2 DEF KicksOnly
  <2> HIDE DEF x
  <2>6. x \in Q
    BY <2>1, <2>5
  <2> QED BY <2>6 DEF x
<1>2. Effect(t) \subseteq Q
  <2>1. Q \in SUBSET Effect(t)
    OBVIOUS
  <2> HIDE DEF Q
  <2> QED BY <1>1, <2>1, EffectLeast
<1> QED BY <1>2

-----------------------------------------------------------------------------
(* What evolve() does is undone by evolving with reversed momenta          *)

LEMMA FlipFacts ==
  ASSUME NEW s \in State
  PROVE  /\ Flip(s) \in State /\ Flip(Flip(s)) = s
         /\ Flip(s)[1] = s[1] /\ Flip(s)[2] = 0 (-) s[2]
         /\ s[1] \in Num /\ s[2] \in Num /\ s = <<s[1], s[2]>>
<1>1. s[1] \in Num /\ s[2] \in Num /\ s = <<s[1], s[2]>>
  BY DEF State
<1>2. 0 (-) s[2] \in Num
  BY <1>1, NumInts, AddCases
<1>3. 0 (-) (0 (-) s[2]) = s[2]
  BY <1>1, MomentumIdentities
<1> QED BY <1>1, <1>2, <1>3 DEF Flip, State

Undone(t, x) == <<x[1], x[2], x[3], Flip(x[5]), Flip(x[4])>> \in Effect(t)

\* What a node adds to the momenta, or the field, is a number.
LEMMA KickTyped ==
  ASSUME NEW t \in Trees, NEW w \in DOMAIN t, t[w].type = "ACTION", NEW d \in Num,
         NEW m \in Nat, NEW g \in Num
  PROVE  m (.) (d (.) ForceOf(w, g)) \in Num
<1>1. ForceOf(w, g) \in Int
  BY ForceAssumption
<1>2. d \in Int /\ m \in Int
  BY NumInts
<1>3. d (.) ForceOf(w, g) \in Num
  BY <1>1, <1>2, NumFacts
<1>4. d (.) ForceOf(w, g) \in Int
  BY <1>3, NumInts, Zenon
<1> QED BY <1>2, <1>4, NumFacts

LEMMA SubReverse ==
  ASSUME NEW t \in Trees, NEW R, \A x \in R : Undone(t, x),
         NEW w \in DOMAIN t, NEW d \in Num, NEW m \in Nat,
         NEW s \in State, NEW e \in State, Sub(t, R, w, d, m, s, e)
  PROVE  Sub(t, Effect(t), w, d, m, Flip(e), Flip(s))
<1>1. /\ s[1] \in Num /\ s[2] \in Num
      /\ Flip(e) = <<e[1], 0 (-) e[2]>> /\ Flip(s) = <<s[1], 0 (-) s[2]>>
  BY DEF State, Flip
<1>2. CASE t[w].type = "MOM" /\ e = <<s[1] (+) (m (.) (d (.) s[2])), s[2]>>
  <2>1. (s[1] (+) (m (.) (d (.) s[2]))) (+) (m (.) (d (.) (0 (-) s[2]))) = s[1]
    BY <1>1, MoveReversed
  <2>2. Flip(e)[1] = s[1] (+) (m (.) (d (.) s[2])) /\ Flip(e)[2] = 0 (-) s[2]
    BY <1>1, <1>2
  <2>3. Flip(s) = <<Flip(e)[1] (+) (m (.) (d (.) Flip(e)[2])), Flip(e)[2]>>
    BY <1>1, <2>1, <2>2
  <2> QED BY <1>2, <2>3 DEF Sub
<1>3. CASE /\ t[w].type = "ACTION"
           /\ e = <<s[1], s[2] (+) (m (.) (d (.) ForceOf(w, s[1])))>>
  <2> DEFINE x == m (.) (d (.) ForceOf(w, s[1]))
  <2>1. x \in Num
    BY <1>1, <1>3, KickTyped
  <2>2. Flip(e)[1] = s[1] /\ Flip(e)[2] = 0 (-) (s[2] (+) x)
    BY <1>1, <1>3
  <2> HIDE DEF x
  <2>3. (0 (-) (s[2] (+) x)) (+) x = 0 (-) s[2]
    BY <1>1, <2>1, MomentumIdentities
  <2>4. Flip(s) = <<Flip(e)[1], Flip(e)[2] (+) (m (.) (d (.) ForceOf(w, Flip(e)[1])))>>
    BY <1>1, <2>2, <2>3 DEF x
  <2> QED BY <1>3, <2>4 DEF Sub
<1>4. CASE t[w].type \in AB /\ <<w, d, m, s, e>> \in R
  <2> DEFINE x == <<w, d, m, s, e>>
  <2>1. x[1] = w /\ x[2] = d /\ x[3] = m /\ x[4] = s /\ x[5] = e /\ x \in R
    BY <1>4
  <2> HIDE DEF x
  <2>2. <<w, d, m, Flip(e), Flip(s)>> \in Effect(t)
    BY <2>1 DEF Undone
  <2> QED BY <1>4, <2>2 DEF Sub
<1> QED BY <1>2, <1>3, <1>4 DEF Sub

LEMMA MovedTyped ==
  ASSUME NEW t \in Trees, NEW n \in Integrators(t), NEW tau \in Num, NEW k \in Nat,
         NEW i \in 1..Calls(t, n, tau, k), CallAt(t, n, tau, k, i).fg, NEW s \in State
  PROVE  Moved(t, n, CallAt(t, n, tau, k, i), s) \in State
<1> DEFINE c == CallAt(t, n, tau, k, i)
           F == FgForceAt(t, Who(t, n, c), s[1])
<1>1. c.fg_dt \in Num /\ Who(t, n, c) \in Kicks(t)
  BY CallFacts
<1>2. s[1] \in Num /\ s[2] \in Num
  BY DEF State
<1>3. F \in Int
  BY <1>1, <1>2, ForceTyped
<1> HIDE DEF F, c
<1>4. c.fg_dt \in Int /\ s[1] \in Int
  BY <1>1, <1>2, NumInts, Zenon
<1>5. c.fg_dt (.) F \in Num
  BY <1>3, <1>4, NumFacts
<1>6. s[1] (+) (c.fg_dt (.) F) \in Num
  BY <1>2, <1>5, AddCases
<1>7. Moved(t, n, c, s) = <<s[1] (+) (c.fg_dt (.) F), s[2]>>
  BY DEF Moved, F
<1> QED BY <1>2, <1>6, <1>7 DEF State, c

\* What moves the momenta only leaves the field where it is.
LEMMA SubStill ==
  ASSUME NEW t \in Trees, NEW R \in SUBSET Effect(t),
         NEW w \in Kicks(t), NEW d, NEW m, NEW s, NEW e, Sub(t, R, w, d, m, s, e)
  PROVE  e[1] = s[1]
<1>1. CASE t[w].type = "ACTION"
  <2>1. e = <<s[1], s[2] (+) (m (.) (d (.) ForceOf(w, s[1])))>>
    BY <1>1 DEF Sub, AB
  <2> QED BY <2>1
<1>2. CASE t[w].type = "SUM"
  <2> DEFINE x == <<w, d, m, s, e>>
  <2>1. x \in Effect(t)
    BY <1>2 DEF Sub
  <2>2. x[1] = w /\ x[4] = s /\ x[5] = e
    OBVIOUS
  <2> HIDE DEF x
  <2> QED BY <2>1, <2>2, EffectKicks DEF KicksOnly
<1> QED BY <1>1, <1>2, KicksFacts

LEMMA CallReverse ==
  ASSUME NEW t \in Trees, NEW R \in SUBSET Effect(t), \A x \in R : Undone(t, x),
         NEW n \in Integrators(t), NEW tau \in Num, NEW k \in Nat,
         NEW i \in 1..Calls(t, n, tau, k), NEW s \in State, NEW e \in State,
         CallDone(t, R, n, CallAt(t, n, tau, k, i), s, e)
  PROVE  CallDone(t, Effect(t), n, CallAt(t, n, tau, k, i), Flip(e), Flip(s))
<1> DEFINE c == CallAt(t, n, tau, k, i)
           w == Who(t, n, c)
           d == SubDt(t, n, c)
           m == SubSteps(t, n, c)
<1>1. w \in DOMAIN t /\ d \in Num /\ m \in Nat /\ c.fg \in BOOLEAN
  BY CallFacts
<1>2. CASE ~c.fg
  <2>1. Sub(t, R, w, d, m, s, e)
    BY <1>2 DEF CallDone
  <2> HIDE DEF w, d, m, c
  <2>2. Sub(t, Effect(t), w, d, m, Flip(e), Flip(s))
    BY <1>1, <2>1, SubReverse
  <2> QED BY <1>2, <2>2 DEF CallDone, w, d, m, c
<1>3. CASE c.fg
  <2> DEFINE a1 == Moved(t, n, c, s)
  <2>1. a1 \in State
    BY <1>3, MovedTyped
  <2>2. e[1] = s[1]
    BY <1>3 DEF CallDone
  <2>3. PICK g \in Num : Sub(t, R, w, d, m, a1, <<g, e[2]>>)
    BY <1>3 DEF CallDone
  <2>4. w \in Kicks(t)
    BY <1>3, CallFacts
  <2>5. <<g, e[2]>> \in State /\ <<g, e[2]>>[1] = g
    BY DEF State
  <2>7. a1[1] = s[1] (+) (c.fg_dt (.) FgForceAt(t, w, s[1])) /\ a1[2] = s[2]
    BY DEF Moved
  <2>8. Moved(t, n, c, Flip(e)) = <<a1[1], 0 (-) e[2]>>
    BY <2>2, <2>7 DEF Moved, Flip
  <2> HIDE DEF w, d, m, c, a1
  <2>9. <<g, e[2]>>[1] = a1[1]
    BY <2>3, <2>4, SubStill
  <2>10. Sub(t, Effect(t), w, d, m, Flip(<<g, e[2]>>), Flip(a1))
    BY <1>1, <2>1, <2>3, <2>5, SubReverse
  <2>11. Flip(<<g, e[2]>>) = <<a1[1], 0 (-) e[2]>> /\ Flip(a1) = <<a1[1], Flip(s)[2]>>
    BY <2>5, <2>7, <2>9 DEF Flip
  <2>12. a1[1] \in Num
    BY <2>1 DEF State
  <2>13. Sub(t, Effect(t), w, d, m, Moved(t, n, c, Flip(e)), <<a1[1], Flip(s)[2]>>)
    BY <2>8, <2>10, <2>11
  <2>14. Flip(s)[1] = Flip(e)[1]
    BY <2>2 DEF Flip
  <2> QED BY <1>3, <2>12, <2>13, <2>14 DEF CallDone, w, d, m, c
<1> QED BY <1>1, <1>2, <1>3

\* Evolving again from where evolve() ended, with reversed momenta, leads back.
LEMMA EffectReverse ==
  ASSUME NEW t \in Trees
  PROVE  \A x \in Effect(t) : Undone(t, x)
<1> DEFINE Q == {x \in Effect(t) : Undone(t, x)}
<1>0. Q \in SUBSET Effect(t) /\ \A x \in Q : Undone(t, x)
  OBVIOUS
<1>1. Closed(t, Q)
  <2> SUFFICES ASSUME NEW n \in Integrators(t), NEW tau \in Num, NEW k \in Nat, NEW st,
                      Chain(t, Q, n, tau, k, Calls(t, n, tau, k), st)
               PROVE  <<n, tau, k, st[0], st[Calls(t, n, tau, k)]>> \in Q
    BY DEF Closed
  <2> DEFINE last == Calls(t, n, tau, k)
             x == <<n, tau, k, st[0], st[last]>>
             c(i) == CallAt(t, n, tau, k, i)
  <2>1. x \in Effect(t)
    <3>1. Q \subseteq Effect(t)
      OBVIOUS
    <3> HIDE DEF Q
    <3>2. Chain(t, Effect(t), n, tau, k, last, st)
      BY <3>1, ChainMono
    <3> QED BY <3>2, EffectClosed DEF Closed
  <2>2. last \in Nat
    BY CallFacts
  <2>3. \A i \in 0..last : st[i] \in State
    BY <2>2, ChainEnds
  <2>4. x[1] = n /\ x[2] = tau /\ x[3] = k /\ x[4] = st[0] /\ x[5] = st[last]
    OBVIOUS
  <2>5. st[0] \in State /\ st[last] \in State
    BY <2>2, <2>3
  <2>6. ASSUME t[n].type = "SUM" PROVE Undone(t, x)
    <3> DEFINE p == st[0][2]
               q == st[last][2]
    <3>1. n \in Kicks(t)
      BY <2>6, TreesAssumption DEF Integrators
    <3>2. p \in Num /\ q \in Num /\ 0 (-) q \in Num
      BY <2>5, FlipFacts
    <3> HIDE DEF x
    <3>3. st[last][1] = st[0][1] /\ Shifted(x, 0 (-) q) \in Effect(t)
      BY <2>1, <2>4, <3>1, <3>2, EffectKicks DEF KicksOnly
    <3>4. (0 (-) q) (+) (q (-) p) = 0 (-) p
      BY <3>2, MomentumIdentities
    <3>5. Shifted(x, 0 (-) q) = <<n, tau, k, Flip(st[last]), Flip(st[0])>>
      BY <2>4, <3>3, <3>4 DEF Shifted, Flip
    <3>6. <<x[1], x[2], x[3], Flip(x[5]), Flip(x[4])>> = Shifted(x, 0 (-) q)
      BY <2>4, <3>5
    <3>7. <<x[1], x[2], x[3], Flip(x[5]), Flip(x[4])>> \in Effect(t)
      BY <3>3, <3>6
    <3> QED BY <3>7 DEF Undone
  <2>7. ASSUME t[n].type # "SUM" PROVE Undone(t, x)
    <3> DEFINE ts == [j \in 0..last |-> Flip(st[last - j])]
    <3>1. t[n].type \in Schemes
      BY <2>7 DEF Schemes, Integrators
    <3>2. ASSUME NEW j \in 0..last
          PROVE  last - j \in 0..last /\ ts[j] = Flip(st[last - j]) /\ ts[j] \in State
      <4> HIDE DEF last
      <4>1. last - j \in 0..last
        BY <2>2
      <4> QED BY <2>3, <4>1, FlipFacts
    <3>3. ASSUME NEW i \in 1..last
          PROVE  CallDone(t, Effect(t), n, c(i), ts[i - 1], ts[i])
      <4> DEFINE l == last + 1 - i
      <4>1. c(l) = c(i)
        BY <3>1, Palindromic DEF CallAt, Calls
      <4>2. l \in 1..last /\ last - (i - 1) = l /\ last - i = l - 1
            /\ i - 1 \in 0..last /\ i \in 0..last
            /\ l \in 0..last /\ l - 1 \in 0..last
        <5> HIDE DEF last
        <5> QED BY <2>2
      <4> HIDE DEF l, c, last
      <4>3. CallDone(t, Q, n, c(l), st[l - 1], st[l])
        BY <4>2 DEF Chain, c, last
      <4>4. st[l - 1] \in State /\ st[l] \in State
        BY <2>3, <4>2
      <4> HIDE DEF Q
      <4>5. CallDone(t, Effect(t), n, c(l), Flip(st[l]), Flip(st[l - 1]))
        BY <1>0, <4>2, <4>3, <4>4, CallReverse DEF c, last
      <4>6. ts[i - 1] = Flip(st[l]) /\ ts[i] = Flip(st[l - 1])
        BY <3>2, <4>2
      <4> QED BY <4>1, <4>5, <4>6
    <3>4. Chain(t, Effect(t), n, tau, k, last, ts)
      <4>1. ts \in [0..last -> State]
        <5>1. ts = [j \in 0..last |-> ts[j]]
          OBVIOUS
        <5> HIDE DEF ts
        <5> QED BY <3>2, <5>1
      <4> HIDE DEF ts
      <4> QED BY <3>3, <4>1 DEF Chain
    <3>5. ts[0] = Flip(st[last]) /\ ts[last] = Flip(st[0])
      <4>1. 0 \in 0..last /\ last \in 0..last /\ last - 0 = last /\ last - last = 0
        BY <2>2
      <4> HIDE DEF last
      <4> QED BY <3>2, <4>1
    <3>6. <<n, tau, k, ts[0], ts[last]>> \in Effect(t)
      <4> HIDE DEF ts
      <4> QED BY <3>4, EffectClosed DEF Closed
    <3> HIDE DEF ts, x
    <3>7. <<x[1], x[2], x[3], Flip(x[5]), Flip(x[4])>> = <<n, tau, k, ts[0], ts[last]>>
      BY <2>4, <3>5
    <3>8. <<x[1], x[2], x[3], Flip(x[5]), Flip(x[4])>> \in Effect(t)
      BY <3>6, <3>7
    <3> QED BY <3>8 DEF Undone
  <2>8. Undone(t, x)
    BY <2>6, <2>7
  <2> HIDE DEF x
  <2>9. x \in Q
    BY <2>1, <2>8
  <2> QED BY <2>9 DEF x
<1>2. Effect(t) \subseteq Q
  <2> HIDE DEF Q
  <2> QED BY <1>0, <1>1, EffectLeast
<1> QED BY <1>2

-----------------------------------------------------------------------------
(* evolve() has one outcome                                                *)

Alone(t, x) == \A e : <<x[1], x[2], x[3], x[4], e>> \in Effect(t) => e = x[5]

LEMMA SubAlone ==
  ASSUME NEW t, NEW R, \A x \in R : Alone(t, x), NEW w, NEW d, NEW m, NEW s, NEW e, NEW u,
         Sub(t, R, w, d, m, s, e), Sub(t, Effect(t), w, d, m, s, u)
  PROVE  e = u
<1>1. CASE t[w].type \in AB
  <2> DEFINE x == <<w, d, m, s, e>>
  <2>1. x \in R /\ <<w, d, m, s, u>> \in Effect(t)
    BY <1>1 DEF Sub, AB
  <2>2. x[1] = w /\ x[2] = d /\ x[3] = m /\ x[4] = s /\ x[5] = e
    OBVIOUS
  <2> HIDE DEF x
  <2> QED BY <2>1, <2>2 DEF Alone
<1>2. CASE t[w].type \notin AB
  BY <1>2 DEF Sub
<1> QED BY <1>1, <1>2

LEMMA CallAlone ==
  ASSUME NEW t, NEW R, \A x \in R : Alone(t, x), NEW n, NEW c, NEW s,
         NEW e \in State, NEW u \in State,
         CallDone(t, R, n, c, s, e), CallDone(t, Effect(t), n, c, s, u)
  PROVE  e = u
<1> DEFINE w == Who(t, n, c)
           d == SubDt(t, n, c)
           m == SubSteps(t, n, c)
<1>1. CASE ~c.fg
  <2>1. Sub(t, R, w, d, m, s, e) /\ Sub(t, Effect(t), w, d, m, s, u)
    BY <1>1 DEF CallDone
  <2> HIDE DEF w, d, m
  <2> QED BY <2>1, SubAlone
<1>2. CASE c.fg
  <2> DEFINE a1 == Moved(t, n, c, s)
  <2>1. e[1] = s[1] /\ u[1] = s[1]
    BY <1>2 DEF CallDone
  <2>2. PICK g : Sub(t, R, w, d, m, a1, <<g, e[2]>>)
    BY <1>2 DEF CallDone
  <2>3. PICK h : Sub(t, Effect(t), w, d, m, a1, <<h, u[2]>>)
    BY <1>2 DEF CallDone
  <2> HIDE DEF w, d, m, a1
  <2>4. <<g, e[2]>> = <<h, u[2]>>
    BY <2>2, <2>3, SubAlone
  <2>5. e[2] = u[2]
    BY <2>4
  <2> QED BY <2>1, <2>5 DEF State
<1> QED BY <1>1, <1>2

LEMMA EffectAlone ==
  ASSUME NEW t \in Trees
  PROVE  \A x \in Effect(t) : Alone(t, x)
<1> DEFINE Q == {x \in Effect(t) : Alone(t, x)}
<1>0. Q \in SUBSET Effect(t) /\ \A x \in Q : Alone(t, x)
  OBVIOUS
<1>1. Closed(t, Q)
  <2> SUFFICES ASSUME NEW n \in Integrators(t), NEW tau \in Num, NEW k \in Nat, NEW st,
                      Chain(t, Q, n, tau, k, Calls(t, n, tau, k), st)
               PROVE  <<n, tau, k, st[0], st[Calls(t, n, tau, k)]>> \in Q
    BY DEF Closed
  <2> DEFINE last == Calls(t, n, tau, k)
             x == <<n, tau, k, st[0], st[last]>>
             c(i) == CallAt(t, n, tau, k, i)
  <2>1. x \in Effect(t)
    <3>1. Q \subseteq Effect(t)
      OBVIOUS
    <3> HIDE DEF Q
    <3>2. Chain(t, Effect(t), n, tau, k, last, st)
      BY <3>1, ChainMono
    <3> QED BY <3>2, EffectClosed DEF Closed
  <2>2. last \in Nat
    BY CallFacts
  <2>3. x[1] = n /\ x[2] = tau /\ x[3] = k /\ x[4] = st[0] /\ x[5] = st[last]
    OBVIOUS
  <2>4. ASSUME NEW e, <<n, tau, k, st[0], e>> \in Effect(t) PROVE e = st[last]
    <3> DEFINE y == <<n, tau, k, st[0], e>>
    <3>1. y[1] = n /\ y[2] = tau /\ y[3] = k /\ y[4] = st[0] /\ y[5] = e /\ y \in Effect(t)
      BY <2>4
    <3> HIDE DEF y
    <3>2. PICK ut : /\ Chain(t, Effect(t), n, tau, k, last, ut)
                    /\ ut[0] = st[0] /\ ut[last] = e
      BY <3>1, EffectInversion
    <3> DEFINE Bad == {i \in 0..last : ut[i] # st[i]}
    <3>3. Bad = {}
      <4> SUFFICES ASSUME Bad # {} PROVE FALSE
        OBVIOUS
      <4>1. Bad \in SUBSET Nat
        BY <2>2
      <4>2. PICK i \in Bad : \A l \in Bad : i <= l
        <5> HIDE DEF Bad
        <5> QED BY <4>1, SmallestMember
      <4>3. i # 0 /\ i \in 0..last
        BY <3>2, <4>2
      <4> HIDE DEF last
      <4>4. i \in 1..last /\ i - 1 \in 0..last /\ i - 1 < i
        BY <2>2, <4>3
      <4>5. ut[i - 1] = st[i - 1]
        BY <4>2, <4>4 DEF last
      <4>6. CallDone(t, Q, n, c(i), st[i - 1], st[i])
        BY <4>4 DEF Chain, last
      <4>7. CallDone(t, Effect(t), n, c(i), ut[i - 1], ut[i])
        BY <3>2, <4>4 DEF Chain, last
      <4>8. st[i] \in State /\ ut[i] \in State
        BY <2>2, <3>2, <4>3, ChainEnds DEF last
      <4> HIDE DEF Q, c
      <4>9. st[i] = ut[i]
        BY <1>0, <4>5, <4>6, <4>7, <4>8, CallAlone
      <4> QED BY <4>2, <4>9
    <3>4. last \in 0..last
      BY <2>2
    <3> QED BY <3>2, <3>3, <3>4
  <2>5. Alone(t, x)
    <3> HIDE DEF x, last
    <3> QED BY <2>3, <2>4 DEF Alone
  <2> HIDE DEF x
  <2>6. x \in Q
    BY <2>1, <2>5
  <2> QED BY <2>6 DEF x
<1>2. Effect(t) \subseteq Q
  <2> HIDE DEF Q
  <2> QED BY <1>0, <1>1, EffectLeast
<1> QED BY <1>2

\* Forwards, and with the momenta reversed back to the beginning.
LEMMA RoundTrip ==
  ASSUME NEW t \in Trees, NEW n, NEW tau, NEW k, NEW s, NEW e, NEW u,
         <<n, tau, k, s, e>> \in Effect(t), <<n, tau, k, Flip(e), u>> \in Effect(t)
  PROVE  u = Flip(s)
<1> DEFINE x == <<n, tau, k, s, e>>
           y == <<n, tau, k, Flip(e), Flip(s)>>
<1>1. x[1] = n /\ x[2] = tau /\ x[3] = k /\ x[4] = s /\ x[5] = e /\ x \in Effect(t)
  OBVIOUS
<1>2. y[1] = n /\ y[2] = tau /\ y[3] = k /\ y[4] = Flip(e) /\ y[5] = Flip(s)
  OBVIOUS
<1>3. y \in Effect(t)
  <2> HIDE DEF x
  <2> QED BY <1>1, EffectReverse DEF Undone
<1> HIDE DEF x, y
<1>4. Alone(t, y)
  BY <1>3, EffectAlone
<1> QED BY <1>2, <1>4 DEF Alone

-----------------------------------------------------------------------------
(* The stack of calls under way.  A frame whose evolve() began in state s    *)
(* has led to b with the calls before the one it is at; while it waits for   *)
(* another node, whatever comes back is what it goes on from.                *)

FrameOf(t) ==
  [node : Integrators(t), tau : Num, n : Nat, j : Nat \ {0}, saved : Num \cup {NoField},
   at : {"call", "moved", "back"}]

CallsOf(t, fr) == Calls(t, fr.node, fr.tau, fr.n)
CallOf(t, fr)  == CallAt(t, fr.node, fr.tau, fr.n, fr.j)
Same(fr, gr)   == fr.node = gr.node /\ fr.tau = gr.tau /\ fr.n = gr.n

Prefix(t, fr, j, s, b) ==
  \E st : /\ Chain(t, Effect(t), fr.node, fr.tau, fr.n, j - 1, st)
          /\ st[0] = s /\ st[j - 1] = b

\* evolve() of the node that call c of frame fr names.
SubOf(t, fr, c, s, e) ==
  Sub(t, Effect(t), Who(t, fr.node, c), SubDt(t, fr.node, c), SubSteps(t, fr.node, c), s, e)

Innermost(t, fr, s, cur) ==
  /\ fr.j \in 1..(CallsOf(t, fr) + 1)
  /\ fr.at # "call" => fr.j <= CallsOf(t, fr) /\ CallOf(t, fr).fg
  /\ \E b \in State :
       /\ Prefix(t, fr, fr.j, s, b)
       /\ fr.at # "call" => fr.saved = b[1]
       /\ CASE fr.at = "call"  -> cur = b
            [] fr.at = "moved" -> cur = Moved(t, fr.node, CallOf(t, fr), b)
            [] fr.at = "back"  ->
                 SubOf(t, fr, CallOf(t, fr), Moved(t, fr.node, CallOf(t, fr), b), cur)

Waiting(t, fr, s, child, cs) ==
  \A out \in State :
    <<child.node, child.tau, child.n, cs, out>> \in Effect(t) => Innermost(t, fr, s, out)

\* evolve(tau, k) of the root began in s0 and has come to cur.
Running(t, stk, cur, tau, k, s0) ==
  IF stk = <<>> THEN <<"top", tau, k, s0, cur>> \in Effect(t)
  ELSE \E e \in [1..Len(stk) -> State] :
         /\ Innermost(t, stk[1], e[1], cur)
         /\ \A i \in 1..(Len(stk) - 1) : Waiting(t, stk[i + 1], e[i + 1], stk[i], e[i])
         /\ e[Len(stk)] = s0
         /\ stk[Len(stk)].node = "top" /\ stk[Len(stk)].tau = tau /\ stk[Len(stk)].n = k

LEMMA PrefixStart ==
  ASSUME NEW t, NEW fr, NEW s \in State
  PROVE  Prefix(t, fr, 1, s, s)
<1> DEFINE st == [i \in 0..0 |-> s]
<1>1. st \in [0..(1 - 1) -> State] /\ st[0] = s /\ st[1 - 1] = s
  OBVIOUS
<1>2. 1..(1 - 1) = {}
  OBVIOUS
<1> HIDE DEF st
<1> QED BY <1>1, <1>2 DEF Prefix, Chain

LEMMA PrefixStep ==
  ASSUME NEW t, NEW fr, NEW j \in Nat \ {0}, NEW s, NEW b, NEW e \in State,
         Prefix(t, fr, j, s, b),
         CallDone(t, Effect(t), fr.node, CallAt(t, fr.node, fr.tau, fr.n, j), b, e)
  PROVE  Prefix(t, fr, j + 1, s, e)
<1>1. PICK st : /\ Chain(t, Effect(t), fr.node, fr.tau, fr.n, j - 1, st)
                /\ st[0] = s /\ st[j - 1] = b
  BY DEF Prefix
<1> DEFINE ut == [i \in 0..j |-> IF i = j THEN e ELSE st[i]]
           c(i) == CallAt(t, fr.node, fr.tau, fr.n, i)
<1>2. \A i \in 0..(j - 1) : st[i] \in State /\ i \in 0..j /\ i # j
  BY <1>1 DEF Chain
<1>3. ut \in [0..j -> State] /\ ut[j] = e /\ \A i \in 0..(j - 1) : ut[i] = st[i]
  BY <1>2
<1> HIDE DEF ut
<1>4. ASSUME NEW i \in 1..j
      PROVE  CallDone(t, Effect(t), fr.node, c(i), ut[i - 1], ut[i])
  <2>1. i - 1 \in 0..(j - 1) /\ (i # j => i \in 1..(j - 1) /\ i \in 0..(j - 1))
    OBVIOUS
  <2>2. CASE i = j
    BY <1>1, <1>3, <2>1, <2>2
  <2>3. CASE i # j
    <3>1. CallDone(t, Effect(t), fr.node, c(i), st[i - 1], st[i])
      BY <1>1, <2>1, <2>3 DEF Chain
    <3> HIDE DEF c
    <3> QED BY <1>3, <2>1, <2>3, <3>1
  <2> QED BY <2>2, <2>3
<1>5. 0 \in 0..(j - 1) /\ (j + 1) - 1 = j
  OBVIOUS
<1>6. Chain(t, Effect(t), fr.node, fr.tau, fr.n, (j + 1) - 1, ut)
  BY <1>3, <1>4, <1>5 DEF Chain
<1> QED BY <1>1, <1>3, <1>5, <1>6 DEF Prefix

LEMMA PrefixFull ==
  ASSUME NEW t \in Trees, NEW fr \in FrameOf(t), NEW s, NEW b,
         Prefix(t, fr, CallsOf(t, fr) + 1, s, b)
  PROVE  <<fr.node, fr.tau, fr.n, s, b>> \in Effect(t)
<1>1. fr.node \in Integrators(t) /\ fr.tau \in Num /\ fr.n \in Nat
  BY DEF FrameOf
<1>2. CallsOf(t, fr) \in Nat
  BY <1>1, CallFacts DEF CallsOf
<1>3. (CallsOf(t, fr) + 1) - 1 = CallsOf(t, fr)
  BY <1>2
<1>4. PICK st : /\ Chain(t, Effect(t), fr.node, fr.tau, fr.n, CallsOf(t, fr), st)
                /\ st[0] = s /\ st[CallsOf(t, fr)] = b
  BY <1>3 DEF Prefix
<1> QED BY <1>1, <1>4, EffectClosed DEF Closed, CallsOf

\* The call that a frame is at, made by evolve() of what it names.
LEMMA CallMade ==
  ASSUME NEW t \in Trees, NEW fr \in FrameOf(t), NEW s, NEW cur,
         Innermost(t, fr, s, cur), fr.j <= CallsOf(t, fr),
         fr.at = IF CallOf(t, fr).fg THEN "moved" ELSE "call",
         NEW gr, Same(gr, fr),
         gr.j = IF CallOf(t, fr).fg THEN fr.j ELSE fr.j + 1,
         gr.at = IF CallOf(t, fr).fg THEN "back" ELSE fr.at,
         gr.saved = fr.saved,
         NEW out \in State, SubOf(t, fr, CallOf(t, fr), cur, out)
  PROVE  Innermost(t, gr, s, out)
<1>0. /\ fr.node \in Integrators(t) /\ fr.tau \in Num /\ fr.n \in Nat
      /\ CallsOf(t, fr) \in Nat /\ CallsOf(t, gr) = CallsOf(t, fr)
  BY CallFacts DEF FrameOf, CallsOf, Same
<1>1. PICK b \in State :
        /\ Prefix(t, fr, fr.j, s, b)
        /\ fr.at # "call" => fr.saved = b[1]
        /\ CASE fr.at = "call"  -> cur = b
             [] fr.at = "moved" -> cur = Moved(t, fr.node, CallOf(t, fr), b)
             [] fr.at = "back"  ->
                 SubOf(t, fr, CallOf(t, fr), Moved(t, fr.node, CallOf(t, fr), b), cur)
  BY DEF Innermost
<1>2. \A i, x, y : Prefix(t, gr, i, x, y) <=> Prefix(t, fr, i, x, y)
  BY DEF Prefix, Same
<1>3. fr.j \in 1..CallsOf(t, fr)
  BY <1>0 DEF Innermost
<1>4. CASE CallOf(t, fr).fg
  <2>1. CallOf(t, gr) = CallOf(t, fr) /\ gr.at = "back" /\ fr.at = "moved"
    BY <1>4 DEF CallOf, Same
  <2>2. SubOf(t, gr, CallOf(t, gr), Moved(t, gr.node, CallOf(t, gr), b), out)
    BY <1>1, <2>1 DEF SubOf, Same
  <2>3. Prefix(t, gr, gr.j, s, b) /\ gr.saved = b[1] /\ gr.j = fr.j
    BY <1>1, <1>2, <1>4, <2>1
  <2>4. gr.j \in 1..(CallsOf(t, gr) + 1) /\ gr.j <= CallsOf(t, gr)
    BY <1>0, <1>3, <2>3
  <2> QED BY <1>4, <2>1, <2>2, <2>3, <2>4 DEF Innermost
<1>5. CASE ~CallOf(t, fr).fg
  <2>1. fr.at = "call" /\ gr.at = "call" /\ gr.j = fr.j + 1
    BY <1>5
  <2>2. CallDone(t, Effect(t), fr.node, CallAt(t, fr.node, fr.tau, fr.n, fr.j), b, out)
    BY <1>1, <1>5, <2>1 DEF SubOf, CallDone, CallOf
  <2>3. Prefix(t, fr, fr.j + 1, s, out)
    BY <1>1, <1>3, <2>2, PrefixStep
  <2>4. Prefix(t, gr, gr.j, s, out)
    BY <1>2, <2>1, <2>3
  <2>5. gr.j \in 1..(CallsOf(t, gr) + 1)
    BY <1>0, <1>3, <2>1
  <2> QED BY <2>1, <2>4, <2>5 DEF Innermost
<1> QED BY <1>4, <1>5

\* The field is moved aside before a call with force gradient ...
LEMMA FieldMoved ==
  ASSUME NEW t \in Trees, NEW fr \in FrameOf(t), NEW s, NEW cur,
         Innermost(t, fr, s, cur), fr.j <= CallsOf(t, fr),
         fr.at = "call", CallOf(t, fr).fg,
         NEW gr, Same(gr, fr), gr.j = fr.j, gr.at = "moved", gr.saved = cur[1]
  PROVE  Innermost(t, gr, s, Moved(t, fr.node, CallOf(t, fr), cur))
<1>1. cur \in State /\ Prefix(t, fr, fr.j, s, cur) /\ fr.j \in 1..(CallsOf(t, fr) + 1)
  BY DEF Innermost
<1>2. Prefix(t, gr, gr.j, s, cur)
  BY <1>1 DEF Prefix, Same
<1>3. CallsOf(t, gr) = CallsOf(t, fr) /\ CallOf(t, gr) = CallOf(t, fr) /\ gr.node = fr.node
  BY DEF CallsOf, CallOf, Same
<1> QED BY <1>1, <1>2, <1>3 DEF Innermost

\* ... and put back after it.
LEMMA FieldRestored ==
  ASSUME NEW t \in Trees, NEW fr \in FrameOf(t), NEW s, NEW cur \in State,
         Innermost(t, fr, s, cur), fr.at = "back",
         NEW gr, Same(gr, fr), gr.j = fr.j + 1, gr.at = "call"
  PROVE  /\ fr.saved \in Num
         /\ Innermost(t, gr, s, <<fr.saved, cur[2]>>)
<1>0. /\ fr.node \in Integrators(t) /\ fr.tau \in Num /\ fr.n \in Nat
      /\ CallsOf(t, fr) \in Nat /\ CallsOf(t, gr) = CallsOf(t, fr)
  BY CallFacts DEF FrameOf, CallsOf, Same
<1> DEFINE out == <<fr.saved, cur[2]>>
<1>1. fr.j \in 1..CallsOf(t, fr) /\ CallOf(t, fr).fg
  BY <1>0 DEF Innermost
<1>2. PICK b \in State :
        /\ Prefix(t, fr, fr.j, s, b)
        /\ fr.saved = b[1]
        /\ SubOf(t, fr, CallOf(t, fr), Moved(t, fr.node, CallOf(t, fr), b), cur)
  BY DEF Innermost
<1>3. cur = <<cur[1], cur[2]>> /\ cur[1] \in Num /\ cur[2] \in Num /\ b[1] \in Num
  BY DEF State
<1>4. fr.saved \in Num /\ out \in State /\ out[1] = b[1] /\ out[2] = cur[2]
  BY <1>2, <1>3 DEF State
<1> HIDE DEF out
<1>5. SubOf(t, fr, CallOf(t, fr), Moved(t, fr.node, CallOf(t, fr), b), <<cur[1], out[2]>>)
  BY <1>2, <1>3, <1>4
<1>6. CallDone(t, Effect(t), fr.node, CallAt(t, fr.node, fr.tau, fr.n, fr.j), b, out)
  BY <1>1, <1>3, <1>4, <1>5 DEF SubOf, CallDone, CallOf
<1>7. Prefix(t, fr, fr.j + 1, s, out)
  BY <1>1, <1>2, <1>4, <1>6, PrefixStep
<1>8. Prefix(t, gr, gr.j, s, out)
  BY <1>7 DEF Prefix, Same
<1>9. gr.j \in 1..(CallsOf(t, gr) + 1)
  BY <1>0, <1>1
<1>10. Innermost(t, gr, s, out)
  BY <1>4, <1>8, <1>9 DEF Innermost
<1> QED BY <1>4, <1>10 DEF out

LEMMA WaitingSame ==
  ASSUME NEW t, NEW fr, NEW s, NEW ch, NEW ch2, NEW cs, Same(ch2, ch),
         Waiting(t, fr, s, ch, cs)
  PROVE  Waiting(t, fr, s, ch2, cs)
BY DEF Waiting, Same

\* A step of the innermost call.
LEMMA TopReplaced ==
  ASSUME NEW t, NEW F, NEW stk \in Seq(F), stk # <<>>, NEW cur, NEW tau, NEW k, NEW s0,
         Running(t, stk, cur, tau, k, s0),
         NEW fr \in F, Same(fr, stk[1]), NEW cur2,
         \A s \in State : Innermost(t, stk[1], s, cur) => Innermost(t, fr, s, cur2)
  PROVE  Running(t, <<fr>> \o Tail(stk), cur2, tau, k, s0)
<1> DEFINE stk2 == <<fr>> \o Tail(stk)
           L == Len(stk)
<1>1. /\ L \in Nat \ {0} /\ Len(stk2) = L /\ stk2 # <<>>
      /\ stk2[1] = fr /\ \A i \in 2..L : stk2[i] = stk[i]
  OBVIOUS
<1>2. PICK e \in [1..L -> State] :
        /\ Innermost(t, stk[1], e[1], cur)
        /\ \A i \in 1..(L - 1) : Waiting(t, stk[i + 1], e[i + 1], stk[i], e[i])
        /\ e[L] = s0
        /\ stk[L].node = "top" /\ stk[L].tau = tau /\ stk[L].n = k
  BY DEF Running
<1> HIDE DEF stk2, L
<1>3. \A i \in 1..L : Same(stk2[i], stk[i])
  <2>1. \A i \in 1..L : i = 1 \/ i \in 2..L
    BY <1>1
  <2> QED BY <1>1, <2>1 DEF Same
<1>4. Innermost(t, stk2[1], e[1], cur2)
  <2>1. e[1] \in State
    BY <1>1
  <2> QED BY <1>1, <1>2, <2>1
<1>5. ASSUME NEW i \in 1..(L - 1)
      PROVE  Waiting(t, stk2[i + 1], e[i + 1], stk2[i], e[i])
  <2>1. i \in 1..L /\ i + 1 \in 2..L
    BY <1>1
  <2>2. Waiting(t, stk2[i + 1], e[i + 1], stk[i], e[i])
    BY <1>1, <1>2, <2>1
  <2> QED BY <1>3, <2>1, <2>2, WaitingSame
<1>6. stk2[L].node = "top" /\ stk2[L].tau = tau /\ stk2[L].n = k
  <2>1. L \in 1..L
    BY <1>1
  <2> QED BY <1>2, <1>3, <2>1 DEF Same
<1>7. Running(t, stk2, cur2, tau, k, s0)
  BY <1>1, <1>2, <1>4, <1>5, <1>6 DEF Running
<1> QED BY <1>7 DEF stk2

\* A call of an inner integrator.
LEMMA TopPushed ==
  ASSUME NEW t, NEW F, NEW stk \in Seq(F), stk # <<>>, NEW cur \in State, NEW tau, NEW k,
         NEW s0, Running(t, stk, cur, tau, k, s0),
         NEW fr \in F, Same(fr, stk[1]), NEW ch \in F,
         Innermost(t, ch, cur, cur),
         \A s \in State : Innermost(t, stk[1], s, cur) => Waiting(t, fr, s, ch, cur)
  PROVE  Running(t, <<ch, fr>> \o Tail(stk), cur, tau, k, s0)
<1> DEFINE stk2 == <<ch, fr>> \o Tail(stk)
           L == Len(stk)
<1>1. /\ L \in Nat \ {0} /\ Len(stk2) = L + 1 /\ stk2 # <<>>
      /\ stk2[1] = ch /\ stk2[2] = fr /\ \A i \in 2..L : stk2[i + 1] = stk[i]
  OBVIOUS
<1>2. PICK e \in [1..L -> State] :
        /\ Innermost(t, stk[1], e[1], cur)
        /\ \A i \in 1..(L - 1) : Waiting(t, stk[i + 1], e[i + 1], stk[i], e[i])
        /\ e[L] = s0
        /\ stk[L].node = "top" /\ stk[L].tau = tau /\ stk[L].n = k
  BY DEF Running
<1> HIDE DEF stk2, L
<1> DEFINE u == [i \in 1..(L + 1) |-> IF i = 1 THEN cur ELSE e[i - 1]]
<1>3. /\ u \in [1..(L + 1) -> State] /\ u[1] = cur
      /\ \A i \in 1..L : u[i + 1] = e[i]
  <2>1. \A i \in 1..(L + 1) : i # 1 => i - 1 \in 1..L
    BY <1>1
  <2>2. \A i \in 1..L : i + 1 \in 1..(L + 1) /\ i + 1 # 1 /\ (i + 1) - 1 = i
    BY <1>1
  <2>3. 1 \in 1..(L + 1)
    BY <1>1
  <2> QED BY <2>1, <2>2, <2>3
<1> HIDE DEF u
<1>4. \A i \in 1..L : Same(stk2[i + 1], stk[i])
  <2>1. \A i \in 1..L : i = 1 \/ i \in 2..L
    BY <1>1
  <2> QED BY <1>1, <2>1 DEF Same
<1>5. ASSUME NEW i \in 1..L
      PROVE  Waiting(t, stk2[i + 1], u[i + 1], stk2[i], u[i])
  <2>1. CASE i = 1
    <3>1. e[1] \in State /\ 1 \in 1..L /\ 1 + 1 = 2
      BY <1>1
    <3>2. u[2] = e[1]
      BY <1>3, <3>1
    <3> QED BY <1>1, <1>2, <1>3, <2>1, <3>1, <3>2
  <2>2. CASE i # 1
    <3>1. i - 1 \in 1..(L - 1) /\ i - 1 \in 1..L /\ (i - 1) + 1 = i /\ i \in 2..L
      BY <1>1, <2>2
    <3>2. Waiting(t, stk[i], e[i], stk[i - 1], e[i - 1])
      BY <1>2, <3>1
    <3>3. Same(stk2[i], stk[i - 1]) /\ u[i] = e[i - 1]
      BY <1>3, <1>4, <3>1
    <3>4. stk2[i + 1] = stk[i] /\ u[i + 1] = e[i]
      BY <1>1, <1>3, <3>1
    <3>5. Waiting(t, stk[i], e[i], stk2[i], e[i - 1])
      BY <3>2, <3>3, WaitingSame
    <3> QED BY <3>3, <3>4, <3>5
  <2> QED BY <2>1, <2>2
<1>6. /\ stk2[L + 1].node = "top" /\ stk2[L + 1].tau = tau /\ stk2[L + 1].n = k
      /\ u[L + 1] = s0
  <2>1. L \in 1..L
    BY <1>1
  <2> QED BY <1>2, <1>3, <1>4, <2>1 DEF Same
<1>7. Running(t, stk2, cur, tau, k, s0)
  <2>1. (L + 1) - 1 = L
    BY <1>1
  <2> QED BY <1>1, <1>3, <1>5, <1>6, <2>1 DEF Running
<1> QED BY <1>7 DEF stk2

\* The innermost call returns.
LEMMA TopPopped ==
  ASSUME NEW t \in Trees, NEW stk \in Seq(FrameOf(t)), stk # <<>>, NEW cur \in State,
         NEW tau, NEW k, NEW s0, Running(t, stk, cur, tau, k, s0),
         stk[1].j > CallsOf(t, stk[1])
  PROVE  Running(t, Tail(stk), cur, tau, k, s0)
<1> DEFINE stk2 == Tail(stk)
           L == Len(stk)
           fr == stk[1]
<1>1. /\ L \in Nat \ {0} /\ Len(stk2) = L - 1 /\ (stk2 = <<>> <=> L = 1)
      /\ \A i \in 1..(L - 1) : stk2[i] = stk[i + 1]
      /\ fr \in FrameOf(t)
  <2>1. L \in Nat \ {0} /\ fr \in FrameOf(t)
    OBVIOUS
  <2>2. Len(stk2) = L - 1
    OBVIOUS
  <2>3. \A i \in 1..(L - 1) : stk2[i] = stk[i + 1]
    OBVIOUS
  <2>4. stk2 \in Seq(FrameOf(t))
    OBVIOUS
  <2> HIDE DEF stk2
  <2>5. stk2 = <<>> <=> Len(stk2) = 0
    BY <2>4
  <2> HIDE DEF L
  <2>6. stk2 = <<>> <=> L = 1
    BY <2>1, <2>2, <2>5
  <2> QED BY <2>1, <2>2, <2>3, <2>6
<1>2. PICK e \in [1..L -> State] :
        /\ Innermost(t, stk[1], e[1], cur)
        /\ \A i \in 1..(L - 1) : Waiting(t, stk[i + 1], e[i + 1], stk[i], e[i])
        /\ e[L] = s0
        /\ stk[L].node = "top" /\ stk[L].tau = tau /\ stk[L].n = k
  BY DEF Running
<1>3. <<fr.node, fr.tau, fr.n, e[1], cur>> \in Effect(t)
  <2>1. fr.node \in Integrators(t) /\ fr.tau \in Num /\ fr.n \in Nat
    BY <1>1 DEF FrameOf
  <2>2. CallsOf(t, fr) \in Nat
    BY <2>1, CallFacts DEF CallsOf
  <2>3. Innermost(t, fr, e[1], cur) /\ fr.j > CallsOf(t, fr)
    BY <1>2
  <2> HIDE DEF fr
  <2>4. fr.j = CallsOf(t, fr) + 1
    BY <2>2, <2>3 DEF Innermost
  <2>5. fr.at = "call"
    BY <2>2, <2>3, <2>4 DEF Innermost
  <2>6. Prefix(t, fr, fr.j, e[1], cur)
    BY <2>3, <2>5 DEF Innermost
  <2> QED BY <1>1, <2>4, <2>6, PrefixFull
<1> HIDE DEF stk2, L
<1>4. CASE L = 1
  <2>1. <<"top", tau, k, s0, cur>> \in Effect(t)
    BY <1>2, <1>3, <1>4
  <2>2. stk2 = <<>>
    BY <1>1, <1>4
  <2> QED BY <2>1, <2>2 DEF Running, stk2
<1>5. CASE L # 1
  <2> DEFINE u == [i \in 1..(L - 1) |-> e[i + 1]]
  <2>1. L - 1 \in Nat \ {0} /\ \A i \in 1..(L - 1) : i + 1 \in 1..L
    BY <1>1, <1>5
  <2>2. u \in [1..(L - 1) -> State] /\ \A i \in 1..(L - 1) : u[i] = e[i + 1]
    BY <2>1
  <2> HIDE DEF u
  <2>3. Innermost(t, stk2[1], u[1], cur)
    <3>1. 1 \in 1..(L - 1) /\ 1 + 1 = 2
      BY <1>1, <2>1
    <3>2. Waiting(t, stk[2], e[2], fr, e[1])
      BY <1>2, <3>1
    <3>3. Innermost(t, stk[2], e[2], cur)
      BY <1>3, <3>2 DEF Waiting
    <3> QED BY <1>1, <2>2, <3>1, <3>3
  <2>4. ASSUME NEW i \in 1..((L - 1) - 1)
        PROVE  Waiting(t, stk2[i + 1], u[i + 1], stk2[i], u[i])
    <3>1. i \in 1..(L - 1) /\ i + 1 \in 1..(L - 1)
      BY <1>1, <1>5
    <3>2. Waiting(t, stk[(i + 1) + 1], e[(i + 1) + 1], stk[i + 1], e[i + 1])
      BY <1>2, <3>1
    <3> QED BY <1>1, <2>2, <3>1, <3>2
  <2>5. u[L - 1] = s0 /\ stk2[L - 1] = stk[L]
    <3>1. L - 1 \in 1..(L - 1) /\ (L - 1) + 1 = L
      BY <1>1, <2>1
    <3> QED BY <1>1, <1>2, <2>2, <3>1
  <2>6. Running(t, stk2, cur, tau, k, s0)
    BY <1>1, <1>2, <1>5, <2>2, <2>3, <2>4, <2>5 DEF Running
  <2> QED BY <2>6 DEF stk2
<1> QED BY <1>4, <1>5

\* evolve() of the root is called.
LEMMA FirstCall ==
  ASSUME NEW t, NEW cur \in State, NEW tau \in Num, NEW k \in Nat, t \in Trees
  PROVE  /\ Frame("top", tau, k) \in FrameOf(t)
         /\ Running(t, <<Frame("top", tau, k)>>, cur, tau, k, cur)
<1> DEFINE fr == Frame("top", tau, k)
           e == [i \in 1..1 |-> cur]
<1>1. fr \in FrameOf(t)
  BY TreeFacts DEF Frame, FrameOf
<1>2. fr.node = "top" /\ fr.tau = tau /\ fr.n = k /\ fr.j = 1 /\ fr.at = "call"
  BY DEF Frame
<1>3. CallsOf(t, fr) \in Nat
  BY <1>2, TreeFacts, CallFacts DEF CallsOf
<1> HIDE DEF fr
<1>4. Innermost(t, fr, cur, cur)
  BY <1>2, <1>3, PrefixStart DEF Innermost
<1>5. <<fr>> # <<>> /\ Len(<<fr>>) = 1 /\ <<fr>>[1] = fr
  OBVIOUS
<1>6. e \in [1..1 -> State] /\ e[1] = cur
  OBVIOUS
<1> HIDE DEF e
<1>7. 1..(1 - 1) = {}
  OBVIOUS
<1>8. Running(t, <<fr>>, cur, tau, k, cur)
  BY <1>2, <1>4, <1>5, <1>6, <1>7 DEF Running
<1> QED BY <1>1, <1>8 DEF fr

-----------------------------------------------------------------------------
(* The program's steps                                                     *)

Cur   == <<gauge, mom>>
Start == <<begin.gauge, begin.mom>>

TypeOK ==
  /\ tree \in Trees /\ dt \in Num /\ steps \in Nat
  /\ Cur \in State /\ Start \in State
  /\ stack \in Seq(FrameOf(tree))

\* The evolve() of the root that is under way, or has just ended, began in s0.
From(s0) == Running(tree, stack, Cur, dt, steps, s0)

\* The inductive invariant: evolving forward began at the recorded state;
\* evolving back began at the reverse of what that led to.
Trip ==
  /\ phase \in {"start", "forward", "back", "done"}
  /\ phase = "start" => stack = <<>> /\ Cur = Start
  /\ phase = "forward" => From(Start)
  /\ phase = "back" => \E fin \in State :
       <<"top", dt, steps, Start, fin>> \in Effect(tree) /\ From(Flip(fin))
  /\ phase = "done" => stack = <<>> /\ Cur = Flip(Start)

IInv == TypeOK /\ Trip

LEMMA FrameFacts ==
  ASSUME TypeOK, stack # <<>>
  PROVE  /\ f = stack[1] /\ f \in FrameOf(tree) /\ Tail(stack) \in Seq(FrameOf(tree))
         /\ f.node \in Integrators(tree) /\ f.tau \in Num /\ f.n \in Nat
         /\ f.j \in Nat \ {0} /\ f.saved \in Num \cup {NoField}
         /\ f.at \in {"call", "moved", "back"}
         /\ CallsOf(tree, f) \in Nat
         /\ call = CallOf(tree, f) /\ (Done <=> f.j > CallsOf(tree, f))
         /\ who = Who(tree, f.node, call)
         /\ sub_steps = SubSteps(tree, f.node, call)
         /\ sub_dt = SubDt(tree, f.node, call)
         /\ FgForce = FgForceAt(tree, who, gauge)
<1>1. f = stack[1] /\ f \in FrameOf(tree) /\ Tail(stack) \in Seq(FrameOf(tree))
  BY DEF TypeOK, f
<1>2. /\ f.node \in Integrators(tree) /\ f.tau \in Num /\ f.n \in Nat
      /\ f.j \in Nat \ {0} /\ f.saved \in Num \cup {NoField}
      /\ f.at \in {"call", "moved", "back"}
  BY <1>1 DEF FrameOf
<1>3. CallsOf(tree, f) \in Nat
  BY <1>2, CallFacts DEF CallsOf, TypeOK
<1>4. call = CallOf(tree, f) /\ (Done <=> f.j > CallsOf(tree, f))
  BY DEF call, CallOf, CallAt, node, Done, CallsOf, Calls
<1>5. /\ who = Who(tree, f.node, call)
      /\ sub_steps = SubSteps(tree, f.node, call)
      /\ sub_dt = SubDt(tree, f.node, call)
  BY DEF who, Who, node, sub_steps, SubSteps, sub_dt, SubDt
<1>6. FgForce = FgForceAt(tree, who, gauge)
  BY DEF FgForce, FgForceAt
<1> QED BY <1>1, <1>2, <1>3, <1>4, <1>5, <1>6

LEMMA NotDoneFacts ==
  ASSUME TypeOK, stack # <<>>, ~Done
  PROVE  /\ f.j \in 1..CallsOf(tree, f)
         /\ call.fg \in BOOLEAN /\ who \in DOMAIN tree
         /\ sub_dt \in Num /\ sub_steps \in Nat \ {0}
<1>1. f.j \in 1..CallsOf(tree, f)
  BY FrameFacts
<1>2. /\ tree \in Trees /\ f.node \in Integrators(tree) /\ f.tau \in Num /\ f.n \in Nat
      /\ who = Who(tree, f.node, call) /\ sub_dt = SubDt(tree, f.node, call)
      /\ sub_steps = SubSteps(tree, f.node, call)
  BY FrameFacts DEF TypeOK
<1>3. call = CallAt(tree, f.node, f.tau, f.n, f.j) /\ f.j \in 1..Calls(tree, f.node, f.tau, f.n)
  BY <1>1, FrameFacts DEF CallOf, CallsOf
<1> HIDE DEF f
<1>4. /\ call.fg \in BOOLEAN /\ Who(tree, f.node, call) \in DOMAIN tree
      /\ SubDt(tree, f.node, call) \in Num
      /\ SubSteps(tree, f.node, call) \in Nat \ {0}
  BY <1>2, <1>3, CallFacts
<1> QED BY <1>1, <1>2, <1>4

LEMMA AfterFacts ==
  ASSUME TypeOK, stack # <<>>, ~Done
  PROVE  /\ After \in FrameOf(tree) /\ Same(After, f)
         /\ After.j = IF CallOf(tree, f).fg THEN f.j ELSE f.j + 1
         /\ After.at = IF CallOf(tree, f).fg THEN "back" ELSE f.at
         /\ After.saved = f.saved
<1>1. f \in FrameOf(tree) /\ f.j \in Nat \ {0} /\ call = CallOf(tree, f)
  BY FrameFacts
<1>2. CASE call.fg
  <2>1. After = [f EXCEPT !.at = "back"]
    BY <1>2 DEF After
  <2> QED BY <1>1, <1>2, <2>1 DEF FrameOf, Same
<1>3. CASE ~call.fg
  <2>1. After = [f EXCEPT !.j = @ + 1]
    BY <1>3 DEF After
  <2> QED BY <1>1, <1>3, <2>1 DEF FrameOf, Same
<1> QED BY <1>2, <1>3

\* Whatever evolve() of the called node leads to, the caller goes on from it.
LEMMA CallerGoesOn ==
  ASSUME TypeOK, stack # <<>>, ~Done, Ready, NEW out \in State,
         SubOf(tree, f, call, Cur, out), NEW s, Innermost(tree, f, s, Cur)
  PROVE  Innermost(tree, After, s, out)
<1>1. /\ tree \in Trees /\ f \in FrameOf(tree) /\ call = CallOf(tree, f)
      /\ f.j <= CallsOf(tree, f)
  BY FrameFacts, NotDoneFacts DEF TypeOK
<1>2. f.at = IF CallOf(tree, f).fg THEN "moved" ELSE "call"
  BY <1>1 DEF Ready
<1>3. SubOf(tree, f, CallOf(tree, f), Cur, out)
  BY <1>1
<1>4. /\ Same(After, f)
      /\ After.j = IF CallOf(tree, f).fg THEN f.j ELSE f.j + 1
      /\ After.at = IF CallOf(tree, f).fg THEN "back" ELSE f.at
      /\ After.saved = f.saved
  BY AfterFacts
<1> HIDE DEF Cur, f, After
<1> QED BY <1>1, <1>2, <1>3, <1>4, CallMade

LEMMA LeafStep ==
  ASSUME TypeOK, stack # <<>>, ~Done, Ready, NEW out \in State,
         SubOf(tree, f, call, Cur, out), NEW s0, From(s0)
  PROVE  Running(tree, <<After>> \o Tail(stack), out, dt, steps, s0)
<1>1. stack \in Seq(FrameOf(tree)) /\ f = stack[1]
  BY FrameFacts DEF TypeOK
<1>2. After \in FrameOf(tree) /\ Same(After, stack[1])
  BY <1>1, AfterFacts
<1>3. \A s \in State : Innermost(tree, stack[1], s, Cur) => Innermost(tree, After, s, out)
  BY <1>1, CallerGoesOn
<1>4. Running(tree, stack, Cur, dt, steps, s0)
  BY DEF From
<1> QED BY <1>1, <1>2, <1>3, <1>4, TopReplaced

LEMMA StackTyped ==
  ASSUME TypeOK, stack # <<>>, NEW fr \in FrameOf(tree)
  PROVE  <<fr>> \o Tail(stack) \in Seq(FrameOf(tree))
<1>1. Tail(stack) \in Seq(FrameOf(tree))
  BY FrameFacts
<1> QED BY <1>1

LEMMA StepEvolveMomentum ==
  ASSUME TypeOK, EvolveMomentum, NEW s0, From(s0)
  PROVE  TypeOK' /\ From(s0)'
<1>1. /\ stack # <<>> /\ ~Done /\ Ready /\ tree[who].type = "MOM"
      /\ gauge' = gauge (+) (sub_steps (.) (sub_dt (.) mom))
      /\ mom' = mom /\ stack' = <<After>> \o Tail(stack)
      /\ tree' = tree /\ dt' = dt /\ steps' = steps /\ begin' = begin
  BY DEF EvolveMomentum, Run, args
<1>2. /\ gauge \in Num /\ mom \in Num /\ sub_dt \in Num /\ sub_steps \in Nat
      /\ Cur = <<gauge, mom>> /\ Cur[1] = gauge /\ Cur[2] = mom
  BY <1>1, NotDoneFacts DEF TypeOK, Cur, State
<1>3. gauge' \in Num
  <2>1. sub_dt \in Int /\ sub_steps \in Int /\ mom \in Int
    BY <1>2, NumInts
  <2>2. sub_dt (.) mom \in Num
    BY <2>1, NumFacts
  <2>3. sub_dt (.) mom \in Int
    BY <2>2, NumInts, Zenon
  <2>4. sub_steps (.) (sub_dt (.) mom) \in Num
    BY <2>1, <2>3, NumFacts
  <2> QED BY <1>1, <1>2, <2>4, AddCases
<1>4. Cur' = <<gauge', mom>> /\ Cur' \in State
  BY <1>1, <1>2, <1>3 DEF Cur, State
<1>5. SubOf(tree, f, call, Cur, Cur')
  <2>1. Sub(tree, Effect(tree), who, sub_dt, sub_steps, Cur, Cur')
    BY <1>1, <1>2, <1>4 DEF Sub
  <2> QED BY <1>1, <2>1, FrameFacts DEF SubOf
<1>6. Running(tree, <<After>> \o Tail(stack), Cur', dt, steps, s0)
  <2> DEFINE out == Cur'
  <2>1. out \in State /\ SubOf(tree, f, call, Cur, out)
    BY <1>4, <1>5
  <2> HIDE DEF out
  <2>2. Running(tree, <<After>> \o Tail(stack), out, dt, steps, s0)
    BY <1>1, <2>1, LeafStep
  <2> QED BY <2>2 DEF out
<1>7. TypeOK'
  BY <1>1, <1>4, AfterFacts, StackTyped DEF TypeOK, Start
<1> QED BY <1>1, <1>6, <1>7 DEF From

LEMMA StepEvolveAction ==
  ASSUME TypeOK, EvolveAction, NEW s0, From(s0)
  PROVE  TypeOK' /\ From(s0)'
<1>1. /\ stack # <<>> /\ ~Done /\ Ready /\ tree[who].type = "ACTION"
      /\ mom' = mom (+) (sub_steps (.) (sub_dt (.) ForceOf(who, gauge)))
      /\ gauge' = gauge /\ stack' = <<After>> \o Tail(stack)
      /\ tree' = tree /\ dt' = dt /\ steps' = steps /\ begin' = begin
  BY DEF EvolveAction, Run, args
<1>2. /\ gauge \in Num /\ mom \in Num /\ sub_dt \in Num /\ sub_steps \in Nat
      /\ Cur = <<gauge, mom>> /\ Cur[1] = gauge /\ Cur[2] = mom
      /\ who \in DOMAIN tree /\ tree \in Trees
  BY <1>1, NotDoneFacts DEF TypeOK, Cur, State
<1>3. mom' \in Num
  <2>1. sub_steps (.) (sub_dt (.) ForceOf(who, gauge)) \in Num
    BY <1>1, <1>2, KickTyped
  <2> QED BY <1>1, <1>2, <2>1, AddCases
<1>4. Cur' = <<gauge, mom'>> /\ Cur' \in State
  BY <1>1, <1>2, <1>3 DEF Cur, State
<1>5. SubOf(tree, f, call, Cur, Cur')
  <2>1. Sub(tree, Effect(tree), who, sub_dt, sub_steps, Cur, Cur')
    BY <1>1, <1>2, <1>4 DEF Sub
  <2> QED BY <1>1, <2>1, FrameFacts DEF SubOf
<1>6. Running(tree, <<After>> \o Tail(stack), Cur', dt, steps, s0)
  <2> DEFINE out == Cur'
  <2>1. out \in State /\ SubOf(tree, f, call, Cur, out)
    BY <1>4, <1>5
  <2> HIDE DEF out
  <2>2. Running(tree, <<After>> \o Tail(stack), out, dt, steps, s0)
    BY <1>1, <2>1, LeafStep
  <2> QED BY <2>2 DEF out
<1>7. TypeOK'
  BY <1>1, <1>4, AfterFacts, StackTyped DEF TypeOK, Start
<1> QED BY <1>1, <1>6, <1>7 DEF From

LEMMA StepEvolveAB ==
  ASSUME TypeOK, EvolveAB, NEW s0, From(s0)
  PROVE  TypeOK' /\ From(s0)'
<1> DEFINE ch == Frame(who, sub_dt, sub_steps)
<1>1. /\ stack # <<>> /\ ~Done /\ Ready /\ tree[who].type \in AB
      /\ stack' = <<ch, After>> \o Tail(stack)
      /\ gauge' = gauge /\ mom' = mom
      /\ tree' = tree /\ dt' = dt /\ steps' = steps /\ begin' = begin
  BY DEF EvolveAB, Run, args
<1>2. /\ sub_dt \in Num /\ sub_steps \in Nat \ {0} /\ who \in Integrators(tree)
      /\ tree \in Trees /\ Cur \in State
  BY <1>1, NotDoneFacts DEF TypeOK, Integrators
<1>3. ch \in FrameOf(tree)
  BY <1>2 DEF Frame, FrameOf
<1>4. /\ ch.node = who /\ ch.tau = sub_dt /\ ch.n = sub_steps /\ ch.j = 1
      /\ ch.at = "call"
  BY DEF Frame
<1> HIDE DEF ch
<1>5. Innermost(tree, ch, Cur, Cur)
  <2>1. CallsOf(tree, ch) \in Nat
    BY <1>2, <1>4, CallFacts DEF CallsOf
  <2> QED BY <1>2, <1>4, <2>1, PrefixStart DEF Innermost
<1>6. /\ stack \in Seq(FrameOf(tree)) /\ f = stack[1]
      /\ After \in FrameOf(tree) /\ Same(After, stack[1])
  BY <1>1, FrameFacts, AfterFacts DEF TypeOK
<1>7. ASSUME NEW s, Innermost(tree, stack[1], s, Cur)
      PROVE  Waiting(tree, After, s, ch, Cur)
  <2> SUFFICES ASSUME NEW out \in State,
                      <<ch.node, ch.tau, ch.n, Cur, out>> \in Effect(tree)
               PROVE  Innermost(tree, After, s, out)
    BY DEF Waiting
  <2>1. Sub(tree, Effect(tree), who, sub_dt, sub_steps, Cur, out)
    BY <1>1, <1>4 DEF Sub
  <2>2. SubOf(tree, f, call, Cur, out)
    BY <1>1, <2>1, FrameFacts DEF SubOf
  <2> QED BY <1>1, <1>6, <1>7, <2>2, CallerGoesOn
<1>8. Running(tree, stack', Cur, dt, steps, s0)
  <2>1. Running(tree, stack, Cur, dt, steps, s0)
    BY DEF From
  <2>2. Running(tree, <<ch, After>> \o Tail(stack), Cur, dt, steps, s0)
    BY <1>1, <1>2, <1>3, <1>5, <1>6, <1>7, <2>1, TopPushed
  <2> QED BY <1>1, <2>2
<1>9. Cur' = Cur /\ Start' = Start
  BY <1>1 DEF Cur, Start
<1>10. stack' \in Seq(FrameOf(tree))
  <2>1. Tail(stack) \in Seq(FrameOf(tree))
    BY <1>1, FrameFacts
  <2> QED BY <1>1, <1>3, <1>6, <2>1
<1> QED BY <1>1, <1>8, <1>9, <1>10 DEF From, TypeOK

LEMMA StepPrepareFg ==
  ASSUME TypeOK, PrepareFg, NEW s0, From(s0)
  PROVE  TypeOK' /\ From(s0)'
<1> DEFINE gr == [f EXCEPT !.saved = gauge, !.at = "moved"]
<1>1. /\ stack # <<>> /\ ~Done /\ call.fg /\ f.at = "call"
      /\ gauge' = gauge (+) (call.fg_dt (.) FgForce)
      /\ stack' = <<gr>> \o Tail(stack)
      /\ mom' = mom
      /\ tree' = tree /\ dt' = dt /\ steps' = steps /\ begin' = begin
  BY DEF PrepareFg, Run, args
<1>2. /\ gauge \in Num /\ Cur = <<gauge, mom>> /\ Cur[1] = gauge /\ Cur[2] = mom
      /\ tree \in Trees /\ Cur \in State
  BY DEF TypeOK, Cur, State
<1>3. /\ f = stack[1] /\ f \in FrameOf(tree) /\ stack \in Seq(FrameOf(tree))
      /\ f.j \in 1..CallsOf(tree, f) /\ call = CallOf(tree, f)
      /\ f.node \in Integrators(tree) /\ f.tau \in Num /\ f.n \in Nat
  BY <1>1, FrameFacts, NotDoneFacts DEF TypeOK
<1>4. /\ gr \in FrameOf(tree) /\ Same(gr, f) /\ gr.j = f.j /\ gr.at = "moved"
      /\ gr.saved = gauge
  BY <1>2, <1>3 DEF FrameOf, Same
<1>5. Cur' = Moved(tree, f.node, call, Cur)
  BY <1>1, <1>2, FrameFacts DEF Cur, Moved
<1>6. Cur' \in State
  <2>1. call = CallAt(tree, f.node, f.tau, f.n, f.j) /\ f.j \in 1..Calls(tree, f.node, f.tau, f.n)
    BY <1>3 DEF CallOf, CallsOf
  <2> QED BY <1>1, <1>2, <1>3, <1>5, <2>1, MovedTyped
<1> HIDE DEF gr, f, Cur
<1>7. ASSUME NEW s \in State, Innermost(tree, stack[1], s, Cur)
      PROVE  Innermost(tree, gr, s, Moved(tree, f.node, call, Cur))
  <2>1. Innermost(tree, f, s, Cur) /\ CallOf(tree, f).fg /\ f.j <= CallsOf(tree, f)
    BY <1>1, <1>3, <1>7
  <2> QED BY <1>1, <1>2, <1>3, <1>4, <2>1, FieldMoved
<1>8. Running(tree, stack', Cur', dt, steps, s0)
  <2>1. Running(tree, stack, Cur, dt, steps, s0) /\ Same(gr, stack[1])
    BY <1>3, <1>4 DEF From
  <2>2. Running(tree, <<gr>> \o Tail(stack), Moved(tree, f.node, call, Cur), dt, steps, s0)
    BY <1>1, <1>3, <1>4, <1>7, <2>1, TopReplaced
  <2> QED BY <1>1, <1>5, <2>2
<1>9. stack' \in Seq(FrameOf(tree))
  BY <1>1, <1>4, StackTyped
<1>10. Start' = Start
  BY <1>1 DEF Start
<1> QED BY <1>1, <1>6, <1>8, <1>9, <1>10 DEF From, TypeOK

LEMMA StepRestoreField ==
  ASSUME TypeOK, RestoreField, NEW s0, From(s0)
  PROVE  TypeOK' /\ From(s0)'
<1> DEFINE gr == [f EXCEPT !.saved = NoField, !.at = "call", !.j = @ + 1]
<1>1. /\ stack # <<>> /\ ~Done /\ call.fg /\ f.at = "back"
      /\ gauge' = f.saved
      /\ stack' = <<gr>> \o Tail(stack)
      /\ mom' = mom
      /\ tree' = tree /\ dt' = dt /\ steps' = steps /\ begin' = begin
  BY DEF RestoreField, Run, args, Restored
<1>2. /\ mom \in Num /\ Cur = <<gauge, mom>> /\ Cur[2] = mom
      /\ tree \in Trees /\ Cur \in State
  BY DEF TypeOK, Cur, State
<1>3. /\ f = stack[1] /\ f \in FrameOf(tree) /\ stack \in Seq(FrameOf(tree))
      /\ f.j \in Nat \ {0}
  BY <1>1, FrameFacts DEF TypeOK
<1>4. gr \in FrameOf(tree) /\ Same(gr, f) /\ gr.j = f.j + 1 /\ gr.at = "call"
  <2> HIDE DEF f
  <2> DEFINE g1 == [f EXCEPT !.saved = NoField, !.at = "call"]
  <2>1. g1 \in FrameOf(tree) /\ Same(g1, f) /\ g1.j = f.j /\ g1.at = "call"
    BY <1>3 DEF FrameOf, Same
  <2>2. gr = [g1 EXCEPT !.j = f.j + 1]
    BY <1>3 DEF FrameOf
  <2> HIDE DEF g1, gr
  <2> QED BY <1>3, <2>1, <2>2 DEF FrameOf, Same
<1>5. Cur' = <<f.saved, Cur[2]>>
  BY <1>1, <1>2 DEF Cur
<1>6. Running(tree, stack, Cur, dt, steps, s0)
  BY DEF From
<1> HIDE DEF gr, f, Cur
<1>7. ASSUME NEW s \in State, Innermost(tree, stack[1], s, Cur)
      PROVE  f.saved \in Num /\ Innermost(tree, gr, s, <<f.saved, Cur[2]>>)
  <2>1. Innermost(tree, f, s, Cur)
    BY <1>3, <1>7
  <2> QED BY <1>1, <1>2, <1>3, <1>4, <2>1, FieldRestored
<1>8. f.saved \in Num
  <2>1. Len(stack) \in Nat \ {0}
    BY <1>1, <1>3
  <2>2. PICK e \in [1..Len(stack) -> State] : Innermost(tree, stack[1], e[1], Cur)
    BY <1>1, <1>6 DEF Running
  <2>3. e[1] \in State
    BY <2>1
  <2> QED BY <1>7, <2>2, <2>3
<1>9. Running(tree, stack', Cur', dt, steps, s0)
  <2>1. Same(gr, stack[1])
    BY <1>3, <1>4
  <2>2. Running(tree, <<gr>> \o Tail(stack), <<f.saved, Cur[2]>>, dt, steps, s0)
    BY <1>1, <1>3, <1>4, <1>6, <1>7, <2>1, TopReplaced
  <2> QED BY <1>1, <1>5, <2>2
<1>10. stack' \in Seq(FrameOf(tree))
  BY <1>1, <1>4, StackTyped
<1>11. Cur' \in State /\ Start' = Start
  BY <1>1, <1>2, <1>5, <1>8 DEF Start, State
<1> QED BY <1>1, <1>9, <1>10, <1>11 DEF From, TypeOK

LEMMA StepReturn ==
  ASSUME TypeOK, Return, NEW s0, From(s0)
  PROVE  TypeOK' /\ From(s0)'
<1>1. /\ stack # <<>> /\ Done /\ stack' = Tail(stack)
      /\ gauge' = gauge /\ mom' = mom
      /\ tree' = tree /\ dt' = dt /\ steps' = steps /\ begin' = begin
  BY DEF Return, args
<1>2. /\ tree \in Trees /\ Cur \in State /\ stack \in Seq(FrameOf(tree))
      /\ f = stack[1] /\ f.j > CallsOf(tree, f) /\ Tail(stack) \in Seq(FrameOf(tree))
  BY <1>1, FrameFacts DEF TypeOK
<1>3. Cur' = Cur /\ Start' = Start
  BY <1>1 DEF Cur, Start
<1>4. Running(tree, Tail(stack), Cur, dt, steps, s0)
  <2>1. Running(tree, stack, Cur, dt, steps, s0) /\ stack[1].j > CallsOf(tree, stack[1])
    BY <1>2 DEF From
  <2> HIDE DEF Cur
  <2> QED BY <1>1, <1>2, <2>1, TopPopped
<1> QED BY <1>1, <1>2, <1>3, <1>4 DEF From, TypeOK

\* Between the beginning and the end of the root's evolve().
LEMMA StepRun ==
  ASSUME TypeOK, NEW s0, From(s0),
         EvolveMomentum \/ EvolveAction \/ EvolveAB \/ PrepareFg \/ RestoreField \/ Return
  PROVE  TypeOK' /\ From(s0)'
BY StepEvolveMomentum, StepEvolveAction, StepEvolveAB, StepPrepareFg, StepRestoreField,
   StepReturn

\* Every step keeps the invariant.
LEMMA StepInv ==
  ASSUME IInv, [Next]_vars
  PROVE  IInv'
<1>1. TypeOK /\ Trip
  BY DEF IInv
<1>2. CASE EvolveMomentum \/ EvolveAction \/ EvolveAB \/ PrepareFg \/ RestoreField \/ Return
  <2>1. /\ stack # <<>> /\ phase' = phase
        /\ tree' = tree /\ dt' = dt /\ steps' = steps /\ begin' = begin
    BY <1>2 DEF EvolveMomentum, EvolveAction, EvolveAB, PrepareFg, RestoreField, Return,
                Run, args
  <2>2. Start' = Start
    BY <2>1 DEF Start
  <2>3. phase \in {"forward", "back"}
    BY <1>1, <2>1 DEF Trip
  <2>4. PICK s : s = Start
    OBVIOUS
  <2>5. CASE phase = "forward"
    <3>1. From(s)
      BY <1>1, <2>4, <2>5 DEF Trip
    <3>2. TypeOK' /\ From(s)'
      BY <1>1, <1>2, <3>1, StepRun
    <3>3. From(Start)'
      BY <2>2, <2>4, <3>2 DEF From
    <3> QED BY <2>1, <2>5, <3>2, <3>3 DEF IInv, Trip
  <2>6. CASE phase = "back"
    <3>1. PICK fin \in State :
            <<"top", dt, steps, Start, fin>> \in Effect(tree) /\ From(Flip(fin))
      BY <1>1, <2>6 DEF Trip
    <3>2. TypeOK' /\ From(Flip(fin))'
      BY <1>1, <1>2, <3>1, StepRun
    <3>3. (\E x \in State :
             <<"top", dt, steps, Start, x>> \in Effect(tree) /\ From(Flip(x)))'
      BY <2>1, <2>2, <3>1, <3>2
    <3> QED BY <2>1, <2>6, <3>2, <3>3 DEF IInv, Trip
  <2> QED BY <2>3, <2>5, <2>6
<1>3. CASE Evolve
  <2>1. /\ phase = "start" /\ phase' = "forward" /\ stack' = <<Frame("top", dt, steps)>>
        /\ gauge' = gauge /\ mom' = mom
        /\ tree' = tree /\ dt' = dt /\ steps' = steps /\ begin' = begin
    BY <1>3 DEF Evolve, args
  <2>2. /\ Cur' = Cur /\ Start' = Start /\ Cur = Start
        /\ tree \in Trees /\ dt \in Num /\ steps \in Nat /\ Cur \in State
    BY <1>1, <2>1 DEF Cur, Start, Trip, TypeOK
  <2>3. /\ Frame("top", dt, steps) \in FrameOf(tree)
        /\ Running(tree, <<Frame("top", dt, steps)>>, Cur, dt, steps, Cur)
    BY <2>2, FirstCall
  <2>4. TypeOK'
    BY <1>1, <2>1, <2>2, <2>3 DEF TypeOK
  <2>5. From(Start)'
    BY <2>1, <2>2, <2>3 DEF From
  <2> QED BY <2>1, <2>4, <2>5 DEF IInv, Trip
<1>4. CASE Reverse
  <2>1. /\ phase = "forward" /\ stack = <<>> /\ phase' = "back"
        /\ mom' = 0 (-) mom /\ stack' = <<Frame("top", dt, steps)>>
        /\ gauge' = gauge
        /\ tree' = tree /\ dt' = dt /\ steps' = steps /\ begin' = begin
    BY <1>4 DEF Reverse, args
  <2>2. /\ tree \in Trees /\ dt \in Num /\ steps \in Nat /\ Cur \in State
        /\ Start' = Start /\ Cur' = Flip(Cur)
    BY <1>1, <2>1 DEF Cur, Start, TypeOK, Flip
  <2>3. Flip(Cur) \in State
    BY <2>2, FlipFacts
  <2>4. <<"top", dt, steps, Start, Cur>> \in Effect(tree)
    BY <1>1, <2>1 DEF Trip, From, Running
  <2>5. /\ Frame("top", dt, steps) \in FrameOf(tree)
        /\ Running(tree, <<Frame("top", dt, steps)>>, Flip(Cur), dt, steps, Flip(Cur))
    BY <2>2, <2>3, FirstCall
  <2>6. TypeOK'
    BY <1>1, <2>1, <2>2, <2>3, <2>5 DEF TypeOK
  <2>7. PICK fin \in State : fin = Cur
    BY <2>2
  <2>8. From(Flip(fin))'
    BY <2>1, <2>2, <2>5, <2>7 DEF From
  <2>9. (\E x \in State :
           <<"top", dt, steps, Start, x>> \in Effect(tree) /\ From(Flip(x)))'
    BY <2>1, <2>2, <2>4, <2>7, <2>8
  <2> QED BY <2>1, <2>6, <2>9 DEF IInv, Trip
<1>5. CASE Finish
  <2>1. /\ phase = "back" /\ stack = <<>> /\ phase' = "done" /\ stack' = stack
        /\ gauge' = gauge /\ mom' = mom
        /\ tree' = tree /\ dt' = dt /\ steps' = steps /\ begin' = begin
    BY <1>5 DEF Finish, args
  <2>2. /\ tree \in Trees /\ Cur' = Cur /\ Start' = Start
    BY <1>1, <2>1 DEF Cur, Start, TypeOK
  <2>3. PICK fin \in State :
          <<"top", dt, steps, Start, fin>> \in Effect(tree) /\ From(Flip(fin))
    BY <1>1, <2>1 DEF Trip
  <2>4. <<"top", dt, steps, Flip(fin), Cur>> \in Effect(tree)
    BY <2>1, <2>3 DEF From, Running
  <2>5. Cur = Flip(Start)
    <3> DEFINE c == Cur
               s == Start
    <3>1. <<"top", dt, steps, s, fin>> \in Effect(tree)
          /\ <<"top", dt, steps, Flip(fin), c>> \in Effect(tree)
      BY <2>3, <2>4
    <3> HIDE DEF c, s
    <3>2. c = Flip(s)
      BY <2>2, <3>1, RoundTrip
    <3> QED BY <3>2 DEF c, s
  <2>6. TypeOK'
    BY <1>1, <2>1, <2>2 DEF TypeOK
  <2> QED BY <2>1, <2>2, <2>5, <2>6 DEF IInv, Trip
<1>6. CASE UNCHANGED vars
  <2>1. /\ tree' = tree /\ dt' = dt /\ steps' = steps /\ begin' = begin
        /\ phase' = phase /\ stack' = stack /\ Cur' = Cur /\ Start' = Start
    BY <1>6 DEF vars, Cur, Start
  <2> QED BY <1>1, <2>1 DEF IInv, TypeOK, Trip, From
<1> QED BY <1>2, <1>3, <1>4, <1>5, <1>6 DEF Next

LEMMA InitInv == Init => IInv
<1> SUFFICES ASSUME Init PROVE IInv
  OBVIOUS
<1>1. /\ tree \in Trees /\ dt \in dts /\ steps \in stepss /\ gauge \in Num /\ mom \in Num
      /\ stack = <<>> /\ phase = "start" /\ begin.gauge = gauge /\ begin.mom = mom
  BY DEF Init
<1>2. dt \in Num /\ steps \in Nat
  BY <1>1, IntegratorAssumption
<1>3. Cur \in State /\ Start = Cur
  BY <1>1 DEF Cur, Start, State
<1>4. TypeOK
  BY <1>1, <1>2, <1>3 DEF TypeOK
<1> QED BY <1>1, <1>3, <1>4 DEF IInv, Trip

\* The invariant holds in every state of every trajectory.
THEOREM Trips == Spec => []IInv
<1>1. Init => IInv
  BY InitInv
<1>2. IInv /\ [Next]_vars => IInv'
  BY StepInv
<1> QED BY <1>1, <1>2, PTL DEF Spec

\* For every tree of integrators, every choice of schemes and coefficients, every
\* force that depends on the gauge field alone and every starting point,
\* AlgHmc's reversibility test ends where the trajectory began, with the momenta
\* reversed.
THEOREM TrajectoryReversible == Spec => []Reversible
<1>1. IInv => Reversible
  <2> SUFFICES ASSUME IInv, phase = "done"
               PROVE  gauge = begin.gauge /\ mom = 0 (-) begin.mom
    BY DEF Reversible
  <2>1. Cur = Flip(Start)
    BY DEF IInv, Trip
  <2> QED BY <2>1 DEF Cur, Flip, Start
<1> QED BY <1>1, Trips, PTL

-----------------------------------------------------------------------------
(* Residue classes modulo P                                                *)

Alike(x, y) == \E z \in Int : x = y + z * P

LEMMA AlikeReduced ==
  ASSUME NEW x \in Int
  PROVE  x % P \in Num /\ Alike(x % P, x)
<1> DEFINE r == x % P
           q == x \div P
<1>1. P \in Nat /\ P > 2 /\ r \in Num /\ q \in Int /\ x = q * P + r
  BY IntegratorAssumption DEF Num
<1> HIDE DEF r, q
<1>2. r = x + (-q) * P /\ -q \in Int
  BY <1>1 DEF Num
<1>3. Alike(r, x)
  BY <1>2 DEF Alike
<1> QED BY <1>1, <1>3 DEF r

LEMMA AlikeSame ==
  ASSUME NEW x \in Int, NEW y \in Int, Alike(x, y)
  PROVE  x % P = y % P
<1>1. PICK z \in Int : x = y + z * P
  BY DEF Alike
<1> QED BY <1>1, SameClass

LEMMA NumReduced ==
  ASSUME NEW x \in Num
  PROVE  x % P = x
<1>1. x \in Int /\ 0 \in Int /\ x = 0 * P + x
  BY NumInts DEF Num
<1> QED BY <1>1, Remainder

LEMMA AlikeSum ==
  ASSUME NEW x \in Int, NEW y \in Int, NEW u \in Int, NEW v \in Int, Alike(x, y), Alike(u, v)
  PROVE  Alike(x + u, y + v) /\ Alike(x - u, y - v)
<1>1. PICK z \in Int : x = y + z * P
  BY DEF Alike
<1>2. PICK w \in Int : u = v + w * P
  BY DEF Alike
<1>3. P \in Int
  BY NumInts
<1>4. z + w \in Int /\ z - w \in Int
  OBVIOUS
<1>5. x + u = (y + v) + (z + w) * P /\ x - u = (y - v) + (z - w) * P
  BY <1>1, <1>2, <1>3
<1> QED BY <1>4, <1>5 DEF Alike

LEMMA AlikeProduct ==
  ASSUME NEW x \in Int, NEW y \in Int, NEW u \in Int, Alike(x, y)
  PROVE  Alike(x * u, y * u) /\ Alike(u * x, u * y)
<1>1. PICK z \in Int : x = y + z * P
  BY DEF Alike
<1>2. P \in Int /\ z * u \in Int
  BY NumInts
<1>3. x * u = y * u + (z * u) * P /\ u * x = u * y + (z * u) * P
  BY <1>1, <1>2
<1> QED BY <1>2, <1>3 DEF Alike

LEMMA AlikeTrans ==
  ASSUME NEW x \in Int, NEW y \in Int, NEW u \in Int, Alike(x, y), Alike(y, u)
  PROVE  Alike(x, u)
<1>1. PICK z \in Int : x = y + z * P
  BY DEF Alike
<1>2. PICK w \in Int : y = u + w * P
  BY DEF Alike
<1>3. P \in Int /\ z + w \in Int
  BY NumInts
<1>4. x = u + (z + w) * P
  BY <1>1, <1>2, <1>3
<1> QED BY <1>3, <1>4 DEF Alike

LEMMA AlikeRefl ==
  ASSUME NEW x \in Int
  PROVE  Alike(x, x)
<1>1. x = x + 0 * P /\ 0 \in Int
  BY NumInts
<1> QED BY <1>1 DEF Alike

\* Sums and products are reduced.
LEMMA AlikeOps ==
  ASSUME NEW x \in Int, NEW y \in Int
  PROVE  /\ x (+) y \in Num /\ Alike(x (+) y, x + y)
         /\ x (-) y \in Num /\ Alike(x (-) y, x - y)
         /\ x (.) y \in Num /\ Alike(x (.) y, x * y)
<1>1. x + y \in Int /\ x - y \in Int
  OBVIOUS
<1>2. x * y \in Int
  OBVIOUS
<1>3. /\ (x + y) % P \in Num /\ Alike((x + y) % P, x + y)
      /\ (x - y) % P \in Num /\ Alike((x - y) % P, x - y)
  BY <1>1, AlikeReduced
<1> DEFINE z == x * y
<1> HIDE DEF z
<1>4. z \in Int
  BY <1>2 DEF z
<1>5. z % P \in Num /\ Alike(z % P, z)
  BY <1>4, AlikeReduced
<1> QED BY <1>3, <1>5 DEF (+), (-), (.), z

\* Dividing by what is not zero, and multiplying again.
LEMMA DivideMultiply ==
  ASSUME NEW x \in Num, NEW s \in Int, s % P # 0
  PROVE  /\ x (/) s \in Num
         /\ Alike((x (/) s) * s, x)
<1> DEFINE b == s % P
           q == x (/) s
           good(w) == (\E r \in Num : (r * b) % P = x) => (w * b) % P = x
<1>1. P \in Nat /\ P > 2 /\ x \in Int /\ b \in Num /\ b # 0 /\ Alike(b, s)
  BY NumInts, AlikeReduced, Zenon
<1>2. q \in Num
  BY <1>1, NumFacts
<1>3. q = CHOOSE w \in Num : good(w)
  <2>1. q = Quotient[x][b]
    BY NumReduced DEF (/)
  <2>2. Quotient[x][b] = CHOOSE w \in Num : good(w)
    <3> HIDE DEF b
    <3> QED BY <1>1 DEF Quotient
  <2> QED BY <2>1, <2>2
<1> HIDE DEF b, q
<1>4. \E w \in Num : good(w)
  <2>1. 0 \in Num
    BY NumInts
  <2> QED BY <2>1
<1>5. good(q)
  <2> HIDE DEF good
  <2> QED BY <1>3, <1>4
<1>6. \E r \in Num : (r * b) % P = x
  <2>1. b \in 1..(P - 1)
    BY <1>1 DEF Num
  <2>2. PICK y \in Num : (b * y) % P = 1
    BY <2>1, TimesAssumption
  <2>3. y \in Int /\ b \in Int
    BY <1>1, <2>2, NumInts
  <2>4. b * y \in Int
    BY <2>3
  <2>5. Alike(1, b * y)
    <3> DEFINE by == b * y
    <3> HIDE DEF by
    <3>1. by \in Int /\ by % P = 1
      BY <2>2, <2>4 DEF by
    <3>2. Alike(by % P, by)
      BY <3>1, AlikeReduced
    <3> QED BY <3>1, <3>2 DEF by
  <2> DEFINE xy == x * y
             r == xy % P
  <2>6. xy \in Int
    BY <1>1, <2>3
  <2> HIDE DEF xy
  <2>7. r \in Num /\ Alike(r, xy) /\ r \in Int
    BY <2>6, AlikeReduced, NumInts
  <2> HIDE DEF r
  <2>8. r * b \in Int /\ xy * b \in Int /\ x * 1 \in Int /\ x * (b * y) \in Int
    BY <1>1, <2>3, <2>4, <2>6, <2>7
  <2>9. Alike(r * b, xy * b)
    BY <2>3, <2>6, <2>7, AlikeProduct
  <2>10. xy * b = x * (b * y) /\ x * 1 = x
    BY <1>1, <2>3 DEF xy
  <2>11. Alike(x, x * (b * y))
    <3> DEFINE by == b * y
    <3> HIDE DEF by
    <3>0. by \in Int /\ 1 \in Int /\ Alike(1, by)
      BY <2>4, <2>5 DEF by
    <3>1. Alike(x * 1, x * by)
      BY <1>1, <3>0, AlikeProduct, Zenon
    <3> QED BY <2>10, <3>1 DEF by
  <2> DEFINE rb == r * b
  <2> HIDE DEF rb
  <2>12. rb \in Int /\ Alike(rb, x * (b * y))
    BY <2>8, <2>9, <2>10 DEF rb
  <2>13. rb % P = x
    <3> DEFINE xby == x * (b * y)
    <3> HIDE DEF xby
    <3>1. xby \in Int /\ Alike(rb, xby) /\ Alike(x, xby)
      BY <2>8, <2>11, <2>12 DEF xby
    <3>2. rb % P = xby % P /\ x % P = xby % P
      BY <1>1, <2>12, <3>1, AlikeSame
    <3> QED BY <3>2, NumReduced
  <2> QED BY <2>7, <2>13 DEF rb
<1>7. q \in Int /\ b \in Int
  BY <1>1, <1>2, NumInts
<1> DEFINE qb == q * b
           qs == q * s
<1>8. qb \in Int /\ qs \in Int /\ Alike(qb, qs)
  BY <1>1, <1>7, AlikeProduct
<1>9. qb % P = x
  BY <1>5, <1>6
<1> HIDE DEF qb, qs
<1>10. Alike(x, qb)
  BY <1>8, <1>9, AlikeReduced
<1>11. Alike(x, qs)
  BY <1>1, <1>8, <1>10, AlikeTrans
<1>12. Alike(qs, x)
  <2>1. PICK z \in Int : x = qs + z * P
    BY <1>11 DEF Alike
  <2>2. qs = x + (-z) * P /\ -z \in Int
    BY <1>1, <1>8, <2>1
  <2> QED BY <2>2 DEF Alike
<1> QED BY <1>2, <1>12 DEF q, qs

-----------------------------------------------------------------------------
(* The times of the calls add up                                           *)

TimeOf(c, w) == IF c.who = w THEN c.t ELSE 0

LEMMA Half ==
  ASSUME NEW x \in Num
  PROVE  x (/) 2 \in Num /\ Alike(2 * (x (/) 2), x)
<1>1. 2 \in Int /\ 2 % P # 0
  BY NumInts, NumReduced
<1>2. x (/) 2 \in Num /\ Alike((x (/) 2) * 2, x)
  BY <1>1, DivideMultiply
<1> DEFINE q == x (/) 2
<1>3. q \in Int
  BY <1>2, NumInts
<1> HIDE DEF q
<1>4. q * 2 = 2 * q
  BY <1>3
<1> QED BY <1>2, <1>4 DEF q

LEMMA Remains ==
  ASSUME NEW c \in Int, NEW tau \in Num
  PROVE  /\ (1 (-) Two(c)) (.) tau \in Num
         /\ Alike((1 (-) Two(c)) (.) tau, tau - 2 * (c * tau))
<1> DEFINE u == Two(c)
           v == 1 (-) u
           x == v (.) tau
           ct == c * tau
<1>0. tau \in Int /\ 2 \in Int /\ 1 \in Int /\ P \in Int
  BY NumInts
<1>1. u \in Num /\ Alike(u, 2 * c)
  BY <1>0, AlikeOps DEF Two
<1>2. u \in Int
  BY <1>1, NumInts
<1> HIDE DEF u
<1>3. v \in Num /\ Alike(v, 1 - u)
  BY <1>0, <1>2, AlikeOps
<1>4. v \in Int
  BY <1>3, NumInts
<1> HIDE DEF v
<1>5. x \in Num /\ Alike(x, v * tau)
  BY <1>0, <1>4, AlikeOps
<1>6. x \in Int
  BY <1>5, NumInts
<1> HIDE DEF x
<1>7. PICK a \in Int : u = 2 * c + a * P
  BY <1>1 DEF Alike
<1>8. PICK b \in Int : v = 1 - u + b * P
  BY <1>3 DEF Alike
<1>9. PICK d \in Int : x = v * tau + d * P
  BY <1>5 DEF Alike
<1>10. v = 1 - 2 * c + (b - a) * P
  BY <1>0, <1>7, <1>8
<1>11. v * tau = tau - 2 * (c * tau) + ((b - a) * tau) * P
  BY <1>0, <1>10
<1>12. (b - a) * tau + d \in Int
  BY <1>0
<1>13. x = (tau - 2 * (c * tau)) + ((b - a) * tau + d) * P
  <2> DEFINE e == (b - a) * tau
             y == tau - 2 * (c * tau)
  <2>1. e \in Int /\ y \in Int /\ x = y + e * P + d * P
    BY <1>0, <1>6, <1>9, <1>11
  <2> HIDE DEF e, y
  <2>2. x = y + (e + d) * P
    BY <1>0, <2>1
  <2> QED BY <2>2 DEF e, y
<1>14. Alike(x, tau - 2 * (c * tau))
  BY <1>12, <1>13 DEF Alike
<1> QED BY <1>5, <1>14 DEF x, v, u

LEMMA RemainsOfTwo ==
  ASSUME NEW c \in Int, NEW d \in Int, NEW tau \in Num
  PROVE  /\ (1 (-) Two(c (+) d)) (.) tau \in Num
         /\ Alike((1 (-) Two(c (+) d)) (.) tau, tau - 2 * (c * tau) - 2 * (d * tau))
<1> DEFINE u == c (+) d
           x == (1 (-) Two(u)) (.) tau
<1>0. tau \in Int /\ P \in Int
  BY NumInts
<1>1. u \in Num /\ Alike(u, c + d)
  BY AlikeOps
<1>2. u \in Int
  BY <1>1, NumInts
<1> HIDE DEF u
<1>3. x \in Num /\ Alike(x, tau - 2 * (u * tau))
  BY <1>2, Remains
<1>4. x \in Int
  BY <1>3, NumInts
<1> HIDE DEF x
<1>5. PICK a \in Int : u = c + d + a * P
  BY <1>1 DEF Alike
<1>6. PICK b \in Int : x = tau - 2 * (u * tau) + b * P
  BY <1>3 DEF Alike
<1>7. u * tau = c * tau + d * tau + (a * tau) * P
  BY <1>0, <1>5
<1> DEFINE ct == c * tau
           dt1 == d * tau
           at1 == a * tau
           ut == u * tau
<1>8. ct \in Int /\ dt1 \in Int /\ at1 \in Int /\ ut \in Int /\ ut = ct + dt1 + at1 * P
  BY <1>0, <1>2, <1>7
<1> HIDE DEF ct, dt1, at1, ut
<1>9. x = tau - 2 * ut + b * P
  BY <1>6 DEF ut
<1>10. x = (tau - 2 * ct - 2 * dt1) + (b - 2 * at1) * P /\ b - 2 * at1 \in Int
  BY <1>0, <1>8, <1>9
<1>11. Alike(x, tau - 2 * ct - 2 * dt1)
  BY <1>10 DEF Alike
<1> QED BY <1>3, <1>11 DEF x, u, ct, dt1

LEMMA HalfAlike ==
  ASSUME NEW x \in Num, NEW y \in Int, Alike(x, y)
  PROVE  x (/) 2 \in Num /\ Alike(2 * (x (/) 2), y)
<1> DEFINE h == x (/) 2
<1>1. h \in Num /\ Alike(2 * h, x)
  BY Half
<1>2. h \in Int /\ x \in Int
  BY <1>1, NumInts
<1> HIDE DEF h
<1>3. 2 * h \in Int
  BY <1>2
<1> DEFINE hh == 2 * h
<1> HIDE DEF hh
<1>4. Alike(hh, y)
  BY <1>1, <1>2, <1>3, AlikeTrans DEF hh
<1> QED BY <1>1, <1>4 DEF h, hh

LEMMA HalfRemains ==
  ASSUME NEW c \in Int, NEW tau \in Num
  PROVE  /\ ((1 (-) Two(c)) (.) tau) (/) 2 \in Num
         /\ Alike(2 * (((1 (-) Two(c)) (.) tau) (/) 2), tau - 2 * (c * tau))
<1> DEFINE x == (1 (-) Two(c)) (.) tau
           y == tau - 2 * (c * tau)
<1>1. tau \in Int /\ y \in Int
  BY NumInts
<1>2. x \in Num /\ Alike(x, y)
  BY Remains
<1> HIDE DEF x, y
<1>3. x (/) 2 \in Num /\ Alike(2 * (x (/) 2), y)
  BY <1>1, <1>2, HalfAlike
<1> QED BY <1>3 DEF x, y

LEMMA HalfRemainsOfTwo ==
  ASSUME NEW c \in Int, NEW d \in Int, NEW tau \in Num
  PROVE  /\ ((1 (-) Two(c (+) d)) (.) tau) (/) 2 \in Num
         /\ Alike(2 * (((1 (-) Two(c (+) d)) (.) tau) (/) 2),
                  tau - 2 * (c * tau) - 2 * (d * tau))
<1> DEFINE x == (1 (-) Two(c (+) d)) (.) tau
           y == tau - 2 * (c * tau) - 2 * (d * tau)
<1>1. tau \in Int /\ y \in Int
  BY NumInts
<1>2. x \in Num /\ Alike(x, y)
  BY RemainsOfTwo
<1> HIDE DEF x, y
<1>3. x (/) 2 \in Num /\ Alike(2 * (x (/) 2), y)
  BY <1>1, <1>2, HalfAlike
<1> QED BY <1>3 DEF x, y

LEMMA LeapTimes ==
  ASSUME NEW k \in [Coefs -> Int], NEW tau \in Num, NEW w \in {"A", "B"},
         NEW g \in [0..1 -> Int],
         \A i \in 1..1 : g[i] = g[i - 1] + TimeOf(Leap(k, tau).inner[i], w)
  PROVE  Alike(g[1], g[0] + tau - IF w = "A" THEN 2 * Leap(k, tau).edge ELSE 0)
<1> DEFINE in == Leap(k, tau).inner
           h == tau (/) 2
<1>0. tau \in Int /\ P \in Int
  BY NumInts DEF Coefs
<1>2. h \in Num /\ Alike(2 * h, tau)
  BY Half
<1>3. /\ Leap(k, tau).edge = h
      /\ in[1].who = "B" /\ in[1].t = tau
  BY DEF Leap, Scheme, Plain, Fg
<1>4. h \in Int
  BY <1>2, NumInts
<1>5. g[0] \in Int /\ g[1] \in Int
  OBVIOUS
<1>6. /\ g[1] = g[0] + TimeOf(in[1], w)
  OBVIOUS
<1> HIDE DEF in, h
<1>7. PICK z0 \in Int : 2 * h = (tau) + z0 * P
  BY <1>2 DEF Alike
<1>8. CASE w = "A"
  <2>1. g[1] = g[0] + 0
    BY <1>3, <1>4, <1>5, <1>6, <1>8 DEF TimeOf
  <2>2. g[1] = (g[0] + tau - 2 * h) + (z0) * P
    BY <1>0, <1>4, <1>5, <1>7, <2>1
  <2>3. z0 \in Int
    OBVIOUS
  <2> QED BY <1>3, <1>8, <2>2, <2>3 DEF Alike
<1>9. CASE w = "B"
  <2>1. g[1] = g[0] + tau
    BY <1>3, <1>4, <1>5, <1>6, <1>9 DEF TimeOf
  <2>2. g[1] = (g[0] + tau - 0) + (0) * P
    BY <1>0, <1>4, <1>5, <1>7, <2>1
  <2>3. 0 \in Int
    OBVIOUS
  <2> QED BY <1>3, <1>9, <2>2, <2>3 DEF Alike
<1> QED BY <1>8, <1>9

LEMMA OmelyanTimes ==
  ASSUME NEW k \in [Coefs -> Int], NEW tau \in Num, NEW w \in {"A", "B"},
         NEW g \in [0..3 -> Int],
         \A i \in 1..3 : g[i] = g[i - 1] + TimeOf(Omelyan(k, tau).inner[i], w)
  PROVE  Alike(g[3], g[0] + tau - IF w = "A" THEN 2 * Omelyan(k, tau).edge ELSE 0)
<1> DEFINE in == Omelyan(k, tau).inner
           L == k.lambda * tau
           h == tau (/) 2
           x == (1 (-) Two(k.lambda)) (.) tau
           e == k.lambda (.) tau
<1>0. tau \in Int /\ P \in Int /\ k.lambda \in Int
  BY NumInts DEF Coefs
<1>1. L \in Int
  BY <1>0
<1>2. h \in Num /\ Alike(2 * h, tau)
  BY Half
<1>3. x \in Num /\ Alike(x, tau - 2 * L)
  BY <1>0, Remains
<1>4. e \in Num /\ Alike(e, L)
  BY <1>0, AlikeOps
<1>5. /\ Omelyan(k, tau).edge = e
      /\ in[1].who = "B" /\ in[1].t = h
      /\ in[2].who = "A" /\ in[2].t = x
      /\ in[3].who = "B" /\ in[3].t = h
  BY DEF Omelyan, Scheme, Plain, Fg
<1>6. h \in Int /\ x \in Int /\ e \in Int
  BY <1>2, <1>3, <1>4, NumInts
<1>7. g[0] \in Int /\ g[1] \in Int /\ g[2] \in Int /\ g[3] \in Int
  OBVIOUS
<1>8. /\ g[1] = g[0] + TimeOf(in[1], w)
      /\ g[2] = g[1] + TimeOf(in[2], w)
      /\ g[3] = g[2] + TimeOf(in[3], w)
  OBVIOUS
<1> HIDE DEF in, L, h, x, e
<1>9. PICK z0 \in Int : 2 * h = (tau) + z0 * P
  BY <1>2 DEF Alike
<1>10. PICK z1 \in Int : x = (tau - 2 * L) + z1 * P
  BY <1>3 DEF Alike
<1>11. PICK z2 \in Int : e = (L) + z2 * P
  BY <1>4 DEF Alike
<1>12. CASE w = "A"
  <2>1. g[3] = g[0] + x
    BY <1>5, <1>6, <1>7, <1>8, <1>12 DEF TimeOf
  <2>2. g[3] = (g[0] + tau - 2 * e) + (z1 + 2 * z2) * P
    BY <1>0, <1>1, <1>6, <1>7, <1>9, <1>10, <1>11, <2>1
  <2>3. z1 + 2 * z2 \in Int
    OBVIOUS
  <2> QED BY <1>5, <1>12, <2>2, <2>3 DEF Alike
<1>13. CASE w = "B"
  <2>1. g[3] = g[0] + 2 * h
    BY <1>5, <1>6, <1>7, <1>8, <1>13 DEF TimeOf
  <2>2. g[3] = (g[0] + tau - 0) + (z0) * P
    BY <1>0, <1>1, <1>6, <1>7, <1>9, <1>10, <1>11, <2>1
  <2>3. z0 \in Int
    OBVIOUS
  <2> QED BY <1>5, <1>13, <2>2, <2>3 DEF Alike
<1> QED BY <1>12, <1>13

LEMMA PQPQPTimes ==
  ASSUME NEW k \in [Coefs -> Int], NEW tau \in Num, NEW w \in {"A", "B"},
         NEW g \in [0..3 -> Int],
         \A i \in 1..3 : g[i] = g[i - 1] + TimeOf(ForceGradPQPQP(k, tau).inner[i], w)
  PROVE  Alike(g[3], g[0] + tau - IF w = "A" THEN 2 * ForceGradPQPQP(k, tau).edge ELSE 0)
<1> DEFINE in == ForceGradPQPQP(k, tau).inner
           L == k.lambda * tau
           h == tau (/) 2
           x == (1 (-) Two(k.lambda)) (.) tau
           e == k.lambda (.) tau
<1>0. tau \in Int /\ P \in Int /\ k.lambda \in Int
  BY NumInts DEF Coefs
<1>1. L \in Int
  BY <1>0
<1>2. h \in Num /\ Alike(2 * h, tau)
  BY Half
<1>3. x \in Num /\ Alike(x, tau - 2 * L)
  BY <1>0, Remains
<1>4. e \in Num /\ Alike(e, L)
  BY <1>0, AlikeOps
<1>5. /\ ForceGradPQPQP(k, tau).edge = e
      /\ in[1].who = "B" /\ in[1].t = h
      /\ in[2].who = "A" /\ in[2].t = x
      /\ in[3].who = "B" /\ in[3].t = h
  BY DEF ForceGradPQPQP, Scheme, Plain, Fg
<1>6. h \in Int /\ x \in Int /\ e \in Int
  BY <1>2, <1>3, <1>4, NumInts
<1>7. g[0] \in Int /\ g[1] \in Int /\ g[2] \in Int /\ g[3] \in Int
  OBVIOUS
<1>8. /\ g[1] = g[0] + TimeOf(in[1], w)
      /\ g[2] = g[1] + TimeOf(in[2], w)
      /\ g[3] = g[2] + TimeOf(in[3], w)
  OBVIOUS
<1> HIDE DEF in, L, h, x, e
<1>9. PICK z0 \in Int : 2 * h = (tau) + z0 * P
  BY <1>2 DEF Alike
<1>10. PICK z1 \in Int : x = (tau - 2 * L) + z1 * P
  BY <1>3 DEF Alike
<1>11. PICK z2 \in Int : e = (L) + z2 * P
  BY <1>4 DEF Alike
<1>12. CASE w = "A"
  <2>1. g[3] = g[0] + x
    BY <1>5, <1>6, <1>7, <1>8, <1>12 DEF TimeOf
  <2>2. g[3] = (g[0] + tau - 2 * e) + (z1 + 2 * z2) * P
    BY <1>0, <1>1, <1>6, <1>7, <1>9, <1>10, <1>11, <2>1
  <2>3. z1 + 2 * z2 \in Int
    OBVIOUS
  <2> QED BY <1>5, <1>12, <2>2, <2>3 DEF Alike
<1>13. CASE w = "B"
  <2>1. g[3] = g[0] + 2 * h
    BY <1>5, <1>6, <1>7, <1>8, <1>13 DEF TimeOf
  <2>2. g[3] = (g[0] + tau - 0) + (z0) * P
    BY <1>0, <1>1, <1>6, <1>7, <1>9, <1>10, <1>11, <2>1
  <2>3. z0 \in Int
    OBVIOUS
  <2> QED BY <1>5, <1>13, <2>2, <2>3 DEF Alike
<1> QED BY <1>12, <1>13

LEMMA QPQPQTimes ==
  ASSUME NEW k \in [Coefs -> Int], NEW tau \in Num, NEW w \in {"A", "B"},
         NEW g \in [0..3 -> Int],
         \A i \in 1..3 : g[i] = g[i - 1] + TimeOf(ForceGradQPQPQ(k, tau).inner[i], w)
  PROVE  Alike(g[3], g[0] + tau - IF w = "A" THEN 2 * ForceGradQPQPQ(k, tau).edge ELSE 0)
<1> DEFINE in == ForceGradQPQPQ(k, tau).inner
           L == k.lambda * tau
           h == tau (/) 2
           x == (1 (-) Two(k.lambda)) (.) tau
           e == k.lambda (.) tau
<1>0. tau \in Int /\ P \in Int /\ k.lambda \in Int
  BY NumInts DEF Coefs
<1>1. L \in Int
  BY <1>0
<1>2. h \in Num /\ Alike(2 * h, tau)
  BY Half
<1>3. x \in Num /\ Alike(x, tau - 2 * L)
  BY <1>0, Remains
<1>4. e \in Num /\ Alike(e, L)
  BY <1>0, AlikeOps
<1>5. /\ ForceGradQPQPQ(k, tau).edge = e
      /\ in[1].who = "B" /\ in[1].t = h
      /\ in[2].who = "A" /\ in[2].t = x
      /\ in[3].who = "B" /\ in[3].t = h
  BY DEF ForceGradQPQPQ, Scheme, Plain, Fg
<1>6. h \in Int /\ x \in Int /\ e \in Int
  BY <1>2, <1>3, <1>4, NumInts
<1>7. g[0] \in Int /\ g[1] \in Int /\ g[2] \in Int /\ g[3] \in Int
  OBVIOUS
<1>8. /\ g[1] = g[0] + TimeOf(in[1], w)
      /\ g[2] = g[1] + TimeOf(in[2], w)
      /\ g[3] = g[2] + TimeOf(in[3], w)
  OBVIOUS
<1> HIDE DEF in, L, h, x, e
<1>9. PICK z0 \in Int : 2 * h = (tau) + z0 * P
  BY <1>2 DEF Alike
<1>10. PICK z1 \in Int : x = (tau - 2 * L) + z1 * P
  BY <1>3 DEF Alike
<1>11. PICK z2 \in Int : e = (L) + z2 * P
  BY <1>4 DEF Alike
<1>12. CASE w = "A"
  <2>1. g[3] = g[0] + x
    BY <1>5, <1>6, <1>7, <1>8, <1>12 DEF TimeOf
  <2>2. g[3] = (g[0] + tau - 2 * e) + (z1 + 2 * z2) * P
    BY <1>0, <1>1, <1>6, <1>7, <1>9, <1>10, <1>11, <2>1
  <2>3. z1 + 2 * z2 \in Int
    OBVIOUS
  <2> QED BY <1>5, <1>12, <2>2, <2>3 DEF Alike
<1>13. CASE w = "B"
  <2>1. g[3] = g[0] + 2 * h
    BY <1>5, <1>6, <1>7, <1>8, <1>13 DEF TimeOf
  <2>2. g[3] = (g[0] + tau - 0) + (z0) * P
    BY <1>0, <1>1, <1>6, <1>7, <1>9, <1>10, <1>11, <2>1
  <2>3. z0 \in Int
    OBVIOUS
  <2> QED BY <1>5, <1>13, <2>2, <2>3 DEF Alike
<1> QED BY <1>12, <1>13

LEMMA Omelyan44Times ==
  ASSUME NEW k \in [Coefs -> Int], NEW tau \in Num, NEW w \in {"A", "B"},
         NEW g \in [0..7 -> Int],
         \A i \in 1..7 : g[i] = g[i - 1] + TimeOf(Omelyan44(k, tau).inner[i], w)
  PROVE  Alike(g[7], g[0] + tau - IF w = "A" THEN 2 * Omelyan44(k, tau).edge ELSE 0)
<1> DEFINE in == Omelyan44(k, tau).inner
           L == k.lambda * tau
           T == k.theta * tau
           R == k.rho * tau
           b == k.lambda (.) tau
           a == k.theta (.) tau
           e == k.rho (.) tau
           x == (1 (-) Two(k.theta (+) k.rho)) (.) tau
           b2 == ((1 (-) Two(k.lambda)) (.) tau) (/) 2
<1>0. tau \in Int /\ P \in Int /\ k.lambda \in Int /\ k.rho \in Int /\ k.theta \in Int
  BY NumInts DEF Coefs
<1>1. L \in Int /\ T \in Int /\ R \in Int
  BY <1>0
<1>2. b \in Num /\ Alike(b, L)
  BY <1>0, AlikeOps
<1>3. a \in Num /\ Alike(a, T)
  BY <1>0, AlikeOps
<1>4. e \in Num /\ Alike(e, R)
  BY <1>0, AlikeOps
<1>5. x \in Num /\ Alike(x, tau - 2 * T - 2 * R)
  BY <1>0, RemainsOfTwo
<1>6. b2 \in Num /\ Alike(2 * b2, tau - 2 * L)
  BY <1>0, HalfRemains
<1>7. /\ Omelyan44(k, tau).edge = e
      /\ in[1].who = "B" /\ in[1].t = b
      /\ in[2].who = "A" /\ in[2].t = a
      /\ in[3].who = "B" /\ in[3].t = b2
      /\ in[4].who = "A" /\ in[4].t = x
      /\ in[5].who = "B" /\ in[5].t = b2
      /\ in[6].who = "A" /\ in[6].t = a
      /\ in[7].who = "B" /\ in[7].t = b
  BY DEF Omelyan44, Scheme, Plain, Fg
<1>8. b \in Int /\ a \in Int /\ e \in Int /\ x \in Int /\ b2 \in Int
  BY <1>2, <1>3, <1>4, <1>5, <1>6, NumInts
<1>9. g[0] \in Int /\ g[1] \in Int /\ g[2] \in Int /\ g[3] \in Int /\ g[4] \in Int /\ g[5] \in Int /\ g[6] \in Int /\ g[7] \in Int
  OBVIOUS
<1>10. /\ g[1] = g[0] + TimeOf(in[1], w)
       /\ g[2] = g[1] + TimeOf(in[2], w)
       /\ g[3] = g[2] + TimeOf(in[3], w)
       /\ g[4] = g[3] + TimeOf(in[4], w)
       /\ g[5] = g[4] + TimeOf(in[5], w)
       /\ g[6] = g[5] + TimeOf(in[6], w)
       /\ g[7] = g[6] + TimeOf(in[7], w)
  OBVIOUS
<1> HIDE DEF in, L, T, R, b, a, e, x, b2
<1>11. PICK z0 \in Int : b = (L) + z0 * P
  BY <1>2 DEF Alike
<1>12. PICK z1 \in Int : a = (T) + z1 * P
  BY <1>3 DEF Alike
<1>13. PICK z2 \in Int : e = (R) + z2 * P
  BY <1>4 DEF Alike
<1>14. PICK z3 \in Int : x = (tau - 2 * T - 2 * R) + z3 * P
  BY <1>5 DEF Alike
<1>15. PICK z4 \in Int : 2 * b2 = (tau - 2 * L) + z4 * P
  BY <1>6 DEF Alike
<1>16. CASE w = "A"
  <2>1. g[7] = g[0] + (2 * a + x)
    BY <1>7, <1>8, <1>9, <1>10, <1>16 DEF TimeOf
  <2>2. g[7] = (g[0] + tau - 2 * e) + (2 * z1 + z3 + 2 * z2) * P
    BY <1>0, <1>1, <1>8, <1>9, <1>11, <1>12, <1>13, <1>14, <1>15, <2>1
  <2>3. 2 * z1 + z3 + 2 * z2 \in Int
    OBVIOUS
  <2> QED BY <1>7, <1>16, <2>2, <2>3 DEF Alike
<1>17. CASE w = "B"
  <2>1. g[7] = g[0] + (2 * b + 2 * b2)
    BY <1>7, <1>8, <1>9, <1>10, <1>17 DEF TimeOf
  <2>2. g[7] = (g[0] + tau - 0) + (2 * z0 + z4) * P
    BY <1>0, <1>1, <1>8, <1>9, <1>11, <1>12, <1>13, <1>14, <1>15, <2>1
  <2>3. 2 * z0 + z4 \in Int
    OBVIOUS
  <2> QED BY <1>7, <1>17, <2>2, <2>3 DEF Alike
<1> QED BY <1>16, <1>17

LEMMA Omelyan45Times ==
  ASSUME NEW k \in [Coefs -> Int], NEW tau \in Num, NEW w \in {"A", "B"},
         NEW g \in [0..9 -> Int],
         \A i \in 1..9 : g[i] = g[i - 1] + TimeOf(Omelyan45(k, tau).inner[i], w)
  PROVE  Alike(g[9], g[0] + tau - IF w = "A" THEN 2 * Omelyan45(k, tau).edge ELSE 0)
<1> DEFINE in == Omelyan45(k, tau).inner
           L == k.lambda * tau
           T == k.theta * tau
           R == k.rho * tau
           M == k.mu * tau
           b == k.rho (.) tau
           a == k.lambda (.) tau
           b2 == k.mu (.) tau
           a2 == ((1 (-) Two(k.lambda (+) k.theta)) (.) tau) (/) 2
           y == (1 (-) Two(k.mu (+) k.rho)) (.) tau
           e == k.theta (.) tau
<1>0. tau \in Int /\ P \in Int /\ k.lambda \in Int /\ k.mu \in Int /\ k.rho \in Int /\ k.theta \in Int
  BY NumInts DEF Coefs
<1>1. L \in Int /\ T \in Int /\ R \in Int /\ M \in Int
  BY <1>0
<1>2. b \in Num /\ Alike(b, R)
  BY <1>0, AlikeOps
<1>3. a \in Num /\ Alike(a, L)
  BY <1>0, AlikeOps
<1>4. b2 \in Num /\ Alike(b2, M)
  BY <1>0, AlikeOps
<1>5. a2 \in Num /\ Alike(2 * a2, tau - 2 * L - 2 * T)
  BY <1>0, HalfRemainsOfTwo
<1>6. y \in Num /\ Alike(y, tau - 2 * M - 2 * R)
  BY <1>0, RemainsOfTwo
<1>7. e \in Num /\ Alike(e, T)
  BY <1>0, AlikeOps
<1>8. /\ Omelyan45(k, tau).edge = e
      /\ in[1].who = "B" /\ in[1].t = b
      /\ in[2].who = "A" /\ in[2].t = a
      /\ in[3].who = "B" /\ in[3].t = b2
      /\ in[4].who = "A" /\ in[4].t = a2
      /\ in[5].who = "B" /\ in[5].t = y
      /\ in[6].who = "A" /\ in[6].t = a2
      /\ in[7].who = "B" /\ in[7].t = b2
      /\ in[8].who = "A" /\ in[8].t = a
      /\ in[9].who = "B" /\ in[9].t = b
  BY DEF Omelyan45, Scheme, Plain, Fg
<1>9. b \in Int /\ a \in Int /\ b2 \in Int /\ a2 \in Int /\ y \in Int /\ e \in Int
  BY <1>2, <1>3, <1>4, <1>5, <1>6, <1>7, NumInts
<1>10. g[0] \in Int /\ g[1] \in Int /\ g[2] \in Int /\ g[3] \in Int /\ g[4] \in Int /\ g[5] \in Int /\ g[6] \in Int /\ g[7] \in Int /\ g[8] \in Int /\ g[9] \in Int
  OBVIOUS
<1>11. /\ g[1] = g[0] + TimeOf(in[1], w)
       /\ g[2] = g[1] + TimeOf(in[2], w)
       /\ g[3] = g[2] + TimeOf(in[3], w)
       /\ g[4] = g[3] + TimeOf(in[4], w)
       /\ g[5] = g[4] + TimeOf(in[5], w)
       /\ g[6] = g[5] + TimeOf(in[6], w)
       /\ g[7] = g[6] + TimeOf(in[7], w)
       /\ g[8] = g[7] + TimeOf(in[8], w)
       /\ g[9] = g[8] + TimeOf(in[9], w)
  OBVIOUS
<1> HIDE DEF in, L, T, R, M, b, a, b2, a2, y, e
<1>12. PICK z0 \in Int : b = (R) + z0 * P
  BY <1>2 DEF Alike
<1>13. PICK z1 \in Int : a = (L) + z1 * P
  BY <1>3 DEF Alike
<1>14. PICK z2 \in Int : b2 = (M) + z2 * P
  BY <1>4 DEF Alike
<1>15. PICK z3 \in Int : 2 * a2 = (tau - 2 * L - 2 * T) + z3 * P
  BY <1>5 DEF Alike
<1>16. PICK z4 \in Int : y = (tau - 2 * M - 2 * R) + z4 * P
  BY <1>6 DEF Alike
<1>17. PICK z5 \in Int : e = (T) + z5 * P
  BY <1>7 DEF Alike
<1>18. CASE w = "A"
  <2>1. g[9] = g[0] + (2 * a + 2 * a2)
    BY <1>8, <1>9, <1>10, <1>11, <1>18 DEF TimeOf
  <2>2. g[9] = (g[0] + tau - 2 * e) + (2 * z1 + z3 + 2 * z5) * P
    BY <1>0, <1>1, <1>9, <1>10, <1>12, <1>13, <1>14, <1>15, <1>16, <1>17, <2>1
  <2>3. 2 * z1 + z3 + 2 * z5 \in Int
    OBVIOUS
  <2> QED BY <1>8, <1>18, <2>2, <2>3 DEF Alike
<1>19. CASE w = "B"
  <2>1. g[9] = g[0] + (2 * b + 2 * b2 + y)
    BY <1>8, <1>9, <1>10, <1>11, <1>19 DEF TimeOf
  <2>2. g[9] = (g[0] + tau - 0) + (2 * z0 + 2 * z2 + z4) * P
    BY <1>0, <1>1, <1>9, <1>10, <1>12, <1>13, <1>14, <1>15, <1>16, <1>17, <2>1
  <2>3. 2 * z0 + 2 * z2 + z4 \in Int
    OBVIOUS
  <2> QED BY <1>8, <1>19, <2>2, <2>3 DEF Alike
<1> QED BY <1>18, <1>19

\* The coefficient that is divided by, and the two times made of it.
LEMMA CampostriniTerms ==
  ASSUME NEW c \in Int, (2 - c) % P # 0, NEW tau \in Num,
         NEW e, e = tau (/) (2 (-) c)
  PROVE  /\ e \in Num /\ Alike(2 * e - c * e, tau)
         /\ ((1 (-) c) (.) e) (/) 2 \in Num
         /\ Alike(2 * (((1 (-) c) (.) e) (/) 2), e - c * e)
         /\ (0 (-) e) (.) c \in Num
         /\ Alike((0 (-) e) (.) c, -(c * e))
<1> DEFINE s == 2 (-) c
           v == 1 (-) c
           x == v (.) e
           u == 0 (-) e
           y == u (.) c
           ce == c * e
<1>0. tau \in Int /\ P \in Int /\ 0 \in Int /\ 1 \in Int /\ 2 \in Int
  BY NumInts
<1>1. s \in Num /\ Alike(s, 2 - c) /\ v \in Num /\ Alike(v, 1 - c)
  BY <1>0, AlikeOps
<1>2. s \in Int /\ v \in Int
  BY <1>1, NumInts
<1>3. s % P # 0
  <2>1. s = (2 - c) % P /\ 2 - c \in Int
    BY DEF (-)
  <2>2. s % P = s
    BY <1>1, NumReduced
  <2> QED BY <2>1, <2>2
<1> HIDE DEF s, v
<1>4. e \in Num /\ Alike(e * s, tau)
  BY <1>2, <1>3, DivideMultiply DEF s
<1>5. e \in Int
  BY <1>4, NumInts
<1>6. x \in Num /\ Alike(x, v * e) /\ u \in Num /\ Alike(u, 0 - e)
  BY <1>0, <1>2, <1>5, AlikeOps
<1>7. x \in Int /\ u \in Int
  BY <1>6, NumInts
<1> HIDE DEF x, u
<1>8. y \in Num /\ Alike(y, u * c)
  BY <1>7, AlikeOps
<1>9. y \in Int
  BY <1>8, NumInts
<1> HIDE DEF y
<1>10. PICK z1 \in Int : s = 2 - c + z1 * P
  BY <1>1 DEF Alike
<1>11. PICK z2 \in Int : e * s = tau + z2 * P
  BY <1>4 DEF Alike
<1>12. PICK z3 \in Int : v = 1 - c + z3 * P
  BY <1>1 DEF Alike
<1>13. PICK z4 \in Int : x = v * e + z4 * P
  BY <1>6 DEF Alike
<1>14. PICK z5 \in Int : u = 0 - e + z5 * P
  BY <1>6 DEF Alike
<1>15. PICK z6 \in Int : y = u * c + z6 * P
  BY <1>8 DEF Alike
<1>16. e * s = 2 * e - c * e + (z1 * e) * P
  BY <1>0, <1>5, <1>10
<1>17. v * e = e - c * e + (z3 * e) * P
  BY <1>0, <1>5, <1>12
<1>18. u * c = -(c * e) + (z5 * c) * P
  BY <1>0, <1>5, <1>14
<1> DEFINE w1 == z1 * e
           w3 == z3 * e
           w5 == z5 * c
<1>19. ce \in Int /\ w1 \in Int /\ w3 \in Int /\ w5 \in Int
  BY <1>5
<1>20. e * s = 2 * e - ce + w1 * P /\ v * e = e - ce + w3 * P /\ u * c = -ce + w5 * P
  BY <1>16, <1>17, <1>18
<1> HIDE DEF ce, w1, w3, w5
<1>21. 2 * e - ce = tau + (z2 - w1) * P /\ z2 - w1 \in Int
  <2> DEFINE es == e * s
             p1 == w1 * P
             p2 == z2 * P
  <2>1. es \in Int /\ p1 \in Int /\ p2 \in Int
    BY <1>0, <1>2, <1>5, <1>19
  <2>2. es = tau + p2 /\ es = 2 * e - ce + p1
    BY <1>11, <1>20
  <2>3. (z2 - w1) * P = p2 - p1 /\ z2 - w1 \in Int
    BY <1>0, <1>19
  <2> HIDE DEF es, p1, p2
  <2> QED BY <1>0, <1>5, <1>19, <2>1, <2>2, <2>3
<1>22. x = (e - ce) + (w3 + z4) * P /\ w3 + z4 \in Int
  BY <1>0, <1>5, <1>7, <1>13, <1>19, <1>20
<1>23. y = -ce + (w5 + z6) * P /\ w5 + z6 \in Int
  BY <1>0, <1>5, <1>9, <1>15, <1>19, <1>20
<1>24. Alike(2 * e - ce, tau) /\ Alike(x, e - ce) /\ Alike(y, -ce)
  BY <1>21, <1>22, <1>23 DEF Alike
<1>25. x (/) 2 \in Num /\ Alike(2 * (x (/) 2), e - ce)
  <2>1. e - ce \in Int
    BY <1>5, <1>19
  <2> QED BY <1>6, <1>24, <2>1, HalfAlike
<1> QED BY <1>4, <1>8, <1>24, <1>25 DEF x, v, y, u, ce

LEMMA CampostriniTimes ==
  ASSUME NEW k \in [Coefs -> Int], (2 - k.sigma) % P # 0,
         NEW tau \in Num, NEW w \in {"A", "B"},
         NEW g \in [0..5 -> Int],
         \A i \in 1..5 : g[i] = g[i - 1] + TimeOf(Campostrini(k, tau).inner[i], w)
  PROVE  Alike(g[5], g[0] + tau - IF w = "A" THEN 2 * Campostrini(k, tau).edge ELSE 0)
<1> DEFINE in == Campostrini(k, tau).inner
           c == k.sigma
           e == tau (/) (2 (-) c)
           a1 == ((1 (-) c) (.) e) (/) 2
           y == (0 (-) e) (.) c
           h == e (/) 2
           ce == c * e
<1>0. tau \in Int /\ P \in Int /\ c \in Int
  BY NumInts DEF Coefs
<1>1. /\ Campostrini(k, tau).edge = h
      /\ in[1].who = "B" /\ in[1].t = e
      /\ in[2].who = "A" /\ in[2].t = a1
      /\ in[3].who = "B" /\ in[3].t = y
      /\ in[4].who = "A" /\ in[4].t = a1
      /\ in[5].who = "B" /\ in[5].t = e
  BY DEF Campostrini, Scheme, Plain
<1>2. g[0] \in Int /\ g[1] \in Int /\ g[2] \in Int /\ g[3] \in Int /\ g[4] \in Int /\ g[5] \in Int
  OBVIOUS
<1>3. /\ g[1] = g[0] + TimeOf(in[1], w)
      /\ g[2] = g[1] + TimeOf(in[2], w)
      /\ g[3] = g[2] + TimeOf(in[3], w)
      /\ g[4] = g[3] + TimeOf(in[4], w)
      /\ g[5] = g[4] + TimeOf(in[5], w)
  OBVIOUS
<1>4. (2 - c) % P # 0
  OBVIOUS
<1> HIDE DEF in, c
<1>5. /\ e \in Num /\ Alike(2 * e - ce, tau)
      /\ a1 \in Num /\ Alike(2 * a1, e - ce)
      /\ y \in Num /\ Alike(y, -ce)
  <2> DEFINE d == tau (/) (2 (-) c)
  <2>1. PICK d1 : d1 = d
    OBVIOUS
  <2> HIDE DEF d
  <2>2. d1 = tau (/) (2 (-) c)
    BY <2>1 DEF d
  <2> QED BY <1>0, <1>4, <2>1, <2>2, CampostriniTerms
<1> HIDE DEF e, a1, y
<1>6. h \in Num /\ Alike(2 * h, e)
  BY <1>5, Half
<1>7. e \in Int /\ a1 \in Int /\ y \in Int /\ h \in Int
  BY <1>5, <1>6, NumInts
<1>8. ce \in Int
  BY <1>0, <1>7
<1> HIDE DEF ce, h
<1>9. PICK z1 \in Int : 2 * e - ce = tau + z1 * P
  BY <1>5 DEF Alike
<1>10. PICK z2 \in Int : 2 * a1 = (e - ce) + z2 * P
  BY <1>5 DEF Alike
<1>11. PICK z3 \in Int : y = -ce + z3 * P
  BY <1>5 DEF Alike
<1>12. PICK z4 \in Int : 2 * h = e + z4 * P
  BY <1>6 DEF Alike
<1>13. CASE w = "A"
  <2>1. g[5] = g[0] + 2 * a1
    BY <1>1, <1>2, <1>3, <1>7, <1>13 DEF TimeOf
  <2>2. g[5] = (g[0] + tau - 2 * h) + (z2 + z1 + z4) * P
    <3> DEFINE p1 == z1 * P
               p2 == z2 * P
               p4 == z4 * P
    <3>1. p1 \in Int /\ p2 \in Int /\ p4 \in Int
      BY <1>0
    <3>2. 2 * e - ce = tau + p1 /\ 2 * a1 = (e - ce) + p2 /\ 2 * h = e + p4
      BY <1>9, <1>10, <1>12
    <3>3. (z2 + z1 + z4) * P = p2 + p1 + p4
      BY <1>0
    <3> HIDE DEF p1, p2, p4
    <3> QED BY <1>0, <1>2, <1>7, <1>8, <2>1, <3>1, <3>2, <3>3
  <2>3. z2 + z1 + z4 \in Int
    OBVIOUS
  <2> QED BY <1>1, <1>13, <2>2, <2>3 DEF Alike
<1>14. CASE w = "B"
  <2>1. g[5] = g[0] + 2 * e + y
    BY <1>1, <1>2, <1>3, <1>7, <1>14 DEF TimeOf
  <2>2. g[5] = (g[0] + tau - 0) + (z1 + z3) * P
    BY <1>0, <1>2, <1>7, <1>8, <1>9, <1>11, <2>1
  <2>3. z1 + z3 \in Int
    OBVIOUS
  <2> QED BY <1>1, <1>14, <2>2, <2>3 DEF Alike
<1> QED BY <1>13, <1>14

\* Between two calls of A at the edge B is evolved by tau, and A by tau less the
\* edges.
LEMMA InnerTimes ==
  ASSUME NEW type \in Schemes, NEW k \in [Coefs -> Int],
         type = "CAMPOSTRINI" => (2 - k.sigma) % P # 0,
         NEW tau \in Num, NEW w \in {"A", "B"},
         NEW m, m = Period(type, k, tau) - 1, NEW g \in [0..m -> Int],
         \A i \in 1..m : g[i] = g[i - 1] + TimeOf(Inner(type, k, tau)[i], w)
  PROVE  Alike(g[m], g[0] + tau - IF w = "A" THEN 2 * Edge(type, k, tau) ELSE 0)
<1>1. CASE type = "LEAP"
  <2>1. Inner(type, k, tau) = Leap(k, tau).inner /\ Edge(type, k, tau) = Leap(k, tau).edge
    BY <1>1 DEF Inner, Edge, SchemeOf
  <2>2. m = 1
    BY <2>1 DEF Leap, Scheme, Period
  <2>3. /\ g \in [0..1 -> Int]
        /\ \A i \in 1..1 : g[i] = g[i - 1] + TimeOf(Leap(k, tau).inner[i], w)
    BY <2>1, <2>2
  <2>4. Alike(g[1], g[0] + tau - IF w = "A" THEN 2 * Leap(k, tau).edge ELSE 0)
    BY <2>3, LeapTimes
  <2> QED BY <2>1, <2>2, <2>4
<1>2. CASE type = "OMELYAN"
  <2>1. Inner(type, k, tau) = Omelyan(k, tau).inner /\ Edge(type, k, tau) = Omelyan(k, tau).edge
    BY <1>2 DEF Inner, Edge, SchemeOf
  <2>2. m = 3
    BY <2>1 DEF Omelyan, Scheme, Period
  <2>3. /\ g \in [0..3 -> Int]
        /\ \A i \in 1..3 : g[i] = g[i - 1] + TimeOf(Omelyan(k, tau).inner[i], w)
    BY <2>1, <2>2
  <2>4. Alike(g[3], g[0] + tau - IF w = "A" THEN 2 * Omelyan(k, tau).edge ELSE 0)
    BY <2>3, OmelyanTimes
  <2> QED BY <2>1, <2>2, <2>4
<1>3. CASE type = "CAMPOSTRINI"
  <2>1. Inner(type, k, tau) = Campostrini(k, tau).inner /\ Edge(type, k, tau) = Campostrini(k, tau).edge
    BY <1>3 DEF Inner, Edge, SchemeOf
  <2>2. m = 5
    BY <2>1 DEF Campostrini, Scheme, Period
  <2>3. /\ g \in [0..5 -> Int]
        /\ \A i \in 1..5 : g[i] = g[i - 1] + TimeOf(Campostrini(k, tau).inner[i], w)
    BY <2>1, <2>2
  <2>4. Alike(g[5], g[0] + tau - IF w = "A" THEN 2 * Campostrini(k, tau).edge ELSE 0)
    BY <1>3, <2>3, CampostriniTimes
  <2> QED BY <2>1, <2>2, <2>4
<1>4. CASE type = "OMELYAN_44"
  <2>1. Inner(type, k, tau) = Omelyan44(k, tau).inner /\ Edge(type, k, tau) = Omelyan44(k, tau).edge
    BY <1>4 DEF Inner, Edge, SchemeOf
  <2>2. m = 7
    BY <2>1 DEF Omelyan44, Scheme, Period
  <2>3. /\ g \in [0..7 -> Int]
        /\ \A i \in 1..7 : g[i] = g[i - 1] + TimeOf(Omelyan44(k, tau).inner[i], w)
    BY <2>1, <2>2
  <2>4. Alike(g[7], g[0] + tau - IF w = "A" THEN 2 * Omelyan44(k, tau).edge ELSE 0)
    BY <2>3, Omelyan44Times
  <2> QED BY <2>1, <2>2, <2>4
<1>5. CASE type = "OMELYAN_45"
  <2>1. Inner(type, k, tau) = Omelyan45(k, tau).inner /\ Edge(type, k, tau) = Omelyan45(k, tau).edge
    BY <1>5 DEF Inner, Edge, SchemeOf
  <2>2. m = 9
    BY <2>1 DEF Omelyan45, Scheme, Period
  <2>3. /\ g \in [0..9 -> Int]
        /\ \A i \in 1..9 : g[i] = g[i - 1] + TimeOf(Omelyan45(k, tau).inner[i], w)
    BY <2>1, <2>2
  <2>4. Alike(g[9], g[0] + tau - IF w = "A" THEN 2 * Omelyan45(k, tau).edge ELSE 0)
    BY <2>3, Omelyan45Times
  <2> QED BY <2>1, <2>2, <2>4
<1>6. CASE type = "FORCE_GRAD_PQPQP"
  <2>1. Inner(type, k, tau) = ForceGradPQPQP(k, tau).inner /\ Edge(type, k, tau) = ForceGradPQPQP(k, tau).edge
    BY <1>6 DEF Inner, Edge, SchemeOf
  <2>2. m = 3
    BY <2>1 DEF ForceGradPQPQP, Scheme, Period
  <2>3. /\ g \in [0..3 -> Int]
        /\ \A i \in 1..3 : g[i] = g[i - 1] + TimeOf(ForceGradPQPQP(k, tau).inner[i], w)
    BY <2>1, <2>2
  <2>4. Alike(g[3], g[0] + tau - IF w = "A" THEN 2 * ForceGradPQPQP(k, tau).edge ELSE 0)
    BY <2>3, PQPQPTimes
  <2> QED BY <2>1, <2>2, <2>4
<1>7. CASE type = "FORCE_GRAD_QPQPQ"
  <2>1. Inner(type, k, tau) = ForceGradQPQPQ(k, tau).inner /\ Edge(type, k, tau) = ForceGradQPQPQ(k, tau).edge
    BY <1>7 DEF Inner, Edge, SchemeOf
  <2>2. m = 3
    BY <2>1 DEF ForceGradQPQPQ, Scheme, Period
  <2>3. /\ g \in [0..3 -> Int]
        /\ \A i \in 1..3 : g[i] = g[i - 1] + TimeOf(ForceGradQPQPQ(k, tau).inner[i], w)
    BY <2>1, <2>2
  <2>4. Alike(g[3], g[0] + tau - IF w = "A" THEN 2 * ForceGradQPQPQ(k, tau).edge ELSE 0)
    BY <2>3, QPQPQTimes
  <2> QED BY <2>1, <2>2, <2>4
<1> QED BY <1>1, <1>2, <1>3, <1>4, <1>5, <1>6, <1>7 DEF Schemes, AB

\* The time of the first i calls of evolve(tau, k) of n, for A or for B.
Times(t, n, tau, k, i, w, g) ==
  /\ g \in [0..i -> Int] /\ g[0] = 0
  /\ \A l \in 1..i : g[l] = g[l - 1] + TimeOf(CallAt(t, n, tau, k, l), w)

LEMMA SumTimes ==
  ASSUME NEW t, NEW n, t[n].type = "SUM", NEW tau \in Num, NEW k \in Nat,
         NEW w \in {"A", "B"}, NEW g, Times(t, n, tau, k, 2 * k, w, g)
  PROVE  g[2 * k] = k * tau
<1> DEFINE Bad == {r \in 0..k : g[2 * r] # r * tau}
<1>0. tau \in Int
  BY NumInts
<1>1. Bad = {}
  <2> SUFFICES ASSUME Bad # {} PROVE FALSE
    OBVIOUS
  <2>1. PICK r \in Bad : \A s \in Bad : r <= s
    <3>1. Bad \in SUBSET Nat
      OBVIOUS
    <3> HIDE DEF Bad
    <3> QED BY <3>1, SmallestMember
  <2>2. r \in 0..k /\ r # 0
    BY <1>0, <2>1 DEF Times
  <2> DEFINE q == r - 1
             l == 2 * r
  <2>3. q \in 0..k /\ q < r /\ r = q + 1
    BY <2>2
  <2>4. g[2 * q] = q * tau
    BY <2>1, <2>3
  <2>5. l \in 1..(2 * k) /\ l - 1 \in 1..(2 * k) /\ (l - 1) - 1 = 2 * q
        /\ (l % 2) = 0 /\ ((l - 1) % 2) = 1
    BY <2>2
  <2> HIDE DEF q, l
  <2>6. CallAt(t, n, tau, k, l) = Plain("B", tau) /\ CallAt(t, n, tau, k, l - 1) = Plain("A", tau)
    BY <2>5 DEF CallAt, Call
  <2>7. g[l] = g[l - 1] + TimeOf(CallAt(t, n, tau, k, l), w)
    BY <2>5 DEF Times
  <2>8. g[l - 1] = g[2 * q] + TimeOf(CallAt(t, n, tau, k, l - 1), w)
    BY <2>5 DEF Times
  <2>9. q * tau \in Int /\ q \in Int
    BY <1>0, <2>3
  <2>10. g[l] = q * tau + tau
    <3> DEFINE qt == q * tau
    <3> HIDE DEF qt
    <3>1. qt \in Int /\ g[2 * q] = qt
      BY <2>4, <2>9 DEF qt
    <3>2. g[l] = qt + tau
      BY <1>0, <2>6, <2>7, <2>8, <3>1 DEF TimeOf, Plain
    <3> QED BY <3>2 DEF qt
  <2>11. r * tau = q * tau + tau
    BY <1>0, <2>3, <2>9
  <2> QED BY <2>1, <2>10, <2>11 DEF l
<1>2. k \in 0..k
  OBVIOUS
<1> QED BY <1>1, <1>2

\* Which call is which.
LEMMA SchemeCalls ==
  ASSUME NEW t, NEW n, t[n].type \in Schemes, NEW tau, NEW k \in Nat \ {0},
         NEW m, m = Period(t[n].type, t[n].k, tau), NEW q \in 0..(k - 1)
  PROVE  /\ m \in {2, 4, 6, 8, 10}
         /\ Calls(t, n, tau, k) = k * m + 1
         /\ q * m + m \in Nat /\ q * m + m <= k * m /\ (q + 1) * m = q * m + m
         /\ \A i \in 1..(m - 1) :
              CallAt(t, n, tau, k, q * m + 1 + i) = Inner(t[n].type, t[n].k, tau)[i]
         /\ CallAt(t, n, tau, k, 1) = Plain("A", Edge(t[n].type, t[n].k, tau))
         /\ CallAt(t, n, tau, k, q * m + m + 1)
              = IF q + 1 = k THEN Plain("A", Edge(t[n].type, t[n].k, tau))
                ELSE Plain("A", Join(t[n].type, t[n].k, tau))
<1> DEFINE type == t[n].type
           coef == t[n].k
           in == Inner(type, coef, tau)
           edge == Plain("A", Edge(type, coef, tau))
           join == Plain("A", Join(type, coef, tau))
           c(i) == CallAt(t, n, tau, k, i)
           last == Calls(t, n, tau, k)
<1>1. m \in {2, 4, 6, 8, 10}
  BY InnerPalindromic
<1>2. last = k * m + 1
  BY DEF Calls, NCalls, Schemes
<1>3. \A i : /\ (i - 1) % m # 0 => c(i) = in[(i - 1) % m]
             /\ (i - 1) % m = 0 /\ i \in {1, last} => c(i) = edge
             /\ (i - 1) % m = 0 /\ i \notin {1, last} => c(i) = join
  BY DEF CallAt, Call, Calls, Schemes
<1> HIDE DEF c, last, in, edge, join
<1>4. /\ q * m + m \in Nat /\ q * m + m <= k * m /\ (q + 1) * m = q * m + m
      /\ q * m + m > 0
      /\ (q + 1 # k => q * m + m # k * m) /\ (q + 1 = k => q * m + m = k * m)
      /\ q * m \in Nat /\ k * m \in Nat
      /\ (q * m + m) % m = 0 /\ \A i \in 1..(m - 1) : (q * m + i) % m = i
  <2>1. CASE m = 2 BY <2>1
  <2>2. CASE m = 4 BY <2>2
  <2>3. CASE m = 6 BY <2>3
  <2>4. CASE m = 8 BY <2>4
  <2>5. CASE m = 10 BY <2>5
  <2> QED BY <1>1, <2>1, <2>2, <2>3, <2>4, <2>5
<1> DEFINE qm == q * m
           km == k * m
<1>5. /\ qm + m \in Nat /\ qm + m > 0 /\ qm \in Nat /\ km \in Nat /\ last = km + 1
      /\ (qm + m) % m = 0 /\ \A i \in 1..(m - 1) : (qm + i) % m = i
      /\ (q + 1 # k => qm + m # km) /\ (q + 1 = k => qm + m = km)
      /\ m \in Nat /\ m > 0
  BY <1>1, <1>2, <1>4
<1> HIDE DEF qm, km
<1>6. ASSUME NEW i \in 1..(m - 1) PROVE c(qm + 1 + i) = in[i]
  <2>1. (qm + 1 + i) - 1 = qm + i /\ i # 0
    BY <1>5
  <2>2. (qm + i) % m = i
    BY <1>5
  <2> QED BY <1>3, <2>1, <2>2, Zenon
<1>7. c(1) = edge
  <2>1. (1 - 1) % m = 0 /\ 1 \in {1, last}
    BY <1>1
  <2> QED BY <1>3, <2>1, Zenon
<1>8. c(qm + m + 1) = IF q + 1 = k THEN edge ELSE join
  <2> DEFINE i == qm + m + 1
  <2>1. i - 1 = qm + m /\ i # 1 /\ (i = last <=> q + 1 = k)
    BY <1>5
  <2> HIDE DEF i
  <2>2. (i - 1) % m = 0
    BY <1>5, <2>1
  <2>3. c(i) = IF q + 1 = k THEN edge ELSE join
    BY <1>3, <2>1, <2>2, Zenon
  <2> QED BY <2>3 DEF i
<1> QED BY <1>1, <1>2, <1>4, <1>6, <1>7, <1>8 DEF qm, c, last, in, edge, join

\* One repetition.
LEMMA PeriodTimes ==
  ASSUME NEW t, NEW n, t[n].type \in Schemes, t[n].k \in [Coefs -> Int],
         t[n].type = "CAMPOSTRINI" => (2 - t[n].k.sigma) % P # 0,
         NEW tau \in Num, NEW k \in Nat \ {0}, NEW w \in {"A", "B"},
         NEW g, Times(t, n, tau, k, Calls(t, n, tau, k), w, g),
         NEW m, m = Period(t[n].type, t[n].k, tau), NEW q \in 0..(k - 1)
  PROVE  Alike(g[q * m + m],
               g[q * m + 1] + tau - IF w = "A" THEN 2 * Edge(t[n].type, t[n].k, tau) ELSE 0)
<1> DEFINE qm == q * m
           km == k * m
           in == Inner(t[n].type, t[n].k, tau)
           h == [i \in 0..(m - 1) |-> g[qm + 1 + i]]
<1>1. /\ m \in {2, 4, 6, 8, 10} /\ Calls(t, n, tau, k) = km + 1
      /\ qm + m \in Nat /\ qm + m <= km
      /\ \A i \in 1..(m - 1) : CallAt(t, n, tau, k, qm + 1 + i) = in[i]
  BY SchemeCalls
<1>2. km \in Nat /\ qm \in Nat
  BY <1>1
<1> HIDE DEF qm, km, in
<1>3. /\ g \in [0..(km + 1) -> Int]
      /\ \A l \in 1..(km + 1) : g[l] = g[l - 1] + TimeOf(CallAt(t, n, tau, k, l), w)
  BY <1>1 DEF Times
<1>4. \A i \in 0..(m - 1) : qm + 1 + i \in 0..(km + 1)
  BY <1>1, <1>2
<1>5. h \in [0..(m - 1) -> Int]
  BY <1>3, <1>4
<1>6. ASSUME NEW i \in 1..(m - 1)
      PROVE  h[i] = h[i - 1] + TimeOf(in[i], w)
  <2>1. /\ i \in 0..(m - 1) /\ i - 1 \in 0..(m - 1)
        /\ qm + 1 + i \in 1..(km + 1) /\ (qm + 1 + i) - 1 = qm + 1 + (i - 1)
    BY <1>1, <1>2
  <2>2. CallAt(t, n, tau, k, qm + 1 + i) = in[i]
    BY <1>1
  <2> QED BY <1>3, <2>1, <2>2
<1>7. h[m - 1] = g[qm + m] /\ h[0] = g[qm + 1]
  <2>1. m - 1 \in 0..(m - 1) /\ 0 \in 0..(m - 1) /\ qm + 1 + (m - 1) = qm + m /\ qm + 1 + 0 = qm + 1
    BY <1>1, <1>2
  <2> QED BY <2>1
<1> HIDE DEF h
<1> DEFINE m1 == m - 1
<1>8. m1 = Period(t[n].type, t[n].k, tau) - 1 /\ h \in [0..m1 -> Int]
      /\ \A i \in 1..m1 : h[i] = h[i - 1] + TimeOf(Inner(t[n].type, t[n].k, tau)[i], w)
  BY <1>5, <1>6 DEF in
<1> HIDE DEF m1
<1>9. Alike(h[m1], h[0] + tau - IF w = "A" THEN 2 * Edge(t[n].type, t[n].k, tau) ELSE 0)
  BY <1>8, InnerTimes
<1> QED BY <1>7, <1>9 DEF m1, qm

\* All repetitions.
LEMMA SchemeTimes ==
  ASSUME NEW t, NEW n, t[n].type \in Schemes, t[n].k \in [Coefs -> Int],
         t[n].type = "CAMPOSTRINI" => (2 - t[n].k.sigma) % P # 0,
         NEW tau \in Num, NEW k \in Nat \ {0}, NEW w \in {"A", "B"},
         NEW g, Times(t, n, tau, k, Calls(t, n, tau, k), w, g)
  PROVE  Alike(g[Calls(t, n, tau, k)], k * tau)
<1> DEFINE m == Period(t[n].type, t[n].k, tau)
           edge == Edge(t[n].type, t[n].k, tau)
           join == Join(t[n].type, t[n].k, tau)
           last == Calls(t, n, tau, k)
           E == IF w = "A" THEN edge ELSE 0
           J == IF w = "A" THEN join ELSE 0
           Bad == {r \in 0..(k - 1) : ~Alike(g[r * m + 1], r * tau + E)}
<1>1. edge \in Num /\ join \in Num /\ Alike(join, 2 * edge)
  <2>1. edge \in Num
    BY InnerTyped
  <2>2. edge \in Int /\ 2 \in Int
    BY <2>1, NumInts
  <2> HIDE DEF edge
  <2>3. 2 (.) edge \in Num /\ Alike(2 (.) edge, 2 * edge)
    BY <2>2, AlikeOps
  <2>4. join = 2 (.) edge
    BY DEF Join, Two, edge
  <2> QED BY <2>1, <2>3, <2>4
<1>2. tau \in Int /\ P \in Int /\ E \in Int /\ J \in Int /\ edge \in Int /\ join \in Int
  <2> HIDE DEF edge, join
  <2>1. tau \in Int /\ edge \in Int /\ join \in Int
    BY <1>1, NumInts, Zenon
  <2>2. P \in Int
    BY NumInts
  <2> QED BY <2>1, <2>2
<1>3. Alike(J, 2 * E)
  <2>1. CASE w = "A"
    BY <1>1, <2>1
  <2>2. CASE w # "A"
    <3>1. J = 0 /\ 2 * E = 0 /\ 0 \in Int
      BY <2>2
    <3> HIDE DEF J, E
    <3> QED BY <3>1, AlikeRefl
  <2> QED BY <2>1, <2>2
<1>4. /\ m \in {2, 4, 6, 8, 10} /\ last = k * m + 1 /\ last \in Nat
      /\ CallAt(t, n, tau, k, 1) = Plain("A", edge)
  <2>1. k - 1 \in 0..(k - 1)
    OBVIOUS
  <2>2. /\ m \in {2, 4, 6, 8, 10} /\ last = k * m + 1
        /\ CallAt(t, n, tau, k, 1) = Plain("A", edge)
    BY <2>1, SchemeCalls
  <2>3. k * m \in Nat
    BY <2>2
  <2> HIDE DEF last, m, edge
  <2> QED BY <2>2, <2>3
<1>5. ASSUME NEW q \in 0..(k - 1)
      PROVE  /\ q * m + 1 \in 0..last /\ q * m + m \in 0..last /\ q * m + m + 1 \in 0..last
             /\ (q + 1) * m + 1 = q * m + m + 1
             /\ Alike(g[q * m + m], g[q * m + 1] + tau - 2 * E)
             /\ g[q * m + m + 1] = g[q * m + m] + IF q + 1 = k THEN E ELSE J
  <2> DEFINE qm == q * m
             km == k * m
  <2>1. /\ qm + m \in Nat /\ qm + m <= km /\ (q + 1) * m = qm + m
        /\ last = km + 1
        /\ CallAt(t, n, tau, k, qm + m + 1)
             = IF q + 1 = k THEN Plain("A", edge) ELSE Plain("A", join)
    BY SchemeCalls
  <2>2. Alike(g[qm + m], g[qm + 1] + tau - IF w = "A" THEN 2 * edge ELSE 0)
    BY PeriodTimes
  <2>3. (IF w = "A" THEN 2 * edge ELSE 0) = 2 * E
    BY <1>2
  <2>4. qm \in Nat /\ km \in Nat
    BY <1>4
  <2> HIDE DEF qm, km, m, edge, join, last, E, J
  <2>5. qm + m + 1 \in 1..last /\ (qm + m + 1) - 1 = qm + m
    BY <1>4, <2>1, <2>4
  <2>6. g[qm + m + 1] = g[qm + m] + TimeOf(CallAt(t, n, tau, k, qm + m + 1), w)
    BY <2>5 DEF Times, last
  <2>7. TimeOf(CallAt(t, n, tau, k, qm + m + 1), w) = IF q + 1 = k THEN E ELSE J
    BY <2>1 DEF TimeOf, Plain, E, J
  <2>8. qm + 1 \in 0..last /\ qm + m \in 0..last
    BY <1>4, <2>1, <2>4
  <2>9. Alike(g[qm + m], g[qm + 1] + tau - 2 * E)
    BY <2>2, <2>3
  <2>10. (q + 1) * m + 1 = qm + m + 1
    BY <2>1
  <2>11. qm + m + 1 \in 0..last
    BY <1>4, <2>5
  <2>12. g[qm + m + 1] = g[qm + m] + IF q + 1 = k THEN E ELSE J
    BY <2>6, <2>7
  <2>13. /\ qm + 1 \in 0..last /\ qm + m \in 0..last /\ qm + m + 1 \in 0..last
         /\ (q + 1) * m + 1 = qm + m + 1
         /\ Alike(g[qm + m], g[qm + 1] + tau - 2 * E)
         /\ g[qm + m + 1] = g[qm + m] + IF q + 1 = k THEN E ELSE J
    BY <2>8, <2>9, <2>10, <2>11, <2>12, Zenon
  <2> QED BY <2>13 DEF qm
<1>6. g \in [0..last -> Int] /\ g[1] = E
  <2>1. g \in [0..last -> Int] /\ g[0] = 0
    BY DEF Times
  <2>2. 1 \in 1..last
    BY <1>4
  <2>3. g[1] = g[1 - 1] + TimeOf(CallAt(t, n, tau, k, 1), w)
    BY <2>2 DEF Times
  <2>4. TimeOf(CallAt(t, n, tau, k, 1), w) = E
    BY <1>4 DEF TimeOf, Plain
  <2> HIDE DEF E, last
  <2> QED BY <1>2, <2>1, <2>3, <2>4
<1> HIDE DEF m, edge, join, last, E, J
\* From one repetition to the next.
<1>7. ASSUME NEW q \in 0..(k - 1), Alike(g[q * m + 1], q * tau + E)
      PROVE  Alike(g[q * m + m + 1], (q + 1) * tau + IF q + 1 = k THEN 0 ELSE E)
  <2> DEFINE qt == q * tau
             a1 == g[q * m + 1]
             a2 == g[q * m + m]
             a3 == g[q * m + m + 1]
  <2>1. qt \in Int /\ (q + 1) * tau = qt + tau
    BY <1>2
  <2>2. a1 \in Int /\ a2 \in Int /\ a3 \in Int
    BY <1>5, <1>6
  <2>3. Alike(a1, qt + E) /\ Alike(a2, a1 + tau - 2 * E)
        /\ a3 = a2 + IF q + 1 = k THEN E ELSE J
    BY <1>5, <1>7
  <2> HIDE DEF qt, a1, a2, a3
  <2>4. PICK x \in Int : a1 = qt + E + x * P
    BY <2>3 DEF Alike
  <2>5. PICK y \in Int : a2 = a1 + tau - 2 * E + y * P
    BY <2>3 DEF Alike
  <2>6. PICK z \in Int : J = 2 * E + z * P
    BY <1>3 DEF Alike
  <2> DEFINE xp == x * P
             yp == y * P
             zp == z * P
  <2>7. xp \in Int /\ yp \in Int /\ zp \in Int /\ (x + y) * P = xp + yp
        /\ (x + y + z) * P = xp + yp + zp
    BY <1>2
  <2>8. a1 = qt + E + xp /\ a2 = a1 + tau - 2 * E + yp /\ J = 2 * E + zp
    BY <2>4, <2>5, <2>6
  <2> HIDE DEF xp, yp, zp
  <2>9. CASE q + 1 = k
    <3>1. a3 = ((qt + tau) + 0) + (x + y) * P /\ x + y \in Int
      BY <1>2, <2>1, <2>2, <2>3, <2>7, <2>8, <2>9
    <3>2. Alike(a3, (qt + tau) + 0)
      BY <3>1 DEF Alike
    <3> QED BY <2>1, <2>9, <3>2 DEF a3
  <2>10. CASE q + 1 # k
    <3>1. a3 = ((qt + tau) + E) + (x + y + z) * P /\ x + y + z \in Int
      BY <1>2, <2>1, <2>2, <2>3, <2>7, <2>8, <2>10
    <3>2. Alike(a3, (qt + tau) + E)
      BY <3>1 DEF Alike
    <3> QED BY <2>1, <2>10, <3>2 DEF a3
  <2> QED BY <2>9, <2>10
<1>8. Bad = {}
  <2> SUFFICES ASSUME Bad # {} PROVE FALSE
    OBVIOUS
  <2>1. PICK r \in Bad : \A s \in Bad : r <= s
    <3>1. Bad \in SUBSET Nat
      OBVIOUS
    <3> HIDE DEF Bad
    <3> QED BY <3>1, SmallestMember
  <2>2. r \in 0..(k - 1) /\ ~Alike(g[r * m + 1], r * tau + E)
    BY <2>1
  <2>3. r # 0
    <3> SUFFICES ASSUME r = 0 PROVE FALSE
      OBVIOUS
    <3>1. r * m + 1 = 1 /\ r * tau + E = E
      BY <1>2, <1>4
    <3>2. Alike(E, E)
      BY <1>2, AlikeRefl
    <3> QED BY <1>6, <2>2, <3>1, <3>2
  <2> DEFINE q == r - 1
  <2>4. q \in 0..(k - 1) /\ q < r /\ r = q + 1 /\ q + 1 # k
    BY <2>2, <2>3
  <2>5. Alike(g[q * m + 1], q * tau + E)
    BY <2>1, <2>4
  <2> HIDE DEF q
  <2>6. Alike(g[q * m + m + 1], (q + 1) * tau + E)
    BY <1>7, <2>4, <2>5
  <2>7. r * m + 1 = q * m + m + 1
    BY <1>5, <2>4
  <2> QED BY <2>2, <2>4, <2>6, <2>7
<1>9. Alike(g[last], k * tau)
  <2> DEFINE q == k - 1
  <2>1. q \in 0..(k - 1) /\ q + 1 = k
    OBVIOUS
  <2>2. Alike(g[q * m + 1], q * tau + E)
    BY <1>8, <2>1
  <2> HIDE DEF q
  <2>3. Alike(g[q * m + m + 1], k * tau + 0)
    BY <1>7, <2>1, <2>2
  <2>4. q * m + m + 1 = last
    BY <1>4, <1>5, <2>1
  <2>5. k * tau \in Int
    BY <1>2
  <2>6. k * tau + 0 = k * tau
    BY <2>5
  <2> QED BY <2>3, <2>4, <2>6
<1> QED BY <1>9 DEF last

\* evolve(tau, k) of a node evolves each of its operators by k * tau in all.
LEMMA CallsTimes ==
  ASSUME NEW t \in Trees, NEW n \in Integrators(t), NEW tau \in Num, NEW k \in Nat \ {0},
         NEW w \in {"A", "B"}, NEW g, Times(t, n, tau, k, Calls(t, n, tau, k), w, g)
  PROVE  Alike(g[Calls(t, n, tau, k)], k * tau)
<1>1. t[n].type \in AB /\ t[n].k \in [Coefs -> Int] /\ n \in DOMAIN t
  BY TreeFacts
<1>2. CASE t[n].type = "SUM"
  <2>1. Calls(t, n, tau, k) = 2 * k
    BY <1>2 DEF Calls, NCalls
  <2>2. g[2 * k] = k * tau
    BY <1>2, <2>1, SumTimes
  <2>3. k * tau \in Int
    <3>1. tau \in Int
      BY NumInts
    <3> QED BY <3>1
  <2>4. Alike(k * tau, k * tau)
    <3> DEFINE x == k * tau
    <3> HIDE DEF x
    <3>1. x \in Int
      BY <2>3 DEF x
    <3>2. Alike(x, x)
      BY <3>1, AlikeRefl
    <3> QED BY <3>2 DEF x
  <2> QED BY <2>1, <2>2, <2>4
<1>3. CASE t[n].type # "SUM"
  <2>1. t[n].type \in Schemes
    BY <1>1, <1>3 DEF Schemes
  <2>2. t[n].type = "CAMPOSTRINI" => (2 - t[n].k.sigma) % P # 0
    BY <1>1, TimesAssumption
  <2> QED BY <1>1, <2>1, <2>2, SchemeTimes
<1> QED BY <1>2, <1>3

\* The steps of a call make up its time.
LEMMA StepsTime ==
  ASSUME NEW t \in Trees, NEW n \in Integrators(t), NEW c,
         c.who \in {"A", "B"}, c.t \in Num, NEW d, d = SubDt(t, n, c)
  PROVE  d \in Num /\ Alike(SubSteps(t, n, c) * d, c.t)
<1> DEFINE s == SubSteps(t, n, c)
<1>1. /\ n \in DOMAIN t /\ t[n].type \in AB /\ c.t \in Int
      /\ s \in Nat \ {0}
  BY TreeFacts, NumInts DEF SubSteps
<1>2. s % P # 0 /\ (t[n].type = "SUM" => s = 1)
  BY <1>1, TimesAssumption DEF SubSteps
<1>3. CASE t[n].type = "SUM"
  <2>1. d = c.t /\ s = 1
    BY <1>2, <1>3 DEF SubDt
  <2>2. s * d = c.t
    BY <1>1, <2>1
  <2> QED BY <1>1, <2>1, <2>2, AlikeRefl
<1>4. CASE t[n].type # "SUM"
  <2>1. d = c.t (/) s /\ s \in Int
    BY <1>1, <1>4 DEF SubDt
  <2> HIDE DEF s
  <2>2. d \in Num /\ Alike(d * s, c.t)
    BY <1>2, <2>1, DivideMultiply
  <2>3. d \in Int
    BY <2>2, NumInts
  <2>4. d * s = s * d
    BY <2>1, <2>3
  <2> QED BY <2>2, <2>4 DEF s
<1> QED BY <1>3, <1>4

-----------------------------------------------------------------------------
(* The leaves below a node                                                 *)

Below(t, S) == \A m \in S : t[m].type \in AB => {t[m].A, t[m].B} \subseteq S

LEMMA LeavesOfLeaf ==
  ASSUME NEW t, NEW w \in DOMAIN t, t[w].type \notin AB
  PROVE  Leaves(t, w) = {w}
<1>1. w \in Leaves(t, w)
  BY DEF Leaves
<1>2. ASSUME NEW n \in Leaves(t, w) PROVE n = w
  <2>1. {w} \in SUBSET DOMAIN t /\ w \in {w}
        /\ \A m \in {w} : t[m].type \in AB => {t[m].A, t[m].B} \subseteq {w}
    OBVIOUS
  <2>2. n \in {w}
    BY <2>1 DEF Leaves
  <2> QED BY <2>2
<1> QED BY <1>1, <1>2

LEMMA LeavesOfNode ==
  ASSUME NEW t \in Trees, NEW w \in Integrators(t)
  PROVE  Leaves(t, w) = Leaves(t, t[w].A) \cup Leaves(t, t[w].B)
<1>1. w \in DOMAIN t /\ t[w].A \in DOMAIN t /\ t[w].B \in DOMAIN t /\ t[w].type \in AB
  BY TreeFacts
<1>2. \A n, u : n \in Leaves(t, u) <=>
        /\ n \in DOMAIN t /\ t[n].type \notin AB
        /\ \A S \in SUBSET DOMAIN t : u \in S /\ Below(t, S) => n \in S
  BY DEF Leaves, Below
<1>3. ASSUME NEW n \in Leaves(t, w)
      PROVE  n \in Leaves(t, t[w].A) \cup Leaves(t, t[w].B)
  <2> SUFFICES ASSUME n \notin Leaves(t, t[w].A), n \notin Leaves(t, t[w].B) PROVE FALSE
    OBVIOUS
  <2>1. n \in DOMAIN t /\ t[n].type \notin AB
    BY <1>2
  <2>2. PICK S \in SUBSET DOMAIN t : t[w].A \in S /\ Below(t, S) /\ n \notin S
    BY <1>2, <2>1
  <2>3. PICK T \in SUBSET DOMAIN t : t[w].B \in T /\ Below(t, T) /\ n \notin T
    BY <1>2, <2>1
  <2> DEFINE U == S \cup T \cup {w}
  <2>4. U \in SUBSET DOMAIN t /\ w \in U /\ Below(t, U)
    BY <1>1, <2>2, <2>3 DEF Below
  <2>5. n \notin U
    BY <1>1, <2>1, <2>2, <2>3
  <2> HIDE DEF U
  <2> QED BY <1>2, <2>4, <2>5
<1>4. ASSUME NEW n, n \in Leaves(t, t[w].A) \cup Leaves(t, t[w].B)
      PROVE  n \in Leaves(t, w)
  <2> SUFFICES ASSUME NEW S \in SUBSET DOMAIN t, w \in S, Below(t, S)
               PROVE  n \in DOMAIN t /\ t[n].type \notin AB /\ n \in S
    BY <1>2, <1>4
  <2>1. t[w].A \in S /\ t[w].B \in S
    BY <1>1 DEF Below
  <2> QED BY <1>2, <1>4, <2>1
<1> QED BY <1>3, <1>4

-----------------------------------------------------------------------------
(* The time that passes for the leaves while evolve() runs.  A frame whose   *)
(* evolve() began at clock s has led to clock cur with the calls it has made. *)

Clocks(t) == [DOMAIN t -> Num]
Stopped(t) == [n \in DOMAIN t |-> 0]

Advanced(t, c, w, x) ==
  [n \in DOMAIN t |-> IF n \in Leaves(t, w) THEN c[n] (+) x ELSE c[n]]

CallsMade(fr) == IF fr.at = "back" THEN fr.j ELSE fr.j - 1

TimesOf(t, fr, i, w, g) == Times(t, fr.node, fr.tau, fr.n, i, w, g)

OnTime(t, fr, s, cur) ==
  /\ fr.n # 0
  /\ fr.j \in 1..(CallsOf(t, fr) + 1)
  /\ fr.at # "call" => fr.j <= CallsOf(t, fr) /\ CallOf(t, fr).fg
  /\ \E ga, gb :
       /\ TimesOf(t, fr, CallsMade(fr), "A", ga)
       /\ TimesOf(t, fr, CallsMade(fr), "B", gb)
       /\ \A x \in DOMAIN t :
            cur[x] = IF x \in Leaves(t, t[fr.node].A) THEN s[x] (+) ga[CallsMade(fr)]
                     ELSE IF x \in Leaves(t, t[fr.node].B) THEN s[x] (+) gb[CallsMade(fr)]
                     ELSE s[x]

\* What a caller comes to once its call returns.
Awaiting(t, fr, s, child, cs) ==
  OnTime(t, fr, s, Advanced(t, cs, child.node, child.n (.) child.tau))

\* evolve(tau, k) of the root began at clock c0 and has come to cur.
Timely(t, stk, cur, tau, k, c0) ==
  IF stk = <<>> THEN cur = Advanced(t, c0, "top", k (.) tau)
  ELSE \E e \in [1..Len(stk) -> Clocks(t)] :
         /\ OnTime(t, stk[1], e[1], cur)
         /\ \A i \in 1..(Len(stk) - 1) : Awaiting(t, stk[i + 1], e[i + 1], stk[i], e[i])
         /\ e[Len(stk)] = c0
         /\ stk[Len(stk)].node = "top" /\ stk[Len(stk)].tau = tau /\ stk[Len(stk)].n = k

LEMMA AddAlike ==
  ASSUME NEW s \in Num, NEW g \in Int, NEW h \in Int, Alike(g, h)
  PROVE  s (+) g = s (+) h /\ s (+) g \in Num
<1>1. s \in Int
  BY NumInts
<1>2. s + g \in Int /\ s + h \in Int /\ Alike(s + g, s + h)
  BY <1>1, AlikeRefl, AlikeSum
<1> DEFINE u == s + g
           v == s + h
<1> HIDE DEF u, v
<1>3. u % P = v % P /\ u % P \in Num
  BY <1>2, AlikeSame, AlikeReduced DEF u, v
<1> QED BY <1>3 DEF (+), u, v

LEMMA AddTwice ==
  ASSUME NEW s \in Num, NEW g \in Int, NEW x \in Num
  PROVE  (s (+) g) (+) x = s (+) (g + x)
<1> DEFINE u == s (+) g
           v == s + g
           p == u + x
           q == v + x
<1>1. s \in Int /\ x \in Int
  BY NumInts
<1>2. u \in Num /\ Alike(u, v) /\ v \in Int
  <2>1. s (+) g \in Num /\ Alike(s (+) g, s + g)
    BY <1>1, AlikeOps
  <2> QED BY <1>1, <2>1
<1>3. u \in Int
  BY <1>2, NumInts
<1> HIDE DEF u, v
<1>4. p \in Int /\ q \in Int /\ Alike(p, q)
  BY <1>1, <1>2, <1>3, AlikeRefl, AlikeSum
<1> HIDE DEF p, q
<1>5. p % P = q % P
  BY <1>4, AlikeSame
<1>6. q = s + (g + x)
  BY <1>1 DEF q, v
<1> QED BY <1>5, <1>6 DEF (+), p, u

LEMMA AddNothing ==
  ASSUME NEW s \in Num
  PROVE  s (+) 0 = s
<1>1. s + 0 = s
  BY NumInts
<1> QED BY <1>1, NumReduced DEF (+)

LEMMA AdvancedTyped ==
  ASSUME NEW t, NEW c \in Clocks(t), NEW w, NEW x \in Num
  PROVE  Advanced(t, c, w, x) \in Clocks(t)
<1>1. \A n \in DOMAIN t : c[n] \in Num /\ c[n] (+) x \in Num
  BY AddCases DEF Clocks
<1> QED BY <1>1 DEF Advanced, Clocks

LEMMA TimesStep ==
  ASSUME NEW t, NEW n, NEW tau, NEW k, NEW j \in Nat \ {0}, NEW w, NEW g,
         Times(t, n, tau, k, j - 1, w, g),
         NEW c, c = CallAt(t, n, tau, k, j), c.t \in Int
  PROVE  \E h : Times(t, n, tau, k, j, w, h) /\ h[j] = g[j - 1] + TimeOf(c, w)
<1> DEFINE h == [i \in 0..j |-> IF i = j THEN g[j - 1] + TimeOf(c, w) ELSE g[i]]
<1>1. g \in [0..(j - 1) -> Int] /\ g[0] = 0 /\ TimeOf(c, w) \in Int
  BY DEF Times, TimeOf
<1>2. \A i \in 0..(j - 1) : g[i] \in Int /\ i \in 0..j /\ i # j
  BY <1>1
<1>3. j - 1 \in 0..(j - 1) /\ j \in 0..j
  OBVIOUS
<1>4. /\ h \in [0..j -> Int] /\ h[j] = g[j - 1] + TimeOf(c, w)
      /\ \A i \in 0..(j - 1) : h[i] = g[i]
  BY <1>1, <1>2, <1>3
<1> HIDE DEF h
<1>5. ASSUME NEW i \in 1..j
      PROVE  h[i] = h[i - 1] + TimeOf(CallAt(t, n, tau, k, i), w)
  <2>1. i - 1 \in 0..(j - 1) /\ (i # j => i \in 1..(j - 1) /\ i \in 0..(j - 1))
    OBVIOUS
  <2>2. CASE i = j
    BY <1>4, <2>1, <2>2
  <2>3. CASE i # j
    <3>1. g[i] = g[i - 1] + TimeOf(CallAt(t, n, tau, k, i), w)
      BY <2>1, <2>3 DEF Times
    <3> QED BY <1>4, <2>1, <2>3, <3>1
  <2> QED BY <2>2, <2>3
<1>6. h[0] = 0
  BY <1>1, <1>4
<1> QED BY <1>4, <1>5, <1>6 DEF Times

\* The call that a frame is at, whatever it does to the fields.
LEMMA CallTimed ==
  ASSUME NEW t \in Trees, NEW fr \in FrameOf(t), NEW s \in Clocks(t), NEW cur,
         OnTime(t, fr, s, cur), fr.j <= CallsOf(t, fr), fr.at # "back",
         NEW gr, Same(gr, fr),
         gr.j = IF CallOf(t, fr).fg THEN fr.j ELSE fr.j + 1,
         gr.at = IF CallOf(t, fr).fg THEN "back" ELSE fr.at,
         NEW w, w = Who(t, fr.node, CallOf(t, fr)),
         NEW d, d = SubDt(t, fr.node, CallOf(t, fr)),
         NEW m, m = SubSteps(t, fr.node, CallOf(t, fr))
  PROVE  OnTime(t, gr, s, Advanced(t, cur, w, m (.) d))
<1> DEFINE c == CallOf(t, fr)
           A == Leaves(t, t[fr.node].A)
           B == Leaves(t, t[fr.node].B)
           out == Advanced(t, cur, w, m (.) d)
           j == fr.j
<1>1. /\ fr.node \in Integrators(t) /\ fr.tau \in Num /\ fr.n \in Nat
      /\ CallsOf(t, fr) \in Nat /\ CallsOf(t, gr) = CallsOf(t, fr)
      /\ j \in 1..CallsOf(t, fr) /\ j \in Nat \ {0}
      /\ fr.n # 0 /\ gr.n # 0
      /\ gr.node = fr.node /\ gr.tau = fr.tau /\ gr.n = fr.n
  BY CallFacts DEF FrameOf, CallsOf, Same, OnTime
<1>2. /\ c = CallAt(t, fr.node, fr.tau, fr.n, j)
      /\ c.who \in {"A", "B"} /\ c.t \in Num /\ c.fg \in BOOLEAN
  BY <1>1, CallFacts DEF CallOf, CallsOf
<1>3. PICK ga, gb :
        /\ TimesOf(t, fr, j - 1, "A", ga)
        /\ TimesOf(t, fr, j - 1, "B", gb)
        /\ \A x \in DOMAIN t :
             cur[x] = IF x \in A THEN s[x] (+) ga[j - 1]
                      ELSE IF x \in B THEN s[x] (+) gb[j - 1]
                      ELSE s[x]
  BY DEF OnTime, CallsMade
<1>4. m (.) d = c.t
  <2>1. d \in Num /\ Alike(m * d, c.t)
    BY <1>1, <1>2, StepsTime
  <2>2. m \in Int /\ d \in Int /\ c.t \in Int
    <3>1. m \in Int
      BY <1>1, TreeFacts DEF SubSteps
    <3>2. d \in Int /\ c.t \in Int
      BY <1>2, <2>1, NumInts, Zenon
    <3> QED BY <3>1, <3>2
  <2>3. m * d \in Int
    BY <2>2
  <2> DEFINE md == m * d
  <2> HIDE DEF md
  <2>4. md % P = c.t % P
    BY <2>1, <2>2, <2>3, AlikeSame DEF md
  <2>5. c.t % P = c.t
    BY <1>2, NumReduced
  <2> QED BY <2>4, <2>5 DEF (.), md
<1>5. A \cap B = {} /\ w = IF c.who = "A" THEN t[fr.node].A ELSE t[fr.node].B
  <2>1. fr.node \in DOMAIN t /\ t[fr.node].type \in AB
    BY <1>1, TreeFacts
  <2> QED BY <2>1, TimesAssumption DEF Who
<1>6. c.t \in Int
  BY <1>2, NumInts
<1>7. PICK ha :
        TimesOf(t, fr, j, "A", ha) /\ ha[j] = ga[j - 1] + TimeOf(c, "A")
  <2> HIDE DEF j, c
  <2> QED BY <1>1, <1>2, <1>3, <1>6, TimesStep DEF TimesOf
<1>8. PICK hb :
        TimesOf(t, fr, j, "B", hb) /\ hb[j] = gb[j - 1] + TimeOf(c, "B")
  <2> HIDE DEF j, c
  <2> QED BY <1>1, <1>2, <1>3, <1>6, TimesStep DEF TimesOf
<1>9. ga[j - 1] \in Int /\ gb[j - 1] \in Int
  <2>1. j - 1 \in 0..(j - 1)
    BY <1>1
  <2> QED BY <1>3, <2>1 DEF TimesOf, Times
<1> HIDE DEF c, j
<1>10. ASSUME NEW x \in DOMAIN t
       PROVE  out[x] = IF x \in A THEN s[x] (+) ha[j]
                       ELSE IF x \in B THEN s[x] (+) hb[j]
                       ELSE s[x]
  <2>1. s[x] \in Num
    BY DEF Clocks
  <2>2. out[x] = IF x \in Leaves(t, w) THEN cur[x] (+) c.t ELSE cur[x]
    BY <1>4 DEF Advanced
  <2>3. (s[x] (+) ga[j - 1]) (+) c.t = s[x] (+) (ga[j - 1] + c.t)
    BY <1>2, <1>9, <2>1, AddTwice
  <2>4. (s[x] (+) gb[j - 1]) (+) c.t = s[x] (+) (gb[j - 1] + c.t)
    BY <1>2, <1>9, <2>1, AddTwice
  <2>5. ga[j - 1] + 0 = ga[j - 1] /\ gb[j - 1] + 0 = gb[j - 1]
    BY <1>9
  <2> HIDE DEF out
  <2>6. CASE c.who = "A"
    <3>1. ha[j] = ga[j - 1] + c.t /\ hb[j] = gb[j - 1] + 0 /\ Leaves(t, w) = A
      BY <1>5, <1>7, <1>8, <2>6 DEF TimeOf
    <3> HIDE DEF A, B
    <3>2. cur[x] = IF x \in A THEN s[x] (+) ga[j - 1]
                   ELSE IF x \in B THEN s[x] (+) gb[j - 1] ELSE s[x]
      BY <1>3
    <3>3. CASE x \in A
      BY <2>2, <2>3, <3>1, <3>2, <3>3, Zenon
    <3>4. CASE x \notin A
      <4>1. out[x] = cur[x]
        BY <2>2, <3>1, <3>4, Zenon
      <4>2. hb[j] = gb[j - 1]
        BY <2>5, <3>1, Zenon
      <4> QED BY <3>2, <3>4, <4>1, <4>2, Zenon
    <3> QED BY <3>3, <3>4
  <2>7. CASE c.who = "B"
    <3>1. ha[j] = ga[j - 1] + 0 /\ hb[j] = gb[j - 1] + c.t /\ Leaves(t, w) = B
      BY <1>5, <1>7, <1>8, <2>7 DEF TimeOf
    <3>0. x \in A => x \notin B
      BY <1>5
    <3> HIDE DEF A, B
    <3>2. cur[x] = IF x \in A THEN s[x] (+) ga[j - 1]
                   ELSE IF x \in B THEN s[x] (+) gb[j - 1] ELSE s[x]
      BY <1>3
    <3>3. CASE x \in B
      <4>1. x \notin A
        BY <3>0, <3>3
      <4> QED BY <2>2, <2>4, <3>1, <3>2, <3>3, <4>1, Zenon
    <3>4. CASE x \notin B
      <4>1. out[x] = cur[x]
        BY <2>2, <3>1, <3>4, Zenon
      <4>2. ha[j] = ga[j - 1]
        BY <2>5, <3>1, Zenon
      <4> QED BY <3>2, <3>4, <4>1, <4>2, Zenon
    <3> QED BY <3>3, <3>4
  <2> QED BY <1>2, <2>6, <2>7
<1>11. CallsMade(gr) = j
  <2>1. CASE c.fg
    <3>1. gr.at = "back" /\ gr.j = j
      BY <2>1 DEF c, j
    <3> QED BY <3>1 DEF CallsMade
  <2>2. CASE ~c.fg
    <3>1. gr.at # "back" /\ gr.j = j + 1
      BY <2>2 DEF c, j
    <3>2. (j + 1) - 1 = j
      BY <1>1
    <3> QED BY <3>1, <3>2 DEF CallsMade
  <2> QED BY <2>1, <2>2
<1>12. TimesOf(t, gr, j, "A", ha) /\ TimesOf(t, gr, j, "B", hb)
  BY <1>1, <1>7, <1>8 DEF TimesOf
<1>13. /\ gr.j \in 1..(CallsOf(t, gr) + 1)
       /\ gr.at # "call" => gr.j <= CallsOf(t, gr) /\ CallOf(t, gr).fg
  <2>1. CallOf(t, gr) = c \/ gr.j # j
    BY <1>1 DEF c, j, CallOf
  <2>2. fr.at # "call" => c.fg
    BY DEF OnTime, c
  <2>3. CASE c.fg
    <3>1. gr.j = j
      BY <2>3 DEF c, j
    <3> QED BY <1>1, <2>1, <2>3, <3>1
  <2>4. CASE ~c.fg
    <3>1. gr.j = j + 1 /\ gr.at = "call"
      BY <2>2, <2>4 DEF c, j
    <3> QED BY <1>1, <3>1
  <2> QED BY <2>3, <2>4
<1>14. \A x \in DOMAIN t :
         out[x] = IF x \in Leaves(t, t[gr.node].A) THEN s[x] (+) ha[CallsMade(gr)]
                  ELSE IF x \in Leaves(t, t[gr.node].B) THEN s[x] (+) hb[CallsMade(gr)]
                  ELSE s[x]
  BY <1>1, <1>10, <1>11
<1> HIDE DEF out
<1>15. OnTime(t, gr, s, out)
  BY <1>1, <1>11, <1>12, <1>13, <1>14 DEF OnTime
<1> QED BY <1>15 DEF out

\* Moving the field aside, and back again, takes no time.
LEMMA MovedTimed ==
  ASSUME NEW t \in Trees, NEW fr \in FrameOf(t), NEW s, NEW cur, OnTime(t, fr, s, cur),
         NEW gr, Same(gr, fr),
         \/ /\ fr.j <= CallsOf(t, fr) /\ fr.at = "call" /\ CallOf(t, fr).fg
            /\ gr.j = fr.j /\ gr.at = "moved"
         \/ fr.at = "back" /\ gr.j = fr.j + 1 /\ gr.at = "call"
  PROVE  OnTime(t, gr, s, cur)
<1>0. CallsOf(t, fr) \in Nat
  BY CallFacts DEF FrameOf, CallsOf
<1>1. /\ gr.node = fr.node /\ gr.tau = fr.tau /\ gr.n = fr.n /\ fr.n # 0
      /\ fr.j \in 1..(CallsOf(t, fr) + 1) /\ CallsOf(t, gr) = CallsOf(t, fr)
      /\ \A i, w, g : TimesOf(t, gr, i, w, g) <=> TimesOf(t, fr, i, w, g)
  BY DEF Same, OnTime, CallsOf, TimesOf
<1>2. CallsMade(gr) = CallsMade(fr)
  BY <1>1 DEF CallsMade
<1>3. /\ gr.j \in 1..(CallsOf(t, gr) + 1)
      /\ gr.at # "call" => gr.j <= CallsOf(t, gr) /\ CallOf(t, gr).fg
  <2>1. CASE gr.at = "moved"
    BY <1>1, <2>1 DEF CallOf
  <2>2. CASE gr.at = "call"
    <3>1. fr.j <= CallsOf(t, fr)
      BY <2>2 DEF OnTime
    <3> QED BY <1>0, <1>1, <2>2, <3>1
  <2> QED BY <2>1, <2>2
<1>4. PICK ga, gb :
        /\ TimesOf(t, fr, CallsMade(fr), "A", ga)
        /\ TimesOf(t, fr, CallsMade(fr), "B", gb)
        /\ \A x \in DOMAIN t :
             cur[x] = IF x \in Leaves(t, t[fr.node].A) THEN s[x] (+) ga[CallsMade(fr)]
                      ELSE IF x \in Leaves(t, t[fr.node].B) THEN s[x] (+) gb[CallsMade(fr)]
                      ELSE s[x]
  BY DEF OnTime
<1> QED BY <1>1, <1>2, <1>3, <1>4 DEF OnTime

\* When the last call has been made the leaves have evolved by n * tau.
LEMMA AllTimed ==
  ASSUME NEW t \in Trees, NEW fr \in FrameOf(t), NEW s \in Clocks(t), NEW cur \in Clocks(t),
         OnTime(t, fr, s, cur), fr.j > CallsOf(t, fr)
  PROVE  cur = Advanced(t, s, fr.node, fr.n (.) fr.tau)
<1> DEFINE L == CallsOf(t, fr)
           A == Leaves(t, t[fr.node].A)
           B == Leaves(t, t[fr.node].B)
           x == fr.n (.) fr.tau
<1>1. /\ fr.node \in Integrators(t) /\ fr.tau \in Num /\ fr.n \in Nat \ {0}
      /\ L \in Nat
  BY CallFacts DEF FrameOf, CallsOf, OnTime
<1>2. fr.j = L + 1 /\ fr.at = "call"
  BY <1>1 DEF OnTime
<1>3. CallsMade(fr) = L
  BY <1>1, <1>2 DEF CallsMade
<1>4. PICK ga, gb :
        /\ TimesOf(t, fr, L, "A", ga)
        /\ TimesOf(t, fr, L, "B", gb)
        /\ \A n \in DOMAIN t :
             cur[n] = IF n \in A THEN s[n] (+) ga[L]
                      ELSE IF n \in B THEN s[n] (+) gb[L]
                      ELSE s[n]
  BY <1>3 DEF OnTime
<1>5. /\ Times(t, fr.node, fr.tau, fr.n, Calls(t, fr.node, fr.tau, fr.n), "A", ga)
      /\ Times(t, fr.node, fr.tau, fr.n, Calls(t, fr.node, fr.tau, fr.n), "B", gb)
      /\ L = Calls(t, fr.node, fr.tau, fr.n)
  BY <1>4 DEF TimesOf, CallsOf
<1>6. Alike(ga[L], fr.n * fr.tau) /\ Alike(gb[L], fr.n * fr.tau)
  <2> HIDE DEF L
  <2>1. Alike(ga[L], fr.n * fr.tau)
    BY <1>1, <1>5, CallsTimes
  <2>2. Alike(gb[L], fr.n * fr.tau)
    BY <1>1, <1>5, CallsTimes
  <2> QED BY <2>1, <2>2
<1>7. ga[L] \in Int /\ gb[L] \in Int
  <2>1. L \in 0..L
    BY <1>1
  <2> QED BY <1>4, <2>1 DEF TimesOf, Times
<1>8. x \in Num /\ x \in Int /\ Alike(ga[L], x) /\ Alike(gb[L], x)
  <2> DEFINE nt == fr.n * fr.tau
  <2>1. fr.n \in Int /\ fr.tau \in Int
    <3>1. fr.n \in Int
      BY <1>1
    <3>2. fr.tau \in Int
      BY <1>1, NumInts, Zenon
    <3> QED BY <3>1, <3>2
  <2>2. nt \in Int
    BY <2>1
  <2>3. Alike(ga[L], nt) /\ Alike(gb[L], nt)
    BY <1>6
  <2>4. x = nt % P
    BY DEF (.)
  <2> HIDE DEF nt, x, L
  <2>5. x \in Num /\ Alike(x, nt)
    BY <2>2, <2>4, AlikeReduced
  <2>6. x \in Int
    BY <2>5, NumInts
  <2>7. Alike(nt, x)
    <3>1. PICK z \in Int : x = nt + z * P
      BY <2>5 DEF Alike
    <3>2. P \in Int /\ nt = x + (-z) * P /\ -z \in Int
      BY <2>2, <2>6, <3>1, NumInts
    <3> QED BY <3>2 DEF Alike
  <2>8. Alike(ga[L], x)
    BY <1>7, <2>2, <2>3, <2>6, <2>7, AlikeTrans
  <2>9. Alike(gb[L], x)
    BY <1>7, <2>2, <2>3, <2>6, <2>7, AlikeTrans
  <2> QED BY <2>5, <2>6, <2>8, <2>9
<1>9. Leaves(t, fr.node) = A \cup B
  BY <1>1, LeavesOfNode
<1> HIDE DEF L, A, B, x
<1>10. ASSUME NEW n \in DOMAIN t
       PROVE  cur[n] = IF n \in Leaves(t, fr.node) THEN s[n] (+) x ELSE s[n]
  <2>1. s[n] \in Num
    BY DEF Clocks
  <2>2. s[n] (+) ga[L] = s[n] (+) x
    BY <1>7, <1>8, <2>1, AddAlike
  <2>3. s[n] (+) gb[L] = s[n] (+) x
    BY <1>7, <1>8, <2>1, AddAlike
  <2> QED BY <1>4, <1>9, <2>2, <2>3
<1>11. cur = [n \in DOMAIN t |-> cur[n]]
  BY DEF Clocks
<1>12. cur = Advanced(t, s, fr.node, x)
  BY <1>10, <1>11 DEF Advanced
<1> QED BY <1>12 DEF x

LEMMA AwaitingSame ==
  ASSUME NEW t, NEW fr, NEW s, NEW ch, NEW ch2, NEW cs, Same(ch2, ch),
         Awaiting(t, fr, s, ch, cs)
  PROVE  Awaiting(t, fr, s, ch2, cs)
BY DEF Awaiting, Same

\* The same for the clock: a step of the innermost call.
LEMMA ClockReplaced ==
  ASSUME NEW t, NEW F, NEW stk \in Seq(F), stk # <<>>, NEW cur, NEW tau, NEW k, NEW s0,
         Timely(t, stk, cur, tau, k, s0),
         NEW fr \in F, Same(fr, stk[1]), NEW cur2,
         \A s \in Clocks(t) : OnTime(t, stk[1], s, cur) => OnTime(t, fr, s, cur2)
  PROVE  Timely(t, <<fr>> \o Tail(stk), cur2, tau, k, s0)
<1> DEFINE stk2 == <<fr>> \o Tail(stk)
           L == Len(stk)
<1>1. /\ L \in Nat \ {0} /\ Len(stk2) = L /\ stk2 # <<>>
      /\ stk2[1] = fr /\ \A i \in 2..L : stk2[i] = stk[i]
  OBVIOUS
<1>2. PICK e \in [1..L -> Clocks(t)] :
        /\ OnTime(t, stk[1], e[1], cur)
        /\ \A i \in 1..(L - 1) : Awaiting(t, stk[i + 1], e[i + 1], stk[i], e[i])
        /\ e[L] = s0
        /\ stk[L].node = "top" /\ stk[L].tau = tau /\ stk[L].n = k
  BY DEF Timely
<1> HIDE DEF stk2, L
<1>3. \A i \in 1..L : Same(stk2[i], stk[i])
  <2>1. \A i \in 1..L : i = 1 \/ i \in 2..L
    BY <1>1
  <2> QED BY <1>1, <2>1 DEF Same
<1>4. OnTime(t, stk2[1], e[1], cur2)
  <2>1. e[1] \in Clocks(t)
    BY <1>1
  <2> QED BY <1>1, <1>2, <2>1
<1>5. ASSUME NEW i \in 1..(L - 1)
      PROVE  Awaiting(t, stk2[i + 1], e[i + 1], stk2[i], e[i])
  <2>1. i \in 1..L /\ i + 1 \in 2..L
    BY <1>1
  <2>2. Awaiting(t, stk2[i + 1], e[i + 1], stk[i], e[i])
    BY <1>1, <1>2, <2>1
  <2> QED BY <1>3, <2>1, <2>2, AwaitingSame
<1>6. stk2[L].node = "top" /\ stk2[L].tau = tau /\ stk2[L].n = k
  <2>1. L \in 1..L
    BY <1>1
  <2> QED BY <1>2, <1>3, <2>1 DEF Same
<1>7. Timely(t, stk2, cur2, tau, k, s0)
  BY <1>1, <1>2, <1>4, <1>5, <1>6 DEF Timely
<1> QED BY <1>7 DEF stk2

\* A call of an inner integrator.
LEMMA ClockPushed ==
  ASSUME NEW t, NEW F, NEW stk \in Seq(F), stk # <<>>, NEW cur \in Clocks(t), NEW tau, NEW k,
         NEW s0, Timely(t, stk, cur, tau, k, s0),
         NEW fr \in F, Same(fr, stk[1]), NEW ch \in F,
         OnTime(t, ch, cur, cur),
         \A s \in Clocks(t) : OnTime(t, stk[1], s, cur) => Awaiting(t, fr, s, ch, cur)
  PROVE  Timely(t, <<ch, fr>> \o Tail(stk), cur, tau, k, s0)
<1> DEFINE stk2 == <<ch, fr>> \o Tail(stk)
           L == Len(stk)
<1>1. /\ L \in Nat \ {0} /\ Len(stk2) = L + 1 /\ stk2 # <<>>
      /\ stk2[1] = ch /\ stk2[2] = fr /\ \A i \in 2..L : stk2[i + 1] = stk[i]
  OBVIOUS
<1>2. PICK e \in [1..L -> Clocks(t)] :
        /\ OnTime(t, stk[1], e[1], cur)
        /\ \A i \in 1..(L - 1) : Awaiting(t, stk[i + 1], e[i + 1], stk[i], e[i])
        /\ e[L] = s0
        /\ stk[L].node = "top" /\ stk[L].tau = tau /\ stk[L].n = k
  BY DEF Timely
<1> HIDE DEF stk2, L
<1> DEFINE u == [i \in 1..(L + 1) |-> IF i = 1 THEN cur ELSE e[i - 1]]
<1>3. /\ u \in [1..(L + 1) -> Clocks(t)] /\ u[1] = cur
      /\ \A i \in 1..L : u[i + 1] = e[i]
  <2>1. \A i \in 1..(L + 1) : i # 1 => i - 1 \in 1..L
    BY <1>1
  <2>2. \A i \in 1..L : i + 1 \in 1..(L + 1) /\ i + 1 # 1 /\ (i + 1) - 1 = i
    BY <1>1
  <2>3. 1 \in 1..(L + 1)
    BY <1>1
  <2> QED BY <2>1, <2>2, <2>3
<1> HIDE DEF u
<1>4. \A i \in 1..L : Same(stk2[i + 1], stk[i])
  <2>1. \A i \in 1..L : i = 1 \/ i \in 2..L
    BY <1>1
  <2> QED BY <1>1, <2>1 DEF Same
<1>5. ASSUME NEW i \in 1..L
      PROVE  Awaiting(t, stk2[i + 1], u[i + 1], stk2[i], u[i])
  <2>1. CASE i = 1
    <3>1. e[1] \in Clocks(t) /\ 1 \in 1..L /\ 1 + 1 = 2
      BY <1>1
    <3>2. u[2] = e[1]
      BY <1>3, <3>1
    <3> QED BY <1>1, <1>2, <1>3, <2>1, <3>1, <3>2
  <2>2. CASE i # 1
    <3>1. i - 1 \in 1..(L - 1) /\ i - 1 \in 1..L /\ (i - 1) + 1 = i /\ i \in 2..L
      BY <1>1, <2>2
    <3>2. Awaiting(t, stk[i], e[i], stk[i - 1], e[i - 1])
      BY <1>2, <3>1
    <3>3. Same(stk2[i], stk[i - 1]) /\ u[i] = e[i - 1]
      BY <1>3, <1>4, <3>1
    <3>4. stk2[i + 1] = stk[i] /\ u[i + 1] = e[i]
      BY <1>1, <1>3, <3>1
    <3>5. Awaiting(t, stk[i], e[i], stk2[i], e[i - 1])
      BY <3>2, <3>3, AwaitingSame
    <3> QED BY <3>3, <3>4, <3>5
  <2> QED BY <2>1, <2>2
<1>6. /\ stk2[L + 1].node = "top" /\ stk2[L + 1].tau = tau /\ stk2[L + 1].n = k
      /\ u[L + 1] = s0
  <2>1. L \in 1..L
    BY <1>1
  <2> QED BY <1>2, <1>3, <1>4, <2>1 DEF Same
<1>7. Timely(t, stk2, cur, tau, k, s0)
  <2>1. (L + 1) - 1 = L
    BY <1>1
  <2> QED BY <1>1, <1>3, <1>5, <1>6, <2>1 DEF Timely
<1> QED BY <1>7 DEF stk2

\* The innermost call returns.
LEMMA ClockPopped ==
  ASSUME NEW t \in Trees, NEW stk \in Seq(FrameOf(t)), stk # <<>>, NEW cur \in Clocks(t),
         NEW tau, NEW k, NEW s0, Timely(t, stk, cur, tau, k, s0),
         stk[1].j > CallsOf(t, stk[1])
  PROVE  Timely(t, Tail(stk), cur, tau, k, s0)
<1> DEFINE stk2 == Tail(stk)
           L == Len(stk)
           fr == stk[1]
<1>1. /\ L \in Nat \ {0} /\ Len(stk2) = L - 1 /\ (stk2 = <<>> <=> L = 1)
      /\ \A i \in 1..(L - 1) : stk2[i] = stk[i + 1]
      /\ fr \in FrameOf(t)
  <2>1. L \in Nat \ {0} /\ fr \in FrameOf(t)
    OBVIOUS
  <2>2. Len(stk2) = L - 1
    OBVIOUS
  <2>3. \A i \in 1..(L - 1) : stk2[i] = stk[i + 1]
    OBVIOUS
  <2>4. stk2 \in Seq(FrameOf(t))
    OBVIOUS
  <2> HIDE DEF stk2
  <2>5. stk2 = <<>> <=> Len(stk2) = 0
    BY <2>4
  <2> HIDE DEF L
  <2>6. stk2 = <<>> <=> L = 1
    BY <2>1, <2>2, <2>5
  <2> QED BY <2>1, <2>2, <2>3, <2>6
<1>2. PICK e \in [1..L -> Clocks(t)] :
        /\ OnTime(t, stk[1], e[1], cur)
        /\ \A i \in 1..(L - 1) : Awaiting(t, stk[i + 1], e[i + 1], stk[i], e[i])
        /\ e[L] = s0
        /\ stk[L].node = "top" /\ stk[L].tau = tau /\ stk[L].n = k
  BY DEF Timely
<1>3. cur = Advanced(t, e[1], fr.node, fr.n (.) fr.tau)
  <2>1. OnTime(t, fr, e[1], cur) /\ fr.j > CallsOf(t, fr) /\ e[1] \in Clocks(t)
    BY <1>1, <1>2
  <2> HIDE DEF fr
  <2> QED BY <1>1, <2>1, AllTimed
<1> HIDE DEF stk2, L
<1>4. CASE L = 1
  <2>1. cur = Advanced(t, s0, "top", k (.) tau)
    BY <1>2, <1>3, <1>4
  <2>2. stk2 = <<>>
    BY <1>1, <1>4
  <2> QED BY <2>1, <2>2 DEF Timely, stk2
<1>5. CASE L # 1
  <2> DEFINE u == [i \in 1..(L - 1) |-> e[i + 1]]
  <2>1. L - 1 \in Nat \ {0} /\ \A i \in 1..(L - 1) : i + 1 \in 1..L
    BY <1>1, <1>5
  <2>2. u \in [1..(L - 1) -> Clocks(t)] /\ \A i \in 1..(L - 1) : u[i] = e[i + 1]
    BY <2>1
  <2> HIDE DEF u
  <2>3. OnTime(t, stk2[1], u[1], cur)
    <3>1. 1 \in 1..(L - 1) /\ 1 + 1 = 2
      BY <1>1, <2>1
    <3>2. Awaiting(t, stk[2], e[2], fr, e[1])
      BY <1>2, <3>1
    <3>3. OnTime(t, stk[2], e[2], cur)
      BY <1>3, <3>2 DEF Awaiting
    <3> QED BY <1>1, <2>2, <3>1, <3>3
  <2>4. ASSUME NEW i \in 1..((L - 1) - 1)
        PROVE  Awaiting(t, stk2[i + 1], u[i + 1], stk2[i], u[i])
    <3>1. i \in 1..(L - 1) /\ i + 1 \in 1..(L - 1)
      BY <1>1, <1>5
    <3>2. Awaiting(t, stk[(i + 1) + 1], e[(i + 1) + 1], stk[i + 1], e[i + 1])
      BY <1>2, <3>1
    <3> QED BY <1>1, <2>2, <3>1, <3>2
  <2>5. u[L - 1] = s0 /\ stk2[L - 1] = stk[L]
    <3>1. L - 1 \in 1..(L - 1) /\ (L - 1) + 1 = L
      BY <1>1, <2>1
    <3> QED BY <1>1, <1>2, <2>2, <3>1
  <2>6. Timely(t, stk2, cur, tau, k, s0)
    BY <1>1, <1>2, <1>5, <2>2, <2>3, <2>4, <2>5 DEF Timely
  <2> QED BY <2>6 DEF stk2
<1> QED BY <1>4, <1>5

\* No time has passed when evolve() begins.
LEMMA BeginsOnTime ==
  ASSUME NEW t \in Trees, NEW fr \in FrameOf(t), fr.j = 1, fr.at = "call", fr.n # 0,
         NEW s \in Clocks(t)
  PROVE  OnTime(t, fr, s, s)
<1> DEFINE g == [i \in 0..0 |-> 0]
<1>1. CallsOf(t, fr) \in Nat /\ CallsMade(fr) = 0
  BY CallFacts DEF FrameOf, CallsOf, CallsMade
<1>2. g \in [0..0 -> Int] /\ g[0] = 0 /\ 1..0 = {}
  OBVIOUS
<1> HIDE DEF g
<1>3. TimesOf(t, fr, 0, "A", g) /\ TimesOf(t, fr, 0, "B", g)
  BY <1>2 DEF TimesOf, Times
<1>4. \A x \in DOMAIN t : s[x] = s[x] (+) g[0]
  BY <1>2, AddNothing DEF Clocks
<1>5. 1 \in 1..(CallsOf(t, fr) + 1)
  BY <1>1
<1> QED BY <1>1, <1>3, <1>4, <1>5 DEF OnTime

\* evolve() of the root is called.
LEMMA ClockBegun ==
  ASSUME NEW t \in Trees, NEW cur \in Clocks(t), NEW tau \in Num, NEW k \in Nat \ {0}
  PROVE  Timely(t, <<Frame("top", tau, k)>>, cur, tau, k, cur)
<1> DEFINE fr == Frame("top", tau, k)
           e == [i \in 1..1 |-> cur]
<1>1. fr \in FrameOf(t)
  BY TreeFacts DEF Frame, FrameOf
<1>2. fr.node = "top" /\ fr.tau = tau /\ fr.n = k /\ fr.j = 1 /\ fr.at = "call"
  BY DEF Frame
<1> HIDE DEF fr
<1>3. OnTime(t, fr, cur, cur)
  BY <1>1, <1>2, BeginsOnTime
<1>4. <<fr>> # <<>> /\ Len(<<fr>>) = 1 /\ <<fr>>[1] = fr
  OBVIOUS
<1>5. e \in [1..1 -> Clocks(t)] /\ e[1] = cur
  OBVIOUS
<1> HIDE DEF e
<1>6. 1..(1 - 1) = {}
  OBVIOUS
<1>7. Timely(t, <<fr>>, cur, tau, k, cur)
  BY <1>2, <1>3, <1>4, <1>5, <1>6 DEF Timely
<1> QED BY <1>7 DEF fr

-----------------------------------------------------------------------------
(* The program's steps, forward                                            *)

\* The inductive invariant for the clock: no leaf has evolved before the
\* trajectory begins, and forward each has for as long as the calls say.
OnClock ==
  /\ steps # 0
  /\ phase = "start" => clock = Stopped(tree)
  /\ phase = "forward" =>
       clock \in Clocks(tree) /\ Timely(tree, stack, clock, dt, steps, Stopped(tree))

LEMMA CallerTimed ==
  ASSUME TypeOK, stack # <<>>, ~Done, Ready, NEW s \in Clocks(tree),
         OnTime(tree, f, s, clock)
  PROVE  OnTime(tree, After, s, Advanced(tree, clock, who, sub_steps (.) sub_dt))
<1>1. /\ tree \in Trees /\ f \in FrameOf(tree) /\ call = CallOf(tree, f)
      /\ f.j <= CallsOf(tree, f)
      /\ who = Who(tree, f.node, CallOf(tree, f))
      /\ sub_dt = SubDt(tree, f.node, CallOf(tree, f))
      /\ sub_steps = SubSteps(tree, f.node, CallOf(tree, f))
  BY FrameFacts, NotDoneFacts DEF TypeOK
<1>2. f.at # "back"
  BY DEF Ready
<1>3. /\ Same(After, f)
      /\ After.j = IF CallOf(tree, f).fg THEN f.j ELSE f.j + 1
      /\ After.at = IF CallOf(tree, f).fg THEN "back" ELSE f.at
  BY AfterFacts
<1> HIDE DEF f, After, who, sub_dt, sub_steps
<1> QED BY <1>1, <1>2, <1>3, CallTimed

\* Momenta and actions.
LEMMA LeafTimed ==
  ASSUME TypeOK, OnClock, phase = "forward", EvolveMomentum \/ EvolveAction
  PROVE  OnClock'
<1> DEFINE x == sub_steps (.) sub_dt
           out == Advanced(tree, clock, who, x)
<1>1. /\ stack # <<>> /\ ~Done /\ Ready /\ tree[who].type \in {"MOM", "ACTION"}
      /\ stack' = <<After>> \o Tail(stack) /\ phase' = phase
      /\ clock' = [clock EXCEPT ![who] = @ (+) x]
      /\ tree' = tree /\ dt' = dt /\ steps' = steps
  BY DEF EvolveMomentum, EvolveAction, Run, Tick, args
<1>2. /\ tree \in Trees /\ who \in DOMAIN tree /\ sub_dt \in Num /\ sub_steps \in Nat
      /\ clock \in Clocks(tree)
      /\ stack \in Seq(FrameOf(tree)) /\ f = stack[1]
      /\ After \in FrameOf(tree) /\ Same(After, stack[1])
  BY <1>1, FrameFacts, NotDoneFacts, AfterFacts DEF TypeOK, OnClock
<1>3. x \in Num
  <2>1. sub_steps \in Int /\ sub_dt \in Int
    BY <1>2, NumInts
  <2> QED BY <2>1, AlikeOps
<1>4. clock' = out /\ out \in Clocks(tree)
  <2>1. Leaves(tree, who) = {who}
    BY <1>1, <1>2, LeavesOfLeaf DEF AB
  <2>2. out \in Clocks(tree)
    BY <1>2, <1>3, AdvancedTyped
  <2> HIDE DEF who, x
  <2>3. clock' = [n \in DOMAIN tree |-> IF n = who THEN clock[n] (+) x ELSE clock[n]]
    BY <1>1, <1>2 DEF Clocks
  <2>4. clock' = out
    BY <2>1, <2>3 DEF Advanced
  <2> QED BY <2>2, <2>4
<1>5. \A s \in Clocks(tree) : OnTime(tree, stack[1], s, clock) => OnTime(tree, After, s, out)
  BY <1>1, <1>2, CallerTimed
<1>6. Timely(tree, stack, clock, dt, steps, Stopped(tree)) /\ steps # 0
  BY DEF OnClock
<1> HIDE DEF out, f, After
<1>7. Timely(tree, <<After>> \o Tail(stack), out, dt, steps, Stopped(tree))
  BY <1>1, <1>2, <1>5, <1>6, ClockReplaced
<1> QED BY <1>1, <1>4, <1>6, <1>7 DEF OnClock

LEMMA NodeTimed ==
  ASSUME TypeOK, OnClock, phase = "forward", EvolveAB
  PROVE  OnClock'
<1> DEFINE ch == Frame(who, sub_dt, sub_steps)
<1>1. /\ stack # <<>> /\ ~Done /\ Ready /\ tree[who].type \in AB
      /\ stack' = <<ch, After>> \o Tail(stack) /\ phase' = phase /\ clock' = clock
      /\ tree' = tree /\ dt' = dt /\ steps' = steps
  BY DEF EvolveAB, Run, args
<1>2. /\ tree \in Trees /\ who \in Integrators(tree) /\ sub_dt \in Num
      /\ sub_steps \in Nat \ {0}
      /\ stack \in Seq(FrameOf(tree)) /\ f = stack[1]
      /\ After \in FrameOf(tree) /\ Same(After, stack[1])
  BY <1>1, FrameFacts, NotDoneFacts, AfterFacts DEF TypeOK, Integrators
<1>3. clock \in Clocks(tree) /\ steps # 0
      /\ Timely(tree, stack, clock, dt, steps, Stopped(tree))
  BY DEF OnClock
<1>4. ch \in FrameOf(tree)
  BY <1>2 DEF Frame, FrameOf
<1>5. /\ ch.node = who /\ ch.tau = sub_dt /\ ch.n = sub_steps /\ ch.j = 1 /\ ch.at = "call"
      /\ ch.n # 0
  BY <1>2 DEF Frame
<1> HIDE DEF ch
<1>6. OnTime(tree, ch, clock, clock)
  BY <1>2, <1>3, <1>4, <1>5, BeginsOnTime
<1>7. ASSUME NEW s \in Clocks(tree), OnTime(tree, stack[1], s, clock)
      PROVE  Awaiting(tree, After, s, ch, clock)
  <2>1. OnTime(tree, After, s, Advanced(tree, clock, who, sub_steps (.) sub_dt))
    BY <1>1, <1>2, <1>7, CallerTimed
  <2> QED BY <1>5, <2>1 DEF Awaiting
<1> HIDE DEF f, After
<1>8. Timely(tree, <<ch, After>> \o Tail(stack), clock, dt, steps, Stopped(tree))
  BY <1>1, <1>2, <1>3, <1>4, <1>6, <1>7, ClockPushed
<1> QED BY <1>1, <1>3, <1>8 DEF OnClock

\* Moving the field aside and back.
LEMMA FieldTimed ==
  ASSUME TypeOK, OnClock, phase = "forward", PrepareFg \/ RestoreField
  PROVE  OnClock'
<1>1. /\ stack # <<>> /\ ~Done /\ call.fg /\ phase' = phase /\ clock' = clock
      /\ tree' = tree /\ dt' = dt /\ steps' = steps
  BY DEF PrepareFg, RestoreField, Run, args
<1>2. /\ tree \in Trees /\ f = stack[1] /\ f \in FrameOf(tree) /\ stack \in Seq(FrameOf(tree))
      /\ f.j \in 1..CallsOf(tree, f) /\ call = CallOf(tree, f) /\ gauge \in Num
  BY <1>1, FrameFacts, NotDoneFacts DEF TypeOK, Cur, State
<1>3. clock \in Clocks(tree) /\ steps # 0
      /\ Timely(tree, stack, clock, dt, steps, Stopped(tree))
  BY DEF OnClock
<1>4. \E gr \in FrameOf(tree) :
        /\ stack' = <<gr>> \o Tail(stack) /\ Same(gr, f)
        /\ \/ f.at = "call" /\ gr.j = f.j /\ gr.at = "moved"
           \/ f.at = "back" /\ gr.j = f.j + 1 /\ gr.at = "call"
  <2>1. CASE PrepareFg
    <3> DEFINE gr == [f EXCEPT !.saved = gauge, !.at = "moved"]
    <3>1. stack' = <<gr>> \o Tail(stack) /\ f.at = "call"
      BY <2>1 DEF PrepareFg
    <3> HIDE DEF f
    <3>2. gr \in FrameOf(tree) /\ Same(gr, f) /\ gr.j = f.j /\ gr.at = "moved"
      BY <1>2 DEF FrameOf, Same
    <3> HIDE DEF gr
    <3> QED BY <3>1, <3>2
  <2>2. CASE RestoreField
    <3> DEFINE gr == [f EXCEPT !.saved = NoField, !.at = "call", !.j = @ + 1]
               g1 == [f EXCEPT !.saved = NoField, !.at = "call"]
    <3>1. stack' = <<gr>> \o Tail(stack) /\ f.at = "back"
      BY <2>2 DEF RestoreField
    <3> HIDE DEF f
    <3>2. g1 \in FrameOf(tree) /\ Same(g1, f) /\ g1.j = f.j /\ g1.at = "call"
      BY <1>2 DEF FrameOf, Same
    <3>3. gr = [g1 EXCEPT !.j = f.j + 1] /\ f.j + 1 \in Nat \ {0}
      BY <1>2 DEF FrameOf
    <3> HIDE DEF g1, gr
    <3>4. gr \in FrameOf(tree) /\ Same(gr, f) /\ gr.j = f.j + 1 /\ gr.at = "call"
      BY <3>2, <3>3 DEF FrameOf, Same
    <3> QED BY <3>1, <3>4
  <2> QED BY <2>1, <2>2
<1>5. PICK gr \in FrameOf(tree) :
        /\ stack' = <<gr>> \o Tail(stack) /\ Same(gr, f)
        /\ \/ f.at = "call" /\ gr.j = f.j /\ gr.at = "moved"
           \/ f.at = "back" /\ gr.j = f.j + 1 /\ gr.at = "call"
  BY <1>4
<1> HIDE DEF f
<1>6. ASSUME NEW s \in Clocks(tree), OnTime(tree, stack[1], s, clock)
      PROVE  OnTime(tree, gr, s, clock)
  <2>1. OnTime(tree, f, s, clock) /\ f.j <= CallsOf(tree, f) /\ CallOf(tree, f).fg
    <3>1. CallsOf(tree, f) \in Nat
      BY <1>2, CallFacts DEF CallsOf, FrameOf
    <3> QED BY <1>1, <1>2, <1>6, <3>1
  <2> QED BY <1>2, <1>5, <2>1, MovedTimed
<1>7. Timely(tree, <<gr>> \o Tail(stack), clock, dt, steps, Stopped(tree))
  <2>1. Same(gr, stack[1])
    BY <1>2, <1>5
  <2> QED BY <1>1, <1>2, <1>3, <1>6, <2>1, ClockReplaced
<1> QED BY <1>1, <1>3, <1>5, <1>7 DEF OnClock

LEMMA ReturnTimed ==
  ASSUME TypeOK, OnClock, phase = "forward", Return
  PROVE  OnClock'
<1>1. /\ stack # <<>> /\ Done /\ stack' = Tail(stack) /\ phase' = phase /\ clock' = clock
      /\ tree' = tree /\ dt' = dt /\ steps' = steps
  BY DEF Return, args
<1>2. /\ tree \in Trees /\ stack \in Seq(FrameOf(tree))
      /\ stack[1].j > CallsOf(tree, stack[1])
  <2>1. f = stack[1] /\ f.j > CallsOf(tree, f)
    BY <1>1, FrameFacts
  <2> QED BY <2>1 DEF TypeOK
<1>3. clock \in Clocks(tree) /\ steps # 0
      /\ Timely(tree, stack, clock, dt, steps, Stopped(tree))
  BY DEF OnClock
<1>4. Timely(tree, Tail(stack), clock, dt, steps, Stopped(tree))
  BY <1>1, <1>2, <1>3, ClockPopped
<1> QED BY <1>1, <1>3, <1>4 DEF OnClock

LEMMA StoppedTyped ==
  ASSUME NEW t
  PROVE  Stopped(t) \in Clocks(t)
BY NumInts DEF Stopped, Clocks

LEMMA StepOnClock ==
  ASSUME IInv, OnClock, [Next]_vars
  PROVE  OnClock'
<1>1. TypeOK /\ Trip
  BY DEF IInv
<1>2. CASE EvolveMomentum \/ EvolveAction \/ EvolveAB \/ PrepareFg \/ RestoreField \/ Return
  <2>1. stack # <<>> /\ phase' = phase /\ steps' = steps
    BY <1>2 DEF EvolveMomentum, EvolveAction, EvolveAB, PrepareFg, RestoreField, Return,
                Run, args
  <2>2. CASE phase = "forward"
    BY <1>1, <1>2, <2>2, LeafTimed, NodeTimed, FieldTimed, ReturnTimed
  <2>3. CASE phase # "forward"
    <3>1. phase # "start"
      BY <1>1, <2>1 DEF Trip
    <3> QED BY <2>1, <2>3, <3>1 DEF OnClock
  <2> QED BY <2>2, <2>3
<1>3. CASE Evolve
  <2>1. /\ phase = "start" /\ phase' = "forward" /\ stack' = <<Frame("top", dt, steps)>>
        /\ tree' = tree /\ dt' = dt /\ steps' = steps /\ clock' = clock
    BY <1>3 DEF Evolve, args
  <2>2. /\ clock = Stopped(tree) /\ steps \in Nat \ {0} /\ tree \in Trees /\ dt \in Num
        /\ clock \in Clocks(tree)
    BY <1>1, <2>1, StoppedTyped DEF OnClock, TypeOK
  <2>3. Timely(tree, <<Frame("top", dt, steps)>>, clock, dt, steps, clock)
    BY <2>2, ClockBegun
  <2> QED BY <2>1, <2>2, <2>3 DEF OnClock
<1>4. CASE Reverse \/ Finish
  <2>1. phase' \in {"back", "done"} /\ steps' = steps
    BY <1>4 DEF Reverse, Finish, args
  <2> QED BY <2>1 DEF OnClock
<1>5. CASE UNCHANGED vars
  BY <1>5 DEF vars, OnClock
<1> QED BY <1>2, <1>3, <1>4, <1>5 DEF Next

\* The clock is right in every state of every trajectory.
THEOREM ClockRight == Spec => []OnClock
<1>1. Init => OnClock
  <2> SUFFICES ASSUME Init PROVE OnClock
    OBVIOUS
  <2>1. steps \in stepss /\ phase = "start" /\ clock = [n \in DOMAIN tree |-> 0]
    BY DEF Init
  <2>2. steps # 0
    BY <2>1, IntegratorAssumption
  <2> QED BY <2>1, <2>2 DEF OnClock, Stopped
<1>2. IInv /\ OnClock /\ [Next]_vars => OnClock'
  BY StepOnClock
<1> QED BY <1>1, <1>2, Trips, PTL DEF Spec

\* For every tree of integrators, every choice of schemes, coefficients and
\* numbers of inner steps, every momentum and every action has evolved by exactly
\* steps * dt when evolve() of the root returns.
THEOREM AllFullTime == Spec => []FullTime
<1>1. IInv /\ OnClock => FullTime
  <2> SUFFICES ASSUME IInv, OnClock, phase = "forward", stack = <<>>,
                      NEW n \in DOMAIN tree, tree[n].type \in {"MOM", "ACTION"}
               PROVE  clock[n] = steps (.) dt
    BY DEF FullTime
  <2>1. tree \in Trees /\ dt \in Num /\ steps \in Nat
    BY DEF IInv, TypeOK
  <2>2. clock = Advanced(tree, Stopped(tree), "top", steps (.) dt)
    BY DEF OnClock, Timely
  <2>3. n \in Leaves(tree, "top")
    BY <2>1, TimesAssumption DEF AB
  <2>4. clock[n] = 0 (+) (steps (.) dt)
    BY <2>2, <2>3 DEF Advanced, Stopped
  <2>5. steps (.) dt \in Num
    <3>1. steps \in Int /\ dt \in Int
      BY <2>1, NumInts
    <3> QED BY <3>1, AlikeOps
  <2>6. 0 (+) (steps (.) dt) = steps (.) dt
    <3> DEFINE x == steps (.) dt
    <3> HIDE DEF x
    <3>1. x \in Num /\ x \in Int
      BY <2>5, NumInts DEF x
    <3>2. 0 (+) x = x
      <4>1. 0 + x = x
        BY <3>1
      <4> QED BY <3>1, <4>1, NumReduced DEF (+)
    <3> QED BY <3>2 DEF x
  <2> QED BY <2>4, <2>6
<1> QED BY <1>1, Trips, ClockRight, PTL
=============================================================================
