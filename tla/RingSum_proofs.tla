--------------------------- MODULE RingSum_proofs ---------------------------
(***************************************************************************)
(* The sums over a grid on every grid, with every origin and sequence of   *)
(* sums.  The invariant describes what a node in a ring holds by the       *)
(* number of places it has heard from; which message of a link is which by *)
(* counting the messages sent and received along it since the start of the *)
(* program; and which nodes must have begun a call for another one to have *)
(* come so far in it.  From it follow the bound on the messages under way  *)
(* and that every step is a step of GlobalSum: the sum is a barrier and    *)
(* has the same value, additions in the same order, on all partners.       *)
(***************************************************************************)
EXTENDS RingSum, FiniteSetTheorems, WellFoundedInduction, TLAPS

\* What the assumption says of the grid of this job.
LEMMA GridOfMachine ==
  ASSUME machine \in Machines
  PROVE  /\ ndir \in Nat \ {0}
         /\ \A i \in Dim : NP[i] \in Nat \ {0} /\ Origin[i] \in Int
<1> DEFINE p == machine.NP
           o == machine.Origin
<1>1. p \in Seq(Nat \ {0}) /\ Len(p) > 0 /\ o \in Seq(Int) /\ Len(o) = Len(p)
  BY MachineAssumption, Zenon
<1> HIDE DEF p, o
<1>2. /\ Len(p) \in Nat \ {0}
      /\ \A i \in 1..Len(p) : p[i] \in Nat \ {0} /\ o[i] \in Int
  BY <1>1
<1> QED BY <1>2 DEF ndir, Dim, NP, Origin, p, o

\* The remainder of a division by the number of nodes is a coordinate.
LEMMA CoorOfMod ==
  ASSUME machine \in Machines, NEW x \in Int, NEW i \in Dim
  PROVE  x % NP[i] \in Coor(i)
BY GridOfMachine DEF Coor, Dim

\* A set of naturals that is not empty has a smallest member.
LEMMA SmallestMember ==
  ASSUME NEW S \in SUBSET Nat, S # {}
  PROVE  \E j \in S : \A k \in S : j <= k
<1>1. \E j \in S : \A k \in S : <<k, j>> \notin OpToRel(<, Nat)
  BY NatLessThanWellFounded, WFMin, Zenon
<1>2. \A j, k \in Nat : <<k, j>> \notin OpToRel(<, Nat) => j <= k
  BY DEF OpToRel
<1> QED BY <1>1, <1>2

\* The dimension the loop visits next, if there is one, is split over nodes.
LEMMA NextDimSplit ==
  ASSUME machine \in Machines, NEW i \in 0..ndir, NEW along
  PROVE  \/ NextDim(i, along) = ndir + 1
         \/ NextDim(i, along) \in Dim /\ NP[NextDim(i, along)] > 1
<1> DEFINE more == {j \in (i + 1)..ndir : j \in along /\ NP[j] > 1}
<1>1. ndir \in Nat
  BY GridOfMachine
<1>2. CASE more = {}
  BY <1>2, Zenon DEF NextDim
<1>3. CASE more # {}
  <2>1. more \in SUBSET Nat
    BY <1>1
  <2>2. \E j \in more : \A k \in more : j <= k
    BY <1>3, <2>1, SmallestMember, Zenon
  <2>3. NextDim(i, along) = CHOOSE j \in more : \A k \in more : j <= k
    BY <1>3, Zenon DEF NextDim
  <2>4. NextDim(i, along) \in more
    BY <2>2, <2>3, Zenon
  <2> QED BY <1>1, <2>4 DEF Dim
<1> QED BY <1>2, <1>3

\* A coordinate counted from the origin is one of the ring.
LEMMA LogicalCoorInRing ==
  ASSUME machine \in Machines, NEW n \in Node, NEW i \in Dim
  PROVE  LogicalCoor(n, i) \in Coor(i)
<1>1. n[i] \in Int /\ NP[i] \in Int /\ Origin[i] \in Int
  BY GridOfMachine DEF Node, Nodes, NP, Dim, ndir
<1>2. n[i] - Origin[i] + NP[i] \in Int
  BY <1>1
<1> QED BY <1>2, CoorOfMod DEF LogicalCoor

\* A job keeps its grid, so the ranges of the loop variables do not change.
LEMMA SameGrid ==
  ASSUME UNCHANGED machine
  PROVE  Node' = Node /\ ndir' = ndir
BY DEF Node, ndir, NP

\* InRange after a step, in terms of the variables after it.
LEMMA NextInRange ==
  ASSUME UNCHANGED machine, NEW m,
         pc'[m] # "out" =>
           /\ dir'[m] \in Dim
           /\ coor'[m] \in Coor(dir'[m])
           /\ itmp'[m] \in 1..(NP[dir'[m]] - 1)
  PROVE  InRange(m)'
BY DEF InRange, Dim, ndir, NP, Coor

\* What the loop over dimensions leaves behind when it reaches dimension i.
LEMMA EnterDimTyped ==
  ASSUME TypeOK, UNCHANGED machine, NEW n \in Node, NEW i, NEW s,
         EnterDim(n, i, s), i = ndir + 1 \/ (i \in Dim /\ NP[i] > 1)
  PROVE  /\ pc' \in [Node -> {"out", "ring", "wait"}]
         /\ dir' \in [Node -> Nat] /\ itmp' \in [Node -> Nat]
         /\ coor' \in [Node -> Nat]
         /\ \A m \in Node : InRange(m)'
<1>0. /\ ndir \in Nat
      /\ \A j \in Dim : NP[j] \in Nat
  BY GridOfMachine DEF TypeOK
<1>1. /\ i \in Nat
      /\ dir' = [dir EXCEPT ![n] = i]
  BY <1>0 DEF EnterDim, Dim
<1>2. CASE i = ndir + 1
  <2>1. i > ndir
    BY <1>0, <1>2
  <2>2. pc' = [pc EXCEPT ![n] = "out"] /\ UNCHANGED <<itmp, coor>>
    BY <2>1 DEF EnterDim
  <2>3. ASSUME NEW m \in Node PROVE InRange(m)'
    <3>1. pc'[m] # "out" => m # n /\ InRange(m) /\ dir'[m] = dir[m] /\ pc'[m] = pc[m]
      BY <1>1, <2>2 DEF TypeOK
    <3> QED BY <2>2, <3>1, NextInRange DEF InRange
  <2> QED BY <1>1, <2>2, <2>3 DEF TypeOK
<1>3. CASE i \in Dim /\ NP[i] > 1
  <2>1. ~(i > ndir)
    BY <1>0, <1>1, <1>3 DEF Dim
  <2>2. /\ pc' = [pc EXCEPT ![n] = "ring"]
        /\ itmp' = [itmp EXCEPT ![n] = 1]
        /\ coor' = [coor EXCEPT ![n] = LogicalCoor(n, i)]
    BY <2>1 DEF EnterDim
  <2>3. LogicalCoor(n, i) \in Coor(i) /\ LogicalCoor(n, i) \in Nat
    BY <1>3, LogicalCoorInRing DEF Coor, TypeOK
  <2>4. 1 \in 1..(NP[i] - 1)
    BY <1>0, <1>3
  <2>5. ASSUME NEW m \in Node PROVE InRange(m)'
    <3>1. CASE m = n
      <4>1. dir'[m] = i /\ coor'[m] = LogicalCoor(n, i) /\ itmp'[m] = 1
        BY <1>1, <2>2, <3>1 DEF TypeOK
      <4> QED BY <1>3, <2>3, <2>4, <4>1, NextInRange
    <3>2. CASE m # n
      <4>1. /\ pc'[m] = pc[m] /\ dir'[m] = dir[m]
            /\ coor'[m] = coor[m] /\ itmp'[m] = itmp[m]
            /\ InRange(m)
        BY <1>1, <2>2, <3>2 DEF TypeOK
      <4> QED BY <4>1, NextInRange DEF InRange
    <3> QED BY <3>1, <3>2
  <2> QED BY <1>1, <2>2, <2>3, <2>5 DEF TypeOK
<1> QED BY <1>2, <1>3

\* Every step keeps the loop variables in range.
LEMMA TypeStep ==
  ASSUME TypeOK, [Next]_vars
  PROVE  TypeOK'
<1>0. /\ machine \in Machines
      /\ ndir \in Nat
      /\ \A j \in Dim : NP[j] \in Nat
  BY GridOfMachine DEF TypeOK
<1>1. ASSUME NEW n \in Node, Call(n) PROVE TypeOK'
  <2> DEFINE d == NextDim(0, machine.sums[calls[n] + 1])
  <2>1. d = ndir + 1 \/ (d \in Dim /\ NP[d] > 1)
    BY <1>0, NextDimSplit
  <2>2. EnterDim(n, d, Contribution(n, calls[n] + 1))
    BY <1>1 DEF Call
  <2>3. /\ calls' = [calls EXCEPT ![n] = @ + 1]
        /\ UNCHANGED <<machine, got, sent>>
    BY <1>1 DEF Call
  <2>4. calls' \in [Node -> Nat]
    BY <2>3 DEF TypeOK
  <2>5. /\ pc' \in [Node -> {"out", "ring", "wait"}]
        /\ dir' \in [Node -> Nat] /\ itmp' \in [Node -> Nat]
        /\ coor' \in [Node -> Nat]
        /\ \A m \in Node : InRange(m)'
    BY <2>1, <2>2, <2>3, EnterDimTyped
  <2> QED BY <2>3, <2>4, <2>5, SameGrid DEF TypeOK
<1>2. ASSUME NEW n \in Node, Start(n) PROVE TypeOK'
  <2>1. dir[n] \in Dim /\ coor[n] \in Nat
    BY <1>2 DEF Start, TypeOK, InRange
  <2>2. NextCoor(coor[n], dir[n]) \in Coor(dir[n])
    BY <1>0, <2>1, CoorOfMod DEF NextCoor
  <2>3. NextCoor(coor[n], dir[n]) \in Nat
    BY <2>2 DEF Coor
  <2>4. /\ pc' = [pc EXCEPT ![n] = "wait"]
        /\ coor' = [coor EXCEPT ![n] = NextCoor(coor[n], dir[n])]
        /\ got' = [got EXCEPT ![n] = FALSE]
        /\ \E b \in BOOLEAN : sent' = [sent EXCEPT ![n] = b]
        /\ pc[n] = "ring"
        /\ UNCHANGED <<machine, calls, dir, itmp>>
    BY <1>2 DEF Start
  <2>5. ASSUME NEW m \in Node PROVE InRange(m)'
    <3>1. pc'[m] # "out" => InRange(m) /\ pc[m] # "out"
      BY <2>4 DEF TypeOK
    <3>2. coor'[m] = IF m = n THEN NextCoor(coor[n], dir[n]) ELSE coor[m]
      BY <2>4 DEF TypeOK
    <3> QED BY <2>2, <2>4, <3>1, <3>2, NextInRange DEF InRange
  <2>6. /\ pc' \in [Node -> {"out", "ring", "wait"}]
        /\ coor' \in [Node -> Nat]
        /\ got' \in [Node -> BOOLEAN] /\ sent' \in [Node -> BOOLEAN]
    BY <2>3, <2>4 DEF TypeOK
  <2> QED BY <2>4, <2>5, <2>6, SameGrid DEF TypeOK
<1>3. ASSUME NEW n \in Node, Deliver(n) PROVE TypeOK'
  <2>1. UNCHANGED <<machine, pc, calls, dir, itmp, coor>>
    BY <1>3 DEF Deliver
  <2>2. got' \in [Node -> BOOLEAN]
    BY <1>3 DEF Deliver, TypeOK
  <2>3. sent' \in [Node -> BOOLEAN]
    BY <1>3 DEF Deliver, TypeOK
  <2>4. ASSUME NEW m \in Node PROVE InRange(m)'
    BY <2>1, NextInRange DEF TypeOK, InRange
  <2> QED BY <2>1, <2>2, <2>3, <2>4, SameGrid DEF TypeOK
<1>4. ASSUME NEW n \in Node, PassOn(n) PROVE TypeOK'
  <2>1. /\ pc' = [pc EXCEPT ![n] = "ring"]
        /\ itmp' = [itmp EXCEPT ![n] = @ + 1]
        /\ pc[n] = "wait" /\ itmp[n] + 1 < NP[dir[n]]
        /\ UNCHANGED <<machine, calls, dir, coor, got, sent>>
    BY <1>4 DEF PassOn
  <2>2. /\ dir[n] \in Dim /\ coor[n] \in Coor(dir[n])
        /\ itmp[n] \in 1..(NP[dir[n]] - 1)
    BY <2>1 DEF TypeOK, InRange
  <2>3. itmp[n] + 1 \in 1..(NP[dir[n]] - 1) /\ itmp[n] + 1 \in Nat
    BY <1>0, <2>1, <2>2
  <2>4. ASSUME NEW m \in Node PROVE InRange(m)'
    <3>1. pc'[m] # "out" => InRange(m) /\ pc[m] # "out"
      BY <2>1 DEF TypeOK
    <3>2. itmp'[m] = IF m = n THEN itmp[n] + 1 ELSE itmp[m]
      BY <2>1 DEF TypeOK
    <3> QED BY <2>1, <2>2, <2>3, <3>1, <3>2, NextInRange DEF InRange
  <2>5. pc' \in [Node -> {"out", "ring", "wait"}] /\ itmp' \in [Node -> Nat]
    BY <2>1, <2>3 DEF TypeOK
  <2> QED BY <2>1, <2>4, <2>5, SameGrid DEF TypeOK
<1>5. ASSUME NEW n \in Node, LeaveDim(n) PROVE TypeOK'
  <2> DEFINE d == NextDim(dir[n], machine.sums[calls[n]])
  <2>1. dir[n] \in 0..ndir
    BY <1>5, <1>0 DEF LeaveDim, TypeOK, InRange, Dim
  <2>2. d = ndir + 1 \/ (d \in Dim /\ NP[d] > 1)
    BY <1>0, <2>1, NextDimSplit
  <2>3. EnterDim(n, d, RingTotal(n))
    BY <1>5 DEF LeaveDim
  <2>4. UNCHANGED <<machine, calls, got, sent>>
    BY <1>5 DEF LeaveDim
  <2>5. /\ pc' \in [Node -> {"out", "ring", "wait"}]
        /\ dir' \in [Node -> Nat] /\ itmp' \in [Node -> Nat]
        /\ coor' \in [Node -> Nat]
        /\ \A m \in Node : InRange(m)'
    BY <2>2, <2>3, <2>4, EnterDimTyped
  <2> QED BY <2>4, <2>5, SameGrid DEF TypeOK
<1>6. CASE UNCHANGED vars
  <2>1. UNCHANGED <<machine, pc, calls, dir, itmp, coor, got, sent>>
    BY <1>6 DEF vars
  <2>2. ASSUME NEW m \in Node PROVE InRange(m)'
    BY <2>1, NextInRange DEF TypeOK, InRange
  <2> QED BY <2>1, <2>2, SameGrid DEF TypeOK
<1> QED BY <1>1, <1>2, <1>3, <1>4, <1>5, <1>6 DEF Next, NodeNext

\* On every grid, with every origin, every sequence of sums and any mixture of
\* sends, no node leaves the ring or the buffers of the dimension it is summing
\* over (TypeOK of RingSum).
THEOREM TypeCorrect == Spec => []TypeOK
<1>1. Init => TypeOK
  BY DEF Init, TypeOK, InRange
<1> QED BY <1>1, TypeStep, PTL DEF Spec

-----------------------------------------------------------------------------
(* Rings *)


\* A remainder, for numbers that are at most a turn outside the ring.
LEMMA SmallMod ==
  ASSUME NEW N \in Nat, N > 0, NEW a \in Int, 0 - N <= a, a < 3 * N
  PROVE  a % N = IF a < 0 THEN a + N
                 ELSE IF a < N THEN a
                 ELSE IF a < 2 * N THEN a - N ELSE a - 2 * N
OBVIOUS

\* The coordinate q places after c on a ring of N.
Turn(N, c, q) == IF c + q < N THEN c + q ELSE c + q - N

\* Going round a ring.
LEMMA TurnLaws ==
  ASSUME NEW N \in Nat, N > 0, NEW c \in 0..(N - 1), NEW q \in 0..(N - 1)
  PROVE  /\ Turn(N, c, q) \in 0..(N - 1)
         /\ Turn(N, c, 0) = c
         /\ q + 1 < N => Turn(N, Turn(N, c, 1), q) = Turn(N, c, q + 1)
         /\ Turn(N, Turn(N, c, 1), N - 1) = c
         /\ Turn(N, Turn(N, c, N - 1), 1) = c
         /\ \A p \in 0..(N - 1) : Turn(N, c, p) = Turn(N, c, q) => p = q
BY DEF Turn

\* Every place is reached by some number of steps.
LEMMA TurnOnto ==
  ASSUME NEW N \in Nat, N > 0, NEW c \in 0..(N - 1), NEW d \in 0..(N - 1)
  PROVE  \E q \in 0..(N - 1) : Turn(N, c, q) = d
<1> DEFINE p == IF c <= d THEN d - c ELSE d - c + N
<1>1. p \in 0..(N - 1) /\ Turn(N, c, p) = d
  BY DEF Turn
<1> QED BY <1>1

\* One step more.
LEMMA TurnOn ==
  ASSUME NEW N \in Nat, N > 0, NEW c \in 0..(N - 1), NEW q \in 0..(N - 1),
         q + 1 < N
  PROVE  Turn(N, Turn(N, c, q), 1) = Turn(N, c, q + 1)
BY DEF Turn

\* Counting from an origin goes round the ring in the same order.
LEMMA TurnFromOrigin ==
  ASSUME NEW N \in Nat, N > 0, NEW x \in 0..(N - 1), NEW o \in (1 - N)..(N - 1)
  PROVE  /\ (x - o) % N \in 0..(N - 1)
         /\ (x - o + N) % N = (x - o) % N
         /\ (Turn(N, x, 1) - o) % N = Turn(N, (x - o) % N, 1)
         /\ (x + 1) % N = Turn(N, x, 1)
         /\ (x - 1 + N) % N = Turn(N, x, N - 1)
<1> DEFINE y == Turn(N, x, 1)
<1>1. y \in 0..(N - 1) /\ (y = x + 1 \/ (y = 0 /\ x = N - 1))
  BY DEF Turn
<1>2. (x - o) % N = IF x - o < 0 THEN x - o + N ELSE IF x - o < N THEN x - o ELSE x - o - N
  BY SmallMod
<1> HIDE DEF y
<1>3. (y - o) % N = IF y - o < 0 THEN y - o + N ELSE IF y - o < N THEN y - o ELSE y - o - N
  BY SmallMod, <1>1
<1>4. (x - o + N) % N = IF x - o + N < N THEN x - o + N ELSE IF x - o + N < 2 * N THEN x - o ELSE x - o - N
  BY SmallMod
<1>5. (x + 1) % N = Turn(N, x, 1)
  BY SmallMod DEF Turn
<1>6. (x - 1 + N) % N = Turn(N, x, N - 1)
  BY SmallMod DEF Turn
<1>7. (y - o) % N = Turn(N, (x - o) % N, 1)
  BY <1>1, <1>2, <1>3 DEF Turn
<1> QED BY <1>2, <1>4, <1>5, <1>6, <1>7 DEF y

-----------------------------------------------------------------------------
(* The grid *)

Dims(mc) == 1..Len(mc.NP)

\* What the assumption says of a grid and its program.
LEMMA GridFacts ==
  ASSUME NEW mc \in Machines
  PROVE  /\ Len(mc.NP) \in Nat \ {0} /\ Len(mc.sums) \in Nat
         /\ \A i \in Dims(mc) : /\ mc.NP[i] \in Nat /\ mc.NP[i] > 0
                                /\ mc.Origin[i] \in (1 - mc.NP[i])..(mc.NP[i] - 1)
         /\ \A k \in 1..Len(mc.sums) : mc.sums[k] \in SUBSET Dims(mc)
<1> DEFINE p == mc.NP
           o == mc.Origin
           s == mc.sums
<1>1. /\ p \in Seq(Nat \ {0}) /\ Len(p) > 0 /\ o \in Seq(Int) /\ Len(o) = Len(p)
      /\ \A i \in 1..Len(p) : o[i] \in (1 - p[i])..(p[i] - 1)
      /\ s \in Seq(SUBSET (1..Len(p)))
  BY MachineAssumption, Zenon
<1> HIDE DEF p, o, s
<1>2. /\ Len(p) \in Nat \ {0} /\ Len(s) \in Nat
      /\ \A i \in 1..Len(p) : p[i] \in Nat \ {0}
      /\ \A k \in 1..Len(s) : s[k] \in SUBSET (1..Len(p))
  <2>1. Len(p) \in Nat \ {0} /\ \A i \in 1..Len(p) : p[i] \in Nat \ {0}
    BY <1>1
  <2>2. ASSUME NEW D, s \in Seq(SUBSET D)
        PROVE  Len(s) \in Nat /\ \A k \in 1..Len(s) : s[k] \in SUBSET D
    BY <2>2
  <2> QED BY <1>1, <2>1, <2>2
<1>3. \A i \in 1..Len(p) : p[i] \in Nat /\ p[i] > 0
  BY <1>2
<1> QED BY <1>1, <1>2, <1>3, Zenon DEF p, o, s, Dims

\* Nodes are their coordinates.
LEMMA NodeFacts ==
  ASSUME NEW mc \in Machines
  PROVE  /\ \A n \in Nodes[mc] : /\ DOMAIN n = Dims(mc)
                                 /\ n = [j \in Dims(mc) |-> n[j]]
                                 /\ \A i \in Dims(mc) : n[i] \in 0..(mc.NP[i] - 1)
         /\ \A n : /\ n = [j \in Dims(mc) |-> n[j]]
                   /\ \A i \in Dims(mc) : n[i] \in 0..(mc.NP[i] - 1)
                   => n \in Nodes[mc]
<1> DEFINE all == UNION {0..(mc.NP[i] - 1) : i \in 1..Len(mc.NP)}
<1>1. Nodes[mc] = {n \in [1..Len(mc.NP) -> all] :
                     \A i \in 1..Len(mc.NP) : n[i] \in 0..(mc.NP[i] - 1)}
  BY Zenon DEF Nodes
<1>2. ASSUME NEW n, n = [j \in Dims(mc) |-> n[j]],
             \A i \in Dims(mc) : n[i] \in 0..(mc.NP[i] - 1)
      PROVE  n \in Nodes[mc]
  <2>1. \A i \in Dims(mc) : n[i] \in all
    BY <1>2, Zenon DEF Dims
  <2>2. n \in [Dims(mc) -> all]
    <3> HIDE DEF all
    <3> QED BY <1>2, <2>1, Zenon
  <2> QED BY <1>1, <1>2, <2>2 DEF Dims
<1>3. ASSUME NEW n \in Nodes[mc]
      PROVE  /\ DOMAIN n = Dims(mc) /\ n = [j \in Dims(mc) |-> n[j]]
             /\ \A i \in Dims(mc) : n[i] \in 0..(mc.NP[i] - 1)
  <2> HIDE DEF all
  <2> QED BY <1>1 DEF Dims
<1> QED BY <1>2, <1>3, Zenon

\* Node n with its coordinate along i turned by q.
Ahead(mc, i, n, q) == [n EXCEPT ![i] = Turn(mc.NP[i], n[i], q)]

\* The node some places ahead on a ring.
LEMMA AheadNode ==
  ASSUME NEW mc \in Machines, NEW i \in Dims(mc), NEW n \in Nodes[mc],
         NEW q \in 0..(mc.NP[i] - 1)
  PROVE  /\ Ahead(mc, i, n, q) \in Nodes[mc]
         /\ Ahead(mc, i, n, q)[i] = Turn(mc.NP[i], n[i], q)
         /\ \A j \in Dims(mc) : j # i => Ahead(mc, i, n, q)[j] = n[j]
<1> DEFINE c == Turn(mc.NP[i], n[i], q)
           m == [n EXCEPT ![i] = c]
<1>1. c \in 0..(mc.NP[i] - 1)
  BY GridFacts, NodeFacts, TurnLaws
<1>2. DOMAIN n = Dims(mc) /\ \A j \in Dims(mc) : n[j] \in 0..(mc.NP[j] - 1)
  BY NodeFacts
<1> HIDE DEF c
<1>3. m = [j \in Dims(mc) |-> m[j]] /\ m[i] = c
      /\ \A j \in Dims(mc) : j # i => m[j] = n[j]
  BY <1>2
<1>4. \A j \in Dims(mc) : m[j] \in 0..(mc.NP[j] - 1)
  BY <1>1, <1>2, <1>3, Zenon
<1>5. m \in Nodes[mc]
  <2> HIDE DEF m
  <2> QED BY <1>3, <1>4, NodeFacts
<1> QED BY <1>3, <1>5, Zenon DEF Ahead, c

\* Two nodes with the same coordinates are one.
LEMMA SameNode ==
  ASSUME NEW mc \in Machines, NEW n \in Nodes[mc], NEW m \in Nodes[mc],
         \A j \in Dims(mc) : n[j] = m[j]
  PROVE  n = m
<1>1. n = [j \in Dims(mc) |-> n[j]] /\ m = [j \in Dims(mc) |-> m[j]]
  BY NodeFacts
<1> QED BY <1>1, Zenon

\* Nodes that differ in one coordinate at most are on one ring.
LEMMA AheadOnto ==
  ASSUME NEW mc \in Machines, NEW i \in Dims(mc),
         NEW n \in Nodes[mc], NEW m \in Nodes[mc],
         \A j \in Dims(mc) : j # i => m[j] = n[j]
  PROVE  \E q \in 0..(mc.NP[i] - 1) : Ahead(mc, i, n, q) = m
<1>1. /\ mc.NP[i] \in Nat /\ mc.NP[i] > 0
      /\ n[i] \in 0..(mc.NP[i] - 1) /\ m[i] \in 0..(mc.NP[i] - 1)
  BY GridFacts, NodeFacts
<1>3. PICK q \in 0..(mc.NP[i] - 1) : Turn(mc.NP[i], n[i], q) = m[i]
  BY <1>1, TurnOnto
<1>4. Ahead(mc, i, n, q) \in Nodes[mc]
      /\ \A j \in Dims(mc) : Ahead(mc, i, n, q)[j] = m[j]
  BY <1>3, AheadNode
<1> QED BY <1>4, SameNode, Zenon

\* Going round a ring of nodes.
LEMMA AheadLaws ==
  ASSUME NEW mc \in Machines, NEW i \in Dims(mc), NEW n \in Nodes[mc],
         NEW q \in 0..(mc.NP[i] - 1)
  PROVE  /\ Ahead(mc, i, n, 0) = n
         /\ mc.NP[i] > 1 /\ q + 1 < mc.NP[i] =>
              Ahead(mc, i, Ahead(mc, i, n, 1), q) = Ahead(mc, i, n, q + 1)
         /\ mc.NP[i] > 1 =>
              Ahead(mc, i, Ahead(mc, i, n, 1), mc.NP[i] - 1) = n
         /\ mc.NP[i] > 1 =>
              Ahead(mc, i, Ahead(mc, i, n, mc.NP[i] - 1), 1) = n
<1> DEFINE N == mc.NP[i]
           c == n[i]
<1>1. N \in Nat /\ N > 0 /\ c \in 0..(N - 1) /\ q \in 0..(N - 1)
  BY GridFacts, NodeFacts
<1>2. DOMAIN n = Dims(mc) /\ n = [j \in Dims(mc) |-> n[j]]
  BY NodeFacts
<1>3. \A d : [n EXCEPT ![i] = d][i] = d
             /\ \A e : [[n EXCEPT ![i] = d] EXCEPT ![i] = e] = [n EXCEPT ![i] = e]
  BY <1>2
<1>4. [n EXCEPT ![i] = c] = n
  BY <1>2
<1> HIDE DEF N, c
<1>5. /\ Turn(N, c, 0) = c
      /\ q + 1 < N => Turn(N, Turn(N, c, 1), q) = Turn(N, c, q + 1)
      /\ Turn(N, Turn(N, c, 1), N - 1) = c
      /\ Turn(N, Turn(N, c, N - 1), 1) = c
  BY <1>1, TurnLaws
<1>6. Ahead(mc, i, n, 0) = n
  BY <1>4, <1>5, Zenon DEF Ahead, N, c
<1>7. \A d, e : Ahead(mc, i, Ahead(mc, i, n, d), e)
                  = [n EXCEPT ![i] = Turn(N, Turn(N, c, d), e)]
  BY <1>3, Zenon DEF Ahead, N, c
<1>8. q + 1 < N => Ahead(mc, i, Ahead(mc, i, n, 1), q) = Ahead(mc, i, n, q + 1)
  BY <1>5, <1>7, Zenon DEF Ahead, N, c
<1>9. Ahead(mc, i, Ahead(mc, i, n, 1), N - 1) = n
  <2>1. Turn(N, Turn(N, c, 1), N - 1) = c
    BY <1>5
  <2>2. Ahead(mc, i, Ahead(mc, i, n, 1), N - 1)
          = [n EXCEPT ![i] = Turn(N, Turn(N, c, 1), N - 1)]
    BY <1>7
  <2> QED BY <1>4, <2>1, <2>2
<1>10. Ahead(mc, i, Ahead(mc, i, n, N - 1), 1) = n
  <2>1. Turn(N, Turn(N, c, N - 1), 1) = c
    BY <1>5
  <2>2. Ahead(mc, i, Ahead(mc, i, n, N - 1), 1)
          = [n EXCEPT ![i] = Turn(N, Turn(N, c, N - 1), 1)]
    BY <1>7
  <2> QED BY <1>4, <2>1, <2>2
<1> QED BY <1>6, <1>8, <1>9, <1>10, Zenon DEF N

\* The node whose data node n holds.
HomeOf(mc, n) == [j \in Dims(mc) |-> (n[j] - mc.Origin[j]) % mc.NP[j]]

\* The data of a node belonged to a node of the grid.
LEMMA HomeNode ==
  ASSUME NEW mc \in Machines, NEW n \in Nodes[mc]
  PROVE  HomeOf(mc, n) \in Nodes[mc]
<1>1. \A j \in Dims(mc) : (n[j] - mc.Origin[j]) % mc.NP[j] \in 0..(mc.NP[j] - 1)
  BY GridFacts, NodeFacts, TurnFromOrigin
<1>2. HomeOf(mc, n) = [j \in Dims(mc) |-> HomeOf(mc, n)[j]]
      /\ \A j \in Dims(mc) : HomeOf(mc, n)[j] \in 0..(mc.NP[j] - 1)
  BY <1>1, Zenon DEF HomeOf
<1> QED BY <1>2, NodeFacts

\* The data of the next node are those of the next node.
LEMMA HomeAhead ==
  ASSUME NEW mc \in Machines, NEW n \in Nodes[mc], NEW i \in Dims(mc),
         mc.NP[i] > 1
  PROVE  HomeOf(mc, Ahead(mc, i, n, 1)) = Ahead(mc, i, HomeOf(mc, n), 1)
<1>0. 1 \in 0..(mc.NP[i] - 1)
  BY GridFacts
<1>1. /\ HomeOf(mc, n) \in Nodes[mc] /\ Ahead(mc, i, n, 1) \in Nodes[mc]
  BY <1>0, HomeNode, AheadNode
<1>2. /\ HomeOf(mc, Ahead(mc, i, n, 1)) \in Nodes[mc]
      /\ Ahead(mc, i, HomeOf(mc, n), 1) \in Nodes[mc]
  BY <1>0, <1>1, HomeNode, AheadNode
<1>3. ASSUME NEW j \in Dims(mc)
      PROVE  HomeOf(mc, Ahead(mc, i, n, 1))[j] = Ahead(mc, i, HomeOf(mc, n), 1)[j]
  <2>1. \A m : HomeOf(mc, m)[j] = (m[j] - mc.Origin[j]) % mc.NP[j]
    BY DEF HomeOf
  <2>2. CASE j # i
    BY <1>0, <1>1, <2>1, <2>2, AheadNode
  <2>3. CASE j = i
    <3>1. (Turn(mc.NP[i], n[i], 1) - mc.Origin[i]) % mc.NP[i]
            = Turn(mc.NP[i], (n[i] - mc.Origin[i]) % mc.NP[i], 1)
      BY GridFacts, NodeFacts, TurnFromOrigin
    <3>2. Ahead(mc, i, n, 1)[i] = Turn(mc.NP[i], n[i], 1)
      BY <1>0, AheadNode
    <3>3. Ahead(mc, i, HomeOf(mc, n), 1)[i] = Turn(mc.NP[i], HomeOf(mc, n)[i], 1)
      BY <1>0, <1>1, AheadNode
    <3> QED BY <2>1, <2>3, <3>1, <3>2, <3>3
  <2> QED BY <2>2, <2>3
<1> QED BY <1>2, <1>3, SameNode, Zenon

\* The neighbours and the coordinates of RingSum.
LEMMA Neighbours ==
  ASSUME machine \in Machines, NEW n \in Node, NEW i \in Dim
  PROVE  /\ Dim = Dims(machine) /\ Node = Nodes[machine] /\ NP = machine.NP
         /\ Plus(n, i) = Ahead(machine, i, n, 1)
         /\ Minus(n, i) = Ahead(machine, i, n, machine.NP[i] - 1)
         /\ Home(n) = HomeOf(machine, n)
         /\ LogicalCoor(n, i) = HomeOf(machine, n)[i]
         /\ \A c \in 0..(machine.NP[i] - 1) :
              NextCoor(c, i) = Turn(machine.NP[i], c, 1)
<1>1. Dim = Dims(machine) /\ Node = Nodes[machine] /\ NP = machine.NP
      /\ Origin = machine.Origin
  BY DEF Dim, ndir, NP, Dims, Node, Origin
<1>2. /\ machine.NP[i] \in Nat /\ machine.NP[i] > 0
      /\ machine.Origin[i] \in (1 - machine.NP[i])..(machine.NP[i] - 1)
      /\ n[i] \in 0..(machine.NP[i] - 1)
  BY <1>1, GridFacts, NodeFacts
<1>3. /\ (n[i] - machine.Origin[i] + machine.NP[i]) % machine.NP[i]
            = (n[i] - machine.Origin[i]) % machine.NP[i]
      /\ \A c \in 0..(machine.NP[i] - 1) :
           (c + 1) % machine.NP[i] = Turn(machine.NP[i], c, 1)
      /\ (n[i] - 1 + machine.NP[i]) % machine.NP[i]
            = Turn(machine.NP[i], n[i], machine.NP[i] - 1)
  BY <1>2, TurnFromOrigin
<1>4. Plus(n, i) = Ahead(machine, i, n, 1)
  BY <1>1, <1>2, <1>3, Zenon DEF Plus, Ahead
<1>5. Minus(n, i) = Ahead(machine, i, n, machine.NP[i] - 1)
  BY <1>1, <1>3, Zenon DEF Minus, Ahead
<1>6. Home(n) = HomeOf(machine, n)
  BY <1>1, Zenon DEF Home, HomeOf
<1>7. LogicalCoor(n, i) = HomeOf(machine, n)[i]
  BY <1>1, <1>3, Zenon DEF LogicalCoor, HomeOf
<1>8. \A c \in 0..(machine.NP[i] - 1) :
        NextCoor(c, i) = Turn(machine.NP[i], c, 1)
  BY <1>1, <1>3, Zenon DEF NextCoor
<1> QED BY <1>1, <1>4, <1>5, <1>6, <1>7, <1>8

-----------------------------------------------------------------------------
(* Messages and rings *)

\* Calls among the first k that sum over dimension i.
CallsAlong(mc, i, k) == {j \in 1..k : i \in mc.sums[j]}

\* Messages every node sends along dimension i in its first k calls.
Before(mc, i, k) == (mc.NP[i] - 1) * Cardinality(CallsAlong(mc, i, k))

\* The calls along a dimension can be counted.
LEMMA CallsAlongFinite ==
  ASSUME NEW mc, NEW i, NEW k \in Nat
  PROVE  /\ IsFiniteSet(CallsAlong(mc, i, k))
         /\ Cardinality(CallsAlong(mc, i, k)) \in Nat
<1>1. IsFiniteSet(1..k)
  BY FS_Interval
<1>2. CallsAlong(mc, i, k) \in SUBSET (1..k)
  BY DEF CallsAlong
<1>3. IsFiniteSet(CallsAlong(mc, i, k))
  BY <1>1, <1>2, FS_Subset
<1> QED BY <1>3, FS_CardinalityType

\* One call adds a ring, if it sums along i.
LEMMA OneMoreCall ==
  ASSUME NEW mc \in Machines, NEW i \in Dims(mc), NEW k \in Nat, k > 0
  PROVE  /\ Before(mc, i, k) \in Nat /\ Before(mc, i, k - 1) \in Nat
         /\ Before(mc, i, k) = Before(mc, i, k - 1)
                                 + IF i \in mc.sums[k] THEN mc.NP[i] - 1 ELSE 0
         /\ Before(mc, i, 0) = 0
<1> DEFINE A == CallsAlong(mc, i, k - 1)
           B == CallsAlong(mc, i, k)
           N == mc.NP[i]
<1>0. /\ Before(mc, i, k) = (N - 1) * Cardinality(B)
      /\ Before(mc, i, k - 1) = (N - 1) * Cardinality(A)
      /\ Before(mc, i, 0) = (N - 1) * Cardinality(CallsAlong(mc, i, 0))
  BY DEF Before
<1>1. N \in Nat /\ N > 0
  BY GridFacts
<1>2. /\ IsFiniteSet(A) /\ Cardinality(A) \in Nat
      /\ IsFiniteSet(B) /\ Cardinality(B) \in Nat
  BY CallsAlongFinite
<1>3. Before(mc, i, 0) = 0
  <2>1. CallsAlong(mc, i, 0) = {}
    BY DEF CallsAlong
  <2>2. Cardinality({}) = 0
    BY FS_EmptySet
  <2>3. (N - 1) * 0 = 0
    <3> HIDE DEF N
    <3> QED BY <1>1
  <2> QED BY <1>0, <2>1, <2>2, <2>3
<1>4. CASE i \in mc.sums[k]
  <2>1. B = A \cup {k} /\ k \notin A
    BY <1>4 DEF CallsAlong
  <2>2. Cardinality(B) = Cardinality(A) + 1
    BY <1>2, <2>1, FS_AddElement
  <2> HIDE DEF A, B, N
  <2>3. (N - 1) * Cardinality(B) = (N - 1) * Cardinality(A) + (N - 1)
    BY <1>1, <1>2, <2>2
  <2>4. (N - 1) * Cardinality(B) \in Nat /\ (N - 1) * Cardinality(A) \in Nat
    BY <1>1, <1>2
  <2>5. /\ Before(mc, i, k) = Before(mc, i, k - 1) + (N - 1)
        /\ Before(mc, i, k) \in Nat /\ Before(mc, i, k - 1) \in Nat
    BY <1>0, <2>3, <2>4
  <2> QED BY <1>3, <1>4, <2>5 DEF N
<1>5. CASE i \notin mc.sums[k]
  <2>1. B = A
    BY <1>5 DEF CallsAlong
  <2> HIDE DEF A, B, N
  <2>2. (N - 1) * Cardinality(A) \in Nat
    BY <1>1, <1>2
  <2>3. Before(mc, i, k) = Before(mc, i, k - 1)
    BY <1>0, <2>1
  <2>4. Before(mc, i, k) \in Nat
    BY <1>0, <2>2, <2>3
  <2> QED BY <1>3, <1>5, <2>3, <2>4
<1> QED BY <1>4, <1>5

\* Later calls do not lower the count.
LEMMA MoreCalls ==
  ASSUME NEW mc \in Machines, NEW i \in Dims(mc),
         NEW k \in Nat, NEW m \in Nat, k <= m
  PROVE  /\ Before(mc, i, k) \in Nat /\ Before(mc, i, m) \in Nat
         /\ Before(mc, i, k) <= Before(mc, i, m)
<1> DEFINE A == CallsAlong(mc, i, k)
           B == CallsAlong(mc, i, m)
           N == mc.NP[i]
<1>1. N \in Nat /\ N > 0
  BY GridFacts
<1>2. /\ IsFiniteSet(A) /\ Cardinality(A) \in Nat
      /\ IsFiniteSet(B) /\ Cardinality(B) \in Nat
  BY CallsAlongFinite
<1>3. A \in SUBSET B
  BY DEF CallsAlong
<1>4. Cardinality(A) <= Cardinality(B)
  BY <1>2, <1>3, FS_Subset
<1> DEFINE a == Cardinality(A)
           b == Cardinality(B)
<1> HIDE DEF A, B, N
<1>5. (N - 1) * a <= (N - 1) * b
  <2> HIDE DEF a, b
  <2>1. a \in Nat /\ b \in Nat /\ a <= b
    BY <1>2, <1>4 DEF a, b
  <2> QED BY <1>1, <2>1
<1>6. (N - 1) * a \in Nat /\ (N - 1) * b \in Nat
  BY <1>1, <1>2
<1> QED BY <1>5, <1>6 DEF Before, A, B, N

\* The number of a message tells the call and the round it was sent in.
LEMMA WhichRound ==
  ASSUME NEW mc \in Machines, NEW i \in Dims(mc),
         NEW k \in 1..Len(mc.sums), NEW r \in 1..(mc.NP[i] - 1),
         NEW m \in 1..Len(mc.sums), NEW s \in 1..(mc.NP[i] - 1),
         i \in mc.sums[k], i \in mc.sums[m],
         Before(mc, i, k - 1) + r = Before(mc, i, m - 1) + s
  PROVE  k = m /\ r = s
<1>1. /\ Len(mc.sums) \in Nat /\ mc.NP[i] \in Nat
      /\ k \in Nat /\ k > 0 /\ m \in Nat /\ m > 0
  BY GridFacts
<1>2. /\ Before(mc, i, k) = Before(mc, i, k - 1) + (mc.NP[i] - 1)
      /\ Before(mc, i, m) = Before(mc, i, m - 1) + (mc.NP[i] - 1)
      /\ Before(mc, i, k) \in Nat /\ Before(mc, i, k - 1) \in Nat
      /\ Before(mc, i, m) \in Nat /\ Before(mc, i, m - 1) \in Nat
  BY <1>1, OneMoreCall
<1> DEFINE x == Before(mc, i, k - 1)
           y == Before(mc, i, m - 1)
           N == mc.NP[i]
<1>6. x \in Nat /\ y \in Nat /\ N \in Nat /\ r \in 1..(N - 1) /\ s \in 1..(N - 1)
      /\ x + r = y + s
  BY <1>1, <1>2
<1>3. CASE k < m
  <2>1. k <= m - 1 /\ m - 1 \in Nat
    BY <1>1, <1>3
  <2>2. Before(mc, i, k) <= Before(mc, i, m - 1)
    BY <1>1, <2>1, MoreCalls
  <2>3. x + (N - 1) <= y
    BY <1>2, <2>2
  <2> HIDE DEF x, y, N
  <2> QED BY <1>6, <2>3
<1>4. CASE m < k
  <2>1. m <= k - 1 /\ k - 1 \in Nat
    BY <1>1, <1>4
  <2>2. Before(mc, i, m) <= Before(mc, i, k - 1)
    BY <1>1, <2>1, MoreCalls
  <2>3. y + (N - 1) <= x
    BY <1>2, <2>2
  <2> HIDE DEF x, y, N
  <2> QED BY <1>6, <2>3
<1>5. CASE k = m
  BY <1>1, <1>2, <1>5
<1> QED BY <1>1, <1>3, <1>4, <1>5

-----------------------------------------------------------------------------
(* The ordered sums *)

\* Dimension i is the innermost of call k along which terms t are added up.
Level(mc, k, t, i) ==
  [x \in Nodes[mc] |->
     IF i = 0 THEN <<k, x>>
     ELSE IF i \notin {j \in mc.sums[k] : mc.NP[j] > 1} THEN t[i - 1][x]
     ELSE [c \in 0..(mc.NP[i] - 1) |-> t[i - 1][[x EXCEPT ![i] = c]]]]

IsOrdered(mc, k, t, m) == t = [i \in 0..m |-> Level(mc, k, t, i)]

\* The recursion has a solution.
LEMMA OrderedExists ==
  ASSUME NEW mc, NEW k, NEW m \in Nat
  PROVE  \E t : IsOrdered(mc, k, t, m)
<1> DEFINE Bad == {j \in Nat : ~\E t : IsOrdered(mc, k, t, j)}
<1> SUFFICES ASSUME Bad # {} PROVE FALSE
  OBVIOUS
<1>1. PICK j \in Bad : \A l \in Bad : j <= l
  <2> HIDE DEF Bad
  <2>1. Bad \in SUBSET Nat
    BY DEF Bad
  <2> QED BY <2>1, SmallestMember
<1>2. CASE j = 0
  <2> DEFINE t == [i \in 0..0 |-> [x \in Nodes[mc] |-> <<k, x>>]]
  <2>1. \A i \in 0..0 : Level(mc, k, t, i) = [x \in Nodes[mc] |-> <<k, x>>]
    BY DEF Level
  <2>2. IsOrdered(mc, k, t, 0)
    BY <2>1, Zenon DEF IsOrdered
  <2> QED BY <1>1, <1>2, <2>2
<1>3. CASE j > 0
  <2>1. j - 1 \in Nat /\ j - 1 \notin Bad
    BY <1>1, <1>3
  <2>2. PICK t : IsOrdered(mc, k, t, j - 1)
    BY <2>1
  <2> DEFINE u == [i \in 0..j |-> Level(mc, k, t, i)]
  <2>3. \A i \in 0..(j - 1) : t[i] = Level(mc, k, t, i)
    BY <2>2, Zenon DEF IsOrdered
  <2>4. \A i \in 0..(j - 1) : u[i] = t[i]
    <3>1. \A i \in 0..(j - 1) : i \in 0..j
      BY <2>1
    <3> QED BY <2>3, <3>1, Zenon
  <2>5. ASSUME NEW i \in 0..j PROVE Level(mc, k, t, i) = Level(mc, k, u, i)
    <3>1. CASE i = 0
      BY <3>1, Zenon DEF Level
    <3>2. CASE i # 0
      <4>1. i - 1 \in 0..(j - 1)
        BY <3>2, <2>1
      <4>2. u[i - 1] = t[i - 1]
        BY <4>1, <2>4
      <4> HIDE DEF u
      <4> QED BY <4>2, Zenon DEF Level
    <3> QED BY <3>1, <3>2
  <2>6. u = [i \in 0..j |-> Level(mc, k, u, i)]
    <3>1. \A v : (\A i \in 0..j : Level(mc, k, t, i) = Level(mc, k, v, i))
                   => [i \in 0..j |-> Level(mc, k, t, i)] = [i \in 0..j |-> Level(mc, k, v, i)]
      OBVIOUS
    <3> QED BY <2>5, <3>1
  <2>7. IsOrdered(mc, k, u, j)
    <3> HIDE DEF u
    <3> QED BY <2>6 DEF IsOrdered
  <2> QED BY <1>1, <2>7
<1> QED BY <1>1, <1>2, <1>3

\* Ordered is that solution.
LEMMA OrderedLevels ==
  ASSUME NEW mc \in Machines, NEW k \in 1..Len(mc.sums), NEW i \in 0..Len(mc.NP)
  PROVE  Ordered[mc][k][i] = Level(mc, k, Ordered[mc][k], i)
<1> DEFINE o == Ordered[mc][k]
<1>1. o = CHOOSE t : t = [j \in 0..Len(mc.NP) |-> Level(mc, k, t, j)]
  BY Zenon DEF Ordered, Level
<1>2. Len(mc.NP) \in Nat
  BY GridFacts
<1>3. \E t : t = [j \in 0..Len(mc.NP) |-> Level(mc, k, t, j)]
  BY <1>2, OrderedExists, Zenon DEF IsOrdered
<1>4. o = [j \in 0..Len(mc.NP) |-> Level(mc, k, o, j)]
  <2> HIDE DEF o
  <2> QED BY <1>1, <1>3, Zenon
<1> HIDE DEF o
<1>5. o[i] = Level(mc, k, o, i)
  BY <1>4, Zenon
<1> QED BY <1>5, Zenon DEF o

Splits(mc, k, i) == i \in mc.sums[k] /\ mc.NP[i] > 1

\* What a node with the data of node h holds when call k comes to dimension i.
Held(mc, h, k, i) == Ordered[mc][k][i - 1][h]

\* What is held grows with every split dimension of the call.
LEMMA HeldLevels ==
  ASSUME NEW mc \in Machines, NEW k \in 1..Len(mc.sums),
         NEW i \in Dims(mc), NEW h \in Nodes[mc]
  PROVE  /\ Held(mc, h, k, 1) = <<k, h>>
         /\ ~Splits(mc, k, i) => Held(mc, h, k, i + 1) = Held(mc, h, k, i)
         /\ Splits(mc, k, i) =>
              Held(mc, h, k, i + 1)
                = [c \in 0..(mc.NP[i] - 1) |-> Held(mc, [h EXCEPT ![i] = c], k, i)]
<1>1. Len(mc.NP) \in Nat /\ Len(mc.NP) > 0
  BY GridFacts
<1>2. 0 \in 0..Len(mc.NP) /\ i \in 0..Len(mc.NP) /\ i # 0
      /\ (i + 1) - 1 = i /\ 1 - 1 = 0
  BY <1>1 DEF Dims
<1> DEFINE o == Ordered[mc][k]
<1>3. o[0] = Level(mc, k, o, 0) /\ o[i] = Level(mc, k, o, i)
  BY <1>2, OrderedLevels
<1> HIDE DEF o
<1>4. o[0][h] = <<k, h>>
  BY <1>3 DEF Level
<1>5. o[i][h] = IF Splits(mc, k, i)
                THEN [c \in 0..(mc.NP[i] - 1) |-> o[i - 1][[h EXCEPT ![i] = c]]]
                ELSE o[i - 1][h]
  <2>1. i \in {j \in mc.sums[k] : mc.NP[j] > 1} <=> Splits(mc, k, i)
    BY DEF Splits
  <2>2. Level(mc, k, o, i)[h] =
          IF i \notin {j \in mc.sums[k] : mc.NP[j] > 1} THEN o[i - 1][h]
          ELSE [c \in 0..(mc.NP[i] - 1) |-> o[i - 1][[h EXCEPT ![i] = c]]]
    BY <1>2, Zenon DEF Level
  <2> QED BY <1>3, <2>1, <2>2, Zenon
<1>6. \A j, x : Held(mc, x, k, j) = o[j - 1][x]
  BY Zenon DEF Held, o
<1>7. Held(mc, h, k, i + 1) = o[i][h]
  BY <1>2, <1>6
<1>8. Held(mc, h, k, 1) = o[0][h]
  BY <1>2, <1>6
<1>9. [c \in 0..(mc.NP[i] - 1) |-> Held(mc, [h EXCEPT ![i] = c], k, i)]
        = [c \in 0..(mc.NP[i] - 1) |-> o[i - 1][[h EXCEPT ![i] = c]]]
  BY Zenon DEF Held, o
<1>10. Held(mc, h, k, i) = o[i - 1][h]
  BY <1>6
<1> QED BY <1>4, <1>5, <1>7, <1>8, <1>9, <1>10, Zenon

\* A call passes dimensions over without adding anything.
LEMMA HeldSkips ==
  ASSUME NEW mc \in Machines, NEW k \in 1..Len(mc.sums), NEW h \in Nodes[mc],
         NEW i \in 1..(Len(mc.NP) + 1), NEW d \in i..(Len(mc.NP) + 1),
         \A j \in i..(d - 1) : ~Splits(mc, k, j)
  PROVE  Held(mc, h, k, d) = Held(mc, h, k, i)
<1>1. Len(mc.NP) \in Nat /\ Len(mc.NP) > 0
  BY GridFacts
<1> DEFINE Bad == {e \in Nat : e \in i..d /\ Held(mc, h, k, e) # Held(mc, h, k, i)}
<1> SUFFICES ASSUME Bad # {} PROVE FALSE
  BY <1>1
<1>2. PICK e \in Bad : \A l \in Bad : e <= l
  <2> HIDE DEF Bad
  <2>1. Bad \in SUBSET Nat
    BY DEF Bad
  <2> QED BY <2>1, SmallestMember
<1>3. e \in Nat /\ e \in i..d /\ Held(mc, h, k, e) # Held(mc, h, k, i)
  BY <1>2
<1>4. e # i
  BY <1>3
<1>5. /\ e - 1 \in Nat /\ e - 1 \in i..d /\ ~(e <= e - 1)
      /\ e - 1 \in i..(d - 1) /\ e - 1 \in 1..Len(mc.NP) /\ (e - 1) + 1 = e
  BY <1>1, <1>3, <1>4
<1>6. Held(mc, h, k, e - 1) = Held(mc, h, k, i)
  BY <1>2, <1>5
<1>7. Held(mc, h, k, (e - 1) + 1) = Held(mc, h, k, e - 1)
  BY <1>5, HeldLevels DEF Dims
<1> QED BY <1>3, <1>5, <1>6, <1>7

\* The loop goes on to the next dimension of the call that is split.
LEMMA NextDimNext ==
  ASSUME machine \in Machines, NEW k \in 1..Len(machine.sums), NEW i \in 0..ndir
  PROVE  LET d == NextDim(i, machine.sums[k]) IN
         /\ d \in (i + 1)..(ndir + 1)
         /\ \A j \in (i + 1)..(d - 1) : ~Splits(machine, k, j)
         /\ d <= ndir => d \in Dims(machine) /\ Splits(machine, k, d)
<1> DEFINE along == machine.sums[k]
           more == {j \in (i + 1)..ndir : j \in along /\ NP[j] > 1}
           d == NextDim(i, along)
<1>1. ndir \in Nat /\ ndir = Len(machine.NP) /\ NP = machine.NP
  BY GridFacts DEF ndir, NP
<1>2. \A j \in (i + 1)..ndir : j \in more <=> Splits(machine, k, j)
  BY <1>1 DEF Splits
<1>3. CASE more = {}
  <2>1. d = ndir + 1
    BY <1>3, Zenon DEF NextDim
  <2> HIDE DEF more, d
  <2>2. \A j \in (i + 1)..(d - 1) : j \in (i + 1)..ndir
    BY <1>1, <2>1
  <2>3. \A j \in (i + 1)..(d - 1) : ~Splits(machine, k, j)
    BY <1>2, <1>3, <2>2
  <2>4. d \in (i + 1)..(ndir + 1) /\ ~(d <= ndir)
    BY <1>1, <2>1
  <2> QED BY <2>3, <2>4 DEF d
<1>4. CASE more # {}
  <2>1. more \in SUBSET Nat
    BY <1>1
  <2>2. \E j \in more : \A l \in more : j <= l
    BY <1>4, <2>1, SmallestMember, Zenon
  <2>3. d = CHOOSE j \in more : \A l \in more : j <= l
    BY <1>4, Zenon DEF NextDim
  <2>4. d \in more /\ \A l \in more : d <= l
    BY <2>2, <2>3, Zenon
  <2>5. d \in (i + 1)..ndir
    BY <2>4
  <2> HIDE DEF more, d
  <2>6. \A j \in (i + 1)..(d - 1) : j \in (i + 1)..ndir /\ ~(d <= j)
    BY <1>1, <2>5
  <2>7. \A j \in (i + 1)..(d - 1) : ~Splits(machine, k, j)
    BY <1>2, <2>4, <2>6
  <2>8. d \in (i + 1)..(ndir + 1) /\ d \in Dims(machine)
    BY <1>1, <2>5 DEF Dims
  <2> QED BY <1>2, <2>4, <2>5, <2>7, <2>8 DEF d
<1> QED BY <1>3, <1>4

-----------------------------------------------------------------------------
(* What a node holds *)

Coors(mc) == UNION {0..(mc.NP[i] - 1) : i \in Dims(mc)}

\* A node in a ring, its data being those of node h: it has kept the numbers of
\* the nodes it has heard of, each by its coordinate, and passes on the one it
\* heard last.
RingOK(mc, h, a) ==
  LET i == a.dir
      k == a.call
      N == mc.NP[i]
  IN
  /\ k \in 1..Len(mc.sums) /\ i \in Dims(mc) /\ Splits(mc, k, i)
  /\ a.itmp \in 1..(N - 1)
  /\ a.coor = Turn(N, h[i], IF a.pc = "ring" THEN a.itmp - 1 ELSE a.itmp)
  /\ a.transmit = Held(mc, Ahead(mc, i, h, a.itmp - 1), k, i)
  /\ \A q \in 0..(a.itmp - 1) :
       a.gsum[Turn(N, h[i], q)] = Held(mc, Ahead(mc, i, h, q), k, i)
  /\ a.pc = "wait" /\ a.got =>
       a.receive = Held(mc, Ahead(mc, i, h, a.itmp), k, i)

NodeOK(mc, h, a) ==
  /\ a.pc \in {"out", "ring", "wait"}
  /\ a.call \in 0..Len(mc.sums)
  /\ a.got \in BOOLEAN /\ a.sent \in BOOLEAN
  /\ DOMAIN a.gsum = Coors(mc)
  /\ a.pc # "out" => RingOK(mc, h, a)

\* The coordinates of every ring are places of gsum_buf.
LEMMA CoorsFacts ==
  ASSUME NEW mc \in Machines, NEW i \in Dims(mc), NEW c \in 0..(mc.NP[i] - 1)
  PROVE  c \in Coors(mc)
BY Zenon DEF Coors

\* Numbers of a node in a ring.
LEMMA RingFacts ==
  ASSUME NEW mc \in Machines, NEW h \in Nodes[mc], NEW a, RingOK(mc, h, a)
  PROVE  /\ mc.NP[a.dir] \in Nat /\ mc.NP[a.dir] > 1
         /\ a.dir \in Dims(mc) /\ a.call \in 1..Len(mc.sums)
         /\ a.itmp \in 1..(mc.NP[a.dir] - 1)
         /\ h[a.dir] \in 0..(mc.NP[a.dir] - 1)
<1>1. a.dir \in Dims(mc) /\ a.call \in 1..Len(mc.sums) /\ mc.NP[a.dir] > 1
      /\ a.itmp \in 1..(mc.NP[a.dir] - 1)
  BY DEF RingOK, Splits
<1> QED BY <1>1, GridFacts, NodeFacts

\* The loop over dimensions comes to a dimension that is split.
LEMMA EnterOK ==
  ASSUME NEW mc \in Machines, NEW h \in Nodes[mc], NEW g, NEW b,
         DOMAIN g = Coors(mc),
         b.pc = "ring", b.call \in 1..Len(mc.sums), b.dir \in Dims(mc),
         Splits(mc, b.call, b.dir), b.itmp = 1, b.coor = h[b.dir],
         b.transmit = Held(mc, h, b.call, b.dir),
         b.gsum = [g EXCEPT ![h[b.dir]] = b.transmit],
         b.got \in BOOLEAN, b.sent \in BOOLEAN
  PROVE  NodeOK(mc, h, b)
<1> DEFINE N == mc.NP[b.dir]
           c == h[b.dir]
<1>1. N \in Nat /\ N > 1 /\ c \in 0..(N - 1)
  BY GridFacts, NodeFacts DEF Splits
<1>2. Turn(N, c, 0) = c
  BY <1>1 DEF Turn
<1>3. Ahead(mc, b.dir, h, 0) = h
  <2>1. 0 \in 0..(mc.NP[b.dir] - 1)
    BY <1>1
  <2> QED BY <2>1, AheadLaws
<1>4. c \in Coors(mc)
  BY <1>1, CoorsFacts
<1>5. DOMAIN b.gsum = Coors(mc) /\ b.gsum[c] = b.transmit
  BY <1>4
<1>6. b.itmp \in 1..(N - 1) /\ b.itmp - 1 = 0
  BY <1>1
<1>7. b.call \in 0..Len(mc.sums)
  BY GridFacts
<1> HIDE DEF N, c
<1>8. \A q \in 0..(b.itmp - 1) :
        b.gsum[Turn(N, c, q)] = Held(mc, Ahead(mc, b.dir, h, q), b.call, b.dir)
  <2>1. \A q \in 0..(b.itmp - 1) : q = 0
    BY <1>6
  <2> QED BY <1>2, <1>3, <1>5, <2>1
<1>9. b.coor = Turn(N, c, b.itmp - 1)
  BY <1>2, <1>6 DEF c
<1>10. b.transmit = Held(mc, Ahead(mc, b.dir, h, b.itmp - 1), b.call, b.dir)
  BY <1>3, <1>6
<1>11. RingOK(mc, h, b)
  BY <1>6, <1>8, <1>9, <1>10 DEF RingOK, N, c
<1> QED BY <1>5, <1>7, <1>11 DEF NodeOK

\* A send starts, and the coordinate moves on.
LEMMA StartOK ==
  ASSUME NEW mc \in Machines, NEW h \in Nodes[mc], NEW a, NEW b,
         NodeOK(mc, h, a), a.pc = "ring", b.pc = "wait",
         b.coor = Turn(mc.NP[a.dir], a.coor, 1), b.got = FALSE, b.sent \in BOOLEAN,
         b.call = a.call, b.dir = a.dir, b.itmp = a.itmp,
         b.transmit = a.transmit, b.gsum = a.gsum, b.receive = a.receive
  PROVE  NodeOK(mc, h, b)
<1>1. RingOK(mc, h, a)
  BY DEF NodeOK
<1> DEFINE N == mc.NP[a.dir]
           c == h[a.dir]
           r == a.itmp
<1>2. N \in Nat /\ N > 1 /\ c \in 0..(N - 1) /\ r \in 1..(N - 1)
  BY <1>1, RingFacts
<1>3. a.coor = Turn(N, c, r - 1)
  BY <1>1 DEF RingOK
<1>4. Turn(N, Turn(N, c, r - 1), 1) = Turn(N, c, r)
  <2> HIDE DEF N, c, r
  <2>1. r - 1 \in 0..(N - 1) /\ (r - 1) + 1 < N /\ (r - 1) + 1 = r /\ N > 0
    BY <1>2
  <2>2. Turn(N, Turn(N, c, r - 1), 1) = Turn(N, c, (r - 1) + 1)
    BY <1>2, <2>1, TurnOn
  <2> QED BY <2>1, <2>2
<1>5. b.coor = Turn(N, c, b.itmp)
  BY <1>3, <1>4
<1> HIDE DEF N, c, r
<1>6. RingOK(mc, h, b)
  BY <1>1, <1>5 DEF RingOK, N, c
<1> QED BY <1>6 DEF NodeOK

\* The number of the next node arrives.
LEMMA DeliverOK ==
  ASSUME NEW mc \in Machines, NEW h \in Nodes[mc], NEW a, NEW b,
         NodeOK(mc, h, a), a.pc = "wait", b.pc = "wait",
         b.receive = Held(mc, Ahead(mc, a.dir, h, a.itmp), a.call, a.dir),
         b.got = TRUE, b.sent \in BOOLEAN,
         b.coor = a.coor, b.call = a.call, b.dir = a.dir, b.itmp = a.itmp,
         b.transmit = a.transmit, b.gsum = a.gsum
  PROVE  NodeOK(mc, h, b)
<1>1. RingOK(mc, h, a)
  BY DEF NodeOK
<1>2. RingOK(mc, h, b)
  BY <1>1 DEF RingOK
<1> QED BY <1>2 DEF NodeOK

\* A send is completed.
LEMMA SentOK ==
  ASSUME NEW mc, NEW h, NEW a, NEW b,
         NodeOK(mc, h, a), b.sent \in BOOLEAN,
         b.pc = a.pc, b.coor = a.coor, b.call = a.call, b.dir = a.dir,
         b.itmp = a.itmp, b.transmit = a.transmit, b.gsum = a.gsum,
         b.receive = a.receive, b.got = a.got
  PROVE  NodeOK(mc, h, b)
BY DEF NodeOK, RingOK

\* All numbers up to the one just received, by coordinate.
Kept(a) == [a.gsum EXCEPT ![a.coor] = a.receive]

\* Storing it keeps every number at its coordinate.
LEMMA StoredFacts ==
  ASSUME NEW mc \in Machines, NEW h \in Nodes[mc], NEW a,
         NodeOK(mc, h, a), a.pc = "wait", a.got = TRUE
  PROVE  /\ DOMAIN Kept(a) = Coors(mc)
         /\ \A q \in 0..a.itmp :
              Kept(a)[Turn(mc.NP[a.dir], h[a.dir], q)]
                = Held(mc, Ahead(mc, a.dir, h, q), a.call, a.dir)
<1> DEFINE N == mc.NP[a.dir]
           c == h[a.dir]
           r == a.itmp
           g == Kept(a)
           V(q) == Held(mc, Ahead(mc, a.dir, h, q), a.call, a.dir)
<1>1. RingOK(mc, h, a) /\ DOMAIN a.gsum = Coors(mc)
  BY DEF NodeOK
<1>2. N \in Nat /\ N > 1 /\ c \in 0..(N - 1) /\ r \in 1..(N - 1) /\ a.dir \in Dims(mc)
  BY <1>1, RingFacts
<1>3. /\ a.coor = Turn(N, c, r) /\ a.receive = V(r)
      /\ \A q \in 0..(r - 1) : a.gsum[Turn(N, c, q)] = V(q)
  BY <1>1 DEF RingOK
<1>4. DOMAIN g = Coors(mc)
  BY <1>1 DEF Kept
<1>5. \A d \in Coors(mc) : g[d] = IF d = a.coor THEN a.receive ELSE a.gsum[d]
  BY <1>1 DEF Kept
<1> HIDE DEF N, c, r, g, V
<1>6. ASSUME NEW q \in 0..r PROVE g[Turn(N, c, q)] = V(q)
  <2>1. q \in 0..(N - 1) /\ r \in 0..(N - 1) /\ N > 0
    BY <1>2
  <2>2. Turn(N, c, q) \in 0..(N - 1) /\ (Turn(N, c, q) = Turn(N, c, r) => q = r)
    BY <1>2, <2>1, TurnLaws
  <2>3. Turn(N, c, q) \in Coors(mc)
    BY <1>2, <2>2, CoorsFacts DEF N
  <2>4. CASE q = r
    BY <1>3, <1>5, <2>3, <2>4
  <2>5. CASE q # r
    <3>1. q \in 0..(r - 1)
      BY <1>2, <2>5
    <3> QED BY <1>3, <1>5, <2>2, <2>3, <2>5, <3>1
  <2> QED BY <2>4, <2>5
<1> QED BY <1>4, <1>6 DEF N, c, r, g, V

\* It is passed on in the next round.
LEMMA PassOnOK ==
  ASSUME NEW mc \in Machines, NEW h \in Nodes[mc], NEW a, NEW b,
         NodeOK(mc, h, a), a.pc = "wait", a.got = TRUE,
         a.itmp + 1 < mc.NP[a.dir],
         b.pc = "ring", b.itmp = a.itmp + 1, b.transmit = a.receive,
         b.gsum = Kept(a),
         b.coor = a.coor, b.call = a.call, b.dir = a.dir, b.receive = a.receive,
         b.got = a.got, b.sent = a.sent
  PROVE  NodeOK(mc, h, b)
<1>1. RingOK(mc, h, a)
  BY DEF NodeOK
<1>2. /\ mc.NP[a.dir] \in Nat /\ a.itmp \in 1..(mc.NP[a.dir] - 1)
      /\ b.itmp \in 1..(mc.NP[a.dir] - 1) /\ b.itmp - 1 = a.itmp
  <2>1. mc.NP[a.dir] \in Nat /\ a.itmp \in 1..(mc.NP[a.dir] - 1)
    BY <1>1, RingFacts
  <2> QED BY <2>1
<1>3. /\ DOMAIN b.gsum = Coors(mc)
      /\ \A q \in 0..a.itmp :
           b.gsum[Turn(mc.NP[a.dir], h[a.dir], q)]
             = Held(mc, Ahead(mc, a.dir, h, q), a.call, a.dir)
  BY StoredFacts
<1>4. /\ a.coor = Turn(mc.NP[a.dir], h[a.dir], a.itmp)
      /\ a.receive = Held(mc, Ahead(mc, a.dir, h, a.itmp), a.call, a.dir)
      /\ a.call \in 1..Len(mc.sums) /\ a.dir \in Dims(mc) /\ Splits(mc, a.call, a.dir)
  BY <1>1 DEF RingOK
<1>5. RingOK(mc, h, b)
  BY <1>2, <1>3, <1>4 DEF RingOK
<1> QED BY <1>3, <1>5 DEF NodeOK

\* The last number is there: together they are what the next dimension is to
\* start from, in the order of the coordinates.
LEMMA TotalOK ==
  ASSUME NEW mc \in Machines, NEW h \in Nodes[mc], NEW a,
         NodeOK(mc, h, a), a.pc = "wait", a.got = TRUE,
         a.itmp + 1 >= mc.NP[a.dir]
  PROVE  [c \in 0..(mc.NP[a.dir] - 1) |-> Kept(a)[c]]
           = Held(mc, h, a.call, a.dir + 1)
<1> DEFINE N == mc.NP[a.dir]
           i == a.dir
           k == a.call
           g == Kept(a)
<1>1. RingOK(mc, h, a)
  BY DEF NodeOK
<1>2. /\ N \in Nat /\ N > 1 /\ h[i] \in 0..(N - 1) /\ a.itmp \in 1..(N - 1)
      /\ i \in Dims(mc) /\ k \in 1..Len(mc.sums)
  BY <1>1, RingFacts
<1>3. Splits(mc, k, i)
  BY <1>1 DEF RingOK
<1>4. a.itmp = N - 1
  BY <1>2
<1>5. \A q \in 0..(N - 1) : g[Turn(N, h[i], q)] = Held(mc, Ahead(mc, i, h, q), k, i)
  BY <1>4, StoredFacts
<1> HIDE DEF N, i, k, g
<1>6. ASSUME NEW c \in 0..(N - 1)
      PROVE  g[c] = Held(mc, [h EXCEPT ![i] = c], k, i)
  <2>1. 0 \in 0..(N - 1) /\ N > 0
    BY <1>2
  <2>2. PICK q \in 0..(N - 1) : Turn(N, h[i], q) = c
    BY <1>2, <2>1, TurnOnto
  <2>3. Ahead(mc, i, h, q) = [h EXCEPT ![i] = c]
    BY <2>2, Zenon DEF Ahead, N, i
  <2> QED BY <1>5, <2>2, <2>3
<1>7. Held(mc, h, k, i + 1)
        = [c \in 0..(N - 1) |-> Held(mc, [h EXCEPT ![i] = c], k, i)]
  BY <1>2, <1>3, HeldLevels DEF N, i, k
<1>8. [c \in 0..(N - 1) |-> g[c]] = Held(mc, h, k, i + 1)
  BY <1>6, <1>7
<1> QED BY <1>8 DEF N, i, k, g

-----------------------------------------------------------------------------
(* What is under way *)

In(a, i) == a.pc # "out" /\ a.dir = i

\* The last call the node has begun is past dimension i.
Past(a, i) == a.pc = "out" \/ a.dir > i

\* Messages along i of the rings the node has been through.
Ended(mc, i, a) == Before(mc, i, IF Past(a, i) THEN a.call ELSE a.call - 1)

\* Messages along i it has sent and received.
Sent(mc, i, a) ==
  Ended(mc, i, a) + IF ~In(a, i) THEN 0
                    ELSE IF a.pc = "ring" THEN a.itmp - 1 ELSE a.itmp
Received(mc, i, a) ==
  Ended(mc, i, a) + IF ~In(a, i) THEN 0
                    ELSE IF a.pc = "wait" /\ a.got THEN a.itmp ELSE a.itmp - 1

\* A node sends each message before it waits for the one of the same round.
LEMMA CountFacts ==
  ASSUME NEW mc \in Machines, NEW h \in Nodes[mc], NEW a, NodeOK(mc, h, a),
         NEW i \in Dims(mc)
  PROVE  /\ Sent(mc, i, a) \in Nat /\ Received(mc, i, a) \in Nat
         /\ Sent(mc, i, a) >= Received(mc, i, a)
         /\ Sent(mc, i, a) <= Received(mc, i, a) + 1
         /\ a.call \in Nat
         /\ In(a, i) => /\ ~Past(a, i) /\ a.call > 0 /\ a.itmp \in 1..(mc.NP[i] - 1)
                        /\ Ended(mc, i, a) = Before(mc, i, a.call - 1)
<1>1. a.call \in Nat /\ (a.pc # "out" => a.call > 0)
  BY GridFacts DEF NodeOK, RingOK
<1>2. In(a, i) => /\ ~Past(a, i) /\ a.itmp \in 1..(mc.NP[i] - 1)
                  /\ i \in Nat /\ mc.NP[i] \in Nat
  BY GridFacts DEF In, Past, NodeOK, RingOK, Dims
<1>3. Ended(mc, i, a) \in Nat
  <2>1. (IF Past(a, i) THEN a.call ELSE a.call - 1) \in Nat
    BY <1>1 DEF Past
  <2> QED BY <2>1, MoreCalls DEF Ended
<1>4. In(a, i) => Ended(mc, i, a) = Before(mc, i, a.call - 1)
  BY <1>2 DEF Ended
<1>5. a.got \in BOOLEAN /\ a.pc \in {"out", "ring", "wait"}
  BY DEF NodeOK
<1>6. CASE In(a, i)
  <2>1. a.itmp \in Nat /\ a.itmp > 0
    BY <1>2, <1>6
  <2> QED BY <1>1, <1>2, <1>3, <1>4, <1>6, <2>1 DEF Sent, Received, In
<1>7. CASE ~In(a, i)
  BY <1>1, <1>3, <1>7 DEF Sent, Received
<1> QED BY <1>6, <1>7

\* A start sends one message.
LEMMA StartCounts ==
  ASSUME NEW mc \in Machines, NEW h \in Nodes[mc], NEW a, NEW b,
         NodeOK(mc, h, a), a.pc = "ring", b.pc = "wait", b.got = FALSE,
         b.call = a.call, b.dir = a.dir, b.itmp = a.itmp, NEW i \in Dims(mc)
  PROVE  /\ Received(mc, i, b) = Received(mc, i, a)
         /\ Sent(mc, i, b) = Sent(mc, i, a) + IF i = a.dir THEN 1 ELSE 0
<1>1. Ended(mc, i, b) = Ended(mc, i, a)
  BY DEF Ended, Past
<1>2. CASE i = a.dir
  <2>1. In(a, i) /\ In(b, i)
    BY <1>2 DEF In
  <2>2. a.itmp \in Nat /\ Ended(mc, i, a) \in Nat
    <3>1. a.itmp \in Nat
      BY <2>1, CountFacts
    <3>2. a.call - 1 \in Nat /\ Ended(mc, i, a) = Before(mc, i, a.call - 1)
      BY <2>1, CountFacts
    <3> QED BY <3>1, <3>2, MoreCalls
  <2> QED BY <1>1, <1>2, <2>1, <2>2 DEF Sent, Received
<1>3. CASE i # a.dir
  <2>1. ~In(a, i) /\ ~In(b, i)
    BY <1>3 DEF In
  <2>2. Sent(mc, i, a) \in Nat
    BY CountFacts
  <2> QED BY <1>1, <1>3, <2>1, <2>2 DEF Sent, Received
<1> QED BY <1>2, <1>3

\* A delivery receives one message.
LEMMA DeliverCounts ==
  ASSUME NEW mc \in Machines, NEW h \in Nodes[mc], NEW a, NEW b,
         NodeOK(mc, h, a), a.pc = "wait", a.got = FALSE, b.pc = "wait", b.got = TRUE,
         b.call = a.call, b.dir = a.dir, b.itmp = a.itmp, NEW i \in Dims(mc)
  PROVE  /\ Received(mc, i, b) = Received(mc, i, a) + IF i = a.dir THEN 1 ELSE 0
         /\ Sent(mc, i, b) = Sent(mc, i, a)
<1>1. Ended(mc, i, b) = Ended(mc, i, a)
  BY DEF Ended, Past
<1>2. CASE i = a.dir
  <2>1. In(a, i) /\ In(b, i)
    BY <1>2 DEF In
  <2>2. a.itmp \in Nat /\ Ended(mc, i, a) \in Nat
    <3>1. a.itmp \in Nat
      BY <2>1, CountFacts
    <3>2. a.call - 1 \in Nat /\ Ended(mc, i, a) = Before(mc, i, a.call - 1)
      BY <2>1, CountFacts
    <3> QED BY <3>1, <3>2, MoreCalls
  <2> QED BY <1>1, <1>2, <2>1, <2>2 DEF Sent, Received
<1>3. CASE i # a.dir
  <2>1. ~In(a, i) /\ ~In(b, i)
    BY <1>3 DEF In
  <2>2. Received(mc, i, a) \in Nat
    BY CountFacts
  <2> QED BY <1>1, <1>3, <2>1, <2>2 DEF Sent, Received
<1> QED BY <1>2, <1>3

\* Going on to the next round sends and receives nothing.
LEMMA PassOnCounts ==
  ASSUME NEW mc \in Machines, NEW h \in Nodes[mc], NEW a, NEW b,
         NodeOK(mc, h, a), a.pc = "wait", a.got = TRUE, b.pc = "ring",
         b.call = a.call, b.dir = a.dir, b.itmp = a.itmp + 1, NEW i \in Dims(mc)
  PROVE  /\ Received(mc, i, b) = Received(mc, i, a)
         /\ Sent(mc, i, b) = Sent(mc, i, a)
<1>1. Ended(mc, i, b) = Ended(mc, i, a)
  BY DEF Ended, Past
<1>2. CASE i = a.dir
  <2>1. In(a, i) /\ In(b, i)
    BY <1>2 DEF In
  <2>2. a.itmp \in Nat
    BY <2>1, CountFacts
  <2>3. (a.itmp + 1) - 1 = a.itmp
    BY <2>2
  <2> QED BY <1>1, <2>1, <2>3 DEF Sent, Received
<1>3. CASE i # a.dir
  BY <1>1, <1>3 DEF Sent, Received, In
<1> QED BY <1>2, <1>3

\* The loop over dimensions of call k goes on to dimension d.
At(mc, b, k, d) ==
  /\ b.call = k
  /\ d <= Len(mc.NP) => b.pc = "ring" /\ b.dir = d /\ b.itmp = 1
  /\ d > Len(mc.NP) => b.pc = "out"

\* The counts of a node that comes to dimension d.
LEMMA AtCounts ==
  ASSUME NEW mc \in Machines, NEW b, NEW k \in 1..Len(mc.sums),
         NEW d \in 1..(Len(mc.NP) + 1), At(mc, b, k, d), NEW i \in Dims(mc),
         ~Splits(mc, k, i) \/ i >= d
  PROVE  Sent(mc, i, b) = Before(mc, i, k - 1) /\ Received(mc, i, b) = Before(mc, i, k - 1)
<1>1. /\ Len(mc.NP) \in Nat /\ i \in Nat /\ k \in Nat /\ k > 0 /\ d \in Nat
      /\ i <= Len(mc.NP) /\ mc.NP[i] \in Nat /\ mc.NP[i] > 0
  BY GridFacts DEF Dims
<1>2. /\ Before(mc, i, k) \in Nat /\ Before(mc, i, k - 1) \in Nat
      /\ Before(mc, i, k) = Before(mc, i, k - 1)
                              + IF i \in mc.sums[k] THEN mc.NP[i] - 1 ELSE 0
  BY <1>1, OneMoreCall
<1>3. CASE d > i
  <2>1. Past(b, i) /\ ~In(b, i)
    BY <1>1, <1>3 DEF At, Past, In
  <2>2. Before(mc, i, k) = Before(mc, i, k - 1)
    BY <1>1, <1>2, <1>3 DEF Splits
  <2> QED BY <1>2, <2>1, <2>2 DEF Ended, Sent, Received, At
<1>4. CASE d <= i
  <2>1. b.pc = "ring" /\ b.dir = d /\ b.itmp = 1 /\ b.call = k
    BY <1>1, <1>4 DEF At
  <2>2. ~Past(b, i)
    BY <1>1, <1>4, <2>1 DEF Past
  <2>3. Ended(mc, i, b) = Before(mc, i, k - 1)
    BY <2>1, <2>2 DEF Ended
  <2> QED BY <1>2, <2>1, <2>3 DEF Sent, Received
<1> QED BY <1>1, <1>3, <1>4

\* Beginning a call sends and receives nothing.
LEMMA CallCounts ==
  ASSUME NEW mc \in Machines, NEW a, NEW b, NEW k \in 1..Len(mc.sums),
         a.pc = "out", a.call = k - 1,
         NEW d \in 1..(Len(mc.NP) + 1), At(mc, b, k, d),
         \A j \in 1..(d - 1) : ~Splits(mc, k, j), NEW i \in Dims(mc)
  PROVE  /\ Received(mc, i, b) = Received(mc, i, a)
         /\ Sent(mc, i, b) = Sent(mc, i, a)
<1>1. k - 1 \in Nat /\ i \in Nat /\ i > 0 /\ d \in Nat
  BY GridFacts DEF Dims
<1>2. ~Splits(mc, k, i) \/ i >= d
  BY <1>1
<1>3. Before(mc, i, k - 1) \in Nat
  BY <1>1, MoreCalls
<1>4. Sent(mc, i, a) = Before(mc, i, k - 1) /\ Received(mc, i, a) = Before(mc, i, k - 1)
  BY <1>3 DEF Sent, Received, Ended, Past, In
<1> QED BY <1>2, <1>4, AtCounts

\* Nor does leaving a ring: all its messages are sent and received.
LEMMA LeaveCounts ==
  ASSUME NEW mc \in Machines, NEW h \in Nodes[mc], NEW a, NEW b,
         NodeOK(mc, h, a), a.pc = "wait", a.got = TRUE,
         a.itmp + 1 >= mc.NP[a.dir],
         NEW d \in (a.dir + 1)..(Len(mc.NP) + 1), At(mc, b, a.call, d),
         \A j \in (a.dir + 1)..(d - 1) : ~Splits(mc, a.call, j), NEW i \in Dims(mc)
  PROVE  /\ Received(mc, i, b) = Received(mc, i, a)
         /\ Sent(mc, i, b) = Sent(mc, i, a)
<1> DEFINE k == a.call
           e == a.dir
           N == mc.NP[i]
<1>0. RingOK(mc, h, a)
  BY DEF NodeOK
<1>1. /\ Len(mc.NP) \in Nat /\ i \in Nat /\ i > 0 /\ i <= Len(mc.NP)
      /\ k \in Nat /\ k > 0 /\ k \in 1..Len(mc.sums) /\ e \in Nat /\ e > 0
      /\ d \in Nat /\ d > e /\ d <= Len(mc.NP) + 1 /\ N \in Nat /\ N > 0
  BY <1>0, GridFacts, RingFacts DEF Dims
<1>2. /\ Before(mc, i, k) \in Nat /\ Before(mc, i, k - 1) \in Nat
      /\ Before(mc, i, k) = Before(mc, i, k - 1) + IF i \in mc.sums[k] THEN N - 1 ELSE 0
  BY <1>1, OneMoreCall
<1>3. CASE i < e
  <2>1. Past(a, i) /\ ~In(a, i) /\ Past(b, i) /\ ~In(b, i)
    BY <1>1, <1>3 DEF Past, In, At
  <2> QED BY <1>2, <2>1 DEF Sent, Received, Ended, At
<1>4. CASE i > e
  <2>1. ~Past(a, i) /\ ~In(a, i)
    BY <1>1, <1>4 DEF Past, In
  <2>2. Sent(mc, i, a) = Before(mc, i, k - 1) /\ Received(mc, i, a) = Before(mc, i, k - 1)
    BY <1>2, <2>1 DEF Sent, Received, Ended
  <2>3. ~Splits(mc, k, i) \/ i >= d
    BY <1>1, <1>4
  <2>4. d \in 1..(Len(mc.NP) + 1)
    BY <1>1
  <2> QED BY <1>1, <2>2, <2>3, <2>4, AtCounts
<1>5. CASE i = e
  <2>1. In(a, i) /\ ~Past(a, i) /\ Past(b, i) /\ ~In(b, i)
    BY <1>1, <1>5 DEF Past, In, At
  <2>2. a.itmp = N - 1 /\ i \in mc.sums[k]
    <3>1. i \in mc.sums[k]
      BY <1>0, <1>5 DEF RingOK, Splits
    <3>2. a.itmp \in 1..(N - 1) /\ a.itmp + 1 >= N
      BY <1>0, <1>5, RingFacts
    <3> QED BY <1>1, <3>1, <3>2
  <2>3. Sent(mc, i, a) = Before(mc, i, k - 1) + (N - 1)
        /\ Received(mc, i, a) = Before(mc, i, k - 1) + (N - 1)
    BY <2>1, <2>2 DEF Sent, Received, Ended
  <2>4. Sent(mc, i, b) = Before(mc, i, k) + 0 /\ Received(mc, i, b) = Before(mc, i, k) + 0
    BY <2>1 DEF Sent, Received, Ended, At
  <2> QED BY <1>2, <2>2, <2>3, <2>4
<1> QED BY <1>1, <1>3, <1>4, <1>5

\* A message that is taken from the sender's buffer, and one that was copied.
Messages(mc) ==
  {<<>>} \cup {<<Held(mc, h, k, i)>> :
                 h \in Nodes[mc], k \in 1..Len(mc.sums), i \in Dims(mc)}

\* Messages Q are under way along i from a node in state b to the node before
\* it, which has the data of node h and is in state a.
LinkOK(mc, i, h, Q, a, b) ==
  /\ Q \in Seq(Messages(mc))
  /\ Len(Q) = Sent(mc, i, b) - Received(mc, i, a)
  /\ \A p \in 1..Len(Q) :
       Q[p] = <<>> => p = Len(Q) /\ b.pc = "wait" /\ b.dir = i /\ b.sent = FALSE
  /\ \A p \in 1..Len(Q), k \in 1..Len(mc.sums), r \in 1..(mc.NP[i] - 1) :
       /\ Q[p] # <<>> /\ i \in mc.sums[k]
       /\ Received(mc, i, a) + p = Before(mc, i, k - 1) + r
       => Q[p] = <<Held(mc, Ahead(mc, i, h, r), k, i)>>

\* Steps that neither send nor receive along i.
LEMMA LinkQuiet ==
  ASSUME NEW mc, NEW i, NEW h, NEW Q, NEW a, NEW b, NEW a1, NEW b1,
         LinkOK(mc, i, h, Q, a, b),
         Received(mc, i, a1) = Received(mc, i, a), Sent(mc, i, b1) = Sent(mc, i, b),
         b.pc = "wait" /\ b.dir = i /\ b.sent = FALSE =>
           b1.pc = "wait" /\ b1.dir = i /\ b1.sent = FALSE
  PROVE  LinkOK(mc, i, h, Q, a1, b1)
BY DEF LinkOK

\* The message of the round the sender is in has the number of that round.
LEMMA LinkSend ==
  ASSUME NEW mc \in Machines, NEW i \in Dims(mc), NEW h \in Nodes[mc], NEW Q,
         NEW hb \in Nodes[mc], NEW a, NEW b, NEW a1, NEW b1, NEW m,
         NEW ha \in Nodes[mc], NodeOK(mc, ha, a),
         LinkOK(mc, i, h, Q, a, b), NodeOK(mc, hb, b),
         hb = Ahead(mc, i, h, 1), b.pc = "ring", b.dir = i,
         b1.pc = "wait", b1.dir = i, b1.sent = FALSE \/ m # <<>>,
         m \in {<<>>, <<b.transmit>>},
         Received(mc, i, a1) = Received(mc, i, a),
         Sent(mc, i, b1) = Sent(mc, i, b) + 1
  PROVE  LinkOK(mc, i, h, Append(Q, m), a1, b1)
<1> DEFINE N == mc.NP[i]
           c == b.call
           s == b.itmp
           R == Received(mc, i, a)
           P == Append(Q, m)
<1>0. RingOK(mc, hb, b)
  BY DEF NodeOK
<1>1. /\ N \in Nat /\ N > 1 /\ c \in 1..Len(mc.sums) /\ s \in 1..(N - 1)
      /\ i \in mc.sums[c]
  BY <1>0, RingFacts DEF RingOK, Splits
<1>2. b.transmit = Held(mc, Ahead(mc, i, h, s), c, i)
  <2>1. b.transmit = Held(mc, Ahead(mc, i, hb, s - 1), c, i)
    BY <1>0 DEF RingOK
  <2>2. s - 1 \in 0..(N - 1) /\ (s - 1) + 1 < N /\ (s - 1) + 1 = s
    BY <1>1
  <2>3. Ahead(mc, i, Ahead(mc, i, h, 1), s - 1) = Ahead(mc, i, h, (s - 1) + 1)
    BY <1>1, <2>2, AheadLaws
  <2> QED BY <2>1, <2>2, <2>3
<1>3. m \in Messages(mc)
  <2>1. Ahead(mc, i, h, s) \in Nodes[mc]
    <3>1. s \in 0..(mc.NP[i] - 1)
      BY <1>1
    <3> QED BY <3>1, AheadNode
  <2>2. <<b.transmit>> \in Messages(mc)
    <3>1. \A x \in Nodes[mc], k \in 1..Len(mc.sums) :
            <<Held(mc, x, k, i)>> \in Messages(mc)
      BY DEF Messages
    <3> QED BY <1>1, <1>2, <2>1, <3>1
  <2>3. <<>> \in Messages(mc)
    BY DEF Messages
  <2> QED BY <2>2, <2>3
<1>4. /\ Q \in Seq(Messages(mc)) /\ Len(Q) = Sent(mc, i, b) - R
      /\ \A p \in 1..Len(Q) : Q[p] # <<>>
      /\ \A p \in 1..Len(Q), k \in 1..Len(mc.sums), r \in 1..(N - 1) :
           Q[p] # <<>> /\ i \in mc.sums[k] /\ R + p = Before(mc, i, k - 1) + r
             => Q[p] = <<Held(mc, Ahead(mc, i, h, r), k, i)>>
  BY DEF LinkOK
<1>5. /\ P \in Seq(Messages(mc)) /\ Len(Q) \in Nat /\ Len(P) = Len(Q) + 1
      /\ P[Len(P)] = m
      /\ \A p \in 1..Len(Q) : P[p] = Q[p]
  <2> HIDE DEF R
  <2> QED BY <1>3, <1>4
<1>6. Sent(mc, i, b) \in Nat /\ R \in Nat
  BY CountFacts
<1>7. Sent(mc, i, b) + 1 = Before(mc, i, c - 1) + s
  <2>1. In(b, i) /\ Ended(mc, i, b) = Before(mc, i, c - 1)
    BY CountFacts DEF In
  <2>2. c - 1 \in Nat
    BY <1>1
  <2>3. Before(mc, i, c - 1) \in Nat
    BY <2>2, MoreCalls
  <2>4. Sent(mc, i, b) = Before(mc, i, c - 1) + (s - 1)
    BY <2>1 DEF Sent
  <2> QED BY <1>1, <2>3, <2>4
<1> HIDE DEF P
<1>8. Len(P) = Sent(mc, i, b1) - Received(mc, i, a1)
  BY <1>4, <1>5, <1>6
<1>9. ASSUME NEW p \in 1..Len(P), P[p] = <<>>
      PROVE  p = Len(P) /\ b1.sent = FALSE
  <2>1. ~(p \in 1..Len(Q))
    BY <1>4, <1>5, <1>9
  <2>2. p = Len(P)
    BY <1>5, <2>1
  <2> QED BY <1>5, <1>9, <2>2
<1>10. ASSUME NEW p \in 1..Len(P), NEW k \in 1..Len(mc.sums), NEW r \in 1..(N - 1),
              P[p] # <<>>, i \in mc.sums[k], R + p = Before(mc, i, k - 1) + r
       PROVE  P[p] = <<Held(mc, Ahead(mc, i, h, r), k, i)>>
  <2>1. CASE p \in 1..Len(Q)
    BY <1>4, <1>5, <1>10, <2>1
  <2>2. CASE p = Len(P)
    <3>1. Before(mc, i, k - 1) + r = Before(mc, i, c - 1) + s
      BY <1>4, <1>5, <1>6, <1>7, <1>10, <2>2
    <3>2. k = c /\ r = s
      BY <1>1, <1>10, <3>1, WhichRound
    <3> QED BY <1>2, <1>5, <1>10, <2>2, <3>2
  <2> QED BY <1>5, <2>1, <2>2
<1> QED BY <1>5, <1>8, <1>9, <1>10 DEF LinkOK, P

\* What QMP takes first from messages Q of a node in state b.
Taken(Q, b) == IF Head(Q) # <<>> THEN Head(Head(Q)) ELSE b.transmit

\* The state of a delivery: a, with the data of h, becomes a1, its neighbour b
\* becomes b1.
Delivery(mc, i, h, Q, hb, a, b, a1, b1) ==
  /\ i \in Dims(mc) /\ h \in Nodes[mc] /\ hb \in Nodes[mc]
  /\ LinkOK(mc, i, h, Q, a, b) /\ NodeOK(mc, h, a) /\ NodeOK(mc, hb, b)
  /\ hb = Ahead(mc, i, h, 1)
  /\ a.pc = "wait" /\ a.dir = i /\ a.got = FALSE /\ Q # <<>>
  /\ Received(mc, i, a1) = Received(mc, i, a) + 1
  /\ Sent(mc, i, b1) = Sent(mc, i, b)
  /\ Head(Q) # <<>> => b1 = b

\* What a node in a ring receives next is the number of the next node, be it
\* copied or taken from the buffer of its neighbour.
LEMMA LinkReceive ==
  ASSUME NEW mc \in Machines, NEW i, NEW h, NEW Q, NEW hb, NEW a, NEW b, NEW a1, NEW b1,
         Delivery(mc, i, h, Q, hb, a, b, a1, b1)
  PROVE  /\ Taken(Q, b) = Held(mc, Ahead(mc, i, h, a.itmp), a.call, i)
         /\ LinkOK(mc, i, h, Tail(Q), a1, b1)
<1>d. /\ i \in Dims(mc) /\ h \in Nodes[mc] /\ hb \in Nodes[mc]
      /\ LinkOK(mc, i, h, Q, a, b) /\ NodeOK(mc, h, a) /\ NodeOK(mc, hb, b)
      /\ hb = Ahead(mc, i, h, 1)
      /\ a.pc = "wait" /\ a.dir = i /\ a.got = FALSE /\ Q # <<>>
      /\ Received(mc, i, a1) = Received(mc, i, a) + 1
      /\ Sent(mc, i, b1) = Sent(mc, i, b)
      /\ Head(Q) # <<>> => b1 = b
  BY DEF Delivery
<1> USE <1>d
<1> DEFINE N == mc.NP[i]
           c == a.call
           s == a.itmp
           R == Received(mc, i, a)
           P == Tail(Q)
<1>0. RingOK(mc, h, a)
  BY DEF NodeOK
<1>1. /\ N \in Nat /\ N > 1 /\ c \in 1..Len(mc.sums) /\ s \in 1..(N - 1)
      /\ i \in mc.sums[c]
  BY <1>0, RingFacts DEF RingOK, Splits
<1>2. /\ Q \in Seq(Messages(mc)) /\ Len(Q) = Sent(mc, i, b) - R
      /\ \A p \in 1..Len(Q) :
           Q[p] = <<>> => p = Len(Q) /\ b.pc = "wait" /\ b.dir = i /\ b.sent = FALSE
      /\ \A p \in 1..Len(Q), k \in 1..Len(mc.sums), r \in 1..(N - 1) :
           Q[p] # <<>> /\ i \in mc.sums[k] /\ R + p = Before(mc, i, k - 1) + r
             => Q[p] = <<Held(mc, Ahead(mc, i, h, r), k, i)>>
  BY DEF LinkOK
<1>3. /\ Len(Q) \in Nat /\ Len(Q) > 0 /\ Head(Q) = Q[1]
      /\ P \in Seq(Messages(mc)) /\ Len(P) = Len(Q) - 1
      /\ \A p \in 1..Len(P) : p + 1 \in 1..Len(Q) /\ P[p] = Q[p + 1]
  <2> HIDE DEF R
  <2> QED BY <1>2
<1>4. Sent(mc, i, b) \in Nat /\ R \in Nat
  BY CountFacts
<1>5. R + 1 = Before(mc, i, c - 1) + s
  <2>1. In(a, i) /\ Ended(mc, i, a) = Before(mc, i, c - 1)
    BY CountFacts DEF In
  <2>2. c - 1 \in Nat
    BY <1>1
  <2>3. Before(mc, i, c - 1) \in Nat
    BY <2>2, MoreCalls
  <2>4. R = Before(mc, i, c - 1) + (s - 1)
    BY <2>1 DEF Received
  <2> QED BY <1>1, <2>3, <2>4
<1> HIDE DEF P
<1>6. Head(Q) # <<>> => Head(Head(Q)) = Held(mc, Ahead(mc, i, h, s), c, i)
  <2>1. 1 \in 1..Len(Q)
    BY <1>3
  <2>2. Q[1] # <<>> => Q[1] = <<Held(mc, Ahead(mc, i, h, s), c, i)>>
    BY <1>1, <1>2, <1>5, <2>1
  <2> QED BY <1>3, <2>2
<1>7. ASSUME Head(Q) = <<>>
      PROVE  b.transmit = Held(mc, Ahead(mc, i, h, s), c, i) /\ Len(Q) = 1
  <2>1. Len(Q) = 1 /\ b.pc = "wait" /\ b.dir = i
    <3>1. 1 \in 1..Len(Q) /\ Q[1] = <<>>
      BY <1>3, <1>7
    <3> QED BY <1>2, <3>1
  <2>2. RingOK(mc, hb, b)
    BY <2>1 DEF NodeOK
  <2>3. b.call \in 1..Len(mc.sums) /\ b.itmp \in 1..(N - 1) /\ i \in mc.sums[b.call]
    BY <2>1, <2>2, RingFacts DEF RingOK, Splits
  <2>4. Sent(mc, i, b) = Before(mc, i, b.call - 1) + b.itmp
    <3>1. In(b, i) /\ Ended(mc, i, b) = Before(mc, i, b.call - 1)
      BY <2>1, CountFacts DEF In
    <3> QED BY <2>1, <3>1 DEF Sent
  <2>5. Before(mc, i, b.call - 1) + b.itmp = Before(mc, i, c - 1) + s
    <3>1. 1 = Sent(mc, i, b) - R
      BY <1>2, <2>1
    <3>2. Sent(mc, i, b) = R + 1
      BY <1>4, <3>1
    <3> QED BY <1>5, <2>4, <3>2
  <2>6. b.call = c /\ b.itmp = s
    BY <1>1, <2>3, <2>5, WhichRound
  <2>7. b.transmit = Held(mc, Ahead(mc, i, hb, s - 1), c, i)
    BY <2>1, <2>2, <2>6 DEF RingOK
  <2>8. s - 1 \in 0..(N - 1) /\ (s - 1) + 1 < N /\ (s - 1) + 1 = s
    BY <1>1
  <2>9. Ahead(mc, i, Ahead(mc, i, h, 1), s - 1) = Ahead(mc, i, h, (s - 1) + 1)
    BY <1>1, <2>8, AheadLaws
  <2> QED BY <2>1, <2>7, <2>8, <2>9
<1>8. Len(P) = Sent(mc, i, b1) - Received(mc, i, a1)
  BY <1>2, <1>3, <1>4
<1>9. ASSUME NEW p \in 1..Len(P), P[p] = <<>>
      PROVE  p = Len(P) /\ b1.pc = "wait" /\ b1.dir = i /\ b1.sent = FALSE
  <2>1. p + 1 \in 1..Len(Q) /\ Q[p + 1] = <<>>
    BY <1>3, <1>9
  <2>2. p + 1 = Len(Q) /\ b.pc = "wait" /\ b.dir = i /\ b.sent = FALSE
    BY <1>2, <2>1
  <2>3. p = Len(P) /\ Len(Q) # 1
    BY <1>3, <2>2
  <2>4. b1 = b
    BY <1>7, <2>3
  <2> QED BY <2>2, <2>3, <2>4
<1>10. ASSUME NEW p \in 1..Len(P), NEW k \in 1..Len(mc.sums), NEW r \in 1..(N - 1),
              P[p] # <<>>, i \in mc.sums[k],
              Received(mc, i, a1) + p = Before(mc, i, k - 1) + r
       PROVE  P[p] = <<Held(mc, Ahead(mc, i, h, r), k, i)>>
  <2>1. p + 1 \in 1..Len(Q) /\ P[p] = Q[p + 1]
    BY <1>3
  <2>2. R + (p + 1) = Before(mc, i, k - 1) + r
    BY <1>3, <1>4, <1>10
  <2> QED BY <1>2, <1>10, <2>1, <2>2
<1> QED BY <1>3, <1>6, <1>7, <1>8, <1>9, <1>10 DEF LinkOK, P, Taken

-----------------------------------------------------------------------------
(* The inductive invariant *)

Local(n) ==
  [pc |-> pc[n], call |-> calls[n], dir |-> dir[n], itmp |-> itmp[n],
   coor |-> coor[n], transmit |-> transmit_buf[n], gsum |-> gsum_buf[n],
   receive |-> receive_buf[n], got |-> got[n], sent |-> sent[n]]

\* Node n after a step.
LocalAfter(n) ==
  [pc |-> pc'[n], call |-> calls'[n], dir |-> dir'[n], itmp |-> itmp'[n],
   coor |-> coor'[n], transmit |-> transmit_buf'[n], gsum |-> gsum_buf'[n],
   receive |-> receive_buf'[n], got |-> got'[n], sent |-> sent'[n]]

\* The sums over the grid and over its parts that calls may return.
Totals(mc) == {OrderedTotal(mc, k, n) : k \in 1..Len(mc.sums), n \in Nodes[mc]}

\* A node in state a has contributed to call k and is past dimensions 1..i of it.
Reached(a, k, i) == a.call > k \/ (a.call = k /\ Past(a, i))

\* Nodes n and x add up along dimensions 1..i of call k.
Together(mc, k, i, n, x) ==
  \A j \in Dims(mc) : j > i \/ j \notin mc.sums[k] => x[j] = n[j]

Shapes ==
  /\ DOMAIN transmit_buf = Nodes[machine] /\ DOMAIN receive_buf = Nodes[machine]
  /\ DOMAIN gsum_buf = Nodes[machine]
  /\ DOMAIN link = Dims(machine)
  /\ \A i \in Dims(machine) : DOMAIN link[i] = Nodes[machine]

HoldsOK == \A n \in Nodes[machine] : NodeOK(machine, HomeOf(machine, n), Local(n))

LinksOK ==
  \A i \in Dims(machine), n \in Nodes[machine] :
    LinkOK(machine, i, HomeOf(machine, n), link[i][n],
           Local(n), Local(Ahead(machine, i, n, 1)))

Barrier ==
  \A n \in Nodes[machine], x \in Nodes[machine],
     k \in 1..Len(machine.sums), i \in 0..Len(machine.NP) :
    Reached(Local(n), k, i) /\ Together(machine, k, i, n, x) => calls[x] >= k

ResultsOK ==
  /\ DOMAIN results = Nodes[machine]
  /\ \A n \in Nodes[machine] :
       /\ results[n] \in Seq(Totals(machine))
       /\ Len(results[n]) = IF pc[n] = "out" THEN calls[n] ELSE calls[n] - 1

IInv == TypeOK /\ Shapes /\ HoldsOK /\ LinksOK /\ Barrier /\ ResultsOK

\* The fields of a node.
LEMMA LocalFields ==
  ASSUME NEW n
  PROVE  /\ Local(n).pc = pc[n] /\ Local(n).call = calls[n] /\ Local(n).dir = dir[n]
         /\ Local(n).itmp = itmp[n] /\ Local(n).coor = coor[n]
         /\ Local(n).transmit = transmit_buf[n] /\ Local(n).gsum = gsum_buf[n]
         /\ Local(n).receive = receive_buf[n]
         /\ Local(n).got = got[n] /\ Local(n).sent = sent[n]
BY DEF Local

\* The fields of a node after a step.
LEMMA LocalAfterFields ==
  ASSUME NEW n
  PROVE  /\ LocalAfter(n).pc = pc'[n] /\ LocalAfter(n).call = calls'[n]
         /\ LocalAfter(n).dir = dir'[n] /\ LocalAfter(n).itmp = itmp'[n]
         /\ LocalAfter(n).coor = coor'[n] /\ LocalAfter(n).transmit = transmit_buf'[n]
         /\ LocalAfter(n).gsum = gsum_buf'[n] /\ LocalAfter(n).receive = receive_buf'[n]
         /\ LocalAfter(n).got = got'[n] /\ LocalAfter(n).sent = sent'[n]
BY DEF LocalAfter

\* What the type invariant says of the variables as functions.
LEMMA TypeFacts ==
  ASSUME TypeOK
  PROVE  /\ machine \in Machines
         /\ Node = Nodes[machine] /\ Dim = Dims(machine)
         /\ ndir = Len(machine.NP) /\ NP = machine.NP
         /\ DOMAIN pc = Nodes[machine] /\ DOMAIN calls = Nodes[machine]
         /\ DOMAIN dir = Nodes[machine] /\ DOMAIN itmp = Nodes[machine]
         /\ DOMAIN coor = Nodes[machine]
         /\ DOMAIN got = Nodes[machine] /\ DOMAIN sent = Nodes[machine]
BY DEF TypeOK, Node, Dim, Dims, ndir, NP

\* The invariant after a step, in terms of the nodes after it.
LEMMA After ==
  ASSUME UNCHANGED machine, TypeOK', Shapes', ResultsOK',
         \A n \in Nodes[machine] :
           NodeOK(machine, HomeOf(machine, n), LocalAfter(n)),
         \A i \in Dims(machine), n \in Nodes[machine] :
           LinkOK(machine, i, HomeOf(machine, n), link'[i][n],
                  LocalAfter(n), LocalAfter(Ahead(machine, i, n, 1))),
         \A n \in Nodes[machine], x \in Nodes[machine],
            k \in 1..Len(machine.sums), i \in 0..Len(machine.NP) :
           Reached(LocalAfter(n), k, i) /\ Together(machine, k, i, n, x)
             => calls'[x] >= k
  PROVE  IInv'
<1>1. \A n : Local(n)' = LocalAfter(n)
  BY DEF Local, LocalAfter
<1>2. HoldsOK'
  <2>1. HoldsOK' <=> \A n \in Nodes[machine'] :
                       NodeOK(machine', HomeOf(machine', n), LocalAfter(n))
    BY Zenon DEF HoldsOK, Local, LocalAfter
  <2> QED BY <2>1
<1>3. LinksOK'
  <2>1. LinksOK' <=> \A i \in Dims(machine'), n \in Nodes[machine'] :
                       LinkOK(machine', i, HomeOf(machine', n), link'[i][n],
                              LocalAfter(n), LocalAfter(Ahead(machine', i, n, 1)))
    BY Zenon DEF LinksOK, Local, LocalAfter
  <2> QED BY <2>1
<1>4. Barrier'
  <2>1. Barrier' <=>
          \A n \in Nodes[machine'], x \in Nodes[machine'],
             k \in 1..Len(machine'.sums), i \in 0..Len(machine'.NP) :
            Reached(LocalAfter(n), k, i) /\ Together(machine', k, i, n, x)
              => calls'[x] >= k
    BY Zenon DEF Barrier, Local, LocalAfter
  <2> QED BY <2>1
<1> QED BY <1>2, <1>3, <1>4 DEF IInv

\* One place further.
LEMMA AheadOn ==
  ASSUME NEW mc \in Machines, NEW i \in Dims(mc), NEW n \in Nodes[mc],
         NEW q \in 0..(mc.NP[i] - 1), q + 1 < mc.NP[i]
  PROVE  Ahead(mc, i, Ahead(mc, i, n, q), 1) = Ahead(mc, i, n, q + 1)
<1> DEFINE N == mc.NP[i]
           m == Ahead(mc, i, n, q)
           w == Ahead(mc, i, m, 1)
           v == Ahead(mc, i, n, q + 1)
<1>1. N \in Nat /\ N > 1 /\ 1 \in 0..(N - 1) /\ q + 1 \in 0..(N - 1)
      /\ n[i] \in 0..(N - 1)
  BY GridFacts, NodeFacts
<1>2. /\ m \in Nodes[mc] /\ m[i] = Turn(N, n[i], q)
      /\ \A j \in Dims(mc) : j # i => m[j] = n[j]
  BY AheadNode
<1>3. /\ w \in Nodes[mc] /\ w[i] = Turn(N, m[i], 1)
      /\ \A j \in Dims(mc) : j # i => w[j] = m[j]
  BY <1>1, <1>2, AheadNode
<1>4. /\ v \in Nodes[mc] /\ v[i] = Turn(N, n[i], q + 1)
      /\ \A j \in Dims(mc) : j # i => v[j] = n[j]
  BY <1>1, AheadNode
<1>5. w[i] = v[i]
  BY <1>1, <1>2, <1>3, <1>4, TurnOn
<1> HIDE DEF w, v, m
<1>6. \A j \in Dims(mc) : w[j] = v[j]
  BY <1>2, <1>3, <1>4, <1>5
<1>7. w = v
  BY <1>3, <1>4, <1>6, SameNode
<1> QED BY <1>7 DEF w, v, m

\* A node that has sent more than the messages of the calls before k has come to
\* dimension i of call k.
LEMMA HasBegun ==
  ASSUME NEW mc \in Machines, NEW h \in Nodes[mc], NEW b, NodeOK(mc, h, b),
         NEW i \in Dims(mc), NEW k \in 1..Len(mc.sums),
         Sent(mc, i, b) > Before(mc, i, k - 1)
  PROVE  Reached(b, k, i - 1)
<1> DEFINE m == b.call
           N == mc.NP[i]
<1>1. /\ m \in Nat /\ k \in Nat /\ k > 0 /\ i \in Nat /\ i > 0 /\ N \in Nat /\ N > 0
      /\ b.pc \in {"out", "ring", "wait"}
  BY GridFacts DEF NodeOK, Dims
<1>2. In(b, i) => m > 0 /\ i \in mc.sums[m] /\ b.itmp \in 1..(N - 1)
  BY DEF NodeOK, RingOK, Splits, In
<1>3. b.pc # "out" => m > 0 /\ b.dir \in Nat
  BY DEF NodeOK, RingOK, Dims
<1>4. CASE m > k
  BY <1>4 DEF Reached
<1>5. CASE m = k
  <2>1. SUFFICES ASSUME ~Past(b, i - 1) PROVE FALSE
    BY <1>5 DEF Reached
  <2>2. b.pc # "out" /\ b.dir < i /\ ~Past(b, i) /\ ~In(b, i)
    BY <1>1, <1>3, <2>1 DEF Past, In
  <2>3. Sent(mc, i, b) = Before(mc, i, k - 1) + 0
    BY <1>5, <2>2, Zenon DEF Sent, Ended
  <2>4. Before(mc, i, k - 1) \in Nat
    BY <1>1, OneMoreCall
  <2> QED BY <2>3, <2>4
<1>6. CASE m < k
  <2>1. m \in Nat /\ k - 1 \in Nat /\ m <= k - 1
    BY <1>1, <1>6
  <2>2. Before(mc, i, m) <= Before(mc, i, k - 1) /\ Before(mc, i, m) \in Nat
        /\ Before(mc, i, k - 1) \in Nat
    BY <2>1, MoreCalls
  <2>3. CASE m = 0
    <3>1. Past(b, i) /\ ~In(b, i)
      BY <1>3, <2>3 DEF Past, In
    <3>2. Sent(mc, i, b) = Before(mc, i, m) + 0
      BY <3>1, Zenon DEF Sent, Ended
    <3> QED BY <2>2, <3>2
  <2>4. CASE m > 0
    <3>1. /\ Before(mc, i, m - 1) \in Nat
          /\ Before(mc, i, m) = Before(mc, i, m - 1)
                                  + IF i \in mc.sums[m] THEN N - 1 ELSE 0
      BY <1>1, <2>4, OneMoreCall
    <3>2. CASE In(b, i)
      <4>1. Sent(mc, i, b) <= Before(mc, i, m - 1) + (N - 1)
        BY <1>1, <1>2, <3>1, <3>2 DEF Sent, Ended, Past, In
      <4>2. Before(mc, i, m) = Before(mc, i, m - 1) + (N - 1)
        BY <1>2, <3>1, <3>2
      <4>3. Sent(mc, i, b) \in Nat
        BY CountFacts
      <4> QED BY <1>1, <2>2, <3>1, <4>1, <4>2, <4>3
    <3>3. CASE ~In(b, i)
      <4>1. Sent(mc, i, b) = Before(mc, i, IF Past(b, i) THEN m ELSE m - 1) + 0
        BY <3>3, Zenon DEF Sent, Ended
      <4>2. Before(mc, i, m - 1) <= Before(mc, i, m)
        BY <1>1, <3>1
      <4> QED BY <2>2, <3>1, <4>1, <4>2
    <3> QED BY <3>2, <3>3
  <2> QED BY <1>1, <2>3, <2>4
<1> QED BY <1>1, <1>4, <1>5, <1>6

\* No node has received more than the nodes ahead of it on its ring allow: what
\* it receives from q nodes ahead has been passed on q times.
LEMMA NoOvertaking ==
  ASSUME IInv, NEW i \in Dims(machine), NEW n \in Nodes[machine],
         NEW q \in 1..(machine.NP[i] - 1)
  PROVE  Received(machine, i, Local(n)) + 1
           <= Sent(machine, i, Local(Ahead(machine, i, n, q))) + q
<1> DEFINE mc == machine
           N == mc.NP[i]
           S(p) == Sent(mc, i, Local(Ahead(mc, i, n, p)))
           R(p) == Received(mc, i, Local(Ahead(mc, i, n, p)))
           Bad == {p \in 1..(N - 1) : ~(R(0) + 1 <= S(p) + p)}
<1>1. /\ mc \in Machines /\ N \in Nat /\ N > 1
  <2>1. mc \in Machines
    BY DEF IInv, TypeOK
  <2> QED BY <2>1, GridFacts
<1>2. \A m \in Nodes[mc] : /\ Received(mc, i, Local(m)) \in Nat
                           /\ Sent(mc, i, Local(m)) \in Nat
                           /\ Sent(mc, i, Local(m)) <= Received(mc, i, Local(m)) + 1
  BY <1>1, HomeNode, CountFacts DEF IInv, HoldsOK
<1>3. \A m \in Nodes[mc] :
        Received(mc, i, Local(m)) <= Sent(mc, i, Local(Ahead(mc, i, m, 1)))
  <2>1. SUFFICES ASSUME NEW m \in Nodes[mc]
                 PROVE  Received(mc, i, Local(m))
                          <= Sent(mc, i, Local(Ahead(mc, i, m, 1)))
    OBVIOUS
  <2> DEFINE Q == link[i][m]
             SA == Sent(mc, i, Local(Ahead(mc, i, m, 1)))
             RA == Received(mc, i, Local(m))
  <2>2. Q \in Seq(Messages(mc)) /\ Len(Q) = SA - RA
    BY DEF IInv, LinksOK, LinkOK
  <2>3. 1 \in 0..(N - 1)
    BY <1>1
  <2>4. Ahead(mc, i, m, 1) \in Nodes[mc]
    BY <1>1, <2>3, AheadNode
  <2>5. SA \in Nat /\ RA \in Nat
    BY <1>2, <2>4
  <2> HIDE DEF SA, RA, Q
  <2>6. RA <= SA
    BY <2>2, <2>5
  <2> QED BY <2>6 DEF SA, RA
<1>4. \A p \in 0..(N - 1) : Ahead(mc, i, n, p) \in Nodes[mc]
  BY <1>1, AheadNode
<1>5. \A p \in 0..(N - 1) : S(p) \in Nat /\ R(p) \in Nat /\ S(p) <= R(p) + 1
  BY <1>2, <1>4
<1>6. \A p \in 0..(N - 1) : p + 1 < N => R(p) <= S(p + 1)
  <2>1. SUFFICES ASSUME NEW p \in 0..(N - 1), p + 1 < N
                 PROVE  R(p) <= S(p + 1)
    OBVIOUS
  <2>2. Ahead(mc, i, Ahead(mc, i, n, p), 1) = Ahead(mc, i, n, p + 1)
    BY <1>1, <2>1, AheadOn
  <2>3. R(p) <= Sent(mc, i, Local(Ahead(mc, i, Ahead(mc, i, n, p), 1)))
    BY <1>3, <1>4
  <2> QED BY <2>2, <2>3
<1> HIDE DEF S, R, N
<1>7. Bad = {}
  <2>1. SUFFICES ASSUME Bad # {} PROVE FALSE
    OBVIOUS
  <2>0. Bad \in SUBSET Nat
    BY <1>1
  <2>2. PICK p \in Bad : \A z \in Bad : p <= z
    BY <2>0, <2>1, SmallestMember, Zenon
  <2>3. p \in 1..(N - 1) /\ ~(R(0) + 1 <= S(p) + p)
    BY <2>2
  <2>4. CASE p = 1
    <3>1. R(0) <= S(0 + 1)
      BY <1>1, <1>6
    <3> QED BY <1>1, <1>5, <2>3, <2>4, <3>1
  <2>5. CASE p > 1
    <3>1. p - 1 \in 1..(N - 1) /\ p - 1 \in 0..(N - 1) /\ (p - 1) + 1 = p /\ p < N
          /\ p \in 0..(N - 1) /\ 0 \in 0..(N - 1)
      BY <1>1, <2>3, <2>5
    <3>2. R(p - 1) <= S(p)
      BY <1>6, <3>1
    <3>3. R(0) + 1 <= S(p - 1) + (p - 1)
      <4>1. p - 1 \notin Bad
        BY <1>1, <2>2, <3>1
      <4> QED BY <3>1, <4>1
    <3> QED BY <1>5, <2>3, <3>1, <3>2, <3>3
  <2> QED BY <1>1, <2>3, <2>4, <2>5
<1>8. R(0) + 1 <= S(q) + q
  BY <1>7 DEF N
<1>9. Ahead(mc, i, n, 0) = n
  BY <1>1, AheadLaws DEF N
<1> QED BY <1>8, <1>9 DEF S, R

\* Along a dimension that is not split a node is its own neighbour.
LEMMA AheadUnsplit ==
  ASSUME NEW mc \in Machines, NEW i \in Dims(mc), NEW n \in Nodes[mc],
         ~(mc.NP[i] > 1)
  PROVE  Ahead(mc, i, n, 1) = n
<1>1. mc.NP[i] = 1 /\ n[i] = 0 /\ n[i] \in 0..(1 - 1)
  <2>1. mc.NP[i] \in Nat /\ mc.NP[i] > 0 /\ n[i] \in 0..(mc.NP[i] - 1)
    BY GridFacts, NodeFacts
  <2> QED BY <2>1
<1>2. Turn(mc.NP[i], n[i], 1) = n[i]
  BY <1>1 DEF Turn
<1>3. DOMAIN n = Dims(mc) /\ n = [j \in Dims(mc) |-> n[j]]
  BY NodeFacts
<1>4. [n EXCEPT ![i] = n[i]] = n
  BY <1>3
<1> QED BY <1>2, <1>4, Zenon DEF Ahead

\* The neighbour of a node is a node.
LEMMA NextNode ==
  ASSUME NEW mc \in Machines, NEW i \in Dims(mc), NEW n \in Nodes[mc]
  PROVE  Ahead(mc, i, n, 1) \in Nodes[mc]
<1>1. CASE mc.NP[i] > 1
  <2>1. 1 \in 0..(mc.NP[i] - 1)
    BY <1>1, GridFacts
  <2> QED BY <2>1, AheadNode
<1>2. CASE ~(mc.NP[i] > 1)
  BY <1>2, AheadUnsplit
<1> QED BY <1>1, <1>2


\* At the start nothing is under way and no call has begun.
LEMMA InitInv == Init => IInv
<1> SUFFICES ASSUME Init PROVE IInv
  OBVIOUS
<1>0. TypeOK
  BY DEF Init, TypeOK, InRange
<1>1. /\ machine \in Machines
      /\ Node = Nodes[machine] /\ Dim = Dims(machine)
  BY <1>0, TypeFacts
<1>2. Shapes
  BY <1>1 DEF Init, Shapes
<1>3. \A n \in Nodes[machine] :
        /\ Local(n).pc = "out" /\ Local(n).call = 0
        /\ Local(n).got = FALSE /\ Local(n).sent = FALSE
        /\ DOMAIN Local(n).gsum = Coors(machine)
  <2>1. Coors(machine) = UNION {Coor(i) : i \in Dim}
    BY <1>1, Zenon DEF Coors, Coor, NP
  <2> QED BY <1>1, <2>1 DEF Init, Local
<1>4. Len(machine.sums) \in Nat
  BY <1>1, GridFacts
<1>5. HoldsOK
  <2>1. 0 \in 0..Len(machine.sums)
    BY <1>4
  <2>2. \A n \in Nodes[machine] : NodeOK(machine, HomeOf(machine, n), Local(n))
    BY <1>3, <2>1, Zenon DEF NodeOK
  <2> QED BY <2>2 DEF HoldsOK
<1>6. LinksOK
  <2>1. SUFFICES ASSUME NEW i \in Dims(machine), NEW n \in Nodes[machine]
                 PROVE  LinkOK(machine, i, HomeOf(machine, n), link[i][n],
                               Local(n), Local(Ahead(machine, i, n, 1)))
    BY DEF LinksOK
  <2>2. link[i][n] = <<>>
    BY <1>1 DEF Init
  <2>3. Before(machine, i, 0) = 0
    BY <1>1, <2>1, OneMoreCall, 1 \in Nat, 1 > 0
  <2>4. \A m \in Nodes[machine] : Sent(machine, i, Local(m)) = 0
                                  /\ Received(machine, i, Local(m)) = 0
    BY <1>3, <2>3 DEF Sent, Received, Ended, Past, In
  <2>5. Sent(machine, i, Local(Ahead(machine, i, n, 1))) = 0
    BY <1>1, <2>4, NextNode
  <2>6. <<>> \in Seq(Messages(machine)) /\ Len(<<>>) = 0
    OBVIOUS
  <2>7. \A p : p \notin 1..0
    OBVIOUS
  <2> DEFINE S == Sent(machine, i, Local(Ahead(machine, i, n, 1)))
             R == Received(machine, i, Local(n))
             M == Messages(machine)
  <2>8. S = 0 /\ R = 0 /\ S - R = 0
    BY <2>4, <2>5
  <2>9. Len(link[i][n]) = S - R /\ Len(link[i][n]) = 0 /\ link[i][n] \in Seq(M)
    BY <2>2, <2>6, <2>8, Zenon
  <2>10. \A p : p \notin 1..Len(link[i][n])
    BY <2>7, <2>9, Zenon
  <2> HIDE DEF M, S, R
  <2> QED BY <2>9, <2>10, Zenon DEF LinkOK, M, S, R
<1>7. Barrier
  BY <1>3, <1>4 DEF Barrier, Reached
<1>8. ResultsOK
  BY <1>1 DEF Init, ResultsOK
<1> QED BY <1>0, <1>2, <1>5, <1>6, <1>7, <1>8 DEF IInv

-----------------------------------------------------------------------------
(* Frames *)

\* A node whose variables did not change.
LEMMA LocalSame ==
  ASSUME NEW n, pc'[n] = pc[n], calls'[n] = calls[n], dir'[n] = dir[n],
         itmp'[n] = itmp[n], coor'[n] = coor[n],
         transmit_buf'[n] = transmit_buf[n], gsum_buf'[n] = gsum_buf[n],
         receive_buf'[n] = receive_buf[n], got'[n] = got[n], sent'[n] = sent[n]
  PROVE  LocalAfter(n) = Local(n)
BY DEF LocalAfter, Local

\* A step that sends and receives nothing.
LEMMA LinksQuiet ==
  ASSUME LinksOK, machine \in Machines, UNCHANGED link,
         \A m \in Nodes[machine] : \A i \in Dims(machine) :
           /\ Received(machine, i, LocalAfter(m)) = Received(machine, i, Local(m))
           /\ Sent(machine, i, LocalAfter(m)) = Sent(machine, i, Local(m))
           /\ Local(m).pc = "wait" /\ Local(m).dir = i /\ Local(m).sent = FALSE =>
                /\ LocalAfter(m).pc = "wait" /\ LocalAfter(m).dir = i
                /\ LocalAfter(m).sent = FALSE,
         NEW i \in Dims(machine), NEW n \in Nodes[machine]
  PROVE  LinkOK(machine, i, HomeOf(machine, n), link'[i][n],
                LocalAfter(n), LocalAfter(Ahead(machine, i, n, 1)))
<1>1. Ahead(machine, i, n, 1) \in Nodes[machine]
  BY NextNode
<1>2. LinkOK(machine, i, HomeOf(machine, n), link[i][n],
             Local(n), Local(Ahead(machine, i, n, 1)))
  BY DEF LinksOK
<1> DEFINE m == Ahead(machine, i, n, 1)
           a == Local(n)
           b == Local(m)
           a1 == LocalAfter(n)
           b1 == LocalAfter(m)
           Q == link[i][n]
           h == HomeOf(machine, n)
<1>3. /\ Received(machine, i, a1) = Received(machine, i, a)
      /\ Sent(machine, i, b1) = Sent(machine, i, b)
      /\ b.pc = "wait" /\ b.dir = i /\ b.sent = FALSE =>
           b1.pc = "wait" /\ b1.dir = i /\ b1.sent = FALSE
  BY <1>1, Zenon
<1>4. LinkOK(machine, i, h, Q, a, b)
  BY <1>2
<1> HIDE DEF a, b, a1, b1, Q, h, m
<1>5. LinkOK(machine, i, h, Q, a1, b1)
  BY <1>3, <1>4, LinkQuiet
<1>6. link'[i][n] = Q
  BY DEF Q
<1> QED BY <1>5, <1>6, Zenon DEF h, a1, b1, m

-----------------------------------------------------------------------------
(* The loop over dimensions *)

\* What it leaves behind when it comes to dimension d with s summed so far.
LEMMA EnterFields ==
  ASSUME TypeOK, Shapes, NEW n \in Nodes[machine], NEW d \in 1..(ndir + 1), NEW s,
         EnterDim(n, d, s), UNCHANGED <<receive_buf, got, sent>>
  PROVE  /\ \A m \in Nodes[machine] : m # n =>
              /\ pc'[m] = pc[m] /\ dir'[m] = dir[m] /\ itmp'[m] = itmp[m]
              /\ coor'[m] = coor[m] /\ transmit_buf'[m] = transmit_buf[m]
              /\ gsum_buf'[m] = gsum_buf[m] /\ receive_buf'[m] = receive_buf[m]
              /\ got'[m] = got[m] /\ sent'[m] = sent[m]
         /\ receive_buf' = receive_buf /\ got' = got /\ sent' = sent
         /\ DOMAIN transmit_buf' = Nodes[machine]
         /\ DOMAIN gsum_buf' = Nodes[machine]
         /\ d > ndir => /\ pc'[n] = "out" /\ gsum_buf'[n] = gsum_buf[n]
                        /\ results' = [results EXCEPT ![n] = Append(@, s)]
         /\ d <= ndir => /\ pc'[n] = "ring" /\ dir'[n] = d /\ itmp'[n] = 1
                         /\ coor'[n] = HomeOf(machine, n)[d]
                         /\ transmit_buf'[n] = s
                         /\ gsum_buf'[n] = [gsum_buf[n] EXCEPT
                                              ![HomeOf(machine, n)[d]] = s]
                         /\ results' = results
<1>1. /\ machine \in Machines /\ Node = Nodes[machine] /\ Dim = Dims(machine)
      /\ DOMAIN pc = Nodes[machine] /\ DOMAIN dir = Nodes[machine]
      /\ DOMAIN itmp = Nodes[machine] /\ DOMAIN coor = Nodes[machine]
      /\ DOMAIN transmit_buf = Nodes[machine] /\ DOMAIN gsum_buf = Nodes[machine]
  BY TypeFacts DEF Shapes
<1>2. ndir \in Nat /\ d \in Nat /\ d > 0
  BY <1>1, GridFacts DEF ndir, NP
<1>3. dir' = [dir EXCEPT ![n] = d]
  BY DEF EnterDim
<1>4. CASE d > ndir
  <2>1. /\ results' = [results EXCEPT ![n] = Append(@, s)]
        /\ pc' = [pc EXCEPT ![n] = "out"]
        /\ UNCHANGED <<itmp, coor, gsum_buf, transmit_buf>>
    BY <1>4 DEF EnterDim
  <2>2. ~(d <= ndir)
    BY <1>2, <1>4
  <2> QED BY <1>1, <1>3, <1>4, <2>1, <2>2
<1>5. CASE ~(d > ndir)
  <2>1. d <= ndir /\ d \in Dim
    BY <1>2, <1>5 DEF Dim
  <2>2. LogicalCoor(n, d) = HomeOf(machine, n)[d]
    BY <1>1, <2>1, Neighbours
  <2>3. /\ pc' = [pc EXCEPT ![n] = "ring"]
        /\ itmp' = [itmp EXCEPT ![n] = 1]
        /\ coor' = [coor EXCEPT ![n] = HomeOf(machine, n)[d]]
        /\ gsum_buf' = [gsum_buf EXCEPT ![n][HomeOf(machine, n)[d]] = s]
        /\ transmit_buf' = [transmit_buf EXCEPT ![n] = s]
        /\ results' = results
    BY <1>5, <2>2 DEF EnterDim
  <2> DEFINE c == HomeOf(machine, n)[d]
  <2> HIDE DEF c
  <2>4. gsum_buf' = [gsum_buf EXCEPT ![n][c] = s]
    BY <2>3 DEF c
  <2>5. /\ gsum_buf'[n] = [gsum_buf[n] EXCEPT ![c] = s]
        /\ DOMAIN gsum_buf' = Nodes[machine]
        /\ \A m \in Nodes[machine] : m # n => gsum_buf'[m] = gsum_buf[m]
    BY <1>1, <2>4
  <2> QED BY <1>1, <1>3, <1>5, <2>1, <2>3, <2>5 DEF c
<1> QED BY <1>4, <1>5

\* Entering dimension d of call k with what the dimensions before it add up to.
LEMMA EnterHolds ==
  ASSUME TypeOK, Shapes, NEW n \in Nodes[machine], NEW d \in 1..(ndir + 1), NEW s,
         EnterDim(n, d, s), UNCHANGED <<receive_buf, got, sent>>,
         NEW k \in 1..Len(machine.sums), calls'[n] = k,
         d <= ndir => d \in Dims(machine) /\ Splits(machine, k, d),
         s = Held(machine, HomeOf(machine, n), k, d),
         NodeOK(machine, HomeOf(machine, n), Local(n))
  PROVE  /\ NodeOK(machine, HomeOf(machine, n), LocalAfter(n))
         /\ At(machine, LocalAfter(n), k, d)
<1> DEFINE b == LocalAfter(n)
           h == HomeOf(machine, n)
<1>1. /\ machine \in Machines /\ ndir = Len(machine.NP) /\ ndir \in Nat
      /\ DOMAIN got = Nodes[machine] /\ DOMAIN sent = Nodes[machine]
      /\ Node = Nodes[machine]
  BY TypeFacts, GridFacts
<1>2. h \in Nodes[machine]
  BY <1>1, HomeNode
<1>3. /\ b.pc = pc'[n] /\ b.call = k /\ b.dir = dir'[n] /\ b.itmp = itmp'[n]
      /\ b.coor = coor'[n] /\ b.transmit = transmit_buf'[n]
      /\ b.gsum = gsum_buf'[n] /\ b.got = got'[n] /\ b.sent = sent'[n]
  BY LocalAfterFields
<1>4. DOMAIN gsum_buf[n] = Coors(machine) /\ got[n] \in BOOLEAN /\ sent[n] \in BOOLEAN
  BY LocalFields DEF NodeOK
<1>5. b.got \in BOOLEAN /\ b.sent \in BOOLEAN
  BY <1>3, <1>4
<1>6. d \in Nat /\ Len(machine.sums) \in Nat /\ k \in 0..Len(machine.sums)
  BY <1>1, GridFacts
<1> HIDE DEF b, h
<1>7. CASE d > ndir
  <2>1. pc'[n] = "out" /\ gsum_buf'[n] = gsum_buf[n]
    BY <1>7, EnterFields, Zenon
  <2>2. b.pc = "out" /\ b.call = k /\ DOMAIN b.gsum = Coors(machine)
    BY <1>3, <1>4, <2>1
  <2>3. NodeOK(machine, h, b)
    BY <1>5, <1>6, <2>2, Zenon DEF NodeOK
  <2>4. ~(d <= Len(machine.NP)) /\ d > Len(machine.NP)
    BY <1>1, <1>6, <1>7
  <2>5. At(machine, b, k, d)
    BY <2>2, <2>4 DEF At
  <2> QED BY <2>3, <2>5 DEF b, h
<1>8. CASE ~(d > ndir)
  <2>1. d <= ndir /\ d \in Dims(machine) /\ Splits(machine, k, d)
    BY <1>1, <1>6, <1>8
  <2>2. /\ pc'[n] = "ring" /\ dir'[n] = d /\ itmp'[n] = 1
        /\ coor'[n] = h[d] /\ transmit_buf'[n] = s
        /\ gsum_buf'[n] = [gsum_buf[n] EXCEPT ![h[d]] = s]
    BY <2>1, EnterFields DEF h
  <2>3. /\ b.pc = "ring" /\ b.call = k /\ b.dir = d /\ b.itmp = 1
        /\ b.coor = h[b.dir] /\ b.transmit = s /\ s = Held(machine, h, b.call, b.dir)
        /\ b.gsum = [gsum_buf[n] EXCEPT ![h[b.dir]] = b.transmit]
    BY <1>3, <2>2 DEF h
  <2>4. NodeOK(machine, h, b)
    BY <1>1, <1>2, <1>4, <1>5, <2>1, <2>3, EnterOK
  <2>5. At(machine, b, k, d)
    BY <1>1, <1>8, <2>3 DEF At
  <2> QED BY <2>4, <2>5 DEF b, h
<1> QED BY <1>7, <1>8

\* The sum a call returns.
LEMMA TotalHeld ==
  ASSUME NEW mc \in Machines, NEW n \in Nodes[mc], NEW k
  PROVE  OrderedTotal(mc, k, n) = Held(mc, HomeOf(mc, n), k, Len(mc.NP) + 1)
<1>1. Len(mc.NP) + 1 - 1 = Len(mc.NP)
  BY GridFacts
<1>2. HomeOf(mc, n) = [i \in 1..Len(mc.NP) |-> (n[i] - mc.Origin[i]) % mc.NP[i]]
  BY Zenon DEF HomeOf, Dims
<1>3. OrderedTotal(mc, k, n) = Ordered[mc][k][Len(mc.NP)][HomeOf(mc, n)]
  BY <1>2, Zenon DEF OrderedTotal
<1> QED BY <1>1, <1>3 DEF Held

\* The loop over dimensions comes to its end or goes on.
LEMMA EnterResults ==
  ASSUME TypeOK, Shapes, NEW n \in Nodes[machine], NEW d \in 1..(ndir + 1), NEW s,
         EnterDim(n, d, s), UNCHANGED <<machine, receive_buf, got, sent>>,
         NEW k \in 1..Len(machine.sums), calls'[n] = k,
         \A m \in Nodes[machine] : m # n => calls'[m] = calls[m],
         s = Held(machine, HomeOf(machine, n), k, d),
         ResultsOK, Len(results[n]) = k - 1
  PROVE  ResultsOK'
<1>1. /\ machine \in Machines /\ ndir = Len(machine.NP) /\ ndir \in Nat
  BY TypeFacts, GridFacts
<1>2. /\ DOMAIN results = Nodes[machine]
      /\ \A m \in Nodes[machine] :
           /\ results[m] \in Seq(Totals(machine))
           /\ Len(results[m]) = IF pc[m] = "out" THEN calls[m] ELSE calls[m] - 1
  BY DEF ResultsOK
<1>3. \A m \in Nodes[machine] : m # n => pc'[m] = pc[m]
  BY EnterFields
<1>4. k \in Nat /\ d \in Nat
  BY <1>1
<1>5. CASE d > ndir
  <2>1. pc'[n] = "out" /\ results' = [results EXCEPT ![n] = Append(@, s)]
    <3>1. /\ results' = [results EXCEPT ![n] = Append(@, s)]
          /\ pc' = [pc EXCEPT ![n] = "out"]
      BY <1>5 DEF EnterDim
    <3>2. DOMAIN pc = Nodes[machine]
      BY TypeFacts
    <3> QED BY <3>1, <3>2
  <2>2. d = Len(machine.NP) + 1
    BY <1>1, <1>5
  <2>3. s = OrderedTotal(machine, k, n)
    BY <1>1, <2>2, TotalHeld
  <2>4. s \in Totals(machine)
    BY <2>3 DEF Totals
  <2> DEFINE T == Totals(machine)
  <2> HIDE DEF T
  <2>5. results[n] \in Seq(T) /\ s \in T
    BY <1>2, <2>4 DEF T
  <2>6. Append(results[n], s) \in Seq(T) /\ Len(Append(results[n], s)) = k
    BY <1>4, <2>5
  <2>7. /\ results'[n] = Append(results[n], s)
        /\ \A m \in Nodes[machine] : m # n => results'[m] = results[m]
        /\ DOMAIN results' = Nodes[machine]
    BY <1>2, <2>1
  <2>8. \A m \in Nodes[machine] :
           /\ results'[m] \in Seq(T)
           /\ Len(results'[m]) = IF pc'[m] = "out" THEN calls'[m] ELSE calls'[m] - 1
    <3>1. SUFFICES ASSUME NEW m \in Nodes[machine]
                   PROVE  /\ results'[m] \in Seq(T)
                          /\ Len(results'[m]) = IF pc'[m] = "out" THEN calls'[m]
                                                ELSE calls'[m] - 1
      OBVIOUS
    <3>2. CASE m = n
      BY <2>1, <2>6, <2>7, <3>2
    <3>3. CASE m # n
      BY <1>2, <1>3, <2>7, <3>3 DEF T
    <3> QED BY <3>2, <3>3
  <2> QED BY <2>7, <2>8 DEF ResultsOK, T
<1>6. CASE ~(d > ndir)
  <2>1. d <= ndir
    BY <1>1, <1>4, <1>6
  <2>2. pc'[n] = "ring" /\ results' = results
    BY <2>1, EnterFields
  <2>3. \A m \in Nodes[machine] :
           /\ results'[m] \in Seq(Totals(machine))
           /\ Len(results'[m]) = IF pc'[m] = "out" THEN calls'[m] ELSE calls'[m] - 1
    <3>1. SUFFICES ASSUME NEW m \in Nodes[machine]
                   PROVE  /\ results'[m] \in Seq(Totals(machine))
                          /\ Len(results'[m]) = IF pc'[m] = "out" THEN calls'[m]
                                                ELSE calls'[m] - 1
      OBVIOUS
    <3>2. CASE m = n
      BY <1>2, <2>2, <3>2
    <3>3. CASE m # n
      BY <1>2, <1>3, <2>2, <3>3
    <3> QED BY <3>2, <3>3
  <2> QED BY <1>2, <2>2, <2>3 DEF ResultsOK
<1> QED BY <1>5, <1>6

\* A call reaches with Together only the node itself as long as no split
\* dimension is behind it.
LEMMA TogetherAlone ==
  ASSUME NEW mc \in Machines, NEW n \in Nodes[mc], NEW x \in Nodes[mc],
         NEW k, NEW i \in 0..Len(mc.NP),
         Together(mc, k, i, n, x), \A j \in 1..i : ~Splits(mc, k, j)
  PROVE  x = n
<1>1. ASSUME NEW j \in Dims(mc) PROVE x[j] = n[j]
  <2>1. CASE j > i \/ j \notin mc.sums[k]
    BY <1>1, <2>1 DEF Together
  <2>2. CASE ~(j > i \/ j \notin mc.sums[k])
    <3>1. Len(mc.NP) \in Nat /\ mc.NP[j] \in Nat /\ mc.NP[j] > 0
          /\ x[j] \in 0..(mc.NP[j] - 1) /\ n[j] \in 0..(mc.NP[j] - 1)
      BY <1>1, GridFacts, NodeFacts
    <3>2. j \in 1..i
      BY <1>1, <2>2, <3>1 DEF Dims
    <3>3. mc.NP[j] = 1
      BY <2>2, <3>1, <3>2 DEF Splits
    <3> QED BY <3>1, <3>3
  <2> QED BY <2>1, <2>2
<1> QED BY <1>1, SameNode

\* What a node adds is what it holds when the call comes to the first split dimension.
LEMMA CallHeld ==
  ASSUME IInv, NEW n \in Nodes[machine], NEW k \in 1..Len(machine.sums),
         NEW d \in 1..(ndir + 1), \A j \in 1..(d - 1) : ~Splits(machine, k, j)
  PROVE  Contribution(n, k) = Held(machine, HomeOf(machine, n), k, d)
<1> DEFINE mc == machine
           h == HomeOf(mc, n)
<1>1. /\ mc \in Machines /\ Node = Nodes[mc] /\ Dim = Dims(mc)
      /\ ndir = Len(mc.NP) /\ ndir \in Nat \ {0} /\ h \in Nodes[mc]
  BY TypeFacts, GridFacts, HomeNode DEF IInv
<1>2. 1 \in Dims(mc) /\ 1 \in 1..(Len(mc.NP) + 1) /\ d \in 1..(Len(mc.NP) + 1)
  BY <1>1 DEF Dims
<1>3. Contribution(n, k) = <<k, h>>
  <2>1. n \in Node /\ 1 \in Dim
    BY <1>1, <1>2
  <2>2. Home(n) = h
    BY <1>1, <2>1, Neighbours
  <2> QED BY <2>2 DEF Contribution
<1>4. Held(mc, h, k, 1) = <<k, h>>
  BY <1>1, <1>2, HeldLevels
<1>5. Held(mc, h, k, d) = Held(mc, h, k, 1)
  BY <1>1, <1>2, HeldSkips
<1> QED BY <1>3, <1>4, <1>5

\* A call begins.
LEMMA CallInv ==
  ASSUME IInv, TypeOK', NEW n \in Nodes[machine], Call(n)
  PROVE  IInv'
<1> DEFINE mc == machine
           k == calls[n] + 1
           d == NextDim(0, mc.sums[k])
           s == Contribution(n, k)
           h == HomeOf(mc, n)
           a == Local(n)
           b == LocalAfter(n)
<1>1. /\ mc \in Machines /\ ndir = Len(mc.NP) /\ ndir \in Nat
      /\ Node = Nodes[mc] /\ DOMAIN calls = Nodes[mc]
      /\ TypeOK /\ Shapes /\ HoldsOK /\ LinksOK /\ Barrier /\ ResultsOK
  BY TypeFacts, GridFacts DEF IInv
<1>2. /\ pc[n] = "out" /\ calls[n] < Len(mc.sums)
      /\ calls' = [calls EXCEPT ![n] = @ + 1]
      /\ EnterDim(n, d, s)
      /\ UNCHANGED <<machine, receive_buf, link, got, sent>>
  BY DEF Call
<1>3. NodeOK(mc, h, a) /\ h \in Nodes[mc]
  BY <1>1, HomeNode DEF HoldsOK
<1>4. a.pc = "out" /\ a.call = calls[n]
  BY <1>2, LocalFields
<1>5. /\ calls[n] \in Nat /\ k \in 1..Len(mc.sums) /\ k \in Nat /\ k > 0
      /\ calls[n] = k - 1
  <2>1. calls[n] \in 0..Len(mc.sums) /\ Len(mc.sums) \in Nat
    BY <1>1, <1>3, <1>4, GridFacts DEF NodeOK
  <2> QED BY <1>2, <2>1
<1>6. /\ d \in 1..(ndir + 1)
      /\ \A j \in 1..(d - 1) : ~Splits(mc, k, j)
      /\ d <= ndir => d \in Dims(mc) /\ Splits(mc, k, d)
  <2>1. 0 \in 0..ndir /\ 0 + 1 = 1
    BY <1>1
  <2> QED BY <1>1, <1>5, <2>1, NextDimNext
<1>7. s = Held(mc, h, k, d)
  BY <1>5, <1>6, CallHeld
<1>8. calls'[n] = k /\ \A m \in Nodes[mc] : m # n => calls'[m] = calls[m]
  BY <1>1, <1>2
<1> HIDE DEF k, d, s
<1>9. UNCHANGED <<receive_buf, got, sent>> /\ UNCHANGED <<machine, receive_buf, got, sent>>
  BY <1>2
<1>10. NodeOK(mc, h, b) /\ At(mc, b, k, d)
  BY <1>1, <1>2, <1>3, <1>5, <1>6, <1>7, <1>8, <1>9, EnterHolds
<1>11. \A m \in Nodes[mc] : m # n => LocalAfter(m) = Local(m)
  <2>1. SUFFICES ASSUME NEW m \in Nodes[mc], m # n PROVE LocalAfter(m) = Local(m)
    OBVIOUS
  <2>2. /\ pc'[m] = pc[m] /\ dir'[m] = dir[m] /\ itmp'[m] = itmp[m]
        /\ coor'[m] = coor[m] /\ transmit_buf'[m] = transmit_buf[m]
        /\ gsum_buf'[m] = gsum_buf[m] /\ receive_buf'[m] = receive_buf[m]
        /\ got'[m] = got[m] /\ sent'[m] = sent[m]
    BY <1>1, <1>2, <1>6, <1>9, <2>1, EnterFields
  <2>3. calls'[m] = calls[m]
    BY <1>8, <2>1
  <2> QED BY <2>2, <2>3, LocalSame
<1>12. Shapes'
  <2>1. DOMAIN transmit_buf' = Nodes[mc] /\ DOMAIN gsum_buf' = Nodes[mc]
    BY <1>1, <1>2, <1>6, <1>9, EnterFields
  <2> QED BY <1>1, <1>2, <2>1 DEF Shapes, Dims
<1>13. ResultsOK'
  <2>1. Len(results[n]) = k - 1
    BY <1>1, <1>2, <1>5 DEF ResultsOK
  <2> QED BY <1>1, <1>2, <1>5, <1>6, <1>7, <1>8, <1>9, <2>1, EnterResults
<1>14. \A m \in Nodes[mc] : NodeOK(mc, HomeOf(mc, m), LocalAfter(m))
  BY <1>1, <1>10, <1>11 DEF HoldsOK
<1>15. \A m \in Nodes[mc] : \A i \in Dims(mc) :
         /\ Received(mc, i, LocalAfter(m)) = Received(mc, i, Local(m))
         /\ Sent(mc, i, LocalAfter(m)) = Sent(mc, i, Local(m))
         /\ Local(m).pc = "wait" /\ Local(m).dir = i /\ Local(m).sent = FALSE =>
              /\ LocalAfter(m).pc = "wait" /\ LocalAfter(m).dir = i
              /\ LocalAfter(m).sent = FALSE
  <2>1. SUFFICES ASSUME NEW m \in Nodes[mc], NEW i \in Dims(mc)
          PROVE  /\ Received(mc, i, LocalAfter(m)) = Received(mc, i, Local(m))
                 /\ Sent(mc, i, LocalAfter(m)) = Sent(mc, i, Local(m))
                 /\ Local(m).pc = "wait" /\ Local(m).dir = i /\ Local(m).sent = FALSE =>
                      /\ LocalAfter(m).pc = "wait" /\ LocalAfter(m).dir = i
                      /\ LocalAfter(m).sent = FALSE
    OBVIOUS
  <2>2. CASE m # n
    BY <1>11, <2>2
  <2>3. CASE m = n
    <3>1. d \in 1..(Len(mc.NP) + 1) /\ a.call = k - 1
      BY <1>1, <1>4, <1>5, <1>6
    <3>2. /\ Received(mc, i, b) = Received(mc, i, a)
          /\ Sent(mc, i, b) = Sent(mc, i, a)
      <4>1. /\ mc \in Machines /\ a.pc = "out" /\ k \in 1..Len(mc.sums)
            /\ At(mc, b, k, d) /\ \A j \in 1..(d - 1) : ~Splits(mc, k, j)
        BY <1>1, <1>4, <1>5, <1>6, <1>10
      <4> HIDE DEF a, b, h, mc
      <4> QED BY <2>1, <3>1, <4>1, CallCounts
    <3> QED BY <1>4, <2>3, <3>2
  <2> QED BY <2>2, <2>3
<1>16. \A i \in Dims(mc), m \in Nodes[mc] :
         LinkOK(mc, i, HomeOf(mc, m), link'[i][m],
                LocalAfter(m), LocalAfter(Ahead(mc, i, m, 1)))
  <2>1. UNCHANGED link
    BY <1>2
  <2> QED BY <1>1, <1>15, <2>1, LinksQuiet
<1>17. \A m \in Nodes[mc], x \in Nodes[mc],
          c \in 1..Len(mc.sums), i \in 0..Len(mc.NP) :
         Reached(LocalAfter(m), c, i) /\ Together(mc, c, i, m, x) => calls'[x] >= c
  <2>1. SUFFICES ASSUME NEW m \in Nodes[mc], NEW x \in Nodes[mc],
                        NEW c \in 1..Len(mc.sums), NEW i \in 0..Len(mc.NP),
                        Reached(LocalAfter(m), c, i), Together(mc, c, i, m, x)
                 PROVE  calls'[x] >= c
    OBVIOUS
  <2>2. /\ c \in Nat /\ calls[x] \in Nat /\ calls'[x] \in Nat /\ calls'[x] >= calls[x]
        /\ i \in Nat
    <3>1. calls[x] \in Nat
      BY <1>1 DEF TypeOK
    <3>2. calls'[x] = calls[x] \/ calls'[x] = calls[x] + 1
      BY <1>2, <1>8
    <3> QED BY <1>1, <3>1, <3>2
  <2>3. Reached(Local(m), c, i) => calls'[x] >= c
    <3>1. Reached(Local(m), c, i) => calls[x] >= c
      BY <1>1, <2>1 DEF Barrier
    <3> QED BY <2>2, <3>1
  <2>4. CASE m # n
    BY <1>11, <2>1, <2>3, <2>4
  <2>5. CASE m = n /\ k > c
    <3>1. Reached(a, c, i)
      <4>1. a.call > c \/ a.call = c
        BY <1>4, <1>5, <2>2, <2>5
      <4> QED BY <1>4, <4>1 DEF Reached, Past
    <3> QED BY <2>3, <2>5, <3>1
  <2>6. CASE m = n /\ ~(k > c)
    <3>1. b.call = k /\ k = c /\ Past(b, i)
      <4>1. b.call = k
        BY <1>10 DEF At
      <4> QED BY <1>5, <2>1, <2>2, <2>6, <4>1 DEF Reached
    <3>2. d > i
      BY <1>1, <1>6, <1>10, <2>2, <3>1 DEF At, Past
    <3>3. \A j \in 1..i : ~Splits(mc, c, j)
      BY <1>1, <1>6, <2>2, <3>1, <3>2
    <3>4. x = n
      BY <1>1, <2>1, <2>6, <3>3, TogetherAlone
    <3> QED BY <1>5, <1>8, <3>1, <3>4
  <2> QED BY <2>4, <2>5, <2>6
<1>18. UNCHANGED machine
  BY <1>2
<1> QED BY <1>12, <1>13, <1>14, <1>16, <1>17, <1>18, After

\* A node with all numbers of its ring: whoever it adds up with along the
\* dimensions so far has begun the call.
LEMMA WholeRing ==
  ASSUME IInv, NEW n \in Nodes[machine], NEW x \in Nodes[machine],
         NEW e \in Dims(machine), NEW k \in 1..Len(machine.sums),
         Local(n).pc = "wait", Local(n).got = TRUE,
         Local(n).dir = e, Local(n).call = k,
         Local(n).itmp + 1 >= machine.NP[e],
         NEW i \in e..Len(machine.NP),
         \A j \in (e + 1)..i : ~Splits(machine, k, j),
         Together(machine, k, i, n, x)
  PROVE  calls[x] >= k
<1> DEFINE mc == machine
           N == mc.NP[e]
           a == Local(n)
           h == HomeOf(mc, n)
           B == Before(mc, e, k - 1)
           c == x[e]
           y == [n EXCEPT ![e] = c]
<1>1. /\ mc \in Machines /\ h \in Nodes[mc] /\ NodeOK(mc, h, a) /\ RingOK(mc, h, a)
  <2>1. mc \in Machines
    BY DEF IInv, TypeOK
  <2> QED BY <2>1, HomeNode DEF IInv, HoldsOK, NodeOK
<1>2. /\ N \in Nat /\ N > 1 /\ a.itmp \in 1..(N - 1) /\ Splits(mc, k, e)
      /\ k \in Nat /\ k > 0 /\ e \in Nat /\ e > 0
  <2>1. N \in Nat /\ N > 1 /\ a.itmp \in 1..(N - 1) /\ Splits(mc, k, e)
    BY <1>1, RingFacts DEF RingOK
  <2> QED BY <1>1, <2>1, GridFacts DEF Dims
<1>3. a.itmp = N - 1
  BY <1>2
<1>4. B \in Nat
  BY <1>1, <1>2, OneMoreCall
<1>5. Received(mc, e, a) = B + (N - 1)
  <2>1. In(a, e) /\ Ended(mc, e, a) = B
    BY <1>1, CountFacts DEF In
  <2> QED BY <1>3, <2>1, Zenon DEF Received
<1>6. /\ y \in Nodes[mc]
      /\ y[e] = x[e] /\ \A j \in Dims(mc) : j # e => y[j] = n[j]
      /\ DOMAIN y = Dims(mc)
  <2>1. /\ DOMAIN n = Dims(mc) /\ \A j \in Dims(mc) : n[j] \in 0..(mc.NP[j] - 1)
        /\ c \in 0..(mc.NP[e] - 1)
    BY <1>1, NodeFacts
  <2> HIDE DEF c
  <2>2. /\ y[e] = c /\ \A j \in Dims(mc) : j # e => y[j] = n[j]
        /\ DOMAIN y = Dims(mc) /\ y = [j \in Dims(mc) |-> y[j]]
    BY <2>1
  <2>3. \A j \in Dims(mc) : y[j] \in 0..(mc.NP[j] - 1)
    BY <2>1, <2>2
  <2>4. y \in Nodes[mc]
    BY <1>1, <2>2, <2>3, NodeFacts
  <2> QED BY <2>2, <2>4 DEF c
<1> HIDE DEF y, B
<1>7. Reached(Local(y), k, e - 1)
  <2>1. PICK q \in 0..(N - 1) : Ahead(mc, e, n, q) = y
    BY <1>1, <1>6, AheadOnto
  <2>2. CASE q = 0
    <3>1. y = n
      BY <1>1, <2>1, <2>2, AheadLaws
    <3>2. e > e - 1
      BY <1>2
    <3> QED BY <3>1, <3>2 DEF Reached, Past
  <2>3. CASE q # 0
    <3>1. q \in 1..(N - 1)
      BY <1>2, <2>3
    <3>2. Received(mc, e, a) + 1 <= Sent(mc, e, Local(y)) + q
      BY <2>1, <3>1, NoOvertaking
    <3>3. NodeOK(mc, HomeOf(mc, y), Local(y)) /\ HomeOf(mc, y) \in Nodes[mc]
      BY <1>1, <1>6, HomeNode DEF IInv, HoldsOK
    <3>4. Sent(mc, e, Local(y)) \in Nat
      BY <1>1, <3>3, CountFacts
    <3>5. Sent(mc, e, Local(y)) > B
      BY <1>2, <1>4, <1>5, <3>1, <3>2, <3>4
    <3> QED BY <1>1, <3>3, <3>5, HasBegun DEF B
  <2> QED BY <2>2, <2>3
<1>8. Together(mc, k, e - 1, y, x)
  <2>1. SUFFICES ASSUME NEW j \in Dims(mc), j > e - 1 \/ j \notin mc.sums[k]
                 PROVE  x[j] = y[j]
    BY DEF Together
  <2>2. CASE j = e
    BY <1>6, <2>2
  <2>3. CASE j # e /\ (j > i \/ j \notin mc.sums[k])
    <3>1. x[j] = n[j]
      BY <2>3 DEF Together
    <3> QED BY <1>6, <2>3, <3>1
  <2>4. CASE j # e /\ ~(j > i \/ j \notin mc.sums[k])
    <3>1. /\ Len(mc.NP) \in Nat /\ mc.NP[j] \in Nat /\ mc.NP[j] > 0
          /\ x[j] \in 0..(mc.NP[j] - 1) /\ y[j] \in 0..(mc.NP[j] - 1)
      BY <1>1, <1>6, GridFacts, NodeFacts
    <3>2. j \in (e + 1)..i
      BY <1>2, <2>1, <2>4, <3>1 DEF Dims
    <3>3. mc.NP[j] = 1
      BY <2>4, <3>1, <3>2 DEF Splits
    <3> QED BY <3>1, <3>3
  <2> QED BY <2>2, <2>3, <2>4
<1>9. e - 1 \in 0..Len(mc.NP)
  BY <1>1, <1>2, GridFacts DEF Dims
<1> QED BY <1>6, <1>7, <1>8, <1>9 DEF IInv, Barrier

\* The next dimension of the call node n is in.
NextOf(n) == NextDim(dir[n], machine.sums[calls[n]])

\* A node that leaves a ring has what the dimensions up to the next one add up to.
LEMMA LeaveFacts ==
  ASSUME IInv, NEW n \in Nodes[machine], LeaveDim(n)
  PROVE  /\ Local(n).pc = "wait" /\ Local(n).call = calls[n]
         /\ Local(n).dir = dir[n] /\ Local(n).got = TRUE
         /\ Local(n).itmp + 1 >= machine.NP[dir[n]]
         /\ calls[n] \in 1..Len(machine.sums) /\ dir[n] \in Dims(machine)
         /\ NextOf(n) \in (dir[n] + 1)..(ndir + 1) /\ NextOf(n) \in 1..(ndir + 1)
         /\ \A j \in (dir[n] + 1)..(NextOf(n) - 1) : ~Splits(machine, calls[n], j)
         /\ NextOf(n) <= ndir =>
              NextOf(n) \in Dims(machine) /\ Splits(machine, calls[n], NextOf(n))
         /\ RingTotal(n) = Held(machine, HomeOf(machine, n), calls[n], NextOf(n))
<1> DEFINE mc == machine
           k == calls[n]
           e == dir[n]
           d == NextDim(e, mc.sums[k])
           s == RingTotal(n)
           h == HomeOf(mc, n)
           a == Local(n)
<1>1. /\ mc \in Machines /\ ndir = Len(mc.NP) /\ ndir \in Nat
      /\ Node = Nodes[mc] /\ DOMAIN calls = Nodes[mc]
      /\ TypeOK /\ Shapes /\ HoldsOK /\ LinksOK /\ Barrier /\ ResultsOK
  BY TypeFacts, GridFacts DEF IInv
<1>2. /\ pc[n] = "wait" /\ Waited(n) /\ itmp[n] + 1 >= NP[e]
      /\ EnterDim(n, d, s)
      /\ UNCHANGED <<machine, calls, receive_buf, link, got, sent>>
  BY DEF LeaveDim
<1>3. NodeOK(mc, h, a) /\ h \in Nodes[mc]
  BY <1>1, HomeNode DEF HoldsOK
<1>4. /\ a.pc = "wait" /\ a.call = k /\ a.dir = e /\ a.got = TRUE
      /\ a.itmp = itmp[n] /\ a.itmp + 1 >= mc.NP[a.dir]
  <2>1. got[n]
    BY <1>2 DEF Waited
  <2>2. got[n] = TRUE
    BY <1>1, <2>1 DEF TypeOK
  <2> QED BY <1>2, <2>2, LocalFields DEF NP
<1>5. /\ k \in 1..Len(mc.sums) /\ k \in Nat /\ k > 0 /\ e \in Dims(mc)
      /\ e \in Nat /\ e > 0 /\ e <= ndir
  <2>1. RingOK(mc, h, a)
    BY <1>3, <1>4 DEF NodeOK
  <2>2. k \in 1..Len(mc.sums) /\ e \in Dims(mc)
    BY <1>1, <1>3, <1>4, <2>1, RingFacts
  <2> QED BY <1>1, <2>2 DEF Dims
<1>6. /\ d \in (e + 1)..(ndir + 1) /\ d \in 1..(ndir + 1)
      /\ \A j \in (e + 1)..(d - 1) : ~Splits(mc, k, j)
      /\ d <= ndir => d \in Dims(mc) /\ Splits(mc, k, d)
  <2>1. e \in 0..ndir
    BY <1>1, <1>5
  <2>2. /\ d \in (e + 1)..(ndir + 1)
        /\ \A j \in (e + 1)..(d - 1) : ~Splits(mc, k, j)
        /\ d <= ndir => d \in Dims(mc) /\ Splits(mc, k, d)
    BY <1>1, <1>5, <2>1, NextDimNext
  <2> HIDE DEF d
  <2> QED BY <1>1, <1>5, <2>2
<1>7. s = Held(mc, h, k, d)
  <2>1. s = [c \in 0..(mc.NP[a.dir] - 1) |-> Kept(a)[c]]
    <3>1. Stored(n) = Kept(a)
      BY LocalFields DEF Stored, Kept
    <3> QED BY <1>4, <3>1 DEF RingTotal, Coor, NP
  <2>2. s = Held(mc, h, a.call, a.dir + 1)
    <3>1. [c \in 0..(mc.NP[a.dir] - 1) |-> Kept(a)[c]]
            = Held(mc, h, a.call, a.dir + 1)
      <4> HIDE DEF a, h
      <4> QED BY <1>1, <1>3, <1>4, TotalOK
    <3> QED BY <2>1, <3>1
  <2>3. e + 1 \in 1..(Len(mc.NP) + 1) /\ d \in (e + 1)..(Len(mc.NP) + 1)
    BY <1>1, <1>5, <1>6
  <2>4. Held(mc, h, k, d) = Held(mc, h, k, e + 1)
    BY <1>1, <1>3, <1>5, <1>6, <2>3, HeldSkips
  <2> QED BY <1>4, <2>2, <2>4
<1>8. NextOf(n) = d
  BY DEF NextOf
<1> HIDE DEF d, a, s, h
<1>9. a.itmp + 1 >= mc.NP[e]
  BY <1>4
<1> QED BY <1>4, <1>5, <1>6, <1>7, <1>8, <1>9 DEF a, s, h

\* A ring is left.
LEMMA LeaveInv ==
  ASSUME IInv, TypeOK', NEW n \in Nodes[machine], LeaveDim(n)
  PROVE  IInv'
<1> DEFINE mc == machine
           k == calls[n]
           e == dir[n]
           d == NextDim(e, mc.sums[k])
           s == RingTotal(n)
           h == HomeOf(mc, n)
           a == Local(n)
           b == LocalAfter(n)
<1>1. /\ mc \in Machines /\ ndir = Len(mc.NP) /\ ndir \in Nat
      /\ Node = Nodes[mc] /\ DOMAIN calls = Nodes[mc]
      /\ TypeOK /\ Shapes /\ HoldsOK /\ LinksOK /\ Barrier /\ ResultsOK
  BY TypeFacts, GridFacts DEF IInv
<1>2. EnterDim(n, d, s) /\ UNCHANGED <<machine, calls, receive_buf, link, got, sent>>
  BY DEF LeaveDim
<1>3. NodeOK(mc, h, a) /\ h \in Nodes[mc]
  BY <1>1, HomeNode DEF HoldsOK
<1>4. /\ a.pc = "wait" /\ a.call = k /\ a.dir = e /\ a.got = TRUE
      /\ a.itmp + 1 >= mc.NP[a.dir]
  BY LeaveFacts
<1>5. /\ k \in 1..Len(mc.sums) /\ k \in Nat /\ k > 0 /\ e \in Dims(mc)
      /\ e \in Nat /\ e > 0 /\ e <= ndir
  <2>1. k \in 1..Len(mc.sums) /\ e \in Dims(mc)
    BY LeaveFacts
  <2> QED BY <1>1, <2>1 DEF Dims
<1>6. /\ d \in (e + 1)..(ndir + 1) /\ d \in 1..(ndir + 1)
      /\ \A j \in (e + 1)..(d - 1) : ~Splits(mc, k, j)
      /\ d <= ndir => d \in Dims(mc) /\ Splits(mc, k, d)
  BY LeaveFacts DEF NextOf
<1>7. s = Held(mc, h, k, d)
  BY LeaveFacts DEF NextOf
<1>8. calls'[n] = k /\ \A m \in Nodes[mc] : m # n => calls'[m] = calls[m]
  BY <1>2
<1> HIDE DEF k, d, s, e
<1>9. UNCHANGED <<receive_buf, got, sent>> /\ UNCHANGED <<machine, receive_buf, got, sent>>
  BY <1>2
<1>10. NodeOK(mc, h, b) /\ At(mc, b, k, d)
  BY <1>1, <1>2, <1>3, <1>5, <1>6, <1>7, <1>8, <1>9, EnterHolds
<1>11. \A m \in Nodes[mc] : m # n => LocalAfter(m) = Local(m)
  <2>1. SUFFICES ASSUME NEW m \in Nodes[mc], m # n PROVE LocalAfter(m) = Local(m)
    OBVIOUS
  <2>2. /\ pc'[m] = pc[m] /\ dir'[m] = dir[m] /\ itmp'[m] = itmp[m]
        /\ coor'[m] = coor[m] /\ transmit_buf'[m] = transmit_buf[m]
        /\ gsum_buf'[m] = gsum_buf[m] /\ receive_buf'[m] = receive_buf[m]
        /\ got'[m] = got[m] /\ sent'[m] = sent[m]
    BY <1>1, <1>2, <1>6, <1>9, <2>1, EnterFields
  <2>3. calls'[m] = calls[m]
    BY <1>8, <2>1
  <2> QED BY <2>2, <2>3, LocalSame
<1>12. Shapes'
  <2>1. DOMAIN transmit_buf' = Nodes[mc] /\ DOMAIN gsum_buf' = Nodes[mc]
    BY <1>1, <1>2, <1>6, <1>9, EnterFields
  <2> QED BY <1>1, <1>2, <2>1 DEF Shapes, Dims
<1>13. ResultsOK'
  <2>1. Len(results[n]) = k - 1
    BY <1>1, <1>4, LocalFields DEF ResultsOK, k
  <2> QED BY <1>1, <1>2, <1>5, <1>6, <1>7, <1>8, <1>9, <2>1, EnterResults
<1>14. \A m \in Nodes[mc] : NodeOK(mc, HomeOf(mc, m), LocalAfter(m))
  BY <1>1, <1>10, <1>11 DEF HoldsOK
<1>15. \A m \in Nodes[mc] : \A i \in Dims(mc) :
         /\ Received(mc, i, LocalAfter(m)) = Received(mc, i, Local(m))
         /\ Sent(mc, i, LocalAfter(m)) = Sent(mc, i, Local(m))
         /\ Local(m).pc = "wait" /\ Local(m).dir = i /\ Local(m).sent = FALSE =>
              /\ LocalAfter(m).pc = "wait" /\ LocalAfter(m).dir = i
              /\ LocalAfter(m).sent = FALSE
  <2>1. SUFFICES ASSUME NEW m \in Nodes[mc], NEW i \in Dims(mc)
          PROVE  /\ Received(mc, i, LocalAfter(m)) = Received(mc, i, Local(m))
                 /\ Sent(mc, i, LocalAfter(m)) = Sent(mc, i, Local(m))
                 /\ Local(m).pc = "wait" /\ Local(m).dir = i /\ Local(m).sent = FALSE =>
                      /\ LocalAfter(m).pc = "wait" /\ LocalAfter(m).dir = i
                      /\ LocalAfter(m).sent = FALSE
    OBVIOUS
  <2>2. CASE m # n
    BY <1>11, <2>2
  <2>3. CASE m = n
    <3>1. d \in (a.dir + 1)..(Len(mc.NP) + 1) /\ a.call = k
          /\ At(mc, b, a.call, d)
          /\ \A j \in (a.dir + 1)..(d - 1) : ~Splits(mc, a.call, j)
      BY <1>1, <1>4, <1>6, <1>10
    <3>2. /\ Received(mc, i, b) = Received(mc, i, a)
          /\ Sent(mc, i, b) = Sent(mc, i, a)
      <4>1. /\ mc \in Machines /\ h \in Nodes[mc] /\ NodeOK(mc, h, a)
            /\ a.pc = "wait" /\ a.got = TRUE /\ a.itmp + 1 >= mc.NP[a.dir]
        BY <1>1, <1>3, <1>4
      <4> HIDE DEF a, b, h, mc
      <4> QED BY <2>1, <3>1, <4>1, LeaveCounts
    <3>3. Local(m).sent = FALSE => FALSE
      <4>1. sent[n] = TRUE
        BY <1>1 DEF LeaveDim, Waited, TypeOK
      <4>2. Local(n).sent = TRUE
        BY <4>1, LocalFields
      <4> QED BY <2>3, <4>2
    <3> QED BY <2>3, <3>2, <3>3
  <2> QED BY <2>2, <2>3
<1>16. \A i \in Dims(mc), m \in Nodes[mc] :
         LinkOK(mc, i, HomeOf(mc, m), link'[i][m],
                LocalAfter(m), LocalAfter(Ahead(mc, i, m, 1)))
  <2>1. UNCHANGED link
    BY <1>2
  <2> QED BY <1>1, <1>15, <2>1, LinksQuiet
<1>17. \A m \in Nodes[mc], x \in Nodes[mc],
          c \in 1..Len(mc.sums), i \in 0..Len(mc.NP) :
         Reached(LocalAfter(m), c, i) /\ Together(mc, c, i, m, x) => calls'[x] >= c
  <2>1. SUFFICES ASSUME NEW m \in Nodes[mc], NEW x \in Nodes[mc],
                        NEW c \in 1..Len(mc.sums), NEW i \in 0..Len(mc.NP),
                        Reached(LocalAfter(m), c, i), Together(mc, c, i, m, x)
                 PROVE  calls'[x] >= c
    OBVIOUS
  <2>2. c \in Nat /\ i \in Nat /\ calls'[x] = calls[x]
    BY <1>1, <1>2
  <2>3. Reached(Local(m), c, i) => calls'[x] >= c
    BY <1>1, <2>1, <2>2 DEF Barrier
  <2>4. CASE m # n
    BY <1>11, <2>1, <2>3, <2>4
  <2>5. CASE m = n /\ k > c
    <3>1. Reached(a, c, i)
      BY <1>4, <2>5 DEF Reached
    <3> QED BY <2>3, <2>5, <3>1
  <2>6. CASE m = n /\ ~(k > c) /\ i < e
    <3>1. b.call = k /\ k = c
      <4>1. b.call = k
        BY <1>10 DEF At
      <4> QED BY <1>5, <2>1, <2>2, <2>6, <4>1 DEF Reached
    <3>2. Reached(a, c, i)
      BY <1>4, <2>6, <3>1 DEF Reached, Past
    <3> QED BY <2>3, <2>6, <3>2
  <2>7. CASE m = n /\ ~(k > c) /\ ~(i < e)
    <3>1. b.call = k /\ k = c /\ Past(b, i)
      <4>1. b.call = k
        BY <1>10 DEF At
      <4> QED BY <1>5, <2>1, <2>2, <2>7, <4>1 DEF Reached
    <3>2. d > i
      BY <1>1, <1>6, <1>10, <2>2, <3>1 DEF At, Past
    <3>3. \A j \in (e + 1)..i : ~Splits(mc, k, j)
      BY <1>1, <1>5, <1>6, <2>2, <3>2
    <3>4. Together(mc, k, i, n, x) /\ i \in e..Len(mc.NP)
      BY <1>1, <1>5, <2>1, <2>2, <2>7, <3>1
    <3>5. calls[x] >= k
      BY <1>1, <1>4, <1>5, <3>3, <3>4, WholeRing
    <3> QED BY <2>2, <3>1, <3>5
  <2> QED BY <2>4, <2>5, <2>6, <2>7
<1>18. UNCHANGED machine
  BY <1>2
<1> QED BY <1>12, <1>13, <1>14, <1>16, <1>17, <1>18, After

\* The sums returned are those of the calls that are over.
LEMMA ResultsKept ==
  ASSUME ResultsOK, UNCHANGED <<machine, calls, results>>,
         \A m \in Nodes[machine] : pc'[m] = "out" <=> pc[m] = "out"
  PROVE  ResultsOK'
<1>1. \A m \in Nodes[machine] :
        (IF pc'[m] = "out" THEN calls'[m] ELSE calls'[m] - 1)
          = IF pc[m] = "out" THEN calls[m] ELSE calls[m] - 1
  OBVIOUS
<1> QED BY <1>1, Zenon DEF ResultsOK

\* A step of a node in a ring that does not leave it begins no call and ends none.
LEMMA BarrierKept ==
  ASSUME Barrier, UNCHANGED calls,
         \A m \in Nodes[machine] :
           /\ LocalAfter(m).call = Local(m).call
           /\ LocalAfter(m).dir = Local(m).dir
           /\ LocalAfter(m).pc = "out" <=> Local(m).pc = "out",
         NEW n \in Nodes[machine], NEW x \in Nodes[machine],
         NEW k \in 1..Len(machine.sums), NEW i \in 0..Len(machine.NP),
         Reached(LocalAfter(n), k, i), Together(machine, k, i, n, x)
  PROVE  calls'[x] >= k
<1>1. Reached(Local(n), k, i)
  BY DEF Reached, Past
<1> QED BY <1>1 DEF Barrier

\* A number is passed on.
LEMMA PassOnInv ==
  ASSUME IInv, TypeOK', NEW n \in Nodes[machine], PassOn(n)
  PROVE  IInv'
<1> DEFINE mc == machine
           e == dir[n]
           h == HomeOf(mc, n)
           a == Local(n)
           b == LocalAfter(n)
<1>1. /\ mc \in Machines /\ Node = Nodes[mc]
      /\ DOMAIN pc = Nodes[mc] /\ DOMAIN itmp = Nodes[mc]
      /\ TypeOK /\ Shapes /\ HoldsOK /\ LinksOK /\ Barrier /\ ResultsOK
  BY TypeFacts DEF IInv
<1>2. /\ pc[n] = "wait" /\ Waited(n) /\ itmp[n] + 1 < NP[e]
      /\ pc' = [pc EXCEPT ![n] = "ring"]
      /\ itmp' = [itmp EXCEPT ![n] = itmp[n] + 1]
      /\ gsum_buf' = [gsum_buf EXCEPT ![n] = Stored(n)]
      /\ transmit_buf' = [transmit_buf EXCEPT ![n] = receive_buf[n]]
      /\ UNCHANGED <<machine, calls, results, dir, coor, receive_buf, link, got, sent>>
  BY DEF PassOn
<1>3. NodeOK(mc, h, a) /\ h \in Nodes[mc]
  BY <1>1, HomeNode DEF HoldsOK
<1>4. /\ a.pc = "wait" /\ a.dir = e /\ a.got = TRUE /\ a.sent = TRUE
      /\ a.itmp + 1 < mc.NP[a.dir]
  <2>1. got[n] /\ sent[n]
    BY <1>2 DEF Waited
  <2>2. got[n] = TRUE /\ sent[n] = TRUE
    BY <1>1, <2>1 DEF TypeOK
  <2> QED BY <1>2, <2>2, LocalFields DEF NP
<1>5. \A m \in Nodes[mc] : m # n => LocalAfter(m) = Local(m)
  <2>1. SUFFICES ASSUME NEW m \in Nodes[mc], m # n PROVE LocalAfter(m) = Local(m)
    OBVIOUS
  <2> QED BY <1>2, <2>1, LocalSame
<1>6. Stored(n) = Kept(a)
  BY LocalFields DEF Stored, Kept
<1>7. /\ b.pc = "ring" /\ b.itmp = a.itmp + 1 /\ b.transmit = a.receive
      /\ b.gsum = Kept(a) /\ b.coor = a.coor /\ b.call = a.call /\ b.dir = a.dir
      /\ b.receive = a.receive /\ b.got = a.got /\ b.sent = a.sent
  BY <1>1, <1>2, <1>6, LocalFields, LocalAfterFields DEF Shapes
<1> HIDE DEF a, b, h
<1>8. NodeOK(mc, h, b)
  BY <1>1, <1>3, <1>4, <1>7, PassOnOK
<1>9. Shapes'
  BY <1>1, <1>2 DEF Shapes, Dims
<1>10. ResultsOK'
  <2>1. \A m \in Nodes[mc] : pc'[m] = "out" <=> pc[m] = "out"
    BY <1>1, <1>2
  <2> QED BY <1>1, <1>2, <2>1, ResultsKept
<1>11. \A m \in Nodes[mc] : NodeOK(mc, HomeOf(mc, m), LocalAfter(m))
  BY <1>1, <1>5, <1>8 DEF HoldsOK, b, h
<1>12. \A m \in Nodes[mc] : \A i \in Dims(mc) :
         /\ Received(mc, i, LocalAfter(m)) = Received(mc, i, Local(m))
         /\ Sent(mc, i, LocalAfter(m)) = Sent(mc, i, Local(m))
         /\ Local(m).pc = "wait" /\ Local(m).dir = i /\ Local(m).sent = FALSE =>
              /\ LocalAfter(m).pc = "wait" /\ LocalAfter(m).dir = i
              /\ LocalAfter(m).sent = FALSE
  <2>1. ASSUME NEW i \in Dims(mc)
        PROVE  /\ Received(mc, i, b) = Received(mc, i, a)
               /\ Sent(mc, i, b) = Sent(mc, i, a)
               /\ ~(a.sent = FALSE)
    <3>1. /\ Received(mc, i, b) = Received(mc, i, a)
          /\ Sent(mc, i, b) = Sent(mc, i, a)
      <4>1. /\ mc \in Machines /\ NodeOK(mc, h, a) /\ h \in Nodes[mc]
            /\ a.pc = "wait" /\ a.got = TRUE /\ b.pc = "ring"
            /\ b.call = a.call /\ b.dir = a.dir /\ b.itmp = a.itmp + 1
        BY <1>1, <1>3, <1>4, <1>7
      <4> HIDE DEF mc
      <4> QED BY <2>1, <4>1, PassOnCounts
    <3>2. ~(a.sent = FALSE)
      BY <1>4
    <3> QED BY <3>1, <3>2
  <2> QED BY <1>5, <2>1 DEF a, b
<1>13. \A i \in Dims(mc), m \in Nodes[mc] :
         LinkOK(mc, i, HomeOf(mc, m), link'[i][m],
                LocalAfter(m), LocalAfter(Ahead(mc, i, m, 1)))
  <2>1. UNCHANGED link
    BY <1>2
  <2> QED BY <1>1, <1>12, <2>1, LinksQuiet
<1>14. \A m \in Nodes[mc], x \in Nodes[mc],
          c \in 1..Len(mc.sums), i \in 0..Len(mc.NP) :
         Reached(LocalAfter(m), c, i) /\ Together(mc, c, i, m, x) => calls'[x] >= c
  <2>1. \A m \in Nodes[mc] :
           /\ LocalAfter(m).call = Local(m).call
           /\ LocalAfter(m).dir = Local(m).dir
           /\ LocalAfter(m).pc = "out" <=> Local(m).pc = "out"
    BY <1>4, <1>5, <1>7 DEF a, b
  <2> QED BY <1>1, <1>2, <2>1, BarrierKept
<1>15. UNCHANGED machine
  BY <1>2
<1> QED BY <1>9, <1>10, <1>11, <1>13, <1>14, <1>15, After

\* Nothing happens.
LEMMA StutterInv ==
  ASSUME IInv, TypeOK', UNCHANGED vars
  PROVE  IInv'
<1>1. /\ machine \in Machines
      /\ TypeOK /\ Shapes /\ HoldsOK /\ LinksOK /\ Barrier /\ ResultsOK
  BY TypeFacts DEF IInv
<1>2. UNCHANGED <<machine, pc, calls, results, dir, itmp, coor, gsum_buf,
                  transmit_buf, receive_buf, link, got, sent>>
  BY DEF vars
<1>3. \A m \in Nodes[machine] : LocalAfter(m) = Local(m)
  BY <1>2, LocalSame
<1>4. Shapes'
  BY <1>1, <1>2 DEF Shapes, Dims
<1>5. ResultsOK'
  BY <1>1, <1>2, ResultsKept
<1>6. \A m \in Nodes[machine] : NodeOK(machine, HomeOf(machine, m), LocalAfter(m))
  BY <1>1, <1>3 DEF HoldsOK
<1>7. \A i \in Dims(machine), m \in Nodes[machine] :
         LinkOK(machine, i, HomeOf(machine, m), link'[i][m],
                LocalAfter(m), LocalAfter(Ahead(machine, i, m, 1)))
  <2>1. UNCHANGED link
    BY <1>2
  <2> QED BY <1>1, <1>3, <2>1, LinksQuiet
<1>8. \A m \in Nodes[machine], x \in Nodes[machine],
          c \in 1..Len(machine.sums), i \in 0..Len(machine.NP) :
         Reached(LocalAfter(m), c, i) /\ Together(machine, c, i, m, x) => calls'[x] >= c
  BY <1>1, <1>2, <1>3, BarrierKept
<1>9. UNCHANGED machine
  BY <1>2
<1> QED BY <1>4, <1>5, <1>6, <1>7, <1>8, <1>9, After

\* A send and a receive are started.
LEMMA StartInv ==
  ASSUME IInv, TypeOK', NEW n \in Nodes[machine], Start(n)
  PROVE  IInv'
<1> DEFINE mc == machine
           e == dir[n]
           h == HomeOf(mc, n)
           a == Local(n)
           b == LocalAfter(n)
           p == Ahead(mc, e, n, mc.NP[e] - 1)
<1>1. /\ mc \in Machines /\ Node = Nodes[mc] /\ Dim = Dims(mc)
      /\ DOMAIN pc = Nodes[mc] /\ DOMAIN coor = Nodes[mc]
      /\ DOMAIN got = Nodes[mc] /\ DOMAIN sent = Nodes[mc]
      /\ DOMAIN link = Dims(mc) /\ \A i \in Dims(mc) : DOMAIN link[i] = Nodes[mc]
      /\ TypeOK /\ Shapes /\ HoldsOK /\ LinksOK /\ Barrier /\ ResultsOK
  BY TypeFacts DEF IInv, Shapes
<1>2. NodeOK(mc, h, a) /\ h \in Nodes[mc]
  BY <1>1, HomeNode DEF HoldsOK
<1>3. a.pc = "ring" /\ a.dir = e
  BY LocalFields DEF Start
<1>4. RingOK(mc, h, a)
  BY <1>2, <1>3 DEF NodeOK
<1>5. /\ e \in Dims(mc) /\ mc.NP[e] \in Nat /\ mc.NP[e] > 1
      /\ a.coor \in 0..(mc.NP[e] - 1)
  <2>1. e \in Dims(mc) /\ mc.NP[e] \in Nat /\ mc.NP[e] > 1
    BY <1>1, <1>2, <1>3, <1>4, RingFacts
  <2>2. coor[n] \in Coor(dir[n])
    BY <1>1, <1>3, LocalFields DEF TypeOK, InRange
  <2> QED BY <2>1, <2>2, LocalFields DEF Coor, NP
<1>6. /\ Minus(n, e) = p
      /\ NextCoor(coor[n], e) = Turn(mc.NP[e], coor[n], 1)
  <2>1. coor[n] \in 0..(mc.NP[e] - 1)
    BY <1>5, LocalFields
  <2> QED BY <1>1, <1>5, <2>1, Neighbours
<1>7. /\ p \in Nodes[mc] /\ Ahead(mc, e, p, 1) = n
      /\ \A w \in Nodes[mc] : Ahead(mc, e, w, 1) = n => w = p
  <2>1. mc.NP[e] - 1 \in 0..(mc.NP[e] - 1)
    BY <1>5
  <2> QED BY <1>1, <1>5, <2>1, AheadNode, AheadLaws
<1>8. PICK copied \in BOOLEAN :
        /\ link' = [link EXCEPT ![e][p] =
                      Append(@, IF copied THEN <<transmit_buf[n]>> ELSE <<>>)]
        /\ sent' = [sent EXCEPT ![n] = copied]
  BY <1>6 DEF Start
<1> DEFINE msg == IF copied THEN <<transmit_buf[n]>> ELSE <<>>
<1>9. /\ pc' = [pc EXCEPT ![n] = "wait"]
      /\ coor' = [coor EXCEPT ![n] = Turn(mc.NP[e], coor[n], 1)]
      /\ got' = [got EXCEPT ![n] = FALSE]
      /\ UNCHANGED <<machine, calls, results, dir, itmp, gsum_buf,
                     transmit_buf, receive_buf>>
  BY <1>6 DEF Start
<1>10. \A m \in Nodes[mc] : m # n => LocalAfter(m) = Local(m)
  <2>1. SUFFICES ASSUME NEW m \in Nodes[mc], m # n PROVE LocalAfter(m) = Local(m)
    OBVIOUS
  <2> QED BY <1>1, <1>8, <1>9, <2>1, LocalSame
<1>11. /\ b.pc = "wait" /\ b.coor = Turn(mc.NP[a.dir], a.coor, 1)
       /\ b.got = FALSE /\ b.sent = copied /\ b.call = a.call /\ b.dir = a.dir
       /\ b.itmp = a.itmp /\ b.transmit = a.transmit /\ b.gsum = a.gsum
       /\ b.receive = a.receive
  <2>1. pc'[n] = "wait" /\ coor'[n] = Turn(mc.NP[e], coor[n], 1) /\ got'[n] = FALSE
    BY <1>1, <1>9
  <2>2. sent'[n] = copied
    BY <1>1, <1>8, Zenon
  <2>3. /\ a.dir = e /\ a.coor = coor[n] /\ a.call = calls[n] /\ a.itmp = itmp[n]
        /\ a.transmit = transmit_buf[n] /\ a.gsum = gsum_buf[n]
        /\ a.receive = receive_buf[n] /\ a.dir = dir[n]
    BY LocalFields
  <2>4. /\ b.pc = pc'[n] /\ b.coor = coor'[n] /\ b.got = got'[n] /\ b.sent = sent'[n]
        /\ b.dir = dir'[n] /\ b.call = calls'[n] /\ b.itmp = itmp'[n]
        /\ b.transmit = transmit_buf'[n] /\ b.gsum = gsum_buf'[n]
        /\ b.receive = receive_buf'[n]
    BY LocalAfterFields
  <2> HIDE DEF a, b
  <2>5. /\ b.pc = "wait" /\ b.coor = Turn(mc.NP[a.dir], a.coor, 1)
        /\ b.call = a.call /\ b.dir = a.dir
        /\ b.itmp = a.itmp /\ b.transmit = a.transmit /\ b.gsum = a.gsum
        /\ b.receive = a.receive
    BY <1>9, <2>1, <2>3, <2>4
  <2>6. b.got = FALSE /\ b.sent = copied
    BY <2>1, <2>2, <2>4, Zenon
  <2> QED BY <2>5, <2>6
<1>12. msg \in {<<>>, <<a.transmit>>} /\ (b.sent = FALSE \/ msg # <<>>)
  <2>1. CASE copied = TRUE
    BY <2>1, LocalFields
  <2>2. CASE copied = FALSE
    BY <1>11, <2>2
  <2> QED BY <2>1, <2>2
<1>13. /\ link'[e][p] = Append(link[e][p], msg)
       /\ \A i \in Dims(mc), w \in Nodes[mc] :
            ~(i = e /\ w = p) => link'[i][w] = link[i][w]
       /\ DOMAIN link' = Dims(mc) /\ \A i \in Dims(mc) : DOMAIN link'[i] = Nodes[mc]
  <2>1. link' = [link EXCEPT ![e][p] = Append(@, msg)]
    BY <1>8
  <2> HIDE DEF msg, p, e
  <2> QED BY <1>1, <1>5, <1>7, <2>1
<1> HIDE DEF a, b, h, msg, p, e
<1>14. NodeOK(mc, h, b)
  BY <1>1, <1>2, <1>3, <1>11, StartOK
<1>15. Shapes'
  BY <1>1, <1>9, <1>13 DEF Shapes, Dims
<1>16. ResultsOK'
  <2>1. \A m \in Nodes[mc] : pc'[m] = "out" <=> pc[m] = "out"
    BY <1>1, <1>3, <1>9, LocalFields DEF a
  <2> QED BY <1>1, <1>9, <2>1, ResultsKept
<1>17. \A m \in Nodes[mc] : NodeOK(mc, HomeOf(mc, m), LocalAfter(m))
  BY <1>1, <1>10, <1>14 DEF HoldsOK, b, h
<1>18. \A m \in Nodes[mc] : \A i \in Dims(mc) :
         /\ Received(mc, i, LocalAfter(m)) = Received(mc, i, Local(m))
         /\ ~(m = n /\ i = e) => Sent(mc, i, LocalAfter(m)) = Sent(mc, i, Local(m))
  <2>1. ASSUME NEW i \in Dims(mc)
        PROVE  /\ Received(mc, i, b) = Received(mc, i, a)
               /\ i # e => Sent(mc, i, b) = Sent(mc, i, a)
    <3>1. /\ Received(mc, i, b) = Received(mc, i, a)
          /\ Sent(mc, i, b) = Sent(mc, i, a) + IF i = a.dir THEN 1 ELSE 0
      <4>1. /\ b.pc = "wait" /\ b.got = FALSE /\ b.call = a.call
            /\ b.dir = a.dir /\ b.itmp = a.itmp
        BY <1>11
      <4>2. NodeOK(mc, h, a) /\ a.pc = "ring" /\ mc \in Machines /\ h \in Nodes[mc]
        BY <1>1, <1>2, <1>3
      <4> HIDE DEF mc
      <4> QED BY <2>1, <4>1, <4>2, StartCounts
    <3>2. Sent(mc, i, a) \in Nat
      BY <1>1, <1>2, CountFacts
    <3> QED BY <1>3, <3>1, <3>2
  <2> QED BY <1>10, <2>1 DEF a, b
<1>19. Sent(mc, e, b) = Sent(mc, e, a) + 1
  BY <1>1, <1>2, <1>3, <1>5, <1>11, StartCounts
<1>20. \A i \in Dims(mc), m \in Nodes[mc] :
         LinkOK(mc, i, HomeOf(mc, m), link'[i][m],
                LocalAfter(m), LocalAfter(Ahead(mc, i, m, 1)))
  <2>1. SUFFICES ASSUME NEW i \in Dims(mc), NEW m \in Nodes[mc]
                 PROVE  LinkOK(mc, i, HomeOf(mc, m), link'[i][m],
                               LocalAfter(m), LocalAfter(Ahead(mc, i, m, 1)))
    OBVIOUS
  <2> DEFINE v == Ahead(mc, i, m, 1)
             Q == link[i][m]
             g == HomeOf(mc, m)
             am == Local(m)
             bm == LocalAfter(m)
  <2>2. v \in Nodes[mc] /\ g \in Nodes[mc] /\ NodeOK(mc, g, am)
    BY <1>1, NextNode, HomeNode DEF HoldsOK
  <2>3. LinkOK(mc, i, g, Q, am, Local(v))
    BY <1>1 DEF LinksOK
  <2>4. Received(mc, i, bm) = Received(mc, i, am)
    BY <1>18
  <2>5. CASE i = e /\ m = p
    <3>1. v = n
      BY <1>7, <2>5
    <3>2. h = Ahead(mc, i, g, 1)
      BY <1>1, <1>5, <2>5, <3>1, HomeAhead DEF h
    <3>3. /\ LinkOK(mc, i, g, Q, am, a) /\ LocalAfter(v) = b
          /\ link'[i][m] = Append(Q, msg)
      BY <1>13, <2>3, <2>5, <3>1 DEF a, b
    <3>4. a.dir = i /\ b.dir = i /\ Sent(mc, i, b) = Sent(mc, i, a) + 1
      BY <1>3, <1>11, <1>19, <2>5
    <3> HIDE DEF Q, g, am, bm, v
    <3>5. LinkOK(mc, i, g, Append(Q, msg), bm, b)
      BY <1>1, <1>2, <1>3, <1>11, <1>12, <2>2, <2>4, <3>2, <3>3, <3>4, LinkSend
    <3> QED BY <3>3, <3>5 DEF g, bm, v
  <2>6. CASE ~(i = e /\ m = p)
    <3>1. link'[i][m] = Q
      BY <1>13, <2>6
    <3>2. ~(v = n /\ i = e)
      BY <1>7, <2>6
    <3>3. Sent(mc, i, LocalAfter(v)) = Sent(mc, i, Local(v))
      BY <1>18, <2>2, <3>2
    <3>4. Local(v).pc = "wait" /\ Local(v).dir = i /\ Local(v).sent = FALSE =>
            LocalAfter(v).pc = "wait" /\ LocalAfter(v).dir = i /\ LocalAfter(v).sent = FALSE
      <4>1. CASE v = n
        <5>1. Local(v).pc = "ring"
          BY <1>3, <4>1 DEF a
        <5> QED BY <5>1
      <4>2. CASE v # n
        BY <1>10, <2>2, <4>2
      <4> QED BY <4>1, <4>2
    <3> DEFINE av == Local(v)
               bv == LocalAfter(v)
    <3>5. /\ LinkOK(mc, i, g, Q, am, av)
          /\ Sent(mc, i, bv) = Sent(mc, i, av)
          /\ av.pc = "wait" /\ av.dir = i /\ av.sent = FALSE =>
               bv.pc = "wait" /\ bv.dir = i /\ bv.sent = FALSE
      BY <2>3, <3>3, <3>4
    <3> HIDE DEF Q, g, am, bm, av, bv
    <3>6. LinkOK(mc, i, g, Q, bm, bv)
      BY <2>4, <3>5, LinkQuiet
    <3> QED BY <3>1, <3>6 DEF g, bm, bv
  <2> QED BY <2>5, <2>6
<1>21. \A m \in Nodes[mc], x \in Nodes[mc],
          c \in 1..Len(mc.sums), i \in 0..Len(mc.NP) :
         Reached(LocalAfter(m), c, i) /\ Together(mc, c, i, m, x) => calls'[x] >= c
  <2>1. \A m \in Nodes[mc] :
           /\ LocalAfter(m).call = Local(m).call
           /\ LocalAfter(m).dir = Local(m).dir
           /\ LocalAfter(m).pc = "out" <=> Local(m).pc = "out"
    BY <1>3, <1>10, <1>11 DEF a, b
  <2> QED BY <1>1, <1>9, <2>1, BarrierKept
<1>22. UNCHANGED machine
  BY <1>9
<1> QED BY <1>15, <1>16, <1>17, <1>20, <1>21, <1>22, After

\* In a ring the next node is another one, which has only this one before it.
LEMMA NextIsOther ==
  ASSUME NEW mc \in Machines, NEW e \in Dims(mc), NEW n \in Nodes[mc], mc.NP[e] > 1
  PROVE  /\ Ahead(mc, e, n, 1) \in Nodes[mc] /\ Ahead(mc, e, n, 1) # n
         /\ \A w \in Nodes[mc] : Ahead(mc, e, w, 1) = Ahead(mc, e, n, 1) => w = n
<1> DEFINE N == mc.NP[e]
           f == Ahead(mc, e, n, 1)
<1>1. N \in Nat /\ N > 1 /\ 1 \in 0..(N - 1) /\ N - 1 \in 0..(N - 1)
      /\ n[e] \in 0..(N - 1)
  BY GridFacts, NodeFacts
<1>2. f \in Nodes[mc] /\ f[e] = Turn(N, n[e], 1)
  BY <1>1, AheadNode
<1>3. f[e] # n[e]
  BY <1>1, <1>2 DEF Turn
<1>4. ASSUME NEW w \in Nodes[mc] PROVE Ahead(mc, e, Ahead(mc, e, w, 1), N - 1) = w
  BY <1>1, AheadLaws
<1>5. \A w \in Nodes[mc] : Ahead(mc, e, w, 1) = f => w = n
  BY <1>4
<1> QED BY <1>2, <1>3, <1>5

\* Only whether its send is complete may have changed.
SameButSent(a, b) ==
  /\ b.pc = a.pc /\ b.coor = a.coor /\ b.call = a.call /\ b.dir = a.dir
  /\ b.itmp = a.itmp /\ b.transmit = a.transmit /\ b.gsum = a.gsum
  /\ b.receive = a.receive /\ b.got = a.got

\* That a send was completed counts nothing.
LEMMA SameButSentCounts ==
  ASSUME NEW mc, NEW i, NEW a, NEW b, SameButSent(a, b)
  PROVE  Sent(mc, i, b) = Sent(mc, i, a) /\ Received(mc, i, b) = Received(mc, i, a)
BY Zenon DEF SameButSent, Sent, Received, Ended, Past, In

\* A message is delivered.
LEMMA DeliverInv ==
  ASSUME IInv, TypeOK', NEW n \in Nodes[machine], Deliver(n)
  PROVE  IInv'
<1> DEFINE mc == machine
           e == dir[n]
           h == HomeOf(mc, n)
           a == Local(n)
           b == LocalAfter(n)
           from == Ahead(mc, e, n, 1)
           F == Local(from)
           F1 == LocalAfter(from)
           Q == link[e][n]
<1>1. /\ mc \in Machines /\ Node = Nodes[mc] /\ Dim = Dims(mc)
      /\ DOMAIN got = Nodes[mc] /\ DOMAIN sent = Nodes[mc]
      /\ DOMAIN receive_buf = Nodes[mc]
      /\ DOMAIN link = Dims(mc) /\ \A i \in Dims(mc) : DOMAIN link[i] = Nodes[mc]
      /\ TypeOK /\ Shapes /\ HoldsOK /\ LinksOK /\ Barrier /\ ResultsOK
  BY TypeFacts DEF IInv, Shapes
<1>2. NodeOK(mc, h, a) /\ h \in Nodes[mc]
  BY <1>1, HomeNode DEF HoldsOK
<1>3. a.pc = "wait" /\ a.dir = e /\ a.got = FALSE
  <2>1. pc[n] = "wait" /\ ~got[n]
    BY DEF Deliver
  <2>2. got[n] = FALSE
    BY <1>1, <2>1 DEF TypeOK
  <2> QED BY <2>1, <2>2, LocalFields
<1>4. RingOK(mc, h, a)
  BY <1>2, <1>3 DEF NodeOK
<1>5. e \in Dims(mc) /\ mc.NP[e] \in Nat /\ mc.NP[e] > 1
  BY <1>1, <1>2, <1>3, <1>4, RingFacts
<1>6. /\ from \in Nodes[mc] /\ from # n
      /\ \A w \in Nodes[mc] : Ahead(mc, e, w, 1) = from => w = n
  BY <1>1, <1>5, NextIsOther
<1>7. /\ Q # <<>> /\ link' = [link EXCEPT ![e][n] = Tail(@)]
      /\ receive_buf' = [receive_buf EXCEPT
           ![n] = IF Head(Q) # <<>> THEN Head(Head(Q)) ELSE transmit_buf[from]]
      /\ got' = [got EXCEPT ![n] = TRUE]
      /\ sent' = IF Head(Q) # <<>> THEN sent ELSE [sent EXCEPT ![from] = TRUE]
      /\ UNCHANGED <<machine, pc, calls, results, dir, itmp, coor, gsum_buf,
                     transmit_buf>>
  <2>1. Plus(n, e) = from
    BY <1>1, <1>5, Neighbours
  <2> QED BY <2>1 DEF Deliver
<1>8. /\ link'[e][n] = Tail(Q)
      /\ \A i \in Dims(mc), w \in Nodes[mc] :
           ~(i = e /\ w = n) => link'[i][w] = link[i][w]
      /\ DOMAIN link' = Dims(mc) /\ \A i \in Dims(mc) : DOMAIN link'[i] = Nodes[mc]
  <2>1. link' = [link EXCEPT ![e][n] = Tail(@)]
    BY <1>7
  <2> HIDE DEF e
  <2> QED BY <1>1, <1>5, <2>1
<1>9. /\ receive_buf'[n] = IF Head(Q) # <<>> THEN Head(Head(Q)) ELSE F.transmit
      /\ \A m \in Nodes[mc] : m # n => receive_buf'[m] = receive_buf[m]
      /\ got'[n] = TRUE /\ \A m \in Nodes[mc] : m # n => got'[m] = got[m]
  <2>1. F.transmit = transmit_buf[from]
    BY LocalFields
  <2> HIDE DEF from, Q, F
  <2> QED BY <1>1, <1>7, <2>1
<1>10. /\ \A m \in Nodes[mc] : m # from => sent'[m] = sent[m]
       /\ Head(Q) # <<>> => sent'[from] = sent[from]
       /\ sent'[from] \in BOOLEAN /\ DOMAIN sent' = Nodes[mc]
  <2> HIDE DEF from, Q
  <2> QED BY <1>1, <1>6, <1>7 DEF TypeOK
<1>11. \A m \in Nodes[mc] : m # n /\ m # from => LocalAfter(m) = Local(m)
  <2>1. SUFFICES ASSUME NEW m \in Nodes[mc], m # n, m # from
                 PROVE LocalAfter(m) = Local(m)
    OBVIOUS
  <2> QED BY <1>7, <1>9, <1>10, <2>1, LocalSame
<1>12. Head(Q) # <<>> => F1 = F
  BY <1>6, <1>7, <1>9, <1>10, LocalSame
<1>13. SameButSent(F, F1) /\ F1.sent \in BOOLEAN
  <2>1. got'[from] = got[from] /\ receive_buf'[from] = receive_buf[from]
    BY <1>6, <1>9
  <2>2. F1.sent \in BOOLEAN
    BY <1>10, LocalAfterFields, Zenon
  <2>3. SameButSent(F, F1)
    <3>1. /\ F.pc = pc[from] /\ F.coor = coor[from] /\ F.call = calls[from]
          /\ F.dir = dir[from] /\ F.itmp = itmp[from]
          /\ F.transmit = transmit_buf[from] /\ F.gsum = gsum_buf[from]
          /\ F.receive = receive_buf[from] /\ F.got = got[from]
      BY LocalFields
    <3>2. /\ F1.pc = pc[from] /\ F1.coor = coor[from] /\ F1.call = calls[from]
          /\ F1.dir = dir[from] /\ F1.itmp = itmp[from]
          /\ F1.transmit = transmit_buf[from] /\ F1.gsum = gsum_buf[from]
          /\ F1.receive = receive_buf[from] /\ F1.got = got[from]
      BY <1>7, <2>1, LocalAfterFields
    <3> HIDE DEF F, F1
    <3> QED BY <3>1, <3>2, Zenon DEF SameButSent
  <2> QED BY <2>2, <2>3
<1>14. /\ b.pc = "wait" /\ b.got = TRUE /\ b.coor = a.coor /\ b.call = a.call
       /\ b.dir = a.dir /\ b.itmp = a.itmp /\ b.transmit = a.transmit
       /\ b.gsum = a.gsum /\ b.sent = a.sent
       /\ b.receive = IF Head(Q) # <<>> THEN Head(Head(Q)) ELSE F.transmit
  <2>1. sent'[n] = sent[n] /\ pc[n] = "wait"
    BY <1>3, <1>6, <1>10, LocalFields
  <2>2. /\ b.pc = pc[n] /\ b.got = got'[n] /\ b.coor = coor[n] /\ b.call = calls[n]
        /\ b.dir = dir[n] /\ b.itmp = itmp[n] /\ b.transmit = transmit_buf[n]
        /\ b.gsum = gsum_buf[n] /\ b.sent = sent[n] /\ b.receive = receive_buf'[n]
    BY <1>7, <2>1, LocalAfterFields, Zenon
  <2>3. /\ a.coor = coor[n] /\ a.call = calls[n]
        /\ a.dir = dir[n] /\ a.itmp = itmp[n] /\ a.transmit = transmit_buf[n]
        /\ a.gsum = gsum_buf[n] /\ a.sent = sent[n]
    BY LocalFields
  <2> HIDE DEF a, b, Q, F
  <2> QED BY <1>9, <2>1, <2>2, <2>3, Zenon
<1>15. NodeOK(mc, HomeOf(mc, from), F) /\ HomeOf(mc, from) \in Nodes[mc]
       /\ HomeOf(mc, from) = Ahead(mc, e, h, 1) /\ LinkOK(mc, e, h, Q, a, F)
  BY <1>1, <1>5, <1>6, HomeNode, HomeAhead DEF HoldsOK, LinksOK
<1> HIDE DEF a, b, h, e, from, F, F1, Q
<1>16. \A i \in Dims(mc) :
         /\ Received(mc, i, b) = Received(mc, i, a) + IF i = a.dir THEN 1 ELSE 0
         /\ Sent(mc, i, b) = Sent(mc, i, a)
  <2>1. NodeOK(mc, h, a) /\ a.pc = "wait" /\ a.got = FALSE /\ mc \in Machines
        /\ h \in Nodes[mc] /\ b.pc = "wait" /\ b.got = TRUE
        /\ b.call = a.call /\ b.dir = a.dir /\ b.itmp = a.itmp
    BY <1>1, <1>2, <1>3, <1>14
  <2> HIDE DEF mc
  <2> QED BY <2>1, DeliverCounts
<1>17. /\ b.receive = Held(mc, Ahead(mc, e, h, a.itmp), a.call, e)
       /\ LinkOK(mc, e, h, Tail(Q), b, F1)
  <2>1. Received(mc, e, b) = Received(mc, e, a) + 1
    BY <1>3, <1>5, <1>16
  <2>2. Sent(mc, e, F1) = Sent(mc, e, F)
    BY <1>13, SameButSentCounts
  <2>3. /\ Taken(Q, F) = Held(mc, Ahead(mc, e, h, a.itmp), a.call, e)
        /\ LinkOK(mc, e, h, Tail(Q), b, F1)
    <3> DEFINE g == HomeOf(mc, from)
    <3>1. /\ mc \in Machines /\ e \in Dims(mc) /\ h \in Nodes[mc] /\ g \in Nodes[mc]
          /\ LinkOK(mc, e, h, Q, a, F) /\ NodeOK(mc, h, a) /\ NodeOK(mc, g, F)
          /\ g = Ahead(mc, e, h, 1)
      BY <1>1, <1>2, <1>5, <1>15
    <3>2. /\ a.pc = "wait" /\ a.dir = e /\ a.got = FALSE /\ Q # <<>>
          /\ Head(Q) # <<>> => F1 = F
      BY <1>3, <1>7, <1>12
    <3> HIDE DEF g, mc
    <3>3. Delivery(mc, e, h, Q, g, a, F, b, F1)
      BY <2>1, <2>2, <3>1, <3>2, Zenon DEF Delivery
    <3> QED BY <3>1, <3>3, LinkReceive, Zenon
  <2> QED BY <1>14, <2>3 DEF Taken
<1>18. NodeOK(mc, h, b)
  <2>1. b.sent \in BOOLEAN
    BY <1>2, <1>14, Zenon DEF NodeOK
  <2> QED BY <1>1, <1>2, <1>3, <1>14, <1>17, <2>1, DeliverOK
<1>19. NodeOK(mc, HomeOf(mc, from), F1)
  BY <1>13, <1>15, SentOK DEF SameButSent
<1>20. \A m \in Nodes[mc] : NodeOK(mc, HomeOf(mc, m), LocalAfter(m))
  BY <1>1, <1>11, <1>18, <1>19 DEF HoldsOK, b, h, F1
<1>21. Shapes'
  <2>1. DOMAIN receive_buf' = Nodes[mc]
    BY <1>1, <1>7
  <2> QED BY <1>1, <1>7, <1>8, <2>1 DEF Shapes, Dims
<1>22. ResultsOK'
  <2>1. \A m \in Nodes[mc] : pc'[m] = "out" <=> pc[m] = "out"
    BY <1>7
  <2> QED BY <1>1, <1>7, <2>1, ResultsKept
<1>23. \A m \in Nodes[mc] : \A i \in Dims(mc) :
         /\ Sent(mc, i, LocalAfter(m)) = Sent(mc, i, Local(m))
         /\ ~(m = n /\ i = e) =>
              Received(mc, i, LocalAfter(m)) = Received(mc, i, Local(m))
  <2>1. SUFFICES ASSUME NEW m \in Nodes[mc], NEW i \in Dims(mc)
                 PROVE  /\ Sent(mc, i, LocalAfter(m)) = Sent(mc, i, Local(m))
                        /\ ~(m = n /\ i = e) =>
                             Received(mc, i, LocalAfter(m)) = Received(mc, i, Local(m))
    OBVIOUS
  <2>2. CASE m = n
    <3>1. Received(mc, i, a) \in Nat
      BY <1>1, <1>2, CountFacts
    <3> QED BY <1>3, <1>16, <2>2, <3>1 DEF a, b
  <2>3. CASE m = from
    BY <1>13, <2>3, SameButSentCounts DEF F, F1
  <2>4. CASE m # n /\ m # from
    BY <1>11, <2>4
  <2> QED BY <2>2, <2>3, <2>4
<1>24. Head(Q) = <<>> => F.pc = "wait" /\ F.dir = e
  <2>1. Q \in Seq(Messages(mc))
    BY <1>15 DEF LinkOK
  <2>2. \A p \in 1..Len(Q) :
          Q[p] = <<>> => p = Len(Q) /\ F.pc = "wait" /\ F.dir = e /\ F.sent = FALSE
    BY <1>15 DEF LinkOK
  <2>3. 1 \in 1..Len(Q) /\ Head(Q) = Q[1]
    BY <1>7, <2>1
  <2> QED BY <2>2, <2>3
<1>25. \A i \in Dims(mc), m \in Nodes[mc] :
         LinkOK(mc, i, HomeOf(mc, m), link'[i][m],
                LocalAfter(m), LocalAfter(Ahead(mc, i, m, 1)))
  <2>1. SUFFICES ASSUME NEW i \in Dims(mc), NEW m \in Nodes[mc]
                 PROVE  LinkOK(mc, i, HomeOf(mc, m), link'[i][m],
                               LocalAfter(m), LocalAfter(Ahead(mc, i, m, 1)))
    OBVIOUS
  <2>2. CASE i = e /\ m = n
    <3>1. /\ LinkOK(mc, i, h, Tail(Q), b, F1) /\ link'[i][m] = Tail(Q)
      BY <1>8, <1>17, <2>2
    <3> QED BY <2>2, <3>1 DEF h, b, F1, from
  <2>3. CASE ~(i = e /\ m = n)
    <3> DEFINE v == Ahead(mc, i, m, 1)
               av == Local(v)
               bv == LocalAfter(v)
               P == link[i][m]
               g == HomeOf(mc, m)
               am == Local(m)
               bm == LocalAfter(m)
    <3>1. v \in Nodes[mc] /\ LinkOK(mc, i, g, P, am, av) /\ link'[i][m] = P
      BY <1>1, <1>8, <2>3, NextNode DEF LinksOK
    <3>2. Received(mc, i, bm) = Received(mc, i, am) /\ Sent(mc, i, bv) = Sent(mc, i, av)
      BY <1>23, <2>3, <3>1
    <3>3. av.pc = "wait" /\ av.dir = i /\ av.sent = FALSE =>
            bv.pc = "wait" /\ bv.dir = i /\ bv.sent = FALSE
      <4>1. CASE v = n
        BY <1>3, <1>14, <4>1 DEF a, b
      <4>2. CASE v = from
        <5>1. Head(Q) = <<>> => ~(F.dir = i)
          <6>1. ~(i = e)
            BY <1>6, <2>3, <4>2
          <6> QED BY <1>24, <6>1
        <5>2. av = F /\ bv = F1
          BY <4>2 DEF F, F1
        <5> QED BY <1>12, <5>1, <5>2
      <4>3. CASE v # n /\ v # from
        BY <1>11, <3>1, <4>3
      <4> QED BY <4>1, <4>2, <4>3
    <3> HIDE DEF P, g, am, bm, av, bv
    <3>4. LinkOK(mc, i, g, P, bm, bv)
      BY <3>1, <3>2, <3>3, LinkQuiet
    <3> QED BY <3>1, <3>4 DEF g, bm, bv
  <2> QED BY <2>2, <2>3
<1>26. \A m \in Nodes[mc], x \in Nodes[mc],
          c \in 1..Len(mc.sums), i \in 0..Len(mc.NP) :
         Reached(LocalAfter(m), c, i) /\ Together(mc, c, i, m, x) => calls'[x] >= c
  <2>1. \A m \in Nodes[mc] :
           /\ LocalAfter(m).call = Local(m).call
           /\ LocalAfter(m).dir = Local(m).dir
           /\ LocalAfter(m).pc = "out" <=> Local(m).pc = "out"
    <3>1. SUFFICES ASSUME NEW m \in Nodes[mc]
                   PROVE  /\ LocalAfter(m).call = Local(m).call
                          /\ LocalAfter(m).dir = Local(m).dir
                          /\ LocalAfter(m).pc = Local(m).pc
      OBVIOUS
    <3>2. Local(m).call = calls[m] /\ Local(m).dir = dir[m] /\ Local(m).pc = pc[m]
      BY LocalFields
    <3>3. /\ LocalAfter(m).call = calls'[m] /\ LocalAfter(m).dir = dir'[m]
          /\ LocalAfter(m).pc = pc'[m]
      BY LocalAfterFields
    <3> QED BY <1>7, <3>2, <3>3
  <2> QED BY <1>1, <1>7, <2>1, BarrierKept
<1>27. UNCHANGED machine
  BY <1>7
<1> QED BY <1>20, <1>21, <1>22, <1>25, <1>26, <1>27, After

-----------------------------------------------------------------------------
(* Theorems *)

\* Every step keeps the invariant.
LEMMA InvStep ==
  ASSUME IInv, [Next]_vars
  PROVE  IInv'
<1>1. TypeOK'
  BY TypeStep DEF IInv
<1>2. Node = Nodes[machine]
  BY DEF Node
<1>3. ASSUME NEW n \in Nodes[machine], NodeNext(n) PROVE IInv'
  BY <1>1, <1>3, CallInv, StartInv, DeliverInv, PassOnInv, LeaveInv DEF NodeNext
<1>4. CASE UNCHANGED vars
  BY <1>1, <1>4, StutterInv
<1> QED BY <1>2, <1>3, <1>4 DEF Next

\* On every grid, with every origin, sequence of sums and mixture of sends, what
\* every node holds, the messages under way, the calls begun and the sums returned
\* are as IInv describes.
THEOREM Invariance == Spec => []IInv
BY InitInv, InvStep, PTL DEF Spec

\* A node and its minus neighbour are at most a ring apart.
LEMMA RoomOnLink ==
  ASSUME IInv
  PROVE  BacklogBounded
<1> DEFINE mc == machine
<1>1. mc \in Machines /\ Node = Nodes[mc] /\ Dim = Dims(mc) /\ NP = mc.NP
  BY TypeFacts DEF IInv
<1>2. SUFFICES ASSUME NEW i \in Dims(mc), NEW n \in Nodes[mc]
               PROVE  Len(link[i][n]) <= mc.NP[i]
  BY <1>1 DEF BacklogBounded
<1> DEFINE N == mc.NP[i]
           p == Ahead(mc, i, n, 1)
           S(m) == Sent(mc, i, Local(m))
           R(m) == Received(mc, i, Local(m))
<1>3. N \in Nat /\ N > 0 /\ p \in Nodes[mc]
  BY <1>1, GridFacts, NextNode
<1>4. \A m \in Nodes[mc] :
        S(m) \in Nat /\ R(m) \in Nat /\ R(m) <= S(m) /\ S(m) <= R(m) + 1
  BY <1>1, HomeNode, CountFacts DEF IInv, HoldsOK
<1>5. Len(link[i][n]) = S(p) - R(n)
  BY DEF IInv, LinksOK, LinkOK
<1>6. CASE N > 1
  <2>1. N - 1 \in 1..(N - 1)
    BY <1>3, <1>6
  <2>2. Ahead(mc, i, p, N - 1) = n
    <3>1. 1 \in 0..(N - 1)
      BY <1>3, <1>6
    <3> QED BY <1>1, <1>6, <3>1, AheadLaws
  <2>3. R(p) + 1 <= S(n) + (N - 1)
    BY <1>3, <2>1, <2>2, NoOvertaking
  <2> HIDE DEF S, R, N, p
  <2> QED BY <1>3, <1>4, <1>5, <2>3 DEF N
<1>7. CASE ~(N > 1)
  <2>1. p = n
    BY <1>1, <1>7, AheadUnsplit
  <2> HIDE DEF S, R, N, p
  <2> QED BY <1>3, <1>4, <1>5, <2>1 DEF N
<1> QED BY <1>6, <1>7

\* On every grid a link never has more messages under way than its ring has nodes:
\* a neighbour that runs ahead, into the next calls, stops in time
\* (BacklogBounded of RingSum).
THEOREM LinksBounded == Spec => []BacklogBounded
BY Invariance, RoomOnLink, PTL

-----------------------------------------------------------------------------
(* The refinement *)

\* The partners of a call are those a node adds up with along all dimensions.
LEMMA PartnersTogether ==
  ASSUME NEW mc \in Machines, NEW k, NEW n, NEW x
  PROVE  x \in Partners(mc, k, n) <=> x \in Nodes[mc] /\ Together(mc, k, Len(mc.NP), n, x)
<1>1. Len(mc.NP) \in Nat
  BY GridFacts
<1>2. \A j \in Dims(mc) : ~(j > Len(mc.NP))
  BY <1>1 DEF Dims
<1> QED BY <1>2, Zenon DEF Partners, Together, Dims

\* A node that leaves its last dimension has the sum, and all its partners have
\* begun the call.
LEMMA LastDim ==
  ASSUME IInv, NEW n \in Nodes[machine], LeaveDim(n),
         NextDim(dir[n], machine.sums[calls[n]]) > ndir
  PROVE  /\ \A x \in Partners(machine, calls[n], n) : calls[x] >= calls[n]
         /\ RingTotal(n) = OrderedTotal(machine, calls[n], n)
<1> DEFINE mc == machine
           k == calls[n]
           e == dir[n]
           d == NextOf(n)
           a == Local(n)
<1>1. mc \in Machines /\ ndir = Len(mc.NP) /\ ndir \in Nat
  BY TypeFacts, GridFacts DEF IInv
<1>2. /\ a.pc = "wait" /\ a.call = k /\ a.dir = e /\ a.got = TRUE
      /\ a.itmp + 1 >= mc.NP[e]
      /\ k \in 1..Len(mc.sums) /\ e \in Dims(mc) /\ d \in 1..(ndir + 1)
      /\ \A j \in (e + 1)..(d - 1) : ~Splits(mc, k, j)
      /\ RingTotal(n) = Held(mc, HomeOf(mc, n), k, d)
  BY LeaveFacts
<1>3. d = Len(mc.NP) + 1
  <2>1. d > ndir
    BY DEF NextOf
  <2> HIDE DEF d
  <2> QED BY <1>1, <1>2, <2>1
<1> HIDE DEF d, a
<1>4. RingTotal(n) = OrderedTotal(mc, k, n)
  BY <1>1, <1>2, <1>3, TotalHeld
<1>5. \A x \in Partners(mc, k, n) : calls[x] >= k
  <2>1. Len(mc.NP) \in e..Len(mc.NP) /\ \A j \in (e + 1)..Len(mc.NP) : ~Splits(mc, k, j)
    BY <1>1, <1>2, <1>3 DEF Dims
  <2>2. SUFFICES ASSUME NEW x \in Partners(mc, k, n) PROVE calls[x] >= k
    OBVIOUS
  <2>3. x \in Nodes[mc] /\ Together(mc, k, Len(mc.NP), n, x)
    BY <1>1, PartnersTogether
  <2> QED BY <1>2, <2>1, <2>3, WholeRing DEF a
<1> QED BY <1>4, <1>5

\* No call has begun.
LEMMA RefinementInit == Init => Sum!Init
BY DEF Init, Sum!Init, Node

\* Every step begins a call, ends one whose partners have all begun it and returns
\* the ordered sum, or changes neither calls nor results.
LEMMA RefinementStep ==
  ASSUME IInv, [Next]_vars
  PROVE  [Sum!Next]_(Sum!vars)
<1> DEFINE mc == machine
<1>1. /\ mc \in Machines /\ Node = Nodes[mc] /\ ndir = Len(mc.NP) /\ ndir \in Nat
      /\ DOMAIN pc = Nodes[mc] /\ DOMAIN calls = Nodes[mc]
  BY TypeFacts, GridFacts DEF IInv
<1>2. /\ DOMAIN results = Nodes[mc]
      /\ \A n \in Nodes[mc] :
           Len(results[n]) = IF pc[n] = "out" THEN calls[n] ELSE calls[n] - 1
  BY DEF IInv, ResultsOK
<1>3. \A n \in Nodes[mc] : /\ NodeOK(mc, HomeOf(mc, n), Local(n))
                           /\ HomeOf(mc, n) \in Nodes[mc] /\ calls[n] \in Nat
  BY <1>1, HomeNode DEF IInv, HoldsOK, TypeOK
<1>4. ASSUME NEW n \in Nodes[mc], Call(n) PROVE Sum!NodeNext(n)
  <2> DEFINE k == calls[n] + 1
             d == NextDim(0, mc.sums[k])
             s == Contribution(n, k)
  <2>1. /\ pc[n] = "out" /\ calls[n] < Len(mc.sums)
        /\ calls' = [calls EXCEPT ![n] = @ + 1]
        /\ EnterDim(n, d, s) /\ UNCHANGED machine
    BY <1>4 DEF Call
  <2>2. k \in 1..Len(mc.sums) /\ k \in Nat
    BY <1>1, <1>3, <2>1, GridFacts
  <2>3. d \in 1..(ndir + 1) /\ \A j \in 1..(d - 1) : ~Splits(mc, k, j)
    <3>1. 0 \in 0..ndir /\ 0 + 1 = 1
      BY <1>1
    <3> QED BY <1>1, <2>2, <3>1, NextDimNext
  <2>4. s = Held(mc, HomeOf(mc, n), k, d)
    BY <1>1, <2>2, <2>3, CallHeld
  <2>5. Sum!Returned(n) /\ calls[n] < NumberOfSums(mc)
    BY <1>2, <2>1 DEF Sum!Returned, NumberOfSums
  <2> HIDE DEF d, s
  <2>6. CASE d > ndir
    <3>1. results' = [results EXCEPT ![n] = Append(@, s)]
      BY <2>1, <2>6 DEF EnterDim
    <3>2. d = Len(mc.NP) + 1
      BY <1>1, <2>3, <2>6
    <3>3. s = OrderedTotal(mc, k, n)
      BY <1>1, <2>4, <3>2, TotalHeld
    <3>4. Partners(mc, k, n) = {n}
      <4>1. Len(mc.NP) \in 0..Len(mc.NP) /\ \A j \in 1..Len(mc.NP) : ~Splits(mc, k, j)
        BY <1>1, <2>3, <3>2
      <4>2. ASSUME NEW x \in Partners(mc, k, n) PROVE x = n
        BY <1>1, <4>1, <4>2, PartnersTogether, TogetherAlone
      <4>3. n \in Partners(mc, k, n)
        BY DEF Partners
      <4> QED BY <4>2, <4>3
    <3>5. Sum!CallAlone(n)
      BY <2>1, <2>5, <3>1, <3>3, <3>4 DEF Sum!CallAlone
    <3> QED BY <3>5 DEF Sum!NodeNext
  <2>7. CASE ~(d > ndir)
    <3>1. results' = results
      BY <2>1, <2>7 DEF EnterDim
    <3>2. Sum!Call(n)
      BY <2>1, <2>5, <3>1 DEF Sum!Call
    <3> QED BY <3>2 DEF Sum!NodeNext
  <2> QED BY <2>6, <2>7
<1>5. ASSUME NEW n \in Nodes[mc], LeaveDim(n)
      PROVE  Sum!NodeNext(n) \/ UNCHANGED Sum!vars
  <2> DEFINE k == calls[n]
             e == dir[n]
             d == NextDim(e, mc.sums[k])
             s == RingTotal(n)
             a == Local(n)
             h == HomeOf(mc, n)
  <2>1. /\ pc[n] = "wait" /\ EnterDim(n, d, s) /\ UNCHANGED <<machine, calls>>
    BY <1>5 DEF LeaveDim
  <2>2. CASE d > ndir
    <3>1. results' = [results EXCEPT ![n] = Append(@, s)]
      BY <2>1, <2>2 DEF EnterDim
    <3>2. /\ \A x \in Partners(mc, k, n) : calls[x] >= k
          /\ s = OrderedTotal(mc, k, n)
      BY <1>5, <2>2, LastDim
    <3>3. ~Sum!Returned(n)
      <4>1. Len(results[n]) = k - 1
        BY <1>2, <2>1
      <4> QED BY <1>3, <4>1 DEF Sum!Returned
    <3>4. Sum!Return(n)
      BY <2>1, <3>1, <3>2, <3>3 DEF Sum!Return
    <3> QED BY <3>4 DEF Sum!NodeNext
  <2>3. CASE ~(d > ndir)
    <3>1. results' = results
      BY <2>1, <2>3 DEF EnterDim
    <3> QED BY <2>1, <3>1 DEF Sum!vars
  <2> QED BY <2>2, <2>3
<1>6. ASSUME NEW n \in Nodes[mc], Start(n) \/ Deliver(n) \/ PassOn(n)
      PROVE  UNCHANGED Sum!vars
  BY <1>6 DEF Start, Deliver, PassOn, Sum!vars
<1>7. CASE UNCHANGED vars
  BY <1>7 DEF vars, Sum!vars
<1> QED BY <1>1, <1>4, <1>5, <1>6, <1>7 DEF Next, NodeNext, Sum!Next

\* glb_sum_internal2, slice_sum and glb_sum_multi_dir implement GlobalSum on every
\* grid, but for its fairness: no sum returns before all its partners have called
\* it, and all of them get the same additions in the same order, whatever the
\* origin (the safety part of ImplementsGlobalSum of RingSum).
THEOREM SumIsBarrier == Spec => Sum!Init /\ [][Sum!Next]_(Sum!vars)
BY Invariance, RefinementInit, RefinementStep, PTL DEF Spec
=============================================================================
