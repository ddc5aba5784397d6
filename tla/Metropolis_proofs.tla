------------------------- MODULE Metropolis_proofs --------------------------
(***************************************************************************)
(* Lattice::MetropolisAccept on machines of any size, with any number of   *)
(* slices.  What a node holds in a SoCheck and what is under way on the    *)
(* links are functions of the energy differences the call was given and of *)
(* the generators it found: the invariant says so, message by message, and *)
(* that a node that has passed a check knows that no node failed it.       *)
(***************************************************************************)
EXTENDS Metropolis, FiniteSetTheorems, TLAPS

Stages == {"out", "enter", "send", "receive", "glb_sum_five", "glb_sum", "stopped"}
Checks == {"SoCheck(delta_h)", "SoCheck(flag)"}

\* Number of the slice r places before slice s on the ring, and its node at
\* the place of n.
Back(s, r)   == IF r <= s THEN s - r ELSE s - r + S
Behind(n, r) == [x |-> n.x, s |-> Back(n.s, r)]

\* What the origin of a slice decides.
Decision(s) ==
  LET d == delta_h[[x |-> 0, s |-> s]] IN
  IF d <= 0 \/ Uniform(begin[s]) <= Exp(d) THEN 1 ELSE 0

\* The number node n brings to a check, and whether one of the k slices before
\* its own brings another one.
Num(n, c) == IF c = "SoCheck(delta_h)" THEN delta_h[n] ELSE Decision(n.s)
Differs(n, c, k) ==
  IF \E r \in 1..k : Num(Behind(n, r), c) # Num(n, c) THEN 1 ELSE 0

\* What node n adds to a global sum, sooner or later.
Addend(n, c) ==
  IF c = "flag" THEN IF n.x = 0 THEN Decision(n.s) ELSE 0
  ELSE Differs(n, c, S - 1)

NoneFails(c) == \A m \in Node : Differs(m, c, S - 1) = 0

Passing(n) == pc[n] \in {"send", "receive"}
Checking(n, c) ==
  pc[n] \in {"send", "receive", "glb_sum_five", "stopped"} /\ checking[n] = c

\* The origin of the slice of n has drawn its number, if it needs one.
Decided(n) == pc[n] = "glb_sum" \/ Checking(n, "SoCheck(flag)") \/ Returned(n)

\* Messages n has received in this call, and sent.
Received(n) ==
  IF pc[n] = "enter" THEN 0
  ELSE IF Checking(n, "SoCheck(delta_h)") THEN round[n] - 1
  ELSE IF pc[n] = "glb_sum" THEN S - 1
  ELSE IF Checking(n, "SoCheck(flag)") THEN S - 1 + (round[n] - 1)
  ELSE 2 * (S - 1)
Sent(n) == Received(n) + IF pc[n] = "receive" THEN 1 ELSE 0

\* The j-th message that reaches n in a call.
Message(n, j) ==
  IF j <= S - 1 THEN Num(Behind(n, j), "SoCheck(delta_h)")
  ELSE Num(Behind(n, j - (S - 1)), "SoCheck(flag)")

TypeOK ==
  /\ pc \in [Node -> Stages]
  /\ ncalls \in Nat
  /\ delta_h \in [Node -> Int] /\ flag \in [Node -> {0, 1}]
  /\ rng \in [Slice -> Rng] /\ begin \in [Slice -> Rng]
  /\ result \in [Node -> {0, 1}]
  /\ checking \in [Node -> Checks]
  /\ number \in [Node -> Int] /\ snd_buf \in [Node -> Int]
  /\ round \in [Node -> Int] /\ failed_flag \in [Node -> {0, 1}]
  /\ link \in [Node -> Seq(Int)]
  /\ addend \in [Node -> [GlobalSums -> {None, 0, 1}]]
  /\ DOMAIN accept = Node

\* Every message is under way or received, in the order it was sent.
LinkInv(n) ==
  /\ Len(link[Plus(n)]) = Sent(n) - Received(Plus(n))
  /\ \A k \in 1..Len(link[n]) : link[n][k] = Message(n, Received(n) + k)

\* What a node in a check holds.
CheckInv(n) ==
  \A c \in Checks : Checking(n, c) =>
    /\ S > 1
    /\ number[n] = Num(n, c)
    /\ Passing(n) => round[n] \in 1..(S - 1)
    /\ ~Passing(n) => round[n] = S
    /\ pc[n] = "send" => snd_buf[n] = Num(Behind(n, round[n] - 1), c)
    /\ failed_flag[n] = Differs(n, c, round[n] - 1)

\* What a node knows that has passed a check.
PassedInv(n) ==
  /\ Decided(n) /\ S > 1 => NoneFails("SoCheck(delta_h)")
  /\ Returned(n) /\ S > 1 => NoneFails("SoCheck(flag)")
  /\ Checking(n, "SoCheck(flag)") => flag[n] = Decision(n.s)
  /\ Returned(n) => result[n] = Decision(n.s)
  /\ pc[n] = "stopped" => \E m \in Node : Differs(m, checking[n], S - 1) = 1

AddendInv(n) == \A c \in GlobalSums : addend[n][c] \in {None, Addend(n, c)}

\* A generator has moved on if the origin of its slice has drawn a number.
RngInv(s) ==
  LET o == [x |-> 0, s |-> s] IN
  rng[s] = IF Decided(o) /\ delta_h[o] > 0 THEN AfterUniform(begin[s]) ELSE begin[s]

NodeInv(n) == LinkInv(n) /\ CheckInv(n) /\ PassedInv(n) /\ AddendInv(n)

IInv ==
  /\ TypeOK
  /\ \A n \in Node : pc[n] # "out" => ncalls > 0
  /\ \A n \in Node : NodeInv(n)
  /\ \A s \in Slice : RngInv(s)

-----------------------------------------------------------------------------
(* The ring of slices *)

LEMMA Sizes == X \in Nat /\ X > 0 /\ S \in Nat /\ S > 0
BY MetropolisAssumption

\* The slice after slice s.
LEMMA NextSlice ==
  ASSUME NEW s \in Slice
  PROVE  (s + 1) % S = IF s + 1 = S THEN 0 ELSE s + 1
BY Sizes DEF Slice

LEMMA NodeFields ==
  ASSUME NEW n \in Node
  PROVE  /\ n.s \in Int /\ n.s >= 0 /\ n.s < S /\ S \in Int /\ n.s \in Slice
         /\ n.x \in 0..(X - 1)
         /\ n = [x |-> n.x, s |-> n.s]
         /\ \A s \in Slice : [x |-> n.x, s |-> s] \in Node
         /\ [x |-> 0, s |-> n.s] \in Node
BY Sizes DEF Node, Slice

LEMMA PlusNode ==
  ASSUME NEW n \in Node
  PROVE  /\ Plus(n) \in Node
         /\ Plus(n).x = n.x
         /\ Plus(n).s = IF n.s + 1 = S THEN 0 ELSE n.s + 1
<1>1. n.s \in Int /\ n.s >= 0 /\ n.s < S
  BY NodeFields
<1>2. Plus(n) = [x |-> n.x, s |-> (n.s + 1) % S]
  BY NodeFields DEF Plus, Node
<1>3. (n.s + 1) % S = IF n.s + 1 = S THEN 0 ELSE n.s + 1
  BY NodeFields, NextSlice
<1>4. (n.s + 1) % S \in Slice
  BY <1>1, <1>3, Sizes DEF Slice
<1> QED BY <1>2, <1>3, <1>4, NodeFields

\* Two nodes do not send to the same one, and every node is sent to.
LEMMA PlusInjective ==
  ASSUME NEW n \in Node, NEW m \in Node, Plus(n) = Plus(m)
  PROVE  n = m
<1>1. /\ n.s \in Int /\ n.s >= 0 /\ n.s < S
      /\ m.s \in Int /\ m.s >= 0 /\ m.s < S
  BY NodeFields
<1>2. n.x = m.x
  BY PlusNode
<1>3. (IF n.s + 1 = S THEN 0 ELSE n.s + 1) = IF m.s + 1 = S THEN 0 ELSE m.s + 1
  BY PlusNode
<1>4. n.s = m.s
  BY <1>1, <1>3, Sizes
<1> QED BY <1>2, <1>4, NodeFields

LEMMA BehindNode ==
  ASSUME NEW n \in Node, NEW r \in 0..(S - 1)
  PROVE  /\ Behind(n, r) \in Node
         /\ Behind(n, 0) = n
         /\ r + 1 <= S - 1 => Behind(Plus(n), r + 1) = Behind(n, r)
<1>1. n.s \in Int /\ n.s >= 0 /\ n.s < S /\ S \in Int
  BY NodeFields
<1>2. Back(n.s, r) \in Slice /\ Back(n.s, 0) = n.s
  BY <1>1 DEF Back, Slice
<1>3. r + 1 <= S - 1 => Back(Plus(n).s, r + 1) = Back(n.s, r)
  <2>1. Plus(n).s = IF n.s + 1 = S THEN 0 ELSE n.s + 1
    BY PlusNode
  <2> QED BY <1>1, <2>1 DEF Back
<1> QED BY <1>2, <1>3, NodeFields, PlusNode DEF Behind

LEMMA PlusOnto ==
  ASSUME NEW n \in Node
  PROVE  \E m \in Node : Plus(m) = n
<1>1. n.s \in Int /\ n.s >= 0 /\ n.s < S /\ S \in Int
  BY NodeFields
<1> DEFINE s == IF n.s = 0 THEN S - 1 ELSE n.s - 1
           m == [x |-> n.x, s |-> s]
<1>2. s \in Slice /\ (IF s + 1 = S THEN 0 ELSE s + 1) = n.s
  BY <1>1 DEF Slice
<1> HIDE DEF s
<1>3. m \in Node /\ m.x = n.x /\ m.s = s
  BY <1>2, NodeFields
<1> HIDE DEF m
<1>4. Plus(m) \in Node /\ Plus(m).x = n.x /\ Plus(m).s = n.s
  BY <1>2, <1>3, PlusNode
<1>5. Plus(m) = n
  BY <1>4, NodeFields
<1> QED BY <1>3, <1>5

\* Going back round the ring one meets every slice.
LEMMA SliceBehind ==
  ASSUME NEW n \in Node, NEW m \in Node, n.x = m.x, n # m
  PROVE  \E r \in 1..(S - 1) : Behind(n, r) = m
<1> DEFINE r == IF m.s < n.s THEN n.s - m.s ELSE n.s - m.s + S
<1>1. /\ n.s \in Int /\ n.s >= 0 /\ n.s < S /\ S \in Int
      /\ m.s \in Int /\ m.s >= 0 /\ m.s < S
  BY NodeFields
<1>2. n.s # m.s
  BY NodeFields
<1>3. r \in 1..(S - 1) /\ Back(n.s, r) = m.s
  BY <1>1, <1>2 DEF Back
<1> HIDE DEF r
<1> QED BY <1>3, NodeFields DEF Behind

LEMMA NodeFinite == IsFiniteSet(Node)
<1> DEFINE P == (0..(X - 1)) \X Slice
           f == [p \in P |-> [x |-> p[1], s |-> p[2]]]
<1>1. IsFiniteSet(P)
  <2>1. IsFiniteSet(0..(X - 1)) /\ IsFiniteSet(Slice)
    BY Sizes, FS_Interval DEF Slice
  <2> QED BY <2>1, FS_Product
<1>2. f \in Surjection(P, Node)
  <2>1. f \in [P -> Node]
    BY DEF Node
  <2>2. ASSUME NEW n \in Node PROVE \E p \in P : f[p] = n
    <3>1. <<n.x, n.s>> \in P /\ f[<<n.x, n.s>>] = n
      BY NodeFields
    <3> QED BY <3>1
  <2> QED BY <2>1, <2>2 DEF Surjection
<1> QED BY <1>1, <1>2, FS_Surjection
-----------------------------------------------------------------------------
(* What a call is to bring about depends on its inputs alone *)

LEMMA SameForms ==
  ASSUME UNCHANGED <<delta_h, begin>>
  PROVE  /\ \A s : Decision(s)' = Decision(s)
         /\ \A n, c : Num(n, c)' = Num(n, c)
         /\ \A n, c, k : Differs(n, c, k)' = Differs(n, c, k)
         /\ \A n, c : Addend(n, c)' = Addend(n, c)
         /\ \A n, j : Message(n, j)' = Message(n, j)
         /\ \A c : NoneFails(c)' = NoneFails(c)
<1>1. \A s : Decision(s)' = Decision(s)
  BY DEF Decision
<1>2. \A n, c : Num(n, c)' = Num(n, c)
  BY <1>1 DEF Num
<1>3. \A n, c, k : Differs(n, c, k)' = Differs(n, c, k)
  BY <1>2 DEF Differs
<1>4. \A n, c : Addend(n, c)' = Addend(n, c)
  BY <1>1, <1>3 DEF Addend
<1>5. \A n, j : Message(n, j)' = Message(n, j)
  BY <1>2 DEF Message
<1>6. \A c : NoneFails(c)' = NoneFails(c)
  BY <1>3 DEF NoneFails
<1> QED BY <1>1, <1>2, <1>3, <1>4, <1>5, <1>6

LEMMA FormTypes ==
  ASSUME TypeOK
  PROVE  /\ \A s : Decision(s) \in {0, 1}
         /\ \A n \in Node : \A c : Num(n, c) \in Int
         /\ \A n, c, k : Differs(n, c, k) \in {0, 1}
         /\ \A n, c : Addend(n, c) \in {0, 1}
<1>1. \A s : Decision(s) \in {0, 1}
  BY DEF Decision
<1>2. \A n \in Node : \A c : Num(n, c) \in Int
  BY <1>1 DEF Num, TypeOK
<1>3. \A n, c, k : Differs(n, c, k) \in {0, 1}
  BY DEF Differs
<1> QED BY <1>1, <1>2, <1>3 DEF Addend

\* When no node fails a check, all slices brought the same number to it.
LEMMA NoneDiffer ==
  ASSUME NEW c, NoneFails(c), NEW n \in Node, NEW m \in Node, n.x = m.x
  PROVE  Num(n, c) = Num(m, c)
<1>1. CASE n = m
  BY <1>1
<1>2. CASE n # m
  <2>1. PICK r \in 1..(S - 1) : Behind(n, r) = m
    BY <1>2, SliceBehind
  <2>2. Differs(n, c, S - 1) = 0
    BY DEF NoneFails
  <2>3. ~(Num(Behind(n, r), c) # Num(n, c))
    BY <2>2 DEF Differs
  <2> QED BY <2>1, <2>3
<1> QED BY <1>1, <1>2

LEMMA DecisionsAgree ==
  ASSUME NoneFails("SoCheck(flag)"), NEW n \in Node, NEW m \in Node
  PROVE  Decision(n.s) = Decision(m.s)
<1> DEFINE k == [x |-> n.x, s |-> m.s]
<1>1. k \in Node /\ k.x = n.x /\ k.s = m.s
  BY NodeFields
<1> HIDE DEF k
<1>2. Num(n, "SoCheck(flag)") = Num(k, "SoCheck(flag)")
  BY <1>1, NoneDiffer
<1> QED BY <1>1, <1>2 DEF Num

-----------------------------------------------------------------------------
(* The global sums *)

\* The sum of flag over a slice is what its origin decided.
LEMMA FlagTotal ==
  ASSUME IInv, NEW n \in Node, Complete("flag", InSlice(n))
  PROVE  Total("flag", InSlice(n)) = Decision(n.s)
<1> DEFINE o == [x |-> 0, s |-> n.s]
           ones == {m \in InSlice(n) : addend[m]["flag"] = 1}
<1>1. o \in InSlice(n) /\ \A m \in InSlice(n) : m.s = n.s /\ (m.x = 0 => m = o)
  BY NodeFields DEF InSlice
<1>2. \A m \in InSlice(n) : addend[m]["flag"] = IF m.x = 0 THEN Decision(n.s) ELSE 0
  BY <1>1 DEF IInv, NodeInv, AddendInv, Addend, Complete, GlobalSums, InSlice
<1>3. Decision(n.s) \in {0, 1}
  BY FormTypes DEF IInv
<1>4. CASE Decision(n.s) = 0
  <2>1. ones = {}
    BY <1>2, <1>4
  <2> QED BY <1>4, <2>1, FS_EmptySet DEF Total
<1>5. CASE Decision(n.s) = 1
  <2>1. ones = {o}
    BY <1>1, <1>2, <1>5
  <2> QED BY <1>5, <2>1, FS_Singleton DEF Total
<1> QED BY <1>3, <1>4, <1>5

\* The sum of failed_flag says whether a node found a difference.
LEMMA CheckTotal ==
  ASSUME IInv, NEW c \in Checks, Complete(c, Node)
  PROVE  /\ Total(c, Node) > 0 => \E m \in Node : Differs(m, c, S - 1) = 1
         /\ ~(Total(c, Node) > 0) => NoneFails(c)
<1> DEFINE ones == {m \in Node : addend[m][c] = 1}
<1>1. \A m \in Node : addend[m][c] = Differs(m, c, S - 1)
  BY DEF IInv, NodeInv, AddendInv, Addend, Complete, GlobalSums, Checks
<1>2. IsFiniteSet(ones)
  BY NodeFinite, FS_Subset
<1>3. Cardinality(ones) \in Nat /\ (Cardinality(ones) = 0 <=> ones = {})
  BY <1>2, FS_CardinalityType, FS_EmptySet
<1>4. Total(c, Node) = Cardinality(ones)
  BY DEF Total
<1> HIDE DEF ones
<1>5. Total(c, Node) > 0 <=> ones # {}
  BY <1>3, <1>4
<1>6. \A m \in Node : Differs(m, c, S - 1) \in {0, 1}
  BY FormTypes DEF IInv
<1> QED BY <1>1, <1>5, <1>6 DEF NoneFails, ones

-----------------------------------------------------------------------------
(* One node moves *)

\* What the invariant looks at of a node, but its links.
Local(n) == <<pc[n], checking[n], number[n], snd_buf[n], round[n],
              failed_flag[n], flag[n], result[n], addend[n]>>

LEMMA LocalKept ==
  ASSUME UNCHANGED <<ncalls, delta_h, begin>>, NEW m, Local(m)' = Local(m)
  PROVE  /\ CheckInv(m) => CheckInv(m)'
         /\ PassedInv(m) => PassedInv(m)'
         /\ AddendInv(m) => AddendInv(m)'
         /\ Received(m)' = Received(m) /\ Sent(m)' = Sent(m)
         /\ Decided(m)' = Decided(m)
<1>1. /\ pc'[m] = pc[m] /\ checking'[m] = checking[m] /\ number'[m] = number[m]
      /\ snd_buf'[m] = snd_buf[m] /\ round'[m] = round[m]
      /\ failed_flag'[m] = failed_flag[m] /\ flag'[m] = flag[m]
      /\ result'[m] = result[m] /\ addend'[m] = addend[m]
  BY DEF Local
<1>2. /\ \A c : Checking(m, c)' = Checking(m, c)
      /\ Passing(m)' = Passing(m) /\ Returned(m)' = Returned(m)
  BY <1>1 DEF Checking, Passing, Returned
<1>3. Decided(m)' = Decided(m)
  BY <1>1, <1>2 DEF Decided
<1>4. Received(m)' = Received(m) /\ Sent(m)' = Sent(m)
  BY <1>1, <1>2 DEF Received, Sent
<1>5. CheckInv(m) => CheckInv(m)'
  BY <1>1, <1>2, SameForms DEF CheckInv
<1>6. PassedInv(m) => PassedInv(m)'
  BY <1>1, <1>2, <1>3, SameForms DEF PassedInv
<1>7. AddendInv(m) => AddendInv(m)'
  BY <1>1, SameForms DEF AddendInv
<1> QED BY <1>3, <1>4, <1>5, <1>6, <1>7

LEMMA LinksKept ==
  ASSUME UNCHANGED <<delta_h, begin, link>>, \A n \in Node : LinkInv(n),
         \A n \in Node : Received(n)' = Received(n) /\ Sent(n)' = Sent(n)
  PROVE  \A n \in Node : LinkInv(n)'
<1> SUFFICES ASSUME NEW n \in Node PROVE LinkInv(n)'
  OBVIOUS
<1>1. Plus(n) \in Node
  BY PlusNode
<1>2. LinkInv(n) /\ Received(n)' = Received(n) /\ Sent(n)' = Sent(n)
      /\ Received(Plus(n))' = Received(Plus(n))
  BY <1>1
<1>3. \A j : Message(n, j)' = Message(n, j)
  BY SameForms
<1> QED BY <1>2, <1>3 DEF LinkInv

\* A step of node n, and what is to be shown of it.
LEMMA NodeStep ==
  ASSUME IInv, TypeOK', UNCHANGED <<ncalls, delta_h, begin>>,
         NEW n \in Node, pc[n] # "out",
         \A m \in Node \ {n} : Local(m)' = Local(m),
         CheckInv(n)', PassedInv(n)', AddendInv(n)',
         \/ rng' = rng /\ Decided(n)' = Decided(n)
         \/ \A s \in Slice : RngInv(s)',
         \/ link' = link /\ Received(n)' = Received(n) /\ Sent(n)' = Sent(n)
         \/ \A m \in Node : LinkInv(m)'
  PROVE  IInv'
<1>1. \A m \in Node \ {n} :
        /\ CheckInv(m)' /\ PassedInv(m)' /\ AddendInv(m)'
        /\ Received(m)' = Received(m) /\ Sent(m)' = Sent(m)
        /\ Decided(m)' = Decided(m)
  BY LocalKept DEF IInv, NodeInv
<1>2. \A m \in Node : LinkInv(m)'
  <2>1. CASE link' = link /\ Received(n)' = Received(n) /\ Sent(n)' = Sent(n)
    <3>1. \A m \in Node : Received(m)' = Received(m) /\ Sent(m)' = Sent(m)
      BY <1>1, <2>1
    <3>2. \A m \in Node : LinkInv(m)
      BY DEF IInv, NodeInv
    <3> QED BY <2>1, <3>1, <3>2, LinksKept
  <2> QED BY <2>1
<1>3. \A m \in Node : NodeInv(m)'
  BY <1>1, <1>2 DEF NodeInv
<1>4. ncalls' > 0
  BY DEF IInv
<1>5. ASSUME NEW s \in Slice PROVE RngInv(s)'
  <2>1. [x |-> 0, s |-> s] \in Node
    BY Sizes DEF Node
  <2>2. CASE rng' = rng /\ Decided(n)' = Decided(n)
    <3>1. Decided([x |-> 0, s |-> s])' = Decided([x |-> 0, s |-> s])
      BY <1>1, <2>1, <2>2
    <3> QED BY <2>2, <3>1 DEF IInv, RngInv
  <2> QED BY <2>2
<1> QED BY <1>3, <1>4, <1>5 DEF IInv

\* SoCheck is called with the number the node should bring to it.
LEMMA EnterSoCheckStep ==
  ASSUME IInv, NEW n \in Node, NEW c \in Checks, S > 1, EnterSoCheck(n, c, Num(n, c)),
         flag' \in [Node -> {0, 1}], UNCHANGED <<inputs, accept, rng, result, addend>>,
         \A m \in Node \ {n} : flag'[m] = flag[m],
         \/ c = "SoCheck(delta_h)" /\ pc[n] = "enter"
         \/ /\ c = "SoCheck(flag)" /\ pc[n] = "glb_sum"
            /\ flag'[n] = Decision(n.s)
  PROVE  IInv'
<1>0. TypeOK /\ Num(n, c) \in Int
  BY FormTypes DEF IInv
<1>1. TypeOK'
  BY <1>0 DEF TypeOK, EnterSoCheck, inputs, Stages
<1>2. /\ pc'[n] = "send" /\ checking'[n] = c /\ number'[n] = Num(n, c)
      /\ snd_buf'[n] = Num(n, c) /\ round'[n] = 1 /\ failed_flag'[n] = 0
      /\ result'[n] = result[n] /\ addend'[n] = addend[n] /\ link' = link
      /\ UNCHANGED <<ncalls, delta_h, begin, rng>>
  BY <1>0 DEF TypeOK, EnterSoCheck, inputs
<1>3. \A m \in Node \ {n} : Local(m)' = Local(m)
  BY <1>0 DEF TypeOK, EnterSoCheck, Local, inputs
<1>4. \A d : Checking(n, d)' <=> d = c
  BY <1>2 DEF Checking
<1>5. CheckInv(n)'
  <2>1. Num(Behind(n, 0), c) = Num(n, c)
    BY BehindNode, Sizes
  <2>2. Differs(n, c, 0) = 0
    BY DEF Differs
  <2>3. 1 \in 1..(S - 1) /\ 1 - 1 = 0
    BY Sizes
  <2> QED BY <1>2, <1>4, <2>1, <2>2, <2>3, SameForms DEF CheckInv, Passing
<1>6. PassedInv(n)'
  BY <1>2, <1>4, SameForms DEF IInv, NodeInv, PassedInv, Decided, Returned
<1>7. AddendInv(n)'
  BY <1>2, SameForms DEF IInv, NodeInv, AddendInv
<1>8. Decided(n)' = Decided(n)
  BY <1>2, <1>4 DEF Decided, Returned, Checking
<1>9. Received(n)' = Received(n) /\ Sent(n)' = Sent(n)
  BY <1>2, <1>4, Sizes DEF Received, Sent, Checking
<1>10. pc[n] # "out"
  OBVIOUS
<1> QED BY <1>1, <1>2, <1>3, <1>5, <1>6, <1>7, <1>8, <1>9, <1>10, NodeStep

-----------------------------------------------------------------------------
(* The actions *)

\* Counts stay in range.
LEMMA Counts ==
  ASSUME IInv, NEW n \in Node
  PROVE  Received(n) \in Nat /\ Sent(n) \in Nat
<1>1. CheckInv(n) /\ S \in Nat /\ S > 0
  BY Sizes DEF IInv, NodeInv
<1>2. \A c \in Checks : Checking(n, c) => round[n] \in Nat \ {0}
  BY <1>1 DEF CheckInv
<1>3. Received(n) \in Nat
  BY <1>1, <1>2 DEF Received, Checks
<1> QED BY <1>3 DEF Sent

\* The number a node sends is the next message of its plus slice.
LEMMA NextMessage ==
  ASSUME IInv, NEW n \in Node, pc[n] = "send"
  PROVE  snd_buf[n] = Message(Plus(n), Sent(n) + 1)
<1>0. /\ CheckInv(n) /\ S \in Nat /\ S > 0
      /\ checking[n] \in Checks
  BY Sizes DEF IInv, NodeInv, TypeOK
<1>1. PICK c \in Checks : Checking(n, c)
  BY <1>0 DEF Checking
<1>2. round[n] \in 1..(S - 1) /\ snd_buf[n] = Num(Behind(n, round[n] - 1), c)
  BY <1>0, <1>1 DEF CheckInv, Passing
<1>3. Behind(Plus(n), round[n]) = Behind(n, round[n] - 1)
  <2>1. round[n] - 1 \in 0..(S - 1) /\ (round[n] - 1) + 1 <= S - 1
        /\ (round[n] - 1) + 1 = round[n]
    BY <1>0, <1>2
  <2> QED BY <2>1, BehindNode
<1>4. CASE c = "SoCheck(delta_h)"
  <2>1. Sent(n) + 1 = round[n]
    BY <1>0, <1>1, <1>2, <1>4 DEF Sent, Received, Checking
  <2> QED BY <1>0, <1>2, <1>3, <1>4, <2>1 DEF Message
<1>5. CASE c = "SoCheck(flag)"
  <2>1. Sent(n) + 1 = S - 1 + round[n]
    BY <1>0, <1>1, <1>2, <1>5 DEF Sent, Received, Checking
  <2> DEFINE j == Sent(n) + 1
  <2>2. ~(j <= S - 1) /\ j - (S - 1) = round[n]
    BY <1>0, <1>2, <2>1, Counts
  <2> HIDE DEF j
  <2>3. Message(Plus(n), j) = Num(Behind(Plus(n), j - (S - 1)), "SoCheck(flag)")
    BY <2>2, Zenon DEF Message
  <2>4. Message(Plus(n), j) = Num(Behind(n, round[n] - 1), "SoCheck(flag)")
    BY <1>3, <2>2, <2>3, Zenon
  <2> QED BY <1>2, <1>5, <2>4 DEF j
<1> QED BY <1>4, <1>5 DEF Checks

LEMMA SendStep ==
  ASSUME IInv, NEW n \in Node, Send(n)
  PROVE  IInv'
<1>0. TypeOK /\ CheckInv(n)
  BY DEF IInv, NodeInv
<1>1. TypeOK'
  BY <1>0, PlusNode DEF Send, TypeOK, inputs, Stages
<1>2. /\ pc[n] = "send" /\ pc'[n] = "receive"
      /\ \A m \in Node \ {n} : pc'[m] = pc[m]
      /\ UNCHANGED <<ncalls, delta_h, begin, rng, checking, number, snd_buf,
                     round, failed_flag, flag, result, addend>>
  BY <1>0 DEF Send, TypeOK, inputs
<1>3. \A m \in Node \ {n} : Local(m)' = Local(m)
  BY <1>2 DEF Local
<1>4. \A c : Checking(n, c)' = Checking(n, c)
  BY <1>2 DEF Checking
<1>5. CheckInv(n)'
  BY <1>0, <1>2, <1>4, SameForms DEF CheckInv, Passing
<1>6. PassedInv(n)'
  BY <1>2, <1>4, SameForms DEF IInv, NodeInv, PassedInv, Decided, Returned
<1>7. AddendInv(n)'
  BY <1>2, SameForms DEF IInv, NodeInv, AddendInv
<1>8. Decided(n)' = Decided(n)
  BY <1>2, <1>4 DEF Decided, Returned
<1>9. Received(n)' = Received(n) /\ Sent(n)' = Sent(n) + 1 /\ Received(n) \in Nat
  <2>1. Received(n)' = Received(n)
    BY <1>2, <1>4 DEF Received
  <2> QED BY <1>2, <2>1, Counts DEF Sent
<1>10. \A m \in Node \ {n} : Received(m)' = Received(m) /\ Sent(m)' = Sent(m)
  BY <1>2, <1>3, LocalKept
<1>11. ASSUME NEW m \in Node PROVE LinkInv(m)'
  <2>0. /\ LinkInv(m) /\ Plus(m) \in Node /\ Plus(n) \in Node
        /\ link \in [Node -> Seq(Int)] /\ snd_buf[n] \in Int
        /\ Received(m) \in Nat /\ Received(Plus(m)) \in Nat /\ Sent(m) \in Nat
    BY <1>0, PlusNode, Counts DEF IInv, NodeInv, TypeOK
  <2>1. /\ link' = [link EXCEPT ![Plus(n)] = Append(@, snd_buf[n])]
        /\ \A k \in Node : Received(k)' = Received(k)
    BY <1>9, <1>10 DEF Send
  <2>2. Len(link'[Plus(m)]) = Sent(m)' - Received(Plus(m))'
    <3>1. CASE m = n
      BY <1>9, <2>0, <2>1, <3>1 DEF LinkInv
    <3>2. CASE m # n
      <4>1. Plus(m) # Plus(n)
        BY <3>2, PlusInjective
      <4> QED BY <1>10, <2>0, <2>1, <3>2, <4>1 DEF LinkInv
    <3> QED BY <3>1, <3>2
  <2>3. \A k \in 1..Len(link'[m]) : link'[m][k] = Message(m, Received(m) + k)
    <3>1. CASE m = Plus(n)
      <4>1. LinkInv(n) /\ Sent(n) \in Nat
        BY Counts DEF IInv, NodeInv
      <4>2. Len(link[m]) = Sent(n) - Received(m)
        BY <3>1, <4>1 DEF LinkInv
      <4>3. Received(m) + (Len(link[m]) + 1) = Sent(n) + 1
        BY <2>0, <4>1, <4>2
      <4>4. snd_buf[n] = Message(m, Sent(n) + 1)
        BY <1>2, <3>1, NextMessage
      <4>5. /\ link'[m] = Append(link[m], snd_buf[n])
            /\ link[m] \in Seq(Int)
        BY <2>0, <2>1, <3>1
      <4> DEFINE q == link[m]  b == snd_buf[n]
      <4>6. \A k \in 1..Len(q) : q[k] = Message(m, Received(m) + k)
        BY <2>0 DEF LinkInv
      <4>7. /\ q \in Seq(Int) /\ b \in Int /\ link'[m] = Append(q, b)
            /\ b = Message(m, Received(m) + (Len(q) + 1))
        BY <2>0, <4>3, <4>4, <4>5
      <4> HIDE DEF q, b
      <4> QED BY <4>6, <4>7
    <3>2. CASE m # Plus(n)
      BY <2>0, <2>1, <3>2 DEF LinkInv
    <3> QED BY <3>1, <3>2
  <2> QED BY <1>2, <2>1, <2>2, <2>3, SameForms DEF LinkInv
<1> QED BY <1>1, <1>2, <1>3, <1>5, <1>6, <1>7, <1>8, <1>11, NodeStep

\* A node compares one slice more.
LEMMA OneMore ==
  ASSUME NEW n \in Node, NEW c, NEW r \in Nat \ {0}
  PROVE  Differs(n, c, r) =
           IF Num(Behind(n, r), c) # Num(n, c) THEN 1 ELSE Differs(n, c, r - 1)
<1>1. 1..r = (1..(r - 1)) \cup {r}
  OBVIOUS
<1> QED BY <1>1 DEF Differs

\* What a node in round r of a check receives.
LEMMA ReceivedMessage ==
  ASSUME IInv, NEW n \in Node, pc[n] = "receive", NEW c \in Checks, Checking(n, c)
  PROVE  Message(n, Received(n) + 1) = Num(Behind(n, round[n]), c)
<1>0. CheckInv(n) /\ S \in Nat /\ S > 0
  BY Sizes DEF IInv, NodeInv
<1>1. round[n] \in 1..(S - 1)
  BY <1>0 DEF CheckInv, Passing
<1>2. CASE c = "SoCheck(delta_h)"
  <2>1. Received(n) + 1 = round[n]
    BY <1>0, <1>1, <1>2 DEF Received, Checking
  <2> QED BY <1>0, <1>1, <1>2, <2>1 DEF Message
<1>3. CASE c = "SoCheck(flag)"
  <2>1. Received(n) + 1 = S - 1 + round[n]
    BY <1>0, <1>1, <1>3 DEF Received, Checking
  <2> DEFINE j == Received(n) + 1
  <2>2. ~(j <= S - 1) /\ j - (S - 1) = round[n]
    BY <1>0, <1>1, <2>1, Counts
  <2> HIDE DEF j
  <2>3. Message(n, j) = Num(Behind(n, j - (S - 1)), "SoCheck(flag)")
    BY <2>2, Zenon DEF Message
  <2> QED BY <1>3, <2>2, <2>3, Zenon DEF j
<1> QED BY <1>2, <1>3 DEF Checks

LEMMA ReceiveStep ==
  ASSUME IInv, NEW n \in Node, Receive(n)
  PROVE  IInv'
<1> DEFINE rcv == Head(link[n])
           failed == IF rcv # number[n] THEN 1 ELSE failed_flag[n]
           c == checking[n]
<1>0. /\ TypeOK /\ CheckInv(n) /\ LinkInv(n) /\ AddendInv(n) /\ PassedInv(n)
      /\ S \in Nat /\ S > 0
      /\ pc[n] = "receive" /\ link[n] # <<>> /\ link[n] \in Seq(Int)
      /\ c \in Checks /\ Checking(n, c)
  BY Sizes DEF IInv, NodeInv, Receive, TypeOK, Checking
<1>1. /\ rcv \in Int /\ failed \in {0, 1} /\ Tail(link[n]) \in Seq(Int)
      /\ Len(link[n]) \in Nat \ {0} /\ rcv = link[n][1]
      /\ Len(Tail(link[n])) = Len(link[n]) - 1
      /\ \A k \in 1..(Len(link[n]) - 1) : Tail(link[n])[k] = link[n][k + 1]
  BY <1>0 DEF TypeOK
<1>2. round[n] \in 1..(S - 1) /\ round[n] + 1 \in Int
  BY <1>0 DEF CheckInv, Passing
<1>3. rcv = Num(Behind(n, round[n]), c) /\ number[n] = Num(n, c)
  <2>1. 1 \in 1..Len(link[n])
    BY <1>1
  <2>2. rcv = Message(n, Received(n) + 1)
    BY <1>0, <1>1, <2>1 DEF LinkInv
  <2> QED BY <1>0, <2>2, ReceivedMessage DEF CheckInv
<1>4. failed = Differs(n, c, round[n])
  <2>1. failed_flag[n] = Differs(n, c, round[n] - 1)
    BY <1>0 DEF CheckInv
  <2> QED BY <1>2, <1>3, <2>1, OneMore
<1> DEFINE last == ~(round[n] + 1 < S)
<1>5. /\ link' = [link EXCEPT ![n] = Tail(@)]
      /\ failed_flag' = [failed_flag EXCEPT ![n] = failed]
      /\ snd_buf' = [snd_buf EXCEPT ![n] = rcv]
      /\ round' = [round EXCEPT ![n] = @ + 1]
      /\ pc' = [pc EXCEPT ![n] = IF last THEN "glb_sum_five" ELSE "send"]
      /\ addend' = IF last THEN [addend EXCEPT ![n][c] = failed] ELSE addend
      /\ UNCHANGED <<ncalls, delta_h, begin, flag, accept, rng, result, checking,
                     number>>
  BY DEF Receive, inputs
<1>6. last => round[n] = S - 1
  BY <1>0, <1>2
<1> HIDE DEF rcv, failed, last, c
<1>7. TypeOK'
  <2>1. c \in GlobalSums
    BY <1>0 DEF Checks, GlobalSums
  <2>2. addend' \in [Node -> [GlobalSums -> {None, 0, 1}]]
    BY <1>0, <1>1, <1>5, <2>1 DEF TypeOK
  <2>3. pc' \in [Node -> Stages]
    BY <1>0, <1>5 DEF TypeOK, Stages
  <2>4. /\ link' \in [Node -> Seq(Int)] /\ round' \in [Node -> Int]
        /\ failed_flag' \in [Node -> {0, 1}] /\ snd_buf' \in [Node -> Int]
    BY <1>0, <1>1, <1>5 DEF TypeOK
  <2> QED BY <1>0, <1>5, <2>2, <2>3, <2>4 DEF TypeOK
<1>8. /\ pc'[n] = (IF last THEN "glb_sum_five" ELSE "send")
      /\ failed_flag'[n] = failed /\ snd_buf'[n] = rcv /\ round'[n] = round[n] + 1
      /\ checking'[n] = c /\ number'[n] = number[n] /\ link'[n] = Tail(link[n])
      /\ flag'[n] = flag[n] /\ result'[n] = result[n]
      /\ \A d \in GlobalSums : addend'[n][d] = addend[n][d] \/ (d = c /\ addend'[n][d] = failed)
      /\ last => addend'[n][c] = failed
  BY <1>0, <1>5 DEF TypeOK, c, GlobalSums, Checks
<1>9. \A m \in Node \ {n} : Local(m)' = Local(m) /\ link'[m] = link[m]
  <2>1. \A m \in Node \ {n} : addend'[m] = addend[m]
    BY <1>0, <1>5 DEF TypeOK
  <2> QED BY <1>0, <1>5, <2>1 DEF TypeOK, Local
<1>10. \A d : Checking(n, d)' <=> d = c
  BY <1>8 DEF Checking
<1>11. CheckInv(n)'
  <2>1. S > 1 /\ (round[n] + 1) - 1 = round[n]
    BY <1>0, <1>2
  <2>2. ~last => round[n] + 1 \in 1..(S - 1)
    BY <1>0, <1>2 DEF last
  <2>3. last => round[n] + 1 = S
    BY <1>0, <1>6
  <2> QED BY <1>3, <1>4, <1>8, <1>10, <2>1, <2>2, <2>3, SameForms, <1>5 DEF CheckInv, Passing
<1>12. Decided(n)' = Decided(n)
  BY <1>0, <1>8, <1>10 DEF Decided, Returned, Checking, c
<1>13. PassedInv(n)'
  BY <1>0, <1>5, <1>8, <1>10, <1>12, SameForms DEF PassedInv, Returned
<1>14. AddendInv(n)'
  <2>1. last => failed = Addend(n, c)
    <3>1. c # "flag"
      BY <1>0 DEF Checks
    <3> QED BY <1>4, <1>6, <3>1 DEF Addend
  <2>2. ~last => addend' = addend
    BY <1>5
  <2> QED BY <1>0, <1>5, <1>8, <2>1, <2>2, SameForms DEF AddendInv
<1>15. Received(n)' = Received(n) + 1 /\ Sent(n)' = Sent(n)
  <2>1. Received(n)' = Received(n) + 1
    <3>1. \A d : Checking(n, d) <=> d = c
      BY <1>0 DEF Checking, c
    <3>2. Received(n) = IF c = "SoCheck(delta_h)" THEN round[n] - 1
                        ELSE S - 1 + (round[n] - 1)
      BY <1>0, <3>1 DEF Received, Checks
    <3>3. Received(n)' = IF c = "SoCheck(delta_h)" THEN round'[n] - 1
                         ELSE S - 1 + (round'[n] - 1)
      <4>1. pc'[n] # "enter" /\ pc'[n] # "glb_sum"
        BY <1>8
      <4>2. /\ Checking(n, "SoCheck(delta_h)")' <=> c = "SoCheck(delta_h)"
            /\ Checking(n, "SoCheck(flag)")' <=> c = "SoCheck(flag)"
        BY <1>10
      <4> QED BY <1>0, <4>1, <4>2 DEF Received, Checks
    <3> QED BY <1>0, <1>2, <1>8, <3>2, <3>3
  <2> QED BY <1>0, <1>8, <2>1, Counts DEF Sent
<1>16. ASSUME NEW m \in Node PROVE LinkInv(m)'
  <2>0. /\ LinkInv(m) /\ Plus(m) \in Node
        /\ Received(Plus(m)) \in Nat /\ Received(m) \in Nat /\ Sent(m) \in Nat
    BY PlusNode, Counts DEF IInv, NodeInv
  <2>1. \A k \in Node \ {n} : Received(k)' = Received(k) /\ Sent(k)' = Sent(k)
    BY <1>5, <1>9, LocalKept
  <2>2. Len(link'[Plus(m)]) = Sent(m)' - Received(Plus(m))'
    <3>1. Sent(m)' = Sent(m)
      BY <1>15, <2>1
    <3>2. Len(link[Plus(m)]) = Sent(m) - Received(Plus(m))
      BY <2>0 DEF LinkInv
    <3>3. CASE Plus(m) = n
      <4>1. Received(Plus(m))' = Received(n) + 1 /\ Received(Plus(m)) = Received(n)
        BY <1>15, <3>3
      <4>2. link'[Plus(m)] = Tail(link[n]) /\ Len(link[n]) = Sent(m) - Received(n)
        BY <1>8, <3>2, <3>3
      <4> QED BY <1>1, <2>0, <3>1, <4>1, <4>2
    <3>4. CASE Plus(m) # n
      BY <1>9, <2>0, <2>1, <3>1, <3>2, <3>4
    <3> QED BY <3>3, <3>4
  <2>3. \A k \in 1..Len(link'[m]) : link'[m][k] = Message(m, Received(m)' + k)
    <3>1. CASE m = n
      <4> DEFINE q == link[n]  R == Received(n)
      <4>1. \A k \in 1..Len(q) : q[k] = Message(n, R + k)
        BY <1>0 DEF LinkInv
      <4>2. /\ Len(link'[n]) = Len(q) - 1 /\ Len(q) \in Nat
            /\ \A k \in 1..(Len(q) - 1) : link'[n][k] = q[k + 1]
            /\ Received(n)' = R + 1 /\ R \in Nat
        BY <1>1, <1>8, <1>15, <2>0, <3>1
      <4> HIDE DEF q, R
      <4>3. ASSUME NEW k \in 1..(Len(q) - 1) PROVE link'[n][k] = Message(n, (R + 1) + k)
        <5>1. k + 1 \in 1..Len(q) /\ (R + 1) + k = R + (k + 1)
          BY <4>2
        <5> QED BY <4>1, <4>2, <5>1
      <4> QED BY <3>1, <4>2, <4>3
    <3>2. CASE m # n
      BY <1>9, <2>0, <2>1, <3>2 DEF LinkInv
    <3> QED BY <3>1, <3>2
  <2> QED BY <1>5, <2>2, <2>3, SameForms DEF LinkInv
<1> QED BY <1>0, <1>5, <1>7, <1>9, <1>11, <1>12, <1>13, <1>14, <1>16, NodeStep

\* A node stops after a check another node, or it, has failed.
LEMMA StopStep ==
  ASSUME IInv, NEW n \in Node, Stop(n)
  PROVE  IInv'
<1>0. /\ TypeOK /\ CheckInv(n) /\ PassedInv(n) /\ AddendInv(n)
      /\ checking[n] \in Checks
  BY DEF IInv, NodeInv, TypeOK
<1>1. /\ pc[n] = "glb_sum_five" /\ pc' = [pc EXCEPT ![n] = "stopped"]
      /\ UNCHANGED <<ncalls, delta_h, begin, flag, accept, rng, result, socheck, addend>>
      /\ Complete(checking[n], Node) /\ Total(checking[n], Node) > 0
  BY DEF Stop, inputs, CheckFailed
<1>2. TypeOK' /\ pc'[n] = "stopped"
  BY <1>0, <1>1 DEF TypeOK, Stages, socheck
<1>3. \A m \in Node \ {n} : Local(m)' = Local(m)
  BY <1>0, <1>1 DEF TypeOK, Local, socheck
<1>4. \A c : Checking(n, c)' = Checking(n, c)
  BY <1>1, <1>2 DEF Checking, socheck
<1>5. CheckInv(n)'
  BY <1>0, <1>1, <1>2, <1>4, SameForms DEF CheckInv, Passing, socheck
<1>6. Decided(n)' = Decided(n)
  BY <1>1, <1>2, <1>4 DEF Decided, Returned
<1>7. PassedInv(n)'
  <2>1. \E m \in Node : Differs(m, checking[n], S - 1) = 1
    BY <1>0, <1>1, CheckTotal
  <2> QED BY <1>0, <1>1, <1>2, <1>4, <1>6, <2>1, SameForms DEF PassedInv, Returned, socheck
<1>8. AddendInv(n)'
  BY <1>0, <1>1, SameForms DEF AddendInv
<1>9. Received(n)' = Received(n) /\ Sent(n)' = Sent(n)
  BY <1>1, <1>2, <1>4 DEF Received, Sent, socheck
<1> QED BY <1>1, <1>2, <1>3, <1>5, <1>6, <1>7, <1>8, <1>9, NodeStep DEF socheck

\* A node takes the decision, or leaves it to the origin of its slice.
LEMMA DecideStep ==
  ASSUME IInv, NEW n \in Node, Decide(n), UNCHANGED socheck,
         \/ pc[n] = "enter" /\ S = 1
         \/ /\ pc[n] = "glb_sum_five" /\ Checking(n, "SoCheck(delta_h)")
            /\ NoneFails("SoCheck(delta_h)")
  PROVE  IInv'
<1> DEFINE d == delta_h[n]
           f == IF ~Decides(n) THEN 0
                ELSE IF d <= 0 \/ Uniform(rng[n.s]) <= Exp(d) THEN 1 ELSE 0
           o == [x |-> 0, s |-> n.s]
<1>0. /\ TypeOK /\ CheckInv(n) /\ PassedInv(n) /\ AddendInv(n) /\ RngInv(n.s)
      /\ S \in Nat /\ S > 0 /\ n.s \in Slice /\ ncalls > 0
  BY Sizes, NodeFields DEF IInv, NodeInv
<1>1. ~Decided(n) /\ ~Returned(n)
  BY DEF Decided, Checking, Returned
<1>2. n.x = 0 => n = o
  BY NodeFields
<1>3. f = Addend(n, "flag")
  <2>1. n.x = 0 => rng[n.s] = begin[n.s]
    BY <1>0, <1>1, <1>2 DEF RngInv
  <2> QED BY <1>2, <2>1 DEF Addend, Decision, Decides
<1>4. /\ flag' = [flag EXCEPT ![n] = f]
      /\ addend' = [addend EXCEPT ![n]["flag"] = f]
      /\ pc' = [pc EXCEPT ![n] = "glb_sum"]
      /\ DOMAIN accept' = Node
      /\ rng' = IF n.x = 0 /\ d > 0 THEN [rng EXCEPT ![n.s] = AfterUniform(@)] ELSE rng
      /\ UNCHANGED <<ncalls, delta_h, begin, result, checking, number, snd_buf,
                     round, failed_flag, link>>
  BY <1>0 DEF Decide, Decides, inputs, socheck, TypeOK
<1>5. f \in {0, 1}
  OBVIOUS
<1> HIDE DEF d, f, o
<1>6. TypeOK'
  <2>1. rng' \in [Slice -> Rng]
    <3>1. AfterUniform(rng[n.s]) \in Rng
      BY <1>0, MetropolisAssumption DEF TypeOK
    <3> QED BY <1>0, <1>4, <3>1 DEF TypeOK
  <2>2. /\ flag' \in [Node -> {0, 1}] /\ pc' \in [Node -> Stages]
        /\ addend' \in [Node -> [GlobalSums -> {None, 0, 1}]]
    BY <1>0, <1>4, <1>5 DEF TypeOK, Stages, GlobalSums
  <2> QED BY <1>0, <1>4, <2>1, <2>2 DEF TypeOK
<1>7. /\ pc'[n] = "glb_sum" /\ addend'[n]["flag"] = f
      /\ \A c \in GlobalSums : c # "flag" => addend'[n][c] = addend[n][c]
  BY <1>0, <1>4 DEF TypeOK, GlobalSums
<1>8. \A m \in Node \ {n} : Local(m)' = Local(m)
  <2>1. \A m \in Node \ {n} : addend'[m] = addend[m]
    BY <1>0, <1>4 DEF TypeOK
  <2> QED BY <1>0, <1>4, <2>1 DEF TypeOK, Local
<1>9. \A c : ~Checking(n, c)'
  BY <1>7 DEF Checking
<1>10. CheckInv(n)'
  BY <1>9 DEF CheckInv
<1>11. Decided(n)' /\ ~Returned(n)'
  BY <1>7 DEF Decided, Returned
<1>12. PassedInv(n)'
  BY <1>4, <1>7, <1>9, <1>11, SameForms DEF PassedInv
<1>13. AddendInv(n)'
  BY <1>0, <1>3, <1>4, <1>7, SameForms DEF AddendInv
<1>14. Received(n)' = Received(n) /\ Sent(n)' = Sent(n)
  <2>1. Received(n)' = S - 1
    BY <1>7, <1>9 DEF Received
  <2>2. Received(n) = S - 1
    <3>1. CASE pc[n] = "enter" /\ S = 1
      BY <3>1 DEF Received
    <3>2. CASE pc[n] = "glb_sum_five" /\ Checking(n, "SoCheck(delta_h)")
      <4>1. round[n] = S
        BY <1>0, <3>2 DEF CheckInv, Passing, Checks
      <4> QED BY <3>2, <4>1 DEF Received
    <3> QED BY <3>1, <3>2
  <2> QED BY <1>7, <2>1, <2>2 DEF Sent
<1>15. ASSUME NEW s \in Slice PROVE RngInv(s)'
  <2> DEFINE p == [x |-> 0, s |-> s]
  <2>1. p \in Node /\ RngInv(s)
    BY Sizes DEF Node, IInv
  <2>2. CASE p = n
    <3>1. n.x = 0 /\ n.s = s
      BY <2>2
    <3>2. rng[s] = begin[s]
      BY <1>1, <2>1, <2>2 DEF RngInv
    <3>3. rng'[s] = IF d > 0 THEN AfterUniform(begin[s]) ELSE begin[s]
      BY <1>0, <1>4, <3>1, <3>2 DEF TypeOK
    <3> QED BY <1>4, <1>11, <2>2, <3>3 DEF RngInv, d
  <2>3. CASE p # n
    <3>1. ~(n.x = 0 /\ n.s = s)
      BY <1>2, <2>3 DEF o
    <3>2. rng'[s] = rng[s]
      BY <1>0, <1>4, <3>1 DEF TypeOK
    <3>3. Decided(p)' = Decided(p)
      BY <1>4, <1>8, <2>1, <2>3, LocalKept
    <3> QED BY <1>4, <2>1, <3>2, <3>3 DEF RngInv
  <2> QED BY <2>2, <2>3
<1>16. pc[n] # "out"
  OBVIOUS
<1> QED BY <1>4, <1>6, <1>8, <1>10, <1>12, <1>13, <1>14, <1>15, <1>16, NodeStep

LEMMA EnterStep ==
  ASSUME IInv, NEW n \in Node, Enter(n)
  PROVE  IInv'
<1>1. CASE S # 1
  <2>1. S > 1
    BY <1>1, Sizes
  <2>2. /\ EnterSoCheck(n, "SoCheck(delta_h)", Num(n, "SoCheck(delta_h)"))
        /\ pc[n] = "enter"
        /\ UNCHANGED <<inputs, flag, accept, rng, result, addend>>
    BY <1>1 DEF Enter, ChecksDeltaH, Num
  <2>3. flag' \in [Node -> {0, 1}] /\ \A m \in Node \ {n} : flag'[m] = flag[m]
    BY <2>2 DEF IInv, TypeOK
  <2> QED BY <2>1, <2>2, <2>3, EnterSoCheckStep DEF Checks
<1>2. CASE S = 1
  BY <1>2, DecideStep DEF Enter, ChecksDeltaH
<1> QED BY <1>1, <1>2

LEMMA DeltaHCheckedStep ==
  ASSUME IInv, NEW n \in Node, DeltaHChecked(n)
  PROVE  IInv'
<1>1. /\ pc[n] = "glb_sum_five" /\ Checking(n, "SoCheck(delta_h)")
      /\ Complete("SoCheck(delta_h)", Node) /\ ~(Total("SoCheck(delta_h)", Node) > 0)
      /\ Decide(n) /\ UNCHANGED socheck
  BY DEF DeltaHChecked, Checking, CheckFailed
<1>2. NoneFails("SoCheck(delta_h)")
  BY <1>1, CheckTotal DEF Checks
<1> QED BY <1>1, <1>2, DecideStep

\* A node returns what the origin of its slice decided.
LEMMA ReturnStep ==
  ASSUME IInv, NEW n \in Node, Return(n, Decision(n.s)), Decided(n), pc[n] # "out",
         flag' \in [Node -> {0, 1}], \A m \in Node \ {n} : flag'[m] = flag[m],
         S > 1 => NoneFails("SoCheck(delta_h)") /\ NoneFails("SoCheck(flag)"),
         Received(n) = 2 * (S - 1), pc[n] # "receive",
         UNCHANGED <<inputs, accept, rng, socheck, addend>>
  PROVE  IInv'
<1>0. TypeOK /\ AddendInv(n) /\ ncalls > 0 /\ Decision(n.s) \in {0, 1}
  BY FormTypes DEF IInv, NodeInv
<1>1. /\ pc' = [pc EXCEPT ![n] = "out"]
      /\ result' = [result EXCEPT ![n] = Decision(n.s)]
      /\ UNCHANGED <<ncalls, delta_h, begin, accept, rng, checking, number, snd_buf,
                     round, failed_flag, link, addend>>
  BY <1>0 DEF Return, inputs, socheck
<1>2. TypeOK'
  BY <1>0, <1>1 DEF TypeOK, Stages
<1>3. pc'[n] = "out" /\ result'[n] = Decision(n.s)
  BY <1>0, <1>1 DEF TypeOK
<1>4. \A m \in Node \ {n} : Local(m)' = Local(m)
  BY <1>0, <1>1 DEF TypeOK, Local
<1>5. \A c : ~Checking(n, c)'
  BY <1>3 DEF Checking
<1>6. CheckInv(n)'
  BY <1>5 DEF CheckInv
<1>7. Returned(n)' /\ Decided(n)' = Decided(n)
  <2>1. Returned(n)' /\ Decided(n)'
    BY <1>0, <1>1, <1>3 DEF Decided, Returned
  <2> QED BY <2>1 DEF Decided
<1>8. PassedInv(n)'
  BY <1>1, <1>3, <1>5, SameForms DEF PassedInv
<1>9. AddendInv(n)'
  BY <1>0, <1>1, SameForms DEF AddendInv
<1>10. Received(n)' = Received(n) /\ Sent(n)' = Sent(n)
  <2>1. Received(n)' = 2 * (S - 1)
    BY <1>3, <1>5 DEF Received
  <2> QED BY <1>3, <2>1 DEF Sent
<1> QED BY <1>1, <1>2, <1>4, <1>6, <1>7, <1>8, <1>9, <1>10, NodeStep

LEMMA LearnStep ==
  ASSUME IInv, NEW n \in Node, Learn(n)
  PROVE  IInv'
<1>0. /\ pc[n] = "glb_sum" /\ Complete("flag", InSlice(n))
      /\ TypeOK /\ PassedInv(n) /\ Decided(n)
      /\ Decision(n.s) \in {0, 1} /\ S \in Nat /\ S > 0
  BY Sizes, FormTypes DEF IInv, NodeInv, Learn, Decided
<1>1. Total("flag", InSlice(n)) = Decision(n.s)
  BY <1>0, FlagTotal
<1>2. /\ flag' = [flag EXCEPT ![n] = Decision(n.s)]
      /\ UNCHANGED <<inputs, accept, rng, addend>>
      /\ IF S # 1 THEN EnterSoCheck(n, "SoCheck(flag)", Decision(n.s)) /\ UNCHANGED result
         ELSE Return(n, Decision(n.s)) /\ UNCHANGED socheck
  BY <1>1 DEF Learn, ChecksFlag
<1>3. /\ flag' \in [Node -> {0, 1}] /\ flag'[n] = Decision(n.s)
      /\ \A m \in Node \ {n} : flag'[m] = flag[m]
  BY <1>0, <1>2 DEF TypeOK
<1>4. CASE S # 1
  <2>1. S > 1 /\ EnterSoCheck(n, "SoCheck(flag)", Num(n, "SoCheck(flag)"))
    BY <1>0, <1>2, <1>4 DEF Num
  <2> QED BY <1>0, <1>2, <1>3, <1>4, <2>1, EnterSoCheckStep DEF Checks
<1>5. CASE S = 1
  <2>1. Received(n) = 2 * (S - 1)
    BY <1>0, <1>5 DEF Received, Checking
  <2> QED BY <1>0, <1>2, <1>3, <1>5, <2>1, ReturnStep
<1> QED BY <1>4, <1>5

LEMMA FlagCheckedStep ==
  ASSUME IInv, NEW n \in Node, FlagChecked(n)
  PROVE  IInv'
<1>0. /\ pc[n] = "glb_sum_five" /\ Checking(n, "SoCheck(flag)")
      /\ checking[n] = "SoCheck(flag)"
      /\ Complete("SoCheck(flag)", Node) /\ ~(Total("SoCheck(flag)", Node) > 0)
      /\ TypeOK /\ PassedInv(n) /\ CheckInv(n) /\ S \in Nat /\ S > 0
  BY Sizes DEF FlagChecked, Checking, CheckFailed, IInv, NodeInv
<1>1. flag[n] = Decision(n.s) /\ Decided(n)
  BY <1>0 DEF PassedInv, Decided
<1>2. /\ Return(n, Decision(n.s))
      /\ UNCHANGED <<inputs, flag, accept, rng, socheck, addend>>
  BY <1>1 DEF FlagChecked
<1>3. NoneFails("SoCheck(flag)")
  BY <1>0, CheckTotal DEF Checks
<1>4. round[n] = S
  BY <1>0 DEF CheckInv, Passing, Checks
<1>5. Received(n) = 2 * (S - 1)
  BY <1>0, <1>4 DEF Received, Checking
<1>6. flag' \in [Node -> {0, 1}] /\ \A m \in Node \ {n} : flag'[m] = flag[m]
  BY <1>0, <1>2 DEF TypeOK
<1>7. S > 1 => NoneFails("SoCheck(delta_h)") /\ NoneFails("SoCheck(flag)")
  BY <1>0, <1>1, <1>3 DEF PassedInv
<1> QED BY <1>0, <1>1, <1>2, <1>5, <1>6, <1>7, ReturnStep

\* The next call finds no message left over.
LEMMA CallStep ==
  ASSUME IInv, Call
  PROVE  IInv'
<1>0. TypeOK /\ S \in Nat /\ S > 0
  BY Sizes DEF IInv
<1>1. /\ \A n \in Node : pc[n] = "out" /\ pc'[n] = "enter"
      /\ pc' = [n \in Node |-> "enter"]
      /\ ncalls' = ncalls + 1 /\ delta_h' \in [Node -> DeltaH]
      /\ flag' = [n \in Node |-> 0] /\ accept' = [n \in Node |-> Unset]
      /\ addend' = [n \in Node |-> [c \in GlobalSums |-> None]]
      /\ begin' = rng
      /\ UNCHANGED <<rng, result, checking, number, snd_buf, round, failed_flag, link>>
  BY DEF Call, socheck
<1>2. TypeOK'
  <2>1. delta_h' \in [Node -> Int]
    BY <1>1, MetropolisAssumption
  <2> QED BY <1>0, <1>1, <2>1 DEF TypeOK, Stages
<1>3. ncalls' > 0
  BY <1>0, <1>1 DEF TypeOK
<1>4. ASSUME NEW n \in Node PROVE NodeInv(n)'
  <2>1. \A m \in Node :
          /\ Received(m) = 2 * (S - 1) /\ Sent(m) = 2 * (S - 1)
          /\ Received(m)' = 0 /\ Sent(m)' = 0
    BY <1>0, <1>1 DEF Received, Sent, Checking
  <2>2. \A m \in Node : link[m] = <<>>
    <3>1. ASSUME NEW m \in Node PROVE link[m] = <<>>
      <4>1. PICK k \in Node : Plus(k) = m
        BY PlusOnto
      <4>2. Len(link[m]) = 0
        BY <1>0, <2>1, <4>1 DEF IInv, NodeInv, LinkInv
      <4> QED BY <1>0, <4>2 DEF TypeOK
    <3> QED BY <3>1
  <2>3. LinkInv(n)'
    BY <1>1, <2>1, <2>2, PlusNode DEF LinkInv
  <2>4. (\A c : ~Checking(n, c)') /\ ~Decided(n)' /\ ~Returned(n)'
    BY <1>1 DEF Checking, Decided, Returned
  <2>5. CheckInv(n)' /\ PassedInv(n)'
    BY <1>1, <2>4 DEF CheckInv, PassedInv
  <2>6. AddendInv(n)'
    BY <1>1 DEF AddendInv
  <2> QED BY <2>3, <2>5, <2>6 DEF NodeInv
<1>5. ASSUME NEW s \in Slice PROVE RngInv(s)'
  <2>1. [x |-> 0, s |-> s] \in Node
    BY Sizes DEF Node
  <2>2. ~Decided([x |-> 0, s |-> s])'
    BY <1>1, <2>1 DEF Decided, Checking, Returned
  <2> QED BY <1>1, <2>2 DEF RngInv
<1> QED BY <1>2, <1>3, <1>4, <1>5 DEF IInv

LEMMA InitInvariant == Init => IInv
<1> SUFFICES ASSUME Init PROVE IInv
  OBVIOUS
<1>0. S \in Nat /\ S > 0
  BY Sizes
<1>1. TypeOK
  BY DEF Init, TypeOK, Stages, Checks
<1>2. ASSUME NEW n \in Node PROVE NodeInv(n)
  <2>1. \A m \in Node : Received(m) = 2 * (S - 1) /\ Sent(m) = 2 * (S - 1)
    BY <1>0 DEF Init, Received, Sent, Checking
  <2>2. LinkInv(n)
    BY <1>0, <2>1, PlusNode DEF Init, LinkInv
  <2>3. (\A c : ~Checking(n, c)) /\ ~Decided(n) /\ ~Returned(n) /\ pc[n] # "stopped"
    BY DEF Init, Checking, Decided, Returned
  <2>4. CheckInv(n) /\ PassedInv(n)
    BY <2>3 DEF CheckInv, PassedInv
  <2>5. AddendInv(n)
    BY DEF Init, AddendInv
  <2> QED BY <2>2, <2>4, <2>5 DEF NodeInv
<1>3. ASSUME NEW s \in Slice PROVE RngInv(s)
  <2>1. [x |-> 0, s |-> s] \in Node
    BY Sizes DEF Node
  <2>2. ~Decided([x |-> 0, s |-> s])
    BY <2>1 DEF Init, Decided, Checking, Returned
  <2> QED BY <2>2 DEF Init, RngInv
<1>4. \A n \in Node : pc[n] = "out"
  BY DEF Init
<1> QED BY <1>1, <1>2, <1>3, <1>4 DEF IInv

-----------------------------------------------------------------------------
(* The theorems *)

\* On every machine, for all energy differences, generators and functions, a
\* call is where its inputs lead: no message is lost, doubled or left behind,
\* and what a node holds, has added and has decided depends on no timing.
THEOREM Invariance == Spec => []IInv
<1>1. IInv /\ [Next]_vars => IInv'
  <2> SUFFICES ASSUME IInv, [Next]_vars PROVE IInv'
    OBVIOUS
  <2>1. CASE Call
    BY <2>1, CallStep
  <2>2. ASSUME NEW n \in Node, NodeNext(n) PROVE IInv'
    <3>1. CASE Enter(n)
      BY <3>1, EnterStep
    <3>2. CASE DeltaHChecked(n)
      BY <3>2, DeltaHCheckedStep
    <3>3. CASE Learn(n)
      BY <3>3, LearnStep
    <3>4. CASE FlagChecked(n)
      BY <3>4, FlagCheckedStep
    <3>5. CASE Send(n)
      BY <3>5, SendStep
    <3>6. CASE Receive(n)
      BY <3>6, ReceiveStep
    <3>7. CASE Stop(n)
      BY <3>7, StopStep
    <3> QED BY <2>2, <3>1, <3>2, <3>3, <3>4, <3>5, <3>6, <3>7 DEF NodeNext
  <2>3. CASE UNCHANGED vars
    <3>1. UNCHANGED <<pc, ncalls, delta_h, flag, accept, rng, result, checking, number,
                      snd_buf, round, failed_flag, link, addend, begin>>
      BY <2>3 DEF vars
    <3>2. TypeOK'
      BY <3>1 DEF IInv, TypeOK
    <3>3. \A n \in Node : Local(n)' = Local(n)
      BY <3>1 DEF Local
    <3>4. \A n \in Node : /\ CheckInv(n)' /\ PassedInv(n)' /\ AddendInv(n)'
                          /\ Received(n)' = Received(n) /\ Sent(n)' = Sent(n)
                          /\ Decided(n)' = Decided(n)
      BY <3>1, <3>3, LocalKept DEF IInv, NodeInv
    <3>5. \A n \in Node : LinkInv(n)'
      BY <3>1, <3>4, LinksKept DEF IInv, NodeInv
    <3>6. ASSUME NEW s \in Slice PROVE RngInv(s)'
      <4>1. [x |-> 0, s |-> s] \in Node
        BY Sizes DEF Node
      <4>2. Decided([x |-> 0, s |-> s])' = Decided([x |-> 0, s |-> s])
        BY <3>4, <4>1
      <4> QED BY <3>1, <4>2 DEF IInv, RngInv
    <3> QED BY <3>1, <3>2, <3>4, <3>5, <3>6 DEF IInv, NodeInv
  <2> QED BY <2>1, <2>2, <2>3 DEF Next
<1> QED BY InitInvariant, <1>1, PTL DEF Spec

\* However the energies or the generators of the slices differ, and whatever
\* the order of the messages, no two nodes return different decisions: the
\* second SoCheck lets none of them pass.
THEOREM DecisionsAlike == Spec => []AllAgree
<1>1. IInv => AllAgree
  <2> SUFFICES ASSUME IInv, NEW n \in Node, NEW m \in Node, Returned(n), Returned(m)
               PROVE  result[n] = result[m]
    BY DEF AllAgree
  <2>1. result[n] = Decision(n.s) /\ result[m] = Decision(m.s)
    BY DEF IInv, NodeInv, PassedInv
  <2>2. CASE S > 1
    <3>1. NoneFails("SoCheck(flag)")
      BY <2>2 DEF IInv, NodeInv, PassedInv
    <3> QED BY <2>1, <3>1, DecisionsAgree
  <2>3. CASE ~(S > 1)
    <3>1. n.s \in Slice /\ m.s \in Slice
      BY NodeFields
    <3>2. n.s = m.s
      BY <2>3, <3>1, Sizes DEF Slice
    <3> QED BY <2>1, <3>2
  <2> QED BY <2>2, <2>3
<1> QED BY Invariance, <1>1, PTL

\* Every node returns the Metropolis decision on the energy difference of the
\* origin of its slice, which the generator there had when the call began.
THEOREM OriginsDecide == Spec => []DecisionIsOrigins
<1>1. IInv => DecisionIsOrigins
  BY DEF DecisionIsOrigins, IInv, NodeInv, PassedInv, Decision, Origin
<1> QED BY Invariance, <1>1, PTL

\* Slices whose generators were alike have used the same numbers when all of
\* them have returned.
THEOREM GeneratorsAlike == Spec => []GeneratorsInStep
<1>1. IInv => GeneratorsInStep
  <2> SUFFICES ASSUME IInv, \A n \in Node : pc[n] = "out",
                      \A s, t \in Slice : begin[s] = begin[t],
                      NEW s \in Slice, NEW t \in Slice
               PROVE  rng[s] = rng[t]
    BY DEF GeneratorsInStep
  <2> DEFINE o == [x |-> 0, s |-> s]  p == [x |-> 0, s |-> t]
  <2>1. /\ o \in Node /\ p \in Node /\ o.x = p.x
        /\ RngInv(s) /\ RngInv(t) /\ begin[s] = begin[t]
    BY Sizes DEF Node, IInv
  <2>2. CASE ncalls > 0
    <3>1. Decided(o) /\ Decided(p)
      BY <2>1, <2>2 DEF Decided, Returned
    <3>2. delta_h[o] = delta_h[p]
      <4>1. CASE S > 1
        <5>1. NoneFails("SoCheck(delta_h)")
          BY <2>1, <3>1, <4>1 DEF IInv, NodeInv, PassedInv
        <5> HIDE DEF o, p
        <5>2. Num(o, "SoCheck(delta_h)") = Num(p, "SoCheck(delta_h)")
          BY <2>1, <5>1, NoneDiffer
        <5> QED BY <5>2 DEF Num
      <4>2. CASE ~(S > 1)
        BY <4>2, Sizes DEF Slice
      <4> QED BY <4>1, <4>2
    <3> QED BY <2>1, <3>1, <3>2 DEF RngInv
  <2>3. CASE ~(ncalls > 0)
    <3>1. ~Decided(o) /\ ~Decided(p)
      BY <2>1, <2>3 DEF Decided, Returned, Checking
    <3> QED BY <2>1, <3>1 DEF RngInv
  <2> QED BY <2>2, <2>3
<1> QED BY Invariance, <1>1, PTL

\* A SoCheck stops no program whose slices were given the same energies and
\* had the same generators.
THEOREM StopMeansDifference == Spec => []StopsForCause
<1>1. IInv => StopsForCause
  <2> SUFFICES ASSUME IInv, NEW n \in Node, pc[n] = "stopped"
               PROVE  \/ \E k, m \in Node : k.x = m.x /\ delta_h[k] # delta_h[m]
                      \/ \E s, t \in Slice : begin[s] # begin[t]
    BY DEF StopsForCause
  <2>1. PICK m \in Node : Differs(m, checking[n], S - 1) = 1
    BY DEF IInv, NodeInv, PassedInv
  <2>2. PICK r \in 1..(S - 1) :
          Num(Behind(m, r), checking[n]) # Num(m, checking[n])
    BY <2>1 DEF Differs
  <2> DEFINE k == Behind(m, r)
  <2>3. k \in Node /\ k.x = m.x /\ Num(k, checking[n]) # Num(m, checking[n])
    <3>1. r \in 0..(S - 1)
      OBVIOUS
    <3> QED BY <2>2, <3>1, BehindNode DEF Behind
  <2> HIDE DEF k
  <2>4. CASE checking[n] = "SoCheck(delta_h)"
    BY <2>3, <2>4 DEF Num
  <2>5. CASE checking[n] = "SoCheck(flag)"
    <3> DEFINE o == [x |-> 0, s |-> k.s]  p == [x |-> 0, s |-> m.s]
    <3>1. /\ Decision(k.s) # Decision(m.s)
          /\ k.s \in Slice /\ m.s \in Slice /\ o \in Node /\ p \in Node /\ o.x = p.x
      BY <2>3, <2>5, NodeFields DEF Num
    <3>2. delta_h[o] # delta_h[p] \/ begin[k.s] # begin[m.s]
      BY <3>1 DEF Decision
    <3> HIDE DEF o, p
    <3> QED BY <3>1, <3>2
  <2>6. checking[n] \in Checks
    BY DEF IInv, TypeOK
  <2> QED BY <2>4, <2>5, <2>6 DEF Checks
<1> QED BY Invariance, <1>1, PTL
=============================================================================
