-------------------------- MODULE LatticeIo_proofs --------------------------
(***************************************************************************)
(* The I/O time slots for any number of nodes and any ConcurIONumber, by   *)
(* themselves and in the jobs that store and load, which may be killed and *)
(* started again on another machine; the errors of a job that stores; and  *)
(* where the data are: that remap() and shift_data() bring each site to    *)
(* the node and to the place in the file where it belongs, on every        *)
(* lattice and every grid of nodes that divides it.                        *)
(*                                                                         *)
(* The last part goes from the numbers of sites and nodes (Box to Volumes, *)
(* CoorNumber and NumberCoor), over what one node copies in one round of   *)
(* remap() (PickedRow, AllPicked, CopiedPlace) and the turn that the data  *)
(* take through the grid (Carry, Hop, MidFacts, FullTurn), to the          *)
(* invariant IOInv of the jobs and its steps, one action after the other.  *)
(***************************************************************************)
EXTENDS LatticeIo, FiniteSetTheorems, TLAPS

-----------------------------------------------------------------------------
\* The numbers of the batches.

\* A batch has at least one node.
LEMMA ConcurPositive ==
  ASSUME SlotsTypeOK
  PROVE  do_concur_io \in Nat \ {0}
BY DEF SlotsTypeOK, do_concur_io

\* What the integer division of the code gives.
LEMMA DivBounds ==
  ASSUME NEW N \in Nat, NEW k \in Nat \ {0}
  PROVE  N \div k \in Nat /\ k * (N \div k) <= N /\ N < k * (N \div k) + k
OBVIOUS

\* The batches hold all nodes.
LEMMA BatchesSuffice ==
  ASSUME SlotsTypeOK
  PROVE  batches \in Nat \ {0} /\ number_nodes <= batches * do_concur_io
<1> DEFINE full == number_nodes \div do_concur_io
<1>1. number_nodes \in Nat \ {0} /\ do_concur_io \in Nat \ {0}
  BY ConcurPositive DEF SlotsTypeOK
<1>2. full \in Nat /\ do_concur_io * full <= number_nodes
      /\ number_nodes < do_concur_io * full + do_concur_io
  BY <1>1, DivBounds
<1> HIDE DEF full
<1>3. CASE do_concur_io * full < number_nodes
  <2>1. batches = full + 1
    BY <1>3 DEF batches, full
  <2> QED BY <1>1, <1>2, <2>1
<1>4. CASE ~(do_concur_io * full < number_nodes)
  <2>1. batches = full
    BY <1>4 DEF batches, full
  <2>2. do_concur_io * full = number_nodes
    BY <1>1, <1>2, <1>4
  <2> QED BY <1>1, <1>2, <2>1, <2>2
<1> QED BY <1>3, <1>4
-----------------------------------------------------------------------------
\* The bound of a batch: within the machine, and no node between it and the
\* first node of the next batch.
LEMMA BoundFacts ==
  ASSUME SlotsTypeOK, NEW b \in Nat
  PROVE  /\ Bound(b) \in Int
         /\ b * do_concur_io \in Nat
         /\ Bound(b) <= b * do_concur_io + do_concur_io - 1
         /\ \A n \in UniqueID : n > Bound(b) => n >= (b + 1) * do_concur_io
         /\ b = batches - 1 => \A n \in UniqueID : n <= Bound(b)
         /\ b = 0 => 0 \in (b * do_concur_io)..Bound(b)
<1>1. number_nodes \in Nat \ {0} /\ do_concur_io \in Nat \ {0}
  BY ConcurPositive DEF SlotsTypeOK
<1>2. (b + 1) * do_concur_io = b * do_concur_io + do_concur_io
      /\ b * do_concur_io \in Nat
  BY <1>1
<1>3. b = batches - 1 => number_nodes <= (b + 1) * do_concur_io
  BY <1>1, BatchesSuffice
<1>4. b = 0 => b * do_concur_io = 0
  BY <1>1
<1> QED BY <1>1, <1>2, <1>3, <1>4 DEF Bound, UniqueID

\* The node that commands is a node.
LEMMA CommanderIsNode == ASSUME SlotsTypeOK PROVE 0 \in UniqueID
BY DEF SlotsTypeOK, UniqueID

\* A global sum leads from one phase to the next.
LEMMA StartingSum ==
  ASSUME SlotsTypeOK, number_nodes > 1, Starting, GlobalSum
  PROVE  Announcing("last")'
<1>1. 0 \in UniqueID /\ op[0] = "first" /\ batch = 0
  BY CommanderIsNode DEF Starting
<1>2. Commanded = batch * do_concur_io
  BY <1>1 DEF Commanded
<1>3. /\ do_concur_io \in Nat \ {0} /\ batch * do_concur_io = 0
      /\ do_concur_io' = do_concur_io /\ batches' = batches
      /\ UniqueID' = UniqueID /\ batch' = batch
  BY <1>1, ConcurPositive DEF GlobalSum, do_concur_io, batches, UniqueID
<1>4. 0 < batches
  BY BatchesSuffice
<1>5. ASSUME NEW n \in UniqueID
      PROVE  /\ op'[n] = "last" /\ stage'[n] = "get"
             /\ firstID'[n] = batch * do_concur_io
  BY <1>2 DEF GlobalSum, Starting, StageAfter, OpAfter
<1>6. UniqueID \subseteq Nat
  BY DEF UniqueID
<1> QED BY <1>1, <1>3, <1>4, <1>5, <1>6 DEF Announcing

LEMMA FirstSum ==
  ASSUME SlotsTypeOK, number_nodes > 1, Announcing("first"), GlobalSum
  PROVE  Announcing("last")'
<1>1. 0 \in UniqueID /\ op[0] = "first" /\ batch < batches
  BY CommanderIsNode DEF Announcing
<1>2. Commanded = batch * do_concur_io
  BY <1>1 DEF Commanded
<1>3. /\ do_concur_io' = do_concur_io /\ batches' = batches
      /\ UniqueID' = UniqueID /\ batch' = batch
  BY <1>1 DEF GlobalSum, do_concur_io, batches, UniqueID
<1>4. ASSUME NEW n \in UniqueID
      PROVE  /\ op'[n] = "last" /\ stage'[n] = stage[n]
             /\ stage[n] = "get" => firstID'[n] = batch * do_concur_io
  BY <1>2 DEF GlobalSum, Announcing, StageAfter, OpAfter
<1> QED BY <1>1, <1>3, <1>4 DEF Announcing

LEMMA LastSum ==
  ASSUME SlotsTypeOK, number_nodes > 1, Announcing("last"), GlobalSum
  PROVE  Working'
<1>1. 0 \in UniqueID /\ op[0] = "last" /\ batch < batches
  BY CommanderIsNode DEF Announcing
<1>2. Commanded = Bound(batch) /\ batch \in Nat
  BY <1>1 DEF Commanded, SlotsTypeOK
<1>3. /\ do_concur_io' = do_concur_io /\ batches' = batches
      /\ UniqueID' = UniqueID /\ batch' = batch /\ Bound(batch)' = Bound(batch)
  BY <1>1 DEF GlobalSum, do_concur_io, batches, UniqueID, Bound
<1>4. ASSUME NEW n \in UniqueID
      PROVE  /\ op'[n] = "sync" /\ stage'[n] \in {"get", "io", "finish"}
             /\ stage'[n] = "io" => n \in (batch * do_concur_io)..Bound(batch)
             /\ stage'[n] = "get" => n > Bound(batch)
             /\ n = 0 => stage'[n] # "get"
  <2>1. op[n] = "last" /\ stage[n] \in {"get", "finish"}
    BY DEF Announcing
  <2>2. op'[n] = "sync" /\ stage'[n] = StageAfter(n, Bound(batch))
    BY <1>2, <2>1 DEF GlobalSum, OpAfter
  <2>3. CASE stage[n] = "finish"
    BY <2>1, <2>2, <2>3 DEF StageAfter
  <2>4. CASE stage[n] = "get" /\ n = 0
    <3>1. batch = 0 /\ stage'[n] = "io"
      BY <2>1, <2>2, <2>4 DEF Announcing, StageAfter, InBatch
    <3> QED BY <1>2, <2>2, <2>4, <3>1, BoundFacts
  <2>5. CASE stage[n] = "get" /\ n > 0
    <3>1. firstID[n] = batch * do_concur_io /\ n >= batch * do_concur_io
      BY <2>5 DEF Announcing
    <3>2. stage'[n] = IF n \in (batch * do_concur_io)..Bound(batch)
                        THEN "io" ELSE "get"
      BY <2>1, <2>2, <2>5, <3>1 DEF StageAfter, InBatch
    <3> QED BY <1>2, <2>2, <2>5, <3>1, <3>2, BoundFacts DEF UniqueID
  <2> QED BY <2>1, <2>3, <2>4, <2>5 DEF UniqueID
<1> QED BY <1>1, <1>3, <1>4 DEF Working, Behind

LEMMA WorkingSum ==
  ASSUME SlotsTypeOK, number_nodes > 1, Working, GlobalSum
  PROVE  Announcing("first")' \/ Finished'
<1>1. /\ 0 \in UniqueID /\ op[0] = "sync" /\ stage[0] = "finish"
      /\ batch < batches /\ batch \in Nat
  BY CommanderIsNode DEF Working, GlobalSum, SlotsTypeOK
<1>2. Commanded = IF batch = batches - 1 THEN -1 ELSE 0
  BY <1>1 DEF Commanded
<1>3. /\ do_concur_io' = do_concur_io /\ batches' = batches
      /\ UniqueID' = UniqueID
  BY DEF GlobalSum, do_concur_io, batches, UniqueID
<1>4. ASSUME NEW n \in UniqueID
      PROVE  /\ stage[n] \in {"get", "finish"} /\ op[n] = "sync"
             /\ stage'[n] = StageAfter(n, Commanded) /\ op'[n] = "first"
             /\ stage[n] = "get" => n > Bound(batch)
  BY DEF GlobalSum, Working, Behind, OpAfter
<1>5. CASE batch = batches - 1
  <2>1. ASSUME NEW n \in UniqueID PROVE stage[n] = "finish"
    <3>1. Bound(batch) \in Int /\ n \in Int /\ n <= Bound(batch)
      BY <1>1, <1>5, BoundFacts DEF UniqueID
    <3> QED BY <1>4, <3>1
  <2>2. ASSUME NEW n \in UniqueID PROVE stage'[n] = "done"
    BY <1>2, <1>4, <1>5, <2>1 DEF StageAfter
  <2> QED BY <1>3, <2>2 DEF Finished
<1>6. CASE batch # batches - 1
  <2>1. Commanded = 0 /\ batch' = batch + 1
    BY <1>1, <1>2, <1>6 DEF GlobalSum
  <2>2. ASSUME NEW n \in UniqueID
        PROVE  /\ stage'[n] = stage[n]
               /\ stage[n] = "get" => n >= (batch + 1) * do_concur_io /\ n # 0
    <3>1. n > Bound(batch) => n >= (batch + 1) * do_concur_io
      BY <1>1, BoundFacts
    <3> QED BY <1>1, <1>4, <2>1, <3>1 DEF StageAfter
  <2>3. batch + 1 < batches
    BY <1>1, <1>6, BatchesSuffice
  <2> QED BY <1>3, <1>4, <2>1, <2>2, <2>3 DEF Announcing
<1> QED BY <1>5, <1>6

\* Only a machine of one node leaves or enters a slot without a sum.
LEMMA FinishedSum ==
  ASSUME SlotsTypeOK, Finished, GlobalSum
  PROVE  FALSE
BY CommanderIsNode DEF Finished, GlobalSum

-----------------------------------------------------------------------------
LEMMA InitInv == Init => SlotsInv
<1> SUFFICES ASSUME NEW N \in Machines, NEW k \in Concurrencies, SlotsInit(N, k)
             PROVE  SlotsInv
  BY DEF Init
<1>1. N \in Nat \ {0} /\ k \in Int
  BY SlotsAssumption
<1>2. SlotsTypeOK
  BY <1>1 DEF SlotsInit, SlotsTypeOK
<1>3. Starting
  BY DEF SlotsInit, Starting
<1> QED BY <1>2, <1>3 DEF SlotsInv

LEMMA TypeStep ==
  ASSUME SlotsTypeOK, [Next]_slots
  PROVE  SlotsTypeOK'
<1>1. CASE GlobalSum
  <2>1. Commanded \in Int
    <3>1. batch \in Nat /\ batch * do_concur_io \in Nat /\ Bound(batch) \in Int
      BY BoundFacts DEF SlotsTypeOK
    <3>2. op[0] \in {"first", "last", "sync"}
      BY CommanderIsNode DEF SlotsTypeOK
    <3> QED BY <3>1, <3>2 DEF Commanded
  <2>2. UniqueID' = UniqueID
    BY <1>1 DEF GlobalSum, UniqueID
  <2>3. stage' \in [UniqueID -> {"out", "get", "io", "finish", "done"}]
    BY <1>1 DEF GlobalSum, StageAfter, SlotsTypeOK
  <2>4. op' \in [UniqueID -> {"first", "last", "sync"}]
    BY <1>1 DEF GlobalSum, OpAfter, SlotsTypeOK
  <2>5. firstID' \in [UniqueID -> Int] /\ batch' \in Nat
    BY <1>1, <2>1 DEF GlobalSum, SlotsTypeOK
  <2> QED BY <1>1, <2>2, <2>3, <2>4, <2>5 DEF GlobalSum, SlotsTypeOK
<1>2. CASE \E n \in UniqueID : getIOTimeSlot(n) \/ finishIOTimeSlot(n)
  BY <1>2 DEF getIOTimeSlot, finishIOTimeSlot, SlotsTypeOK, UniqueID
<1>3. CASE UNCHANGED slots
  BY <1>3 DEF slots, SlotsTypeOK, UniqueID
<1> QED BY <1>1, <1>2, <1>3 DEF Next

LEMMA InvStep ==
  ASSUME SlotsInv, [Next]_slots
  PROVE  SlotsInv'
<1>1. SlotsTypeOK /\ SlotsTypeOK'
  BY TypeStep DEF SlotsInv
<1>2. /\ number_nodes' = number_nodes /\ UniqueID' = UniqueID
      /\ do_concur_io' = do_concur_io /\ batches' = batches
  BY DEF Next, GlobalSum, getIOTimeSlot, finishIOTimeSlot, slots, UniqueID,
         do_concur_io, batches
<1> SUFFICES ASSUME number_nodes > 1
             PROVE  \/ Starting' \/ Announcing("first")'
                    \/ Announcing("last")' \/ Working' \/ Finished'
  BY <1>1, <1>2 DEF SlotsInv
<1>3. \/ Starting \/ Announcing("first") \/ Announcing("last")
      \/ Working \/ Finished
  BY DEF SlotsInv
<1>4. CASE GlobalSum
  BY <1>1, <1>3, <1>4, StartingSum, FirstSum, LastSum, WorkingSum, FinishedSum
<1>5. ASSUME NEW n \in UniqueID, getIOTimeSlot(n) PROVE Starting'
  <2>1. stage[n] = "out"
    BY <1>5 DEF getIOTimeSlot
  <2>2. Starting
    BY <1>3, <2>1 DEF Announcing, Working, Finished
  <2> QED BY <1>1, <1>2, <1>5, <2>2 DEF getIOTimeSlot, Starting, SlotsTypeOK
<1>6. ASSUME NEW n \in UniqueID, finishIOTimeSlot(n) PROVE Working'
  <2>1. stage[n] = "io"
    BY <1>6 DEF finishIOTimeSlot
  <2>2. Working
    BY <1>3, <2>1 DEF Announcing, Starting, Finished
  <2>3. Bound(batch)' = Bound(batch) /\ batch' = batch
    BY <1>2, <1>6 DEF finishIOTimeSlot, Bound
  <2>4. ASSUME NEW m \in UniqueID
        PROVE  /\ stage'[m] \in {"get", "io", "finish"}
               /\ stage'[m] # "io" => op'[m] = "sync"
               /\ stage'[m] = "io" => stage[m] = "io"
               /\ stage'[m] = "get" => stage[m] = "get"
    BY <1>1, <1>6, <2>2 DEF finishIOTimeSlot, Working, SlotsTypeOK
  <2> QED BY <1>2, <2>2, <2>3, <2>4 DEF Working, Behind
<1>7. CASE UNCHANGED slots
  BY <1>2, <1>3, <1>7 DEF slots, Starting, Announcing, Working, Finished, Behind, Bound
<1> QED BY <1>4, <1>5, <1>6, <1>7 DEF Next

-----------------------------------------------------------------------------
\* What the phases of the protocol say about the nodes.

LEMMA FewInSlots == SlotsInv => AtMostConcurrent
<1> DEFINE users == {n \in UniqueID : stage[n] = "io"}
           first == batch * do_concur_io
<1> SUFFICES ASSUME SlotsInv, num_concur_io > 0
             PROVE  Cardinality(users) <= num_concur_io
  BY Zenon DEF AtMostConcurrent
<1>1. SlotsTypeOK /\ do_concur_io = num_concur_io /\ do_concur_io \in Nat \ {0}
  BY ConcurPositive DEF SlotsInv, SlotsTypeOK, do_concur_io
<1>2. first \in Int /\ batch \in Nat
  BY <1>1 DEF SlotsTypeOK
<1>3. \E b \in Int : users \subseteq b..(b + do_concur_io - 1)
  <2>1. CASE number_nodes = 1
    <3>1. users \subseteq 0..(0 + do_concur_io - 1)
      BY <1>1, <2>1 DEF UniqueID
    <3> QED BY <3>1
  <2>2. CASE number_nodes > 1 /\ Working
    <3>1. Bound(batch) \in Int /\ Bound(batch) <= first + do_concur_io - 1
      BY <1>1, <1>2, BoundFacts
    <3>2. users \subseteq first..Bound(batch)
      BY <2>2 DEF Working
    <3>3. users \subseteq first..(first + do_concur_io - 1)
      BY <1>1, <1>2, <3>1, <3>2
    <3> HIDE DEF first, users
    <3> QED BY <1>2, <3>3
  <2>3. CASE number_nodes > 1 /\ ~Working
    <3>1. users = {}
      BY <2>3 DEF SlotsInv, Starting, Announcing, Finished
    <3> QED BY <3>1
  <2> QED BY <1>1, <2>1, <2>2, <2>3 DEF SlotsTypeOK
<1>4. PICK b \in Int : users \subseteq b..(b + do_concur_io - 1)
  BY <1>3
<1>5. /\ IsFiniteSet(b..(b + do_concur_io - 1))
      /\ Cardinality(b..(b + do_concur_io - 1)) = do_concur_io
  BY <1>1, FS_Interval
<1>6. Cardinality(users) <= Cardinality(b..(b + do_concur_io - 1))
  BY <1>4, <1>5, FS_Subset
<1> QED BY <1>1, <1>5, <1>6

LEMMA OneSum == SlotsInv => SameSum
<1> SUFFICES ASSUME SlotsInv, NEW m \in UniqueID, NEW n \in UniqueID,
                    \A j \in UniqueID : stage[j] \in {"get", "finish"}
             PROVE  op[m] = op[n]
  BY DEF SameSum
<1>1. CASE number_nodes = 1
  BY <1>1 DEF UniqueID
<1>2. CASE number_nodes > 1
  BY <1>2 DEF SlotsInv, Starting, Announcing, Working, Finished
<1> QED BY <1>1, <1>2 DEF SlotsInv, SlotsTypeOK

LEMMA AllHadTheirTurn == SlotsInv => NobodyForgotten
<1> SUFFICES ASSUME SlotsInv, NEW m \in UniqueID, NEW n \in UniqueID,
                    stage[m] = "done", number_nodes > 1
             PROVE  stage[n] = "done"
  BY DEF NobodyForgotten
<1> QED BY DEF SlotsInv, Starting, Announcing, Working, Finished

-----------------------------------------------------------------------------
\* On every machine and for every ConcurIONumber the nodes of a parallel job
\* go through the phases of the protocol of QioControl together.
THEOREM SlotsInvariance == Spec => []SlotsInv
<1> QED BY InitInv, InvStep, PTL DEF Spec

\* At most ConcurIONumber nodes are between getIOTimeSlot and
\* finishIOTimeSlot at any time.
THEOREM ConcurrencyBounded == Spec => []AtMostConcurrent
<1> QED BY FewInSlots, SlotsInvariance, PTL

\* All nodes of a global sum are in the same call of the protocol.
THEOREM SumsMatch == Spec => []SameSum
<1> QED BY OneSum, SlotsInvariance, PTL

\* The commander ends the I/O only after the turn of the last node.
THEOREM NoNodeForgotten == Spec => []NobodyForgotten
<1> QED BY AllHadTheirTurn, SlotsInvariance, PTL

-----------------------------------------------------------------------------
\* The time slots in the jobs that store and load.

LEMMA JobInitSlots == IoInit => SlotsInv
<1> SUFFICES ASSUME NEW jb \in StoreJobs, SlotsInit(Prod(jb.grid, 5), jb.concur)
             PROVE  SlotsInv
  BY DEF IoInit
<1>1. Prod(jb.grid, 5) \in Machines /\ jb.concur \in Concurrencies
  BY JobAssumption
<1>2. Init
  BY <1>1 DEF Init
<1> QED BY <1>2, InitInv

\* A job that is killed leaves nothing of the protocol to the next one.
LEMMA RestartSlots ==
  ASSUME NEW jb \in LoadJobs, Restart(jb)
  PROVE  SlotsInv'
<1>1. Prod(jb.grid, 5) \in Nat \ {0} /\ jb.concur \in Int
  BY JobAssumption, SlotsAssumption
<1>2. UniqueID' = Machine(jb)
  BY DEF Restart, UniqueID, Machine
<1>3. SlotsTypeOK'
  BY <1>1, <1>2 DEF Restart, SlotsTypeOK
<1>4. Starting'
  BY <1>2 DEF Restart, Starting
<1> QED BY <1>3, <1>4 DEF SlotsInv

\* Every other step of a job is one of the protocol or leaves it alone.
LEMMA JobStepSlots ==
  ASSUME [IoNext]_vars, \A jb \in LoadJobs : ~Restart(jb)
  PROVE  [Next]_slots
<1>1. ASSUME NEW n \in UniqueID, Step(n) \/ WriteFails(n) \/ CloseFails(n)
      PROVE  [Next]_slots
  BY <1>1 DEF Step, Receive, Remap, SerialWrite, SerialRead, SpreadSend,
     SpreadReceive, GetSlot, FinishSlot, WriteSkipped, Write, Read, WriteFails,
     CloseFails, Next
<1>2. CASE SerialWriteFails \/ FlushFails \/ FillInFails \/ Together
  BY <1>2 DEF SerialWriteFails, FlushFails, FillInFails, Together, SlotSum,
     Synchronize, FillInChecksum, CheckChecksum, Next
<1>3. CASE UNCHANGED vars
  BY <1>3 DEF vars
<1> QED BY <1>1, <1>2, <1>3 DEF IoNext

\* In jobs that store, are killed at any moment and are followed by others that
\* load, on whatever machines, the nodes take turns by the protocol.
THEOREM JobSlotsInvariance == IoSpec => []SlotsInv
<1>1. SlotsInv /\ [IoNext]_vars => SlotsInv'
  BY JobStepSlots, RestartSlots, InvStep
<1> QED BY JobInitSlots, <1>1, PTL DEF IoSpec

\* What the time slots promise, they keep in these jobs.
THEOREM JobSlots == IoSpec => [](AtMostConcurrent /\ SameSum /\ NobodyForgotten)
<1>1. SlotsInv => AtMostConcurrent /\ SameSum /\ NobodyForgotten
  BY FewInSlots, OneSum, AllHadTheirTurn
<1> QED BY <1>1, JobSlotsInvariance, PTL

-----------------------------------------------------------------------------
(* The errors of a job that stores.                                        *)

\* What node[n] always is.
Fields == {"pc", "loop", "i", "j", "o", "rdata", "snd", "mem", "error", "retry"}

IsNode(r) == r = [f \in Fields |-> r[f]] /\ r.loop \in {"remap", "stream"}

\* A node writes the checksum or has returned.
Past(r) == r.pc \in {"csum", "returned"}

NodesOK ==
  /\ job.style \in {"serial", "parallel"} /\ storing \in BOOLEAN
  /\ node = [n \in UniqueID |-> node[n]]
  /\ \A n \in UniqueID : IsNode(node[n])

\* No error is noted while loading; store() is only past its synchronize() when
\* there is no error on any node, and then on all nodes together.
ErrorInv ==
  /\ NodesOK
  /\ ~storing => \A n \in UniqueID : node[n].error = 0
  /\ storing => \A m, n \in UniqueID :
       Past(node[m]) => node[n].pc = node[m].pc /\ node[n].error = 0

\* Node n, which is not past synchronize(), goes on to nd.
Goes(n, nd) ==
  /\ node' = [node EXCEPT ![n] = nd]
  /\ IsNode(nd)
  /\ storing => ~Past(node[n]) /\ ~Past(nd)
  /\ ~storing => nd.error = 0
  /\ UNCHANGED <<job, storing, number_nodes>>

LEMMA GoesStep ==
  ASSUME ErrorInv, NEW n \in UniqueID, NEW nd, Goes(n, nd)
  PROVE  ErrorInv'
<1>1. UniqueID' = UniqueID
  BY DEF Goes, UniqueID
<1>2. ASSUME NEW m \in UniqueID
      PROVE  node'[m] = IF m = n THEN nd ELSE node[m]
  BY DEF Goes, ErrorInv, NodesOK
<1>3. node' = [m \in UniqueID |-> node'[m]]
  BY DEF Goes, ErrorInv, NodesOK
<1>4. NodesOK'
  <2>1. \A m \in UniqueID : IsNode(node'[m])
    BY <1>2 DEF Goes, ErrorInv, NodesOK
  <2> QED BY <1>1, <1>3, <2>1 DEF Goes, ErrorInv, NodesOK
<1>5. ~storing => \A m \in UniqueID : node'[m].error = 0
  BY <1>2 DEF Goes, ErrorInv
<1>6. ASSUME storing, NEW m \in UniqueID PROVE ~Past(node'[m])
  <2>1. ~Past(node[m])
    BY <1>6 DEF Goes, ErrorInv, Past
  <2> QED BY <1>2, <1>6, <2>1 DEF Goes
<1>7. storing' = storing
  BY DEF Goes
<1> QED BY <1>1, <1>4, <1>5, <1>6, <1>7 DEF ErrorInv, Past

\* All nodes go on together.
LEMMA TogetherStep ==
  ASSUME NodesOK, NEW pc,
         node' = [n \in UniqueID |-> node'[n]],
         \A n \in UniqueID : IsNode(node'[n]) /\ node'[n].error = node[n].error,
         storing => \A n \in UniqueID : node'[n].pc = pc,
         ~storing \/ pc \in {"csum", "returned"} =>
           \A n \in UniqueID : node[n].error = 0,
         UNCHANGED <<job, storing, number_nodes>>
  PROVE  ErrorInv'
<1>1. UniqueID' = UniqueID
  BY DEF UniqueID
<1>2. NodesOK'
  BY <1>1 DEF NodesOK
<1> QED BY <1>1, <1>2 DEF ErrorInv, Past

\* shift_data() and what follows it keep away from the checksum when storing.
LEMMA ShiftGoes ==
  ASSUME ErrorInv, NEW n \in UniqueID, NEW nd, NEW d, NEW links,
         Shift(n, nd, d, links), IsNode(nd), nd.error = node[n].error,
         ~Past(node[n]), UNCHANGED <<job, storing, number_nodes>>
  PROVE  ErrorInv'
<1> DEFINE next == NextDim(nd.i, d)
           waits == [nd EXCEPT !.pc = "wait", !.j = next]
<1>1. node' = [node EXCEPT ![n] = waits] \/ node' = [node EXCEPT ![n] = AfterShift(nd)]
  BY DEF Shift
<1> HIDE DEF next
<1>2. IsNode(waits) /\ waits.error = nd.error /\ ~Past(waits)
  BY DEF IsNode, Fields, Past
<1>3. /\ IsNode(AfterShift(nd)) /\ AfterShift(nd).error = nd.error
      /\ storing => ~Past(AfterShift(nd))
  <2>1. nd.loop \in {"remap", "stream"} /\ job.style \in {"serial", "parallel"}
        /\ storing \in BOOLEAN
    BY DEF IsNode, ErrorInv, NodesOK
  <2>2. CASE nd.i + 1 < Shifts(nd.loop)
    BY <2>2 DEF AfterShift, IsNode, Fields, Past
  <2>3. CASE ~(nd.i + 1 < Shifts(nd.loop))
    <3>1. AfterShift(nd) = AfterLoop(nd)
      BY <2>3 DEF AfterShift
    <3>2. CASE nd.loop = "stream"
      BY <3>1, <3>2 DEF AfterLoop, IsNode, Fields, Past
    <3>3. CASE nd.loop = "remap" /\ ~storing
      BY <3>1, <3>3 DEF AfterLoop, IsNode, Fields, Past
    <3>4. CASE nd.loop = "remap" /\ storing /\ job.style = "parallel"
      BY <3>1, <3>4 DEF AfterLoop, IsNode, Fields, Past
    <3>5. CASE nd.loop = "remap" /\ storing /\ job.style = "serial"
      BY <3>1, <3>5 DEF AfterLoop, IsNode, Fields, Past
    <3> QED BY <2>1, <3>2, <3>3, <3>4, <3>5
  <2> QED BY <2>2, <2>3
<1>4. ~storing => nd.error = 0
  BY DEF ErrorInv
<1> HIDE DEF waits
<1>5. Goes(n, waits) \/ Goes(n, AfterShift(nd))
  BY <1>1, <1>2, <1>3, <1>4 DEF Goes
<1> QED BY <1>5, GoesStep

\* exit().
LEMMA ExitStep ==
  ASSUME ErrorInv, Exit, UNCHANGED <<job, storing, number_nodes>>
  PROVE  ErrorInv'
<1>1. ASSUME NEW n \in UniqueID
      PROVE  /\ IsNode(node'[n]) /\ node'[n].pc = "stopped"
             /\ node'[n].error = node[n].error
  BY DEF Exit, ErrorInv, NodesOK, IsNode, Fields
<1>2. node' = [n \in UniqueID |-> node'[n]]
  BY DEF Exit
<1>3. ~storing => \A n \in UniqueID : node[n].error = 0
  BY DEF ErrorInv
<1> QED BY <1>1, <1>2, <1>3, TogetherStep DEF ErrorInv

\* Only the program counter of node n changes.
LEMMA MoveStep ==
  ASSUME ErrorInv, NEW n \in UniqueID, NEW pc, Move(n, pc), ~Past(node[n]),
         pc \notin {"csum", "returned"}, UNCHANGED <<job, storing, number_nodes>>
  PROVE  ErrorInv'
<1> DEFINE nd == [node[n] EXCEPT !.pc = pc]
<1>1. node' = [node EXCEPT ![n] = nd]
  BY DEF Move
<1>2. IsNode(nd) /\ nd.pc = pc /\ nd.error = node[n].error
  BY DEF ErrorInv, NodesOK, IsNode, Fields
<1>3. ~storing => nd.error = 0
  BY <1>2 DEF ErrorInv
<1> HIDE DEF nd
<1>4. Goes(n, nd)
  BY <1>1, <1>2, <1>3 DEF Goes, Past
<1> QED BY <1>4, GoesStep

\* The actions of one node.
LEMMA NodeStep ==
  ASSUME ErrorInv, NEW n \in UniqueID, Step(n) \/ WriteFails(n) \/ CloseFails(n)
  PROVE  ErrorInv'
<1> DEFINE r == node[n]
<1>1. IsNode(r)
  BY DEF ErrorInv, NodesOK
<1>2. CASE Receive(n)
  <2>1. PICK d : Shift(n, [r EXCEPT !.o = Head(link[n][d])], d,
                       [link EXCEPT ![n][d] = Tail(@)])
    BY <1>2 DEF Receive
  <2> DEFINE nd == [r EXCEPT !.o = Head(link[n][d])]
  <2>2. IsNode(nd) /\ nd.error = node[n].error
    BY <1>1 DEF IsNode, Fields
  <2>3. ~Past(node[n]) /\ UNCHANGED <<job, storing, number_nodes>>
    BY <1>2 DEF Receive, Past, slots
  <2> HIDE DEF nd
  <2> QED BY <2>1, <2>2, <2>3, ShiftGoes DEF nd
<1>3. CASE Remap(n)
  <2>1. PICK rows : Shift(n, [r EXCEPT !.rdata = Copied(@, r.o, rows)], 0, link)
    BY <1>3 DEF Remap
  <2> DEFINE nd == [r EXCEPT !.rdata = Copied(@, r.o, rows)]
  <2>2. IsNode(nd) /\ nd.error = node[n].error
    BY <1>1 DEF IsNode, Fields
  <2>3. ~Past(node[n]) /\ UNCHANGED <<job, storing, number_nodes>>
    BY <1>3 DEF Remap, Past, slots
  <2> QED BY <2>1, <2>2, <2>3, ShiftGoes
<1>4. CASE SerialWrite(n)
  <2>1. Shift(n, r, 0, link) /\ ~Past(r) /\ UNCHANGED <<job, storing, number_nodes>>
    BY <1>4 DEF SerialWrite, Past, slots
  <2> QED BY <1>1, <2>1, ShiftGoes
<1>5. CASE SerialRead(n)
  <2>1. ~Past(r) /\ UNCHANGED <<job, storing, number_nodes>>
    BY <1>5 DEF SerialRead, Past, slots
  <2>2. CASE Exit
    BY <2>1, <2>2, ExitStep
  <2>3. CASE Shift(n, r, 0, link)
    BY <1>1, <2>1, <2>3, ShiftGoes
  <2>4. CASE Shift(n, [r EXCEPT !.o = FileBlock(r.i)], 0, link)
    <3> DEFINE nd == [r EXCEPT !.o = FileBlock(r.i)]
    <3>1. IsNode(nd) /\ nd.error = node[n].error
      BY <1>1 DEF IsNode, Fields
    <3> QED BY <2>1, <2>4, <3>1, ShiftGoes
  <2> QED BY <1>5, <2>2, <2>3, <2>4 DEF SerialRead
<1>6. CASE SpreadSend(n)
  BY <1>6, MoveStep DEF SpreadSend, Past, slots
<1>7. CASE SpreadReceive(n)
  <2> DEFINE rcv == Head(link[n][6])
             kept == [r EXCEPT !.snd = rcv, !.i = @ + 1,
                        !.o = IF r.i + 1 = node_coor(n)[5] THEN rcv ELSE @]
             nd == IF r.i + 1 < grid[5] - 1 THEN [kept EXCEPT !.pc = "spread"]
                                            ELSE StartRemap(kept)
  <2>1. node' = [node EXCEPT ![n] = nd] /\ r.pc = "spread wait"
    BY <1>7 DEF SpreadReceive
  <2>2. IsNode(kept) /\ kept.error = r.error
    BY <1>1 DEF IsNode, Fields
  <2> HIDE DEF kept
  <2>3. IsNode(nd) /\ nd.error = r.error /\ nd.pc \in {"spread", "body"}
    BY <2>2 DEF IsNode, Fields, StartRemap
  <2>4. ~storing => nd.error = 0
    BY <2>3 DEF ErrorInv
  <2>5. UNCHANGED <<job, storing, number_nodes>>
    BY <1>7 DEF SpreadReceive, slots
  <2> HIDE DEF nd
  <2>6. Goes(n, nd)
    BY <2>1, <2>3, <2>4, <2>5 DEF Goes, Past
  <2> QED BY <2>6, GoesStep
<1>8. CASE GetSlot(n)
  BY <1>8, MoveStep DEF GetSlot, getIOTimeSlot, Past
<1>9. CASE FinishSlot(n)
  BY <1>9, MoveStep DEF FinishSlot, finishIOTimeSlot, Past
<1>10. CASE WriteSkipped(n)
  BY <1>10, MoveStep DEF WriteSkipped, InSlot, Past, slots
<1>11. CASE Write(n) \/ WriteFails(n) \/ CloseFails(n)
  <2>1. PICK e : /\ e \in {r, [r EXCEPT !.error = 1]}
                 /\ node' = [node EXCEPT ![n] = Retried(e)]
    BY <1>11 DEF Write, WriteFails, CloseFails
  <2>2. r.pc = "io" /\ storing /\ UNCHANGED <<job, storing, number_nodes>>
    BY <1>11 DEF Write, WriteFails, CloseFails, InSlot, slots
  <2>3. IsNode(e) /\ e.pc = "io"
    BY <1>1, <2>1, <2>2 DEF IsNode, Fields
  <2>4. IsNode(Retried(e)) /\ Retried(e).pc \in {"io", "io done"}
    BY <2>3 DEF Retried, IsNode, Fields
  <2>5. Goes(n, Retried(e))
    BY <2>1, <2>2, <2>4 DEF Goes, Past
  <2> QED BY <2>5, GoesStep
<1>12. CASE Read(n)
  <2>1. r.pc = "io" /\ ~storing /\ UNCHANGED <<job, storing, number_nodes>>
    BY <1>12 DEF Read, InSlot, slots
  <2>2. CASE Exit
    BY <2>1, <2>2, ExitStep
  <2>3. CASE ~Exit
    <3> DEFINE nd == [r EXCEPT !.pc = "io done", !.o = FileBlock(mynodeid(n))]
    <3>1. node' = [node EXCEPT ![n] = nd]
      BY <1>12, <2>3 DEF Read
    <3>2. IsNode(nd) /\ nd.error = r.error
      BY <1>1 DEF IsNode, Fields
    <3>3. nd.error = 0
      BY <2>1, <3>2 DEF ErrorInv
    <3> HIDE DEF nd
    <3>4. Goes(n, nd)
      BY <2>1, <3>1, <3>2, <3>3 DEF Goes
    <3> QED BY <3>4, GoesStep
  <2> QED BY <2>2, <2>3
<1> QED BY <1>2, <1>3, <1>4, <1>5, <1>6, <1>7, <1>8, <1>9, <1>10, <1>11, <1>12
        DEF Step

\* The actions of all nodes together.
LEMMA SumStep ==
  ASSUME ErrorInv, Together \/ FillInFails
  PROVE  ErrorInv'
<1>1. CASE SlotSum
  BY <1>1 DEF SlotSum, GlobalSum, data, ErrorInv, NodesOK, UniqueID
<1>2. CASE Synchronize
  <2>1. UNCHANGED <<job, storing, number_nodes>>
    BY <1>2 DEF Synchronize, slots
  <2>2. CASE ErrorStatus
    BY <1>2, <2>1, <2>2, ExitStep DEF Synchronize
  <2>3. CASE ~ErrorStatus
    <3>1. \A n \in UniqueID : node[n].error = 0
      BY <2>3 DEF ErrorStatus
    <3> DEFINE first(n) == [node[n] EXCEPT !.pc = "spread", !.i = 0,
                 !.snd = IF node_coor(n)[5] = 0 THEN node[n].o ELSE @]
    <3>2. node' = [n \in UniqueID |->
            IF storing THEN [node[n] EXCEPT !.pc = "csum"]
            ELSE IF job.style = "serial" /\ Spreads THEN first(n)
            ELSE StartRemap(node[n])]
      BY <1>2, <2>3 DEF Synchronize
    <3>3. ASSUME NEW n \in UniqueID
          PROVE  /\ IsNode(node'[n]) /\ node'[n].error = node[n].error
                 /\ storing => node'[n].pc = "csum"
      <4>1. IsNode(node[n])
        BY DEF ErrorInv, NodesOK
      <4>2. IsNode(first(n)) /\ first(n).error = node[n].error
        BY <4>1 DEF IsNode, Fields
      <4>3. IsNode(StartRemap(node[n])) /\ StartRemap(node[n]).error = node[n].error
        BY <4>1 DEF IsNode, Fields, StartRemap
      <4>4. LET c == [node[n] EXCEPT !.pc = "csum"] IN
            IsNode(c) /\ c.error = node[n].error /\ c.pc = "csum"
        BY <4>1 DEF IsNode, Fields
      <4> HIDE DEF first
      <4> QED BY <3>2, <4>2, <4>3, <4>4
    <3>4. node' = [n \in UniqueID |-> node'[n]]
      BY <3>2
    <3> HIDE DEF first
    <3> QED BY <2>1, <3>1, <3>3, <3>4, TogetherStep DEF ErrorInv
  <2> QED BY <2>2, <2>3
<1>3. CASE FillInChecksum \/ FillInFails
  <2>1. /\ storing /\ \A n \in UniqueID : node[n].pc = "csum"
        /\ UNCHANGED <<job, storing, number_nodes>>
    BY <1>3 DEF FillInChecksum, FillInFails, slots
  <2>2. CASE Exit
    BY <2>1, <2>2, ExitStep
  <2>3. CASE node' = [n \in UniqueID |-> [node[n] EXCEPT !.pc = "returned"]]
    <3>1. ASSUME NEW n \in UniqueID
          PROVE  /\ IsNode(node'[n]) /\ node'[n].pc = "returned"
                 /\ node'[n].error = node[n].error /\ node[n].error = 0
      <4>1. IsNode(node[n]) /\ node[n].error = 0
        BY <2>1 DEF ErrorInv, NodesOK, Past
      <4>2. node'[n] = [node[n] EXCEPT !.pc = "returned"]
        BY <2>3
      <4> QED BY <4>1, <4>2 DEF IsNode, Fields
    <3>2. node' = [n \in UniqueID |-> node'[n]]
      BY <2>3
    <3> QED BY <2>1, <3>1, <3>2, TogetherStep DEF ErrorInv
  <2> QED BY <1>3, <2>2, <2>3 DEF FillInChecksum, FillInFails
<1>4. CASE CheckChecksum
  <2>1. PICK verdict : node' = [n \in UniqueID |-> [node[n] EXCEPT !.pc = verdict]]
    BY <1>4 DEF CheckChecksum
  <2>2. ASSUME NEW n \in UniqueID
        PROVE  IsNode(node'[n]) /\ node'[n].error = node[n].error
    <3>1. IsNode(node[n])
      BY DEF ErrorInv, NodesOK
    <3>2. node'[n] = [node[n] EXCEPT !.pc = verdict]
      BY <2>1
    <3> QED BY <3>1, <3>2 DEF IsNode, Fields
  <2>3. node' = [n \in UniqueID |-> node'[n]]
    BY <2>1
  <2>4. ~storing /\ UNCHANGED <<job, storing, number_nodes>>
    BY <1>4 DEF CheckChecksum, slots
  <2>5. \A n \in UniqueID : node[n].error = 0
    BY <2>4 DEF ErrorInv
  <2> QED BY <2>2, <2>3, <2>4, <2>5, TogetherStep DEF ErrorInv
<1> QED BY <1>1, <1>2, <1>3, <1>4 DEF Together

LEMMA JobInitErrors == IoInit => ErrorInv
<1> SUFFICES ASSUME IoInit PROVE ErrorInv
  OBVIOUS
<1>1. PICK jb \in StoreJobs :
        /\ job = jb /\ storing = TRUE
        /\ node = [n \in Machine(jb) |->
             Fresh(jb, "body", "remap",
                   [s \in DOMAIN Blank(jb) |-> lcl2glb(s, node_coor(n))])]
        /\ number_nodes = Prod(jb.grid, 5)
  BY DEF IoInit, SlotsInit
<1>2. UniqueID = Machine(jb)
  BY <1>1 DEF UniqueID, Machine
<1>3. job.style \in {"serial", "parallel"}
  BY <1>1, JobAssumption DEF Job
<1>4. ASSUME NEW n \in UniqueID PROVE IsNode(node[n]) /\ ~Past(node[n])
  BY <1>1, <1>2 DEF Fresh, IsNode, Fields, Past
<1> QED BY <1>1, <1>2, <1>3, <1>4 DEF ErrorInv, NodesOK

LEMMA RestartErrors ==
  ASSUME NEW jb \in LoadJobs, Restart(jb)
  PROVE  ErrorInv'
<1>1. UniqueID' = Machine(jb)
  BY DEF Restart, UniqueID, Machine
<1>2. job'.style \in {"serial", "parallel"} /\ storing' = FALSE
  BY JobAssumption DEF Job, Restart
<1>3. node' = [n \in Machine(jb) |->
        IF jb.style = "serial" THEN Fresh(jb, "body", "stream", Blank(jb))
                               ELSE Fresh(jb, "slot", "remap", Blank(jb))]
  BY DEF Restart
<1>4. ASSUME NEW n \in Machine(jb) PROVE IsNode(node'[n]) /\ node'[n].error = 0
  BY <1>3 DEF Fresh, IsNode, Fields
<1>5. node' = [n \in Machine(jb) |-> node'[n]]
  BY <1>3
<1> QED BY <1>1, <1>2, <1>4, <1>5 DEF ErrorInv, NodesOK

\* Whatever calls of the file system fail, and on whatever machine, an error
\* that store() has noted (of fopen or fwrite) is known to all nodes before any
\* of them fills in the checksum or returns.
THEOREM ErrorInvariance == IoSpec => []ErrorInv
<1>1. SlotsInv /\ ErrorInv /\ [IoNext]_vars => ErrorInv'
  <2> SUFFICES ASSUME SlotsInv, ErrorInv, [IoNext]_vars
               PROVE  ErrorInv'
    OBVIOUS
  <2>1. CASE SerialWriteFails
    <3> DEFINE nd == [node[0] EXCEPT !.pc = "sync", !.error = 1]
    <3>1. 0 \in UniqueID /\ IsNode(node[0])
      BY CommanderIsNode DEF SlotsInv, ErrorInv, NodesOK
    <3>2. /\ node' = [node EXCEPT ![0] = nd] /\ storing /\ node[0].pc = "body"
          /\ UNCHANGED <<job, storing, number_nodes>>
      BY <2>1 DEF SerialWriteFails, slots
    <3>3. IsNode(nd) /\ nd.pc = "sync"
      BY <3>1 DEF IsNode, Fields
    <3> HIDE DEF nd
    <3>4. Goes(0, nd)
      BY <3>2, <3>3 DEF Goes, Past
    <3> QED BY <3>1, <3>4, GoesStep
  <2>2. CASE FlushFails
    <3>1. 0 \in UniqueID /\ IsNode(node[0])
      BY CommanderIsNode DEF SlotsInv, ErrorInv, NodesOK
    <3>2. /\ Shift(0, node[0], 0, link) /\ ~Past(node[0])
          /\ UNCHANGED <<job, storing, number_nodes>>
      BY <2>2 DEF FlushFails, Past, slots
    <3> QED BY <3>1, <3>2, ShiftGoes
  <2>3. CASE UNCHANGED vars
    BY <2>3 DEF vars, data, slots, ErrorInv, NodesOK, UniqueID
  <2> QED BY <2>1, <2>2, <2>3, NodeStep, SumStep, RestartErrors DEF IoNext
<1> QED BY JobInitErrors, <1>1, JobSlotsInvariance, PTL DEF IoSpec

\* When fopen or fwrite fails on one node, store() returns on no node, for every
\* number of nodes, both styles, every retry and every order of the nodes.
THEOREM ErrorsShared == IoSpec => []ErrorSeenByAll
<1>1. ErrorInv => ErrorSeenByAll
  BY DEF ErrorInv, ErrorSeenByAll, NodesOK, Past
<1> QED BY <1>1, ErrorInvariance, PTL

-----------------------------------------------------------------------------
(* Numbers and coordinates.                                                *)

Box == [Dims -> Nat \ {0}]

\* The product of the sides, one side after the other.
LEMMA ProdUp ==
  ASSUME NEW t \in Box
  PROVE  /\ Prod(t, 0) = 1
         /\ \A k \in Dims : Prod(t, k) = Prod(t, k - 1) * t[k]
         /\ \A k \in 0..5 : Prod(t, k) \in Nat \ {0}
<1> DEFINE F(p) == [d \in 0..5 |-> IF d = 0 THEN 1 ELSE p[d - 1] * t[d]]
           p1 == t[1]  p2 == p1 * t[2]  p3 == p2 * t[3]  p4 == p3 * t[4]
           w == [d \in 0..5 |-> IF d = 0 THEN 1 ELSE IF d = 1 THEN p1
                  ELSE IF d = 2 THEN p2 ELSE IF d = 3 THEN p3
                  ELSE IF d = 4 THEN p4 ELSE p4 * t[5]]
           q == CHOOSE p : p = F(p)
<1>1. t[1] \in Nat \ {0} /\ t[2] \in Nat \ {0} /\ t[3] \in Nat \ {0}
      /\ t[4] \in Nat \ {0} /\ t[5] \in Nat \ {0}
  BY DEF Box, Dims
<1>2. w = F(w)
  <2>1. ASSUME NEW d \in 0..5
        PROVE  w[d] = IF d = 0 THEN 1 ELSE w[d - 1] * t[d]
    <3> HIDE DEF p1, p2, p3, p4
    <3>1. d = 0 \/ d = 1 \/ d = 2 \/ d = 3 \/ d = 4 \/ d = 5
      OBVIOUS
    <3>2. w[0] = 1 /\ w[1] = p1 /\ w[2] = p2 /\ w[3] = p3 /\ w[4] = p4 /\ w[5] = p4 * t[5]
      OBVIOUS
    <3>3. /\ 1 - 1 = 0 /\ 2 - 1 = 1 /\ 3 - 1 = 2 /\ 4 - 1 = 3 /\ 5 - 1 = 4
      OBVIOUS
    <3>4. p1 = 1 * t[1] /\ p2 = p1 * t[2] /\ p3 = p2 * t[3] /\ p4 = p3 * t[4]
      BY <1>1 DEF p1, p2, p3, p4
    <3> HIDE DEF w
    <3> QED BY <3>1, <3>2, <3>3, <3>4
  <2>2. F(w) = [d \in 0..5 |-> w[d]]
    <3> HIDE DEF w
    <3>1. \A d \in 0..5 : (IF d = 0 THEN 1 ELSE w[d - 1] * t[d]) = w[d]
      BY <2>1
    <3> QED BY <3>1
  <2>3. w = [d \in 0..5 |-> w[d]]
    <3> HIDE DEF p1, p2, p3, p4
    <3> QED OBVIOUS
  <2> QED BY <2>2, <2>3, Zenon
<1>3. q = F(q)
  <2> HIDE DEF w
  <2>1. \E p : p = F(p)
    BY <1>2
  <2> HIDE DEF F
  <2> QED BY <2>1, Zenon
<1>4. \A k \in 0..5 : Prod(t, k) = q[k]
  BY Zenon DEF Prod
<1> HIDE DEF q
<1>5. q[0] = 1 /\ \A k \in Dims : q[k] = q[k - 1] * t[k]
  <2>1. \A d \in 0..5 : q[d] = IF d = 0 THEN 1 ELSE q[d - 1] * t[d]
    BY <1>3
  <2> HIDE DEF F
  <2> QED BY <2>1 DEF Dims
<1>6. Prod(t, 0) = 1 /\ \A k \in Dims : Prod(t, k) = Prod(t, k - 1) * t[k]
  <2>1. ASSUME NEW k \in Dims PROVE Prod(t, k) = Prod(t, k - 1) * t[k]
    <3>1. k \in 0..5 /\ k - 1 \in 0..5
      BY DEF Dims
    <3> QED BY <1>4, <1>5, <3>1
  <2> QED BY <1>4, <1>5, <2>1
<1>7. \A a, b : a \in Nat \ {0} /\ b \in Nat \ {0} => a * b \in Nat \ {0}
  OBVIOUS
<1>8. /\ Prod(t, 1) = Prod(t, 0) * t[1] /\ Prod(t, 2) = Prod(t, 1) * t[2]
      /\ Prod(t, 3) = Prod(t, 2) * t[3] /\ Prod(t, 4) = Prod(t, 3) * t[4]
      /\ Prod(t, 5) = Prod(t, 4) * t[5]
  <2>1. 1 \in Dims /\ 2 \in Dims /\ 3 \in Dims /\ 4 \in Dims /\ 5 \in Dims
        /\ 1 - 1 = 0 /\ 2 - 1 = 1 /\ 3 - 1 = 2 /\ 4 - 1 = 3 /\ 5 - 1 = 4
    BY DEF Dims
  <2> QED BY <1>6, <2>1
<1>9. /\ Prod(t, 0) \in Nat \ {0} /\ Prod(t, 1) \in Nat \ {0}
      /\ Prod(t, 2) \in Nat \ {0} /\ Prod(t, 3) \in Nat \ {0}
      /\ Prod(t, 4) \in Nat \ {0} /\ Prod(t, 5) \in Nat \ {0}
  <2>0. Prod(t, 0) \in Nat \ {0}
    BY <1>6
  <2>1. Prod(t, 1) \in Nat \ {0}
    BY <1>1, <1>7, <1>8, <2>0
  <2>2. Prod(t, 2) \in Nat \ {0}
    BY <1>1, <1>7, <1>8, <2>1
  <2>3. Prod(t, 3) \in Nat \ {0}
    BY <1>1, <1>7, <1>8, <2>2
  <2>4. Prod(t, 4) \in Nat \ {0}
    BY <1>1, <1>7, <1>8, <2>3
  <2>5. Prod(t, 5) \in Nat \ {0}
    BY <1>1, <1>7, <1>8, <2>4
  <2> QED BY <2>0, <2>1, <2>2, <2>3, <2>4, <2>5
<1>10. \A k \in 0..5 : k = 0 \/ k = 1 \/ k = 2 \/ k = 3 \/ k = 4 \/ k = 5
  OBVIOUS
<1> QED BY <1>6, <1>9, <1>10

\* Quotient and remainder of any number.
LEMMA QuotRem ==
  ASSUME NEW a \in Int, NEW b \in Nat \ {0}
  PROVE  /\ a \div b \in Int /\ a % b \in 0..(b - 1) /\ a = b * (a \div b) + (a % b)
         /\ a \in Nat => a \div b \in Nat
<1> DEFINE q == a \div b  r == a % b
<1>1. q \in Int /\ r \in 0..(b - 1) /\ a = b * q + r
  BY SMTT(30)
<1>2. a \in Nat => q \in Nat
  BY DivBounds
<1> QED BY <1>1, <1>2, Zenon

\* They are unique.
LEMMA Digit ==
  ASSUME NEW b \in Nat \ {0}, NEW q \in Int, NEW r \in 0..(b - 1),
         NEW p \in Int, NEW s \in 0..(b - 1), r + b * q = s + b * p
  PROVE  q = p /\ r = s
<1>1. b * (q - p) = b * q - b * p /\ b * (p - q) = b * p - b * q
  OBVIOUS
<1>2. \A z \in Int : z >= 1 => b * z >= b
  BY SMTT(30)
<1>3. b * q \in Int /\ b * p \in Int /\ q - p \in Int /\ p - q \in Int
  OBVIOUS
<1> DEFINE u == b * q  v == b * p  x == b * (q - p)  y == b * (p - q)
<1>4. x = u - v /\ y = v - u /\ r + u = s + v /\ u \in Int /\ v \in Int
  BY <1>1, <1>3
<1>5. (q - p >= 1 => x >= b) /\ (p - q >= 1 => y >= b)
  BY <1>2, <1>3
<1> HIDE DEF u, v, x, y
<1>6. ~(q - p >= 1) /\ ~(p - q >= 1)
  BY <1>4, <1>5
<1>7. q = p
  BY <1>6
<1>8. u = v
  BY <1>7 DEF u, v
<1> QED BY <1>4, <1>7, <1>8

LEMMA DivMod ==
  ASSUME NEW b \in Nat \ {0}, NEW q \in Int, NEW r \in 0..(b - 1), NEW a \in Int,
         a = r + b * q
  PROVE  a \div b = q /\ a % b = r
<1> DEFINE d == a \div b  m == a % b
<1>1. d \in Int /\ m \in 0..(b - 1) /\ a = m + b * d
  <2>1. d \in Int /\ m \in 0..(b - 1) /\ a = b * d + m
    BY QuotRem, Zenon
  <2> HIDE DEF d, m
  <2>2. b * d \in Int
    BY <2>1
  <2> QED BY <2>1, <2>2
<1> HIDE DEF d, m
<1>2. q = d /\ r = m
  BY <1>1, Digit
<1> QED BY <1>2 DEF d, m

\* One division after the other.
LEMMA DivDiv ==
  ASSUME NEW a \in Nat, NEW b \in Nat \ {0}, NEW c \in Nat \ {0}
  PROVE  (a \div b) \div c = a \div (b * c)
<1> DEFINE q == a \div b  r == a % b
<1>0. a \in Int
  OBVIOUS
<1>1. q \in Nat /\ r \in 0..(b - 1) /\ a = b * q + r
  BY <1>0, QuotRem, Zenon
<1> HIDE DEF q, r
<1> DEFINE p == q \div c  s == q % c  m == b * c  e == r + b * s
<1>2. p \in Nat /\ s \in 0..(c - 1) /\ q = c * p + s
  <2>1. q \in Int
    BY <1>1
  <2> QED BY <1>1, <2>1, QuotRem, Zenon
<1>3. m \in Nat \ {0}
  BY SMTT(30)
<1> HIDE DEF p, s
<1>4. a = e + m * p
  <2>1. b * (c * p + s) = (b * c) * p + b * s
    BY <1>2
  <2>2. b * s \in Int /\ (b * c) * p \in Int
    BY <1>2
  <2> QED BY <1>1, <1>2, <2>1, <2>2
<1>5. e \in 0..(m - 1)
  <2>1. b * s >= 0 /\ b * s + b <= b * c
    <3>1. c - 1 - s \in Nat /\ b * (c - 1 - s) \in Nat /\ b * s \in Nat
      BY <1>2
    <3>2. b * (c - 1 - s) = b * c - b - b * s
      BY <1>2
    <3> DEFINE u == b * (c - 1 - s)  v == b * c  w == b * s
    <3>3. u \in Nat /\ w \in Nat /\ v \in Int /\ u = v - b - w
      BY <3>1, <3>2
    <3> HIDE DEF u, v, w
    <3>4. w >= 0 /\ w + b <= v
      BY <3>3
    <3> QED BY <3>4 DEF v, w
  <2> DEFINE v == b * c  w == b * s
  <2>2. v \in Int /\ w \in Int
    BY <1>2
  <2>3. w >= 0 /\ w + b <= v
    BY <2>1
  <2> HIDE DEF v, w
  <2>4. r + w \in 0..(v - 1)
    BY <1>1, <2>2, <2>3
  <2> QED BY <2>4 DEF v, w
<1> HIDE DEF m, e
<1>6. a \div m = p
  BY <1>2, <1>3, <1>4, <1>5, DivMod
<1> QED BY <1>6 DEF m, p, q

LEMMA DivSmall ==
  ASSUME NEW b \in Nat \ {0}, NEW a \in 0..(b - 1)
  PROVE  a \div b = 0 /\ a % b = a
<1>1. a = a + b * 0
  OBVIOUS
<1> QED BY <1>1, DivMod

LEMMA DivLess ==
  ASSUME NEW b \in Nat \ {0}, NEW c \in Nat, NEW a \in Nat, a < b * c
  PROVE  a \div b < c
<1> DEFINE q == a \div b
<1>1. q \in Nat /\ b * q <= a
  BY DivBounds
<1> HIDE DEF q
<1>2. SUFFICES ASSUME q >= c PROVE FALSE
  BY <1>1 DEF q
<1>3. b * (q - c) \in Nat /\ b * (q - c) = b * q - b * c /\ b * q \in Int /\ b * c \in Int
  BY <1>1, <1>2
<1> QED BY <1>1, <1>3

\* The quotients of a number by the products, from which its coordinates come.
Quot(k, t, d) == k \div Prod(t, d)

LEMMA CoorChain ==
  ASSUME NEW t \in Box, NEW k \in Nat
  PROVE  /\ Quot(k, t, 0) = k
         /\ \A d \in 0..5 : Quot(k, t, d) \in Nat
         /\ \A d \in Dims :
              /\ Coor(k, t)[d] \in 0..(t[d] - 1)
              /\ Quot(k, t, d - 1) = Coor(k, t)[d] + t[d] * Quot(k, t, d)
              /\ Coor(k, t)[d] = Quot(k, t, d - 1) % t[d]
              /\ Quot(k, t, d) = Quot(k, t, d - 1) \div t[d]
<1>1. \A d \in 0..5 : Quot(k, t, d) \in Nat
  BY ProdUp, DivBounds DEF Quot
<1>2. Quot(k, t, 0) = k
  BY ProdUp DEF Quot
<1>3. ASSUME NEW d \in Dims
      PROVE  /\ Coor(k, t)[d] \in 0..(t[d] - 1)
             /\ Quot(k, t, d - 1) = Coor(k, t)[d] + t[d] * Quot(k, t, d)
             /\ Coor(k, t)[d] = Quot(k, t, d - 1) % t[d]
             /\ Quot(k, t, d) = Quot(k, t, d - 1) \div t[d]
  <2>1. d - 1 \in 0..5 /\ d \in 0..5 /\ t[d] \in Nat \ {0}
    BY DEF Dims, Box
  <2> DEFINE a == Quot(k, t, d - 1)  b == t[d]
  <2>2. a \in Nat
    BY <1>1, <2>1
  <2>3. Quot(k, t, d) = a \div b
    <3>1. Prod(t, d - 1) \in Nat \ {0} /\ Prod(t, d) = Prod(t, d - 1) * t[d]
      BY <2>1, ProdUp
    <3> QED BY <2>1, <3>1, DivDiv DEF Quot
  <2>4. Coor(k, t)[d] = a % b
    BY DEF Coor, Quot
  <2> HIDE DEF a
  <2>5. a \div b \in Nat /\ a % b \in 0..(b - 1) /\ a = b * (a \div b) + (a % b)
    <3>1. a \in Int
      BY <2>2
    <3> QED BY <2>1, <2>2, <3>1, QuotRem, Zenon
  <2> DEFINE q == a \div b  r == a % b
  <2>6. q \in Nat /\ r \in 0..(b - 1) /\ a = b * q + r /\ b \in Nat
    BY <2>1, <2>5
  <2> HIDE DEF q, r, b
  <2>7. a = r + b * q
    <3>1. b * q \in Int
      BY <2>6
    <3> QED BY <2>6, <3>1
  <2> QED BY <2>3, <2>4, <2>6, <2>7 DEF a, q, r, b
<1> QED BY <1>1, <1>2, <1>3

\* A number below the product of some sides has nothing left after them.
LEMMA QuotZero ==
  ASSUME NEW t \in Box, NEW d \in 0..5, NEW k \in Nat
  PROVE  k < Prod(t, d) <=> Quot(k, t, d) = 0
<1>1. Prod(t, d) \in Nat \ {0}
  BY ProdUp
<1> DEFINE P == Prod(t, d)
<1> HIDE DEF P
<1>2. k < P => k \div P = 0
  <2>1. k < P => k \in 0..(P - 1)
    BY <1>1 DEF P
  <2> QED BY <1>1, <2>1, DivSmall DEF P
<1>3. k \div P = 0 => k < P
  <2>1. k < P * (k \div P) + P
    BY <1>1, DivBounds DEF P
  <2>2. P * 0 = 0
    BY <1>1 DEF P
  <2> QED BY <1>1, <2>1, <2>2 DEF P
<1> QED BY <1>2, <1>3 DEF P, Quot

-----------------------------------------------------------------------------
\* One digit of a number.
LEMMA NextDigit ==
  ASSUME NEW t \in Box, NEW k \in Nat, NEW d \in Dims, NEW x \in 0..(t[d] - 1),
         NEW y \in Int, Quot(k, t, d - 1) = x + t[d] * y
  PROVE  Coor(k, t)[d] = x /\ Quot(k, t, d) = y
<1> DEFINE a == Quot(k, t, d)  c == Coor(k, t)[d]  b == t[d]
<1>1. a \in Int /\ c \in 0..(b - 1) /\ c + b * a = x + b * y
  <2>1. d \in 0..5
    BY DEF Dims
  <2>2. a \in Nat /\ c \in 0..(b - 1)
    BY <2>1, CoorChain
  <2>3. Quot(k, t, d - 1) = c + b * a
    BY CoorChain, Zenon
  <2> HIDE DEF a, b, c
  <2> QED BY <2>2, <2>3 DEF b
<1>2. b \in Nat \ {0}
  BY DEF Box
<1> HIDE DEF a, c, b
<1>3. x \in 0..(b - 1)
  BY DEF b
<1>4. a = y /\ c = x
  BY <1>1, <1>2, <1>3, Digit
<1> QED BY <1>4 DEF a, c

\* What the coordinates above dimension d stand for.
Rest(x, t, dim, d) ==
  IF d = 0 THEN Number(x, t, dim)
  ELSE IF d = 1 THEN x[2] + t[2] * (x[3] + t[3] * (x[4] +
                       IF dim = 5 THEN t[4] * x[5] ELSE 0))
  ELSE IF d = 2 THEN x[3] + t[3] * (x[4] + IF dim = 5 THEN t[4] * x[5] ELSE 0)
  ELSE IF d = 3 THEN x[4] + IF dim = 5 THEN t[4] * x[5] ELSE 0
  ELSE IF d = 4 /\ dim = 5 THEN x[5] ELSE 0

\* Coordinates in the box.
In(x, t, dim) == \A d \in 1..dim : x[d] \in 0..(t[d] - 1)

LEMMA RestUp ==
  ASSUME NEW t \in Box, NEW dim \in {4, 5}, NEW x, In(x, t, dim)
  PROVE  /\ \A d \in 0..5 : Rest(x, t, dim, d) \in Nat
         /\ \A d \in 1..dim :
              Rest(x, t, dim, d - 1) = x[d] + t[d] * Rest(x, t, dim, d)
         /\ Rest(x, t, dim, dim) = 0
<1>1. t[1] \in Nat \ {0} /\ t[2] \in Nat \ {0} /\ t[3] \in Nat \ {0}
      /\ t[4] \in Nat \ {0} /\ t[5] \in Nat \ {0}
  BY DEF Box, Dims
<1>2. x[1] \in Nat /\ x[2] \in Nat /\ x[3] \in Nat /\ x[4] \in Nat
      /\ (dim = 5 => x[5] \in Nat)
  <2>1. \A d \in 1..dim : x[d] \in Nat
    <3>1. ASSUME NEW d \in 1..dim PROVE x[d] \in Nat
      <4>1. x[d] \in 0..(t[d] - 1)
        BY DEF In
      <4> QED BY <4>1
    <3> QED BY <3>1
  <2>2. 1 \in 1..dim /\ 2 \in 1..dim /\ 3 \in 1..dim /\ 4 \in 1..dim
        /\ (dim = 5 => 5 \in 1..dim)
    OBVIOUS
  <2> QED BY <2>1, <2>2
<1> DEFINE y4 == IF dim = 5 THEN x[5] ELSE 0
           y3 == x[4] + t[4] * y4
           y2 == x[3] + t[3] * y3
           y1 == x[2] + t[2] * y2
           y0 == x[1] + t[1] * y1
<1>3. \A a, b, c : a \in Nat /\ b \in Nat /\ c \in Nat => a + b * c \in Nat
  OBVIOUS
<1>4. y4 \in Nat /\ y3 \in Nat /\ y2 \in Nat /\ y1 \in Nat /\ y0 \in Nat
  <2>4. y4 \in Nat
    BY <1>2
  <2> HIDE DEF y4
  <2>3. y3 \in Nat
    BY <1>1, <1>2, <1>3, <2>4
  <2> HIDE DEF y3
  <2>2. y2 \in Nat
    BY <1>1, <1>2, <1>3, <2>3
  <2> HIDE DEF y2
  <2>1. y1 \in Nat
    BY <1>1, <1>2, <1>3, <2>2
  <2> HIDE DEF y1
  <2>0. y0 \in Nat
    BY <1>1, <1>2, <1>3, <2>1
  <2> QED BY <2>0, <2>1, <2>2, <2>3, <2>4
<1>5. /\ Rest(x, t, dim, 0) = y0 /\ Rest(x, t, dim, 1) = y1
      /\ Rest(x, t, dim, 2) = y2 /\ Rest(x, t, dim, 3) = y3
      /\ Rest(x, t, dim, 4) = y4 /\ Rest(x, t, dim, 5) = 0
  <2>1. (IF dim = 5 THEN t[4] * x[5] ELSE 0) = t[4] * y4
    BY <1>1
  <2> HIDE DEF y4
  <2>2. 1 # 0 /\ 2 # 0 /\ 2 # 1 /\ 3 # 0 /\ 3 # 1 /\ 3 # 2 /\ 4 # 0 /\ 4 # 1 /\ 4 # 2
        /\ 4 # 3 /\ 5 # 0 /\ 5 # 1 /\ 5 # 2 /\ 5 # 3 /\ 5 # 4
    OBVIOUS
  <2>3. Rest(x, t, dim, 0) = y0
    BY <2>1, Zenon DEF Rest, Number
  <2>4. Rest(x, t, dim, 1) = y1
    BY <2>1, <2>2, Zenon DEF Rest
  <2>5. Rest(x, t, dim, 2) = y2
    BY <2>1, <2>2, Zenon DEF Rest
  <2>6. Rest(x, t, dim, 3) = y3
    BY <2>1, <2>2, Zenon DEF Rest
  <2>7. Rest(x, t, dim, 4) = y4
    BY <2>2, Zenon DEF Rest, y4
  <2>8. Rest(x, t, dim, 5) = 0
    BY <2>2, Zenon DEF Rest
  <2> QED BY <2>3, <2>4, <2>5, <2>6, <2>7, <2>8
<1> HIDE DEF y0, y1, y2, y3, y4
<1>6. /\ y0 = x[1] + t[1] * y1 /\ y1 = x[2] + t[2] * y2
      /\ y2 = x[3] + t[3] * y3 /\ y3 = x[4] + t[4] * y4
  BY DEF y0, y1, y2, y3
<1>7. (dim = 5 => y4 = x[5] + t[5] * 0) /\ (dim = 4 => y4 = 0)
  BY <1>1, <1>2 DEF y4
<1>8. \A d \in 0..5 : d = 0 \/ d = 1 \/ d = 2 \/ d = 3 \/ d = 4 \/ d = 5
  OBVIOUS
<1>9. ASSUME NEW d \in 1..dim
      PROVE  Rest(x, t, dim, d - 1) = x[d] + t[d] * Rest(x, t, dim, d)
  <2>1. d = 1 \/ d = 2 \/ d = 3 \/ d = 4 \/ (d = 5 /\ dim = 5)
    OBVIOUS
  <2>2. 1 - 1 = 0 /\ 2 - 1 = 1 /\ 3 - 1 = 2 /\ 4 - 1 = 3 /\ 5 - 1 = 4
    OBVIOUS
  <2> QED BY <1>5, <1>6, <1>7, <2>1, <2>2
<1>10. \A d \in 0..5 : Rest(x, t, dim, d) \in Nat
  BY <1>4, <1>5, <1>8
<1>11. Rest(x, t, dim, dim) = 0
  BY <1>5, <1>7
<1> QED BY <1>9, <1>10, <1>11

\* The number of coordinates gives them back.
LEMMA CoorNumber ==
  ASSUME NEW t \in Box, NEW dim \in {4, 5}, NEW x, In(x, t, dim)
  PROVE  /\ Number(x, t, dim) \in 0..(Prod(t, dim) - 1)
         /\ \A d \in 1..dim : Coor(Number(x, t, dim), t)[d] = x[d]
         /\ \A d \in 0..dim : Quot(Number(x, t, dim), t, d) = Rest(x, t, dim, d)
<1> DEFINE k == Number(x, t, dim)
           R(d) == Rest(x, t, dim, d)
<1>1. R(0) = k
  BY DEF Rest
<1>2. k \in Nat
  <2>1. 0 \in 0..5
    OBVIOUS
  <2> QED BY <1>1, <2>1, RestUp
<1> HIDE DEF k
<1>3. ASSUME NEW d \in 1..dim, Quot(k, t, d - 1) = R(d - 1)
      PROVE  Coor(k, t)[d] = x[d] /\ Quot(k, t, d) = R(d)
  <2>1. d \in Dims /\ d \in 0..5 /\ x[d] \in 0..(t[d] - 1)
    BY DEF Dims, In
  <2>2. R(d) \in Int /\ R(d - 1) = x[d] + t[d] * R(d)
    BY <2>1, RestUp
  <2> HIDE DEF R
  <2> QED BY <1>2, <1>3, <2>1, <2>2, NextDigit
<1>4. Quot(k, t, 0) = R(0)
  BY <1>1, <1>2, CoorChain
<1> HIDE DEF R
<1>5. 1 - 1 = 0 /\ 2 - 1 = 1 /\ 3 - 1 = 2 /\ 4 - 1 = 3 /\ 5 - 1 = 4
      /\ 1 \in 1..dim /\ 2 \in 1..dim /\ 3 \in 1..dim /\ 4 \in 1..dim
      /\ (dim = 5 => 5 \in 1..dim)
  OBVIOUS
<1>6. Coor(k, t)[1] = x[1] /\ Quot(k, t, 1) = R(1)
  BY <1>3, <1>4, <1>5
<1>7. Coor(k, t)[2] = x[2] /\ Quot(k, t, 2) = R(2)
  BY <1>3, <1>5, <1>6
<1>8. Coor(k, t)[3] = x[3] /\ Quot(k, t, 3) = R(3)
  BY <1>3, <1>5, <1>7
<1>9. Coor(k, t)[4] = x[4] /\ Quot(k, t, 4) = R(4)
  BY <1>3, <1>5, <1>8
<1>10. dim = 5 => Coor(k, t)[5] = x[5] /\ Quot(k, t, 5) = R(5)
  BY <1>3, <1>5, <1>9
<1>11. \A d \in 1..dim : Coor(k, t)[d] = x[d]
  <2>1. \A d \in 1..dim : d = 1 \/ d = 2 \/ d = 3 \/ d = 4 \/ (d = 5 /\ dim = 5)
    OBVIOUS
  <2> QED BY <1>6, <1>7, <1>8, <1>9, <1>10, <2>1
<1>12. \A d \in 0..dim : Quot(k, t, d) = R(d)
  <2>1. \A d \in 0..dim : d = 0 \/ d = 1 \/ d = 2 \/ d = 3 \/ d = 4 \/ (d = 5 /\ dim = 5)
    OBVIOUS
  <2> QED BY <1>4, <1>6, <1>7, <1>8, <1>9, <1>10, <2>1
<1>13. k < Prod(t, dim)
  <2>1. R(dim) = 0
    BY RestUp DEF R
  <2>2. dim \in 0..5 /\ dim \in 0..dim
    OBVIOUS
  <2> QED BY <1>2, <1>12, <2>1, <2>2, QuotZero
<1>14. Prod(t, dim) \in Nat
  <2>1. dim \in 0..5
    OBVIOUS
  <2> QED BY <2>1, ProdUp
<1> QED BY <1>2, <1>11, <1>12, <1>13, <1>14 DEF k, R

\* The coordinates of a number give it back.
LEMMA NumberCoor ==
  ASSUME NEW t \in Box, NEW dim \in {4, 5}, NEW k \in 0..(Prod(t, dim) - 1)
  PROVE  /\ In(Coor(k, t), t, dim)
         /\ Number(Coor(k, t), t, dim) = k
         /\ \A d \in 0..dim : Rest(Coor(k, t), t, dim, d) = Quot(k, t, d)
<1> DEFINE x == Coor(k, t)
           Q(d) == Quot(k, t, d)
           R(d) == Rest(x, t, dim, d)
<1>0. Prod(t, dim) \in Nat /\ dim \in 0..5
  <2>1. dim \in 0..5
    OBVIOUS
  <2> QED BY <2>1, ProdUp
<1>1. k \in Nat /\ k < Prod(t, dim)
  BY <1>0
<1>2. Q(dim) = 0
  BY <1>0, <1>1, QuotZero
<1>3. In(x, t, dim)
  <2>1. \A d \in 1..dim : d \in Dims
    BY DEF Dims
  <2> QED BY <1>1, <2>1, CoorChain DEF In
<1>4. Q(0) = k /\ \A d \in 1..dim : Q(d - 1) = x[d] + t[d] * Q(d)
  <2>1. \A d \in 1..dim : d \in Dims
    BY DEF Dims
  <2> QED BY <1>1, <2>1, CoorChain
<1>5. R(dim) = 0 /\ \A d \in 1..dim : R(d - 1) = x[d] + t[d] * R(d)
  BY <1>3, RestUp
<1> HIDE DEF R, Q, x
<1>6. 1 - 1 = 0 /\ 2 - 1 = 1 /\ 3 - 1 = 2 /\ 4 - 1 = 3 /\ 5 - 1 = 4
      /\ 1 \in 1..dim /\ 2 \in 1..dim /\ 3 \in 1..dim /\ 4 \in 1..dim
      /\ (dim = 5 => 5 \in 1..dim)
  OBVIOUS
<1>7. \A d \in 1..dim : R(d) = Q(d) => R(d - 1) = Q(d - 1)
  BY <1>4, <1>5, Zenon
<1>8. R(4) = Q(4)
  <2>1. dim = 4 \/ (dim = 5 /\ R(5) = Q(5))
    BY <1>2, <1>5
  <2> QED BY <1>2, <1>5, <1>6, <1>7, <2>1
<1>9. R(3) = Q(3)
  BY <1>6, <1>7, <1>8
<1>10. R(2) = Q(2)
  BY <1>6, <1>7, <1>9
<1>11. R(1) = Q(1)
  BY <1>6, <1>7, <1>10
<1>12. R(0) = Q(0)
  BY <1>6, <1>7, <1>11
<1>13. R(0) = Number(x, t, dim)
  BY DEF R, Rest
<1>14. \A d \in 0..dim : R(d) = Q(d)
  <2>1. \A d \in 0..dim : d = 0 \/ d = 1 \/ d = 2 \/ d = 3 \/ d = 4 \/ (d = 5 /\ d = dim)
    OBVIOUS
  <2> QED BY <1>2, <1>5, <1>8, <1>9, <1>10, <1>11, <1>12, <2>1
<1> QED BY <1>3, <1>4, <1>12, <1>13, <1>14 DEF R, Q, x

\* Two numbers are the same if their coordinates are.
LEMMA SameNumber ==
  ASSUME NEW t, NEW dim \in {4, 5}, NEW x, NEW y, \A d \in 1..dim : x[d] = y[d]
  PROVE  Number(x, t, dim) = Number(y, t, dim)
<1>1. x[1] = y[1] /\ x[2] = y[2] /\ x[3] = y[3] /\ x[4] = y[4]
      /\ (dim = 5 => x[5] = y[5])
  OBVIOUS
<1> QED BY <1>1, Zenon DEF Number

-----------------------------------------------------------------------------
(* A job: its boxes.                                                       *)

JobOK ==
  /\ job.style \in {"serial", "parallel"} /\ job.dimension \in {4, 5}
  /\ job.grid \in Box /\ \A d \in Dims : Glb[d] % job.grid[d] = 0
  /\ number_nodes = Prod(job.grid, 5) /\ storing \in BOOLEAN

\* The sites of the whole lattice, and the parts of the file.
Vol == Prod(glb, 5)
Parts == Prod(grid, dims)

LEMMA Boxes ==
  ASSUME JobOK
  PROVE  /\ dims \in {4, 5} /\ grid \in Box /\ glb \in Box /\ lcl \in Box
         /\ \A d \in 1..dims : glb[d] = lcl[d] * grid[d]
         /\ dims = 4 => lcl[5] = 1 /\ glb[5] = 1
<1>1. dims \in {4, 5} /\ grid \in Box
  BY DEF JobOK, dims, grid
<1>2. Glb \in Box
  BY JobAssumption DEF Box
<1>3. ASSUME NEW d \in Dims
      PROVE  Glb[d] \div grid[d] \in Nat \ {0} /\ Glb[d] = (Glb[d] \div grid[d]) * grid[d]
  <2> DEFINE a == Glb[d]  b == grid[d]  q == a \div b
  <2>1. a \in Nat \ {0} /\ b \in Nat \ {0} /\ a % b = 0
    BY <1>1, <1>2 DEF Box, JobOK, grid
  <2>2. q \in Nat /\ a = b * q + (a % b)
    <3>1. a \in Int
      BY <2>1
    <3> QED BY <2>1, <3>1, QuotRem, Zenon
  <2> HIDE DEF a, b, q
  <2>3. a = b * q
    <3>1. b * q \in Int
      BY <2>1, <2>2
    <3> QED BY <2>1, <2>2, <3>1
  <2>4. q # 0
    <3>1. b * 0 = 0
      BY <2>1
    <3> QED BY <2>1, <2>3, <3>1
  <2>5. a = q * b
    BY <2>1, <2>2, <2>3
  <2> QED BY <2>2, <2>4, <2>5 DEF a, b, q
<1>4. \A d \in Dims : glb[d] = IF d = 5 /\ dims = 4 THEN 1 ELSE Glb[d]
  BY Zenon DEF glb
<1>5. \A d \in Dims : lcl[d] = IF d = 5 /\ dims = 4 THEN 1 ELSE Glb[d] \div grid[d]
  BY Zenon DEF lcl
<1>6. glb \in Box
  <2>1. \A d \in Dims : glb[d] \in Nat \ {0}
    BY <1>2, <1>4 DEF Box
  <2>2. glb = [d \in Dims |-> glb[d]]
    BY DEF glb
  <2> QED BY <2>1, <2>2 DEF Box
<1>7. lcl \in Box
  <2>1. \A d \in Dims : lcl[d] \in Nat \ {0}
    BY <1>3, <1>5
  <2>2. lcl = [d \in Dims |-> lcl[d]]
    BY DEF lcl
  <2> QED BY <2>1, <2>2 DEF Box
<1>8. ASSUME NEW d \in 1..dims PROVE glb[d] = lcl[d] * grid[d]
  <2>1. d \in Dims /\ ~(d = 5 /\ dims = 4)
    BY <1>1 DEF Dims
  <2> QED BY <1>3, <1>4, <1>5, <2>1
<1>9. dims = 4 => lcl[5] = 1 /\ glb[5] = 1
  BY <1>4, <1>5 DEF Dims
<1> QED BY <1>1, <1>6, <1>7, <1>8, <1>9

LEMMA Volumes ==
  ASSUME JobOK
  PROVE  /\ lcl_vol = Prod(lcl, dims) /\ Vol = Prod(glb, dims)
         /\ \A d \in 0..dims : Prod(glb, d) = Prod(lcl, d) * Prod(grid, d)
         /\ Vol = lcl_vol * Parts
         /\ lcl_vol \in Nat \ {0} /\ Vol \in Nat \ {0} /\ Parts \in Nat \ {0}
<1>1. /\ dims \in {4, 5} /\ grid \in Box /\ glb \in Box /\ lcl \in Box
      /\ \A d \in 1..dims : glb[d] = lcl[d] * grid[d]
      /\ dims = 4 => lcl[5] = 1 /\ glb[5] = 1
  BY Boxes
<1>2. ASSUME NEW t \in Box, dims = 4 => t[5] = 1
      PROVE  Prod(t, 5) = Prod(t, dims)
  <2>1. Prod(t, 5) = Prod(t, 4) * t[5] /\ Prod(t, 4) \in Nat
    <3>1. 5 \in Dims /\ 4 \in 0..5 /\ 5 - 1 = 4
      BY DEF Dims
    <3> QED BY <3>1, ProdUp
  <2> QED BY <1>1, <1>2, <2>1
<1>3. lcl_vol = Prod(lcl, dims) /\ Vol = Prod(glb, dims)
  BY <1>1, <1>2 DEF lcl_vol, Vol
<1> DEFINE A(d) == Prod(glb, d)  B(d) == Prod(lcl, d)  C(d) == Prod(grid, d)
<1>4. ASSUME NEW d \in 1..dims, A(d - 1) = B(d - 1) * C(d - 1)
      PROVE  A(d) = B(d) * C(d)
  <2>1. d \in Dims /\ d - 1 \in 0..5
    BY <1>1 DEF Dims
  <2>2. /\ A(d) = A(d - 1) * glb[d] /\ B(d) = B(d - 1) * lcl[d]
        /\ C(d) = C(d - 1) * grid[d]
    BY <1>1, <2>1, ProdUp
  <2>3. B(d - 1) \in Nat /\ C(d - 1) \in Nat /\ lcl[d] \in Nat /\ grid[d] \in Nat
    BY <1>1, <2>1, ProdUp DEF Box
  <2>4. glb[d] = lcl[d] * grid[d]
    BY <1>1
  <2> DEFINE b == B(d - 1)  c == C(d - 1)  l == lcl[d]  g == grid[d]
  <2>5. (b * c) * (l * g) = (b * l) * (c * g)
    <3> HIDE DEF b, c, l, g
    <3>1. b \in Nat /\ c \in Nat /\ l \in Nat /\ g \in Nat
      BY <2>3 DEF b, c, l, g
    <3> QED BY <3>1
  <2> QED BY <1>4, <2>2, <2>4, <2>5
<1>5. A(0) = B(0) * C(0)
  <2>1. A(0) = 1 /\ B(0) = 1 /\ C(0) = 1
    BY <1>1, ProdUp
  <2> QED BY <2>1
<1> HIDE DEF A, B, C
<1>6. 1 - 1 = 0 /\ 2 - 1 = 1 /\ 3 - 1 = 2 /\ 4 - 1 = 3 /\ 5 - 1 = 4
      /\ 1 \in 1..dims /\ 2 \in 1..dims /\ 3 \in 1..dims /\ 4 \in 1..dims
      /\ (dims = 5 => 5 \in 1..dims)
  BY <1>1
<1>7. A(1) = B(1) * C(1)
  BY <1>4, <1>5, <1>6
<1>8. A(2) = B(2) * C(2)
  BY <1>4, <1>6, <1>7
<1>9. A(3) = B(3) * C(3)
  BY <1>4, <1>6, <1>8
<1>10. A(4) = B(4) * C(4)
  BY <1>4, <1>6, <1>9
<1>11. dims = 5 => A(5) = B(5) * C(5)
  BY <1>4, <1>6, <1>10
<1>12. \A d \in 0..dims : A(d) = B(d) * C(d)
  <2>1. \A d \in 0..dims : d = 0 \/ d = 1 \/ d = 2 \/ d = 3 \/ d = 4 \/ (d = 5 /\ dims = 5)
    BY <1>1
  <2> QED BY <1>5, <1>7, <1>8, <1>9, <1>10, <1>11, <2>1
<1>13. dims \in 0..dims /\ dims \in 0..5
  BY <1>1
<1>14. Vol = lcl_vol * Parts
  BY <1>3, <1>12, <1>13 DEF Parts, A, B, C
<1>15. lcl_vol \in Nat \ {0} /\ Vol \in Nat \ {0} /\ Parts \in Nat \ {0}
  BY <1>1, <1>3, <1>13, ProdUp DEF Parts
<1> QED BY <1>3, <1>12, <1>14, <1>15 DEF A, B, C

\* The node at x has these sites of the lattice.
GloCoor(c, x) == [d \in Dims |-> c[d] + lcl[d] * x[d]]

LEMMA GlobalIn ==
  ASSUME JobOK, NEW c, NEW x, In(c, lcl, dims), In(x, grid, dims)
  PROVE  In(GloCoor(c, x), glb, dims)
<1> SUFFICES ASSUME NEW d \in 1..dims
             PROVE  GloCoor(c, x)[d] \in 0..(glb[d] - 1)
  BY Zenon DEF In
<1>1. d \in Dims
  BY Boxes DEF Dims
<1> DEFINE l == lcl[d]  g == grid[d]  a == c[d]  b == x[d]
<1>2. l \in Nat \ {0} /\ g \in Nat \ {0} /\ glb[d] = l * g
  BY <1>1, Boxes DEF Box
<1>3. a \in 0..(l - 1) /\ b \in 0..(g - 1)
  BY DEF In
<1>4. GloCoor(c, x)[d] = a + l * b
  BY <1>1 DEF GloCoor
<1> HIDE DEF l, g, a, b
<1> DEFINE u == l * b  v == l * g  w == l * (g - 1 - b)
<1>5. u \in Nat /\ w \in Nat /\ v \in Nat /\ w = v - l - u
  <2>1. g - 1 - b \in Nat /\ b \in Nat
    BY <1>2, <1>3
  <2>2. w = v - l - u
    BY <1>2, <1>3
  <2> QED BY <1>2, <2>1, <2>2
<1> HIDE DEF u, v, w
<1>6. a + u \in 0..(v - 1)
  BY <1>2, <1>3, <1>5
<1> QED BY <1>2, <1>4, <1>6 DEF u, v

LEMMA Lcl2Glb ==
  ASSUME NEW k, NEW x
  PROVE  lcl2glb(k, x) = Number(GloCoor(Coor(k, lcl), x), glb, dims)
BY Zenon DEF lcl2glb, GloCoor

LEMMA SiteCoor ==
  ASSUME JobOK, NEW k \in Sites
  PROVE  In(Coor(k, lcl), lcl, dims) /\ Number(Coor(k, lcl), lcl, dims) = k /\ k \in Nat
<1>1. k \in 0..(Prod(lcl, dims) - 1) /\ k \in Nat
  BY Volumes DEF Sites
<1> QED BY <1>1, Boxes, NumberCoor

\* Where a site of a node lies in the lattice.
LEMMA GlobalSite ==
  ASSUME JobOK, NEW k \in Sites, NEW x, In(x, grid, dims)
  PROVE  /\ lcl2glb(k, x) \in 0..(Vol - 1)
         /\ \A d \in 1..dims :
              /\ Coor(lcl2glb(k, x), glb)[d] = Coor(k, lcl)[d] + lcl[d] * x[d]
              /\ Coor(lcl2glb(k, x), glb)[d] \div lcl[d] = x[d]
              /\ Coor(lcl2glb(k, x), glb)[d] % lcl[d] = Coor(k, lcl)[d]
<1> DEFINE c == Coor(k, lcl)  y == GloCoor(c, x)  g == lcl2glb(k, x)
<1>1. In(c, lcl, dims)
  BY SiteCoor
<1>2. In(y, glb, dims)
  BY <1>1, GlobalIn
<1>3. g = Number(y, glb, dims)
  BY Lcl2Glb
<1>4. g \in 0..(Vol - 1) /\ \A d \in 1..dims : Coor(g, glb)[d] = y[d]
  <2>1. glb \in Box /\ dims \in {4, 5} /\ Vol = Prod(glb, dims)
    BY Boxes, Volumes
  <2> HIDE DEF y, g
  <2>2. /\ Number(y, glb, dims) \in 0..(Prod(glb, dims) - 1)
        /\ \A d \in 1..dims : Coor(Number(y, glb, dims), glb)[d] = y[d]
    BY <1>2, <2>1, CoorNumber, Zenon
  <2> QED BY <1>3, <2>1, <2>2
<1>5. ASSUME NEW d \in 1..dims
      PROVE  /\ Coor(g, glb)[d] = c[d] + lcl[d] * x[d]
             /\ Coor(g, glb)[d] \div lcl[d] = x[d]
             /\ Coor(g, glb)[d] % lcl[d] = c[d]
  <2>1. d \in Dims /\ c[d] \in 0..(lcl[d] - 1) /\ x[d] \in 0..(grid[d] - 1)
    BY <1>1, Boxes DEF Dims, In
  <2>2. y[d] = c[d] + lcl[d] * x[d]
    BY <2>1 DEF GloCoor
  <2> HIDE DEF c, y, g
  <2>3. lcl[d] \in Nat \ {0} /\ grid[d] \in Nat \ {0}
    BY <2>1, Boxes DEF Box
  <2> DEFINE a == c[d]  l == lcl[d]  b == x[d]  s == y[d]
  <2>4. a \in 0..(l - 1) /\ l \in Nat \ {0} /\ b \in Int /\ s = a + l * b
    BY <2>1, <2>2, <2>3
  <2> HIDE DEF a, l, b, s
  <2>5. s \in Int
    BY <2>4
  <2>6. s \div l = b /\ s % l = a
    BY <2>4, <2>5, DivMod
  <2> QED BY <1>4, <2>2, <2>6 DEF a, l, b, s
<1> QED BY <1>4, <1>5

\* The node that has site g of the lattice, and where.
Owner(g) == [d \in Dims |-> Coor(g, glb)[d] \div lcl[d]]
Place(g) == [d \in Dims |-> Coor(g, glb)[d] % lcl[d]]

LEMMA OwnSite ==
  ASSUME JobOK, NEW g \in 0..(Vol - 1)
  PROVE  /\ In(Owner(g), grid, dims) /\ Number(Place(g), lcl, dims) \in Sites
         /\ lcl2glb(Number(Place(g), lcl, dims), Owner(g)) = g
         /\ \A d \in 1..dims : Coor(Number(Place(g), lcl, dims), lcl)[d] = Place(g)[d]
<1> DEFINE y == Coor(g, glb)  x == Owner(g)  c == Place(g)  k == Number(c, lcl, dims)
<1>1. In(y, glb, dims) /\ Number(y, glb, dims) = g
  BY Boxes, Volumes, NumberCoor
<1>2. ASSUME NEW d \in 1..dims
      PROVE  /\ c[d] \in 0..(lcl[d] - 1) /\ x[d] \in 0..(grid[d] - 1)
             /\ y[d] = c[d] + lcl[d] * x[d]
  <2>1. d \in Dims /\ y[d] \in 0..(glb[d] - 1)
    BY <1>1, Boxes DEF Dims, In
  <2>2. lcl[d] \in Nat \ {0} /\ grid[d] \in Nat \ {0} /\ glb[d] = lcl[d] * grid[d]
    BY <2>1, Boxes DEF Box
  <2>3. c[d] = y[d] % lcl[d] /\ x[d] = y[d] \div lcl[d]
    BY <2>1 DEF Owner, Place
  <2> HIDE DEF c, x, y
  <2> DEFINE l == lcl[d]  s == y[d]  m == grid[d]
  <2>4. l \in Nat \ {0} /\ m \in Nat \ {0} /\ s \in Nat /\ s < l * m /\ s \in Int
    <3>1. glb[d] \in Nat
      BY <2>1, Boxes DEF Box
    <3> QED BY <2>1, <2>2, <3>1
  <2> HIDE DEF l, s, m
  <2>5. s \div l \in Nat /\ s % l \in 0..(l - 1) /\ s = l * (s \div l) + (s % l)
    BY <2>4, QuotRem, Zenon
  <2>6. s \div l < m
    BY <2>4, DivLess
  <2> DEFINE p == s \div l  q == s % l
  <2>7. p \in Nat /\ q \in 0..(l - 1) /\ s = l * p + q /\ p < m
    BY <2>5, <2>6
  <2> HIDE DEF p, q
  <2>8. s = q + l * p /\ p \in 0..(m - 1)
    <3>1. l * p \in Int
      BY <2>4, <2>7
    <3> QED BY <2>4, <2>7, <3>1
  <2> QED BY <2>3, <2>7, <2>8 DEF p, q, l, m, s
<1>3. In(c, lcl, dims) /\ In(x, grid, dims)
  BY <1>2, Zenon DEF In
<1>4. k \in Sites /\ \A d \in 1..dims : Coor(k, lcl)[d] = c[d]
  BY <1>3, Boxes, Volumes, CoorNumber DEF Sites
<1>5. lcl2glb(k, x) = Number(GloCoor(Coor(k, lcl), x), glb, dims)
  BY Lcl2Glb
<1>6. \A d \in 1..dims : GloCoor(Coor(k, lcl), x)[d] = y[d]
  <2>1. \A d \in 1..dims : d \in Dims
    BY Boxes DEF Dims
  <2> HIDE DEF c, x, y, k
  <2> QED BY <1>2, <1>4, <2>1 DEF GloCoor
<1>7. lcl2glb(k, x) = g
  BY <1>1, <1>5, <1>6, Boxes, SameNumber
<1> QED BY <1>3, <1>4, <1>7

-----------------------------------------------------------------------------
(* Rows.                                                                   *)

\* A multiple of b stays b away from the next multiples.
LEMMA Aligned ==
  ASSUME NEW b \in Nat \ {0}, NEW u \in Int, NEW v \in Int, u % b = 0, v % b = 0, u < v
  PROVE  u + b <= v
<1> DEFINE p == u \div b  q == v \div b
<1>1. p \in Int /\ q \in Int /\ u = b * p + (u % b) /\ v = b * q + (v % b)
  BY QuotRem, Zenon
<1>2. u = b * p /\ v = b * q
  <2> HIDE DEF p, q
  <2>1. b * p \in Int /\ b * q \in Int
    BY <1>1
  <2> QED BY <1>1, <2>1
<1> HIDE DEF p, q
<1>3. b * (q - p) = v - u /\ b * (p - q) = u - v
  BY <1>1, <1>2
<1>4. q - p >= 1
  <2>1. SUFFICES ASSUME p - q >= 0 PROVE FALSE
    BY <1>1
  <2>2. b * (p - q) >= 0
    BY <1>1, <2>1
  <2> QED BY <1>3, <2>2
<1>5. b * (q - p) >= b
  <2>1. \A z \in Int : z >= 1 => b * z >= b
    BY SMTT(30)
  <2> QED BY <1>1, <1>4, <2>1
<1> QED BY <1>3, <1>5

LEMMA Multiple ==
  ASSUME NEW b \in Nat \ {0}, NEW z \in Int
  PROVE  (b * z) % b = 0 /\ (b * z) \div b = z
<1> DEFINE a == b * z
<1>1. a \in Int /\ a = 0 + b * z /\ 0 \in 0..(b - 1)
  OBVIOUS
<1> HIDE DEF a
<1>2. a % b = 0 /\ a \div b = z
  BY <1>1, DivMod
<1> QED BY <1>2 DEF a

\* The sum with a multiple has the same remainder.
LEMMA ModSum ==
  ASSUME NEW b \in Nat \ {0}, NEW u \in Int, NEW v \in Int, v % b = 0
  PROVE  (u + v) % b = u % b /\ (u + v) \div b = (u \div b) + (v \div b)
<1> DEFINE p == u \div b  q == v \div b  r == u % b
<1>1. p \in Int /\ q \in Int /\ r \in 0..(b - 1)
      /\ u = b * p + r /\ v = b * q + (v % b)
  BY QuotRem, Zenon
<1> HIDE DEF p, q, r
<1>2. u + v = r + b * (p + q)
  <2>1. b * p \in Int /\ b * q \in Int /\ b * (p + q) = b * p + b * q
    BY <1>1
  <2> QED BY <1>1, <2>1
<1> DEFINE s == u + v  t == p + q
<1>3. s \in Int /\ t \in Int /\ s = r + b * t
  BY <1>1, <1>2
<1> HIDE DEF s, t
<1>4. s \div b = t /\ s % b = r
  BY <1>1, <1>3, DivMod
<1> QED BY <1>4 DEF p, q, r, s, t

LEMMA RowsFacts ==
  ASSUME JobOK
  PROVE  /\ lcl[1] \in Nat \ {0}
         /\ lcl_vol % lcl[1] = 0 /\ glb[1] % lcl[1] = 0
         /\ \A k \in Nat : Coor(k, lcl)[1] = k % lcl[1]
         /\ \A k \in Nat : Coor(k, glb)[1] = k % glb[1]
<1>1. lcl \in Box /\ glb \in Box /\ grid \in Box /\ dims \in {4, 5}
  BY Boxes
<1>2. lcl[1] \in Nat \ {0} /\ grid[1] \in Nat \ {0} /\ glb[1] = lcl[1] * grid[1]
  BY Boxes DEF Box, Dims
<1>3. ASSUME NEW t \in Box, NEW k \in Nat PROVE Coor(k, t)[1] = k % t[1]
  <2>1. 1 \in Dims /\ 1 - 1 = 0
    BY DEF Dims
  <2>2. Coor(k, t)[1] = Quot(k, t, 1 - 1) % t[1] /\ Quot(k, t, 0) = k
    BY <2>1, CoorChain
  <2> QED BY <2>1, <2>2
<1>4. ASSUME NEW d \in 0..4
      PROVE  \E z \in Nat : Prod(lcl, d + 1) = lcl[1] * z
  <2>1. Prod(lcl, 1) = lcl[1] * 1
    <3>1. Prod(lcl, 0) = 1 /\ Prod(lcl, 1) = Prod(lcl, 1 - 1) * lcl[1]
      BY <1>1, ProdUp DEF Dims
    <3> QED BY <1>2, <3>1
  <2>2. ASSUME NEW e \in 1..4, NEW z \in Nat, Prod(lcl, e) = lcl[1] * z
        PROVE  \E y \in Nat : Prod(lcl, e + 1) = lcl[1] * y
    <3>1. e + 1 \in Dims /\ (e + 1) - 1 = e
      BY DEF Dims
    <3>2. Prod(lcl, e + 1) = Prod(lcl, e) * lcl[e + 1] /\ lcl[e + 1] \in Nat
      BY <1>1, <3>1, ProdUp DEF Box
    <3>3. (lcl[1] * z) * lcl[e + 1] = lcl[1] * (z * lcl[e + 1]) /\ z * lcl[e + 1] \in Nat
      BY <1>2, <3>2
    <3> QED BY <2>2, <3>2, <3>3
  <2>3. \E z \in Nat : Prod(lcl, 1) = lcl[1] * z
    BY <2>1
  <2>4. \E z \in Nat : Prod(lcl, 2) = lcl[1] * z
    <3>1. 1 \in 1..4 /\ 1 + 1 = 2
      OBVIOUS
    <3> QED BY <2>2, <2>3, <3>1
  <2>5. \E z \in Nat : Prod(lcl, 3) = lcl[1] * z
    <3>1. 2 \in 1..4 /\ 2 + 1 = 3
      OBVIOUS
    <3> QED BY <2>2, <2>4, <3>1
  <2>6. \E z \in Nat : Prod(lcl, 4) = lcl[1] * z
    <3>1. 3 \in 1..4 /\ 3 + 1 = 4
      OBVIOUS
    <3> QED BY <2>2, <2>5, <3>1
  <2>7. \E z \in Nat : Prod(lcl, 5) = lcl[1] * z
    <3>1. 4 \in 1..4 /\ 4 + 1 = 5
      OBVIOUS
    <3> QED BY <2>2, <2>6, <3>1
  <2>8. d + 1 = 1 \/ d + 1 = 2 \/ d + 1 = 3 \/ d + 1 = 4 \/ d + 1 = 5
    OBVIOUS
  <2> QED BY <2>3, <2>4, <2>5, <2>6, <2>7, <2>8
<1>5. lcl_vol % lcl[1] = 0
  <2>1. PICK z \in Nat : Prod(lcl, 5) = lcl[1] * z
    <3>1. 4 \in 0..4 /\ 4 + 1 = 5
      OBVIOUS
    <3> QED BY <1>4, <3>1
  <2>2. z \in Int
    OBVIOUS
  <2> QED BY <1>2, <2>1, <2>2, Multiple DEF lcl_vol
<1>6. glb[1] % lcl[1] = 0
  BY <1>2, Multiple
<1> QED BY <1>1, <1>2, <1>3, <1>5, <1>6

\* A row is mapped as a whole.
LEMMA RowSite ==
  ASSUME JobOK, NEW k \in Rows, NEW q \in 0..(lcl[1] - 1), NEW x, In(x, grid, dims)
  PROVE  /\ k \in Sites /\ k + q \in Sites
         /\ lcl2glb(k + q, x) = lcl2glb(k, x) + q
         /\ lcl2glb(k, x) % lcl[1] = 0
<1>1. lcl[1] \in Nat \ {0} /\ lcl_vol % lcl[1] = 0 /\ glb[1] % lcl[1] = 0
  BY RowsFacts
<1>2. k \in Sites /\ k \in Nat /\ k % lcl[1] = 0 /\ k < lcl_vol /\ lcl_vol \in Nat
  BY Volumes DEF Rows, Sites
<1>3. k + q \in Sites /\ k + q \in Nat
  <2>1. k + lcl[1] <= lcl_vol
    BY <1>1, <1>2, Aligned
  <2> QED BY <1>1, <1>2, <2>1 DEF Sites
<1> DEFINE a == Coor(k, lcl)  b == Coor(k + q, lcl)
<1>4. Quot(k + q, lcl, 1) = Quot(k, lcl, 1) /\ a[1] = 0 /\ b[1] = q
  <2>1. Prod(lcl, 1) = lcl[1]
    <3>1. Prod(lcl, 0) = 1 /\ Prod(lcl, 1) = Prod(lcl, 1 - 1) * lcl[1]
      BY Boxes, ProdUp DEF Dims
    <3> QED BY <1>1, <3>1
  <2>2. q % lcl[1] = q /\ q \div lcl[1] = 0
    BY <1>1, DivSmall
  <2>3. (q + k) % lcl[1] = q % lcl[1] /\ (q + k) \div lcl[1] = (q \div lcl[1]) + (k \div lcl[1])
    <3>1. q \in Int /\ k \in Int
      BY <1>2
    <3> QED BY <1>1, <1>2, <3>1, ModSum
  <2>4. q + k = k + q /\ k \div lcl[1] \in Int
    BY <1>1, <1>2, QuotRem
  <2>5. a[1] = k % lcl[1] /\ b[1] = (k + q) % lcl[1]
    BY <1>2, <1>3, RowsFacts
  <2>6. (k + q) \div lcl[1] = k \div lcl[1]
    <3> DEFINE u == k \div lcl[1]  v == (k + q) \div lcl[1]  w == q \div lcl[1]
    <3>1. v = w + u /\ w = 0 /\ u \in Int
      BY <2>2, <2>3, <2>4
    <3> HIDE DEF u, v, w
    <3>2. v = u
      BY <3>1
    <3> QED BY <3>2 DEF u, v
  <2>7. a[1] = 0 /\ b[1] = q
    BY <1>2, <2>2, <2>3, <2>4, <2>5
  <2> QED BY <2>1, <2>6, <2>7 DEF Quot
<1>5. ASSUME NEW d \in 2..5 PROVE a[d] = b[d] /\ Quot(k + q, lcl, d) = Quot(k, lcl, d)
  <2>1. ASSUME NEW e \in 2..5, Quot(k + q, lcl, e - 1) = Quot(k, lcl, e - 1)
        PROVE  a[e] = b[e] /\ Quot(k + q, lcl, e) = Quot(k, lcl, e)
    <3>1. e \in Dims
      BY DEF Dims
    <3>2. /\ a[e] = Quot(k, lcl, e - 1) % lcl[e]
          /\ Quot(k, lcl, e) = Quot(k, lcl, e - 1) \div lcl[e]
      BY <1>2, <3>1, Boxes, CoorChain, Zenon
    <3>3. /\ b[e] = Quot(k + q, lcl, e - 1) % lcl[e]
          /\ Quot(k + q, lcl, e) = Quot(k + q, lcl, e - 1) \div lcl[e]
      BY <1>3, <3>1, Boxes, CoorChain, Zenon
    <3> QED BY <2>1, <3>2, <3>3, Zenon
  <2>2. 2 - 1 = 1 /\ 3 - 1 = 2 /\ 4 - 1 = 3 /\ 5 - 1 = 4
        /\ 2 \in 2..5 /\ 3 \in 2..5 /\ 4 \in 2..5 /\ 5 \in 2..5
    OBVIOUS
  <2> HIDE DEF a, b
  <2>3. a[2] = b[2] /\ Quot(k + q, lcl, 2) = Quot(k, lcl, 2)
    BY <1>4, <2>1, <2>2
  <2>4. a[3] = b[3] /\ Quot(k + q, lcl, 3) = Quot(k, lcl, 3)
    BY <2>1, <2>2, <2>3
  <2>5. a[4] = b[4] /\ Quot(k + q, lcl, 4) = Quot(k, lcl, 4)
    BY <2>1, <2>2, <2>4
  <2>6. a[5] = b[5] /\ Quot(k + q, lcl, 5) = Quot(k, lcl, 5)
    BY <2>1, <2>2, <2>5
  <2>7. d = 2 \/ d = 3 \/ d = 4 \/ d = 5
    OBVIOUS
  <2> QED BY <2>3, <2>4, <2>5, <2>6, <2>7
<1> DEFINE y == GloCoor(a, x)  z == GloCoor(b, x)
           R == Rest(y, glb, dims, 1)
<1>6. In(y, glb, dims) /\ In(z, glb, dims)
  BY <1>2, <1>3, SiteCoor, GlobalIn
<1>7. Rest(z, glb, dims, 1) = R
  <2>1. z[2] = y[2] /\ z[3] = y[3] /\ z[4] = y[4] /\ z[5] = y[5]
    <3>1. \A d \in Dims : y[d] = a[d] + lcl[d] * x[d] /\ z[d] = b[d] + lcl[d] * x[d]
      BY DEF GloCoor
    <3>2. a[2] = b[2] /\ a[3] = b[3] /\ a[4] = b[4] /\ a[5] = b[5]
      BY <1>5
    <3> HIDE DEF a, b, y, z
    <3> QED BY <3>1, <3>2 DEF Dims
  <2> HIDE DEF y, z
  <2>2. 1 # 0
    OBVIOUS
  <2> QED BY <2>1, <2>2, Zenon DEF Rest
<1>8. lcl2glb(k, x) = y[1] + glb[1] * R /\ lcl2glb(k + q, x) = z[1] + glb[1] * R
      /\ R \in Nat
  <2>1. lcl2glb(k, x) = Rest(y, glb, dims, 0) /\ lcl2glb(k + q, x) = Rest(z, glb, dims, 0)
    BY Lcl2Glb DEF Rest
  <2>2. 1 \in 1..dims /\ 1 - 1 = 0 /\ 1 \in 0..5 /\ glb \in Box /\ dims \in {4, 5}
    BY Boxes
  <2> HIDE DEF y, z
  <2>3. R \in Nat /\ Rest(y, glb, dims, 0) = y[1] + glb[1] * Rest(y, glb, dims, 1)
    <3>1. \A d \in 1..dims : Rest(y, glb, dims, d - 1) = y[d] + glb[d] * Rest(y, glb, dims, d)
      BY <1>6, <2>2, RestUp, Zenon
    <3>2. R \in Nat
      BY <1>6, <2>2, RestUp
    <3> HIDE DEF R
    <3> QED BY <2>2, <3>1, <3>2
  <2>4. Rest(z, glb, dims, 0) = z[1] + glb[1] * Rest(z, glb, dims, 1)
    <3>1. \A d \in 1..dims : Rest(z, glb, dims, d - 1) = z[d] + glb[d] * Rest(z, glb, dims, d)
      BY <1>6, <2>2, RestUp, Zenon
    <3> QED BY <2>2, <3>1
  <2> QED BY <1>7, <2>1, <2>3, <2>4
<1>9. y[1] = lcl[1] * x[1] /\ z[1] = q + lcl[1] * x[1] /\ x[1] \in Nat
      /\ lcl[1] * x[1] \in Nat
  <2>1. x[1] \in Nat
    <3>1. 1 \in 1..dims /\ 1 \in Dims /\ grid[1] \in Nat
      BY Boxes DEF Dims, Box
    <3>2. x[1] \in 0..(grid[1] - 1)
      BY <3>1 DEF In
    <3> QED BY <3>1, <3>2
  <2>2. y[1] = a[1] + lcl[1] * x[1] /\ z[1] = b[1] + lcl[1] * x[1]
    BY DEF GloCoor, Dims
  <2>3. lcl[1] * x[1] \in Nat
    BY <1>1, <2>1
  <2> HIDE DEF a, b, y, z
  <2> QED BY <1>4, <2>1, <2>2, <2>3
<1> HIDE DEF a, b, y, z, R
<1> DEFINE m == lcl[1] * x[1]  s == glb[1] * R
<1>10. s \in Nat
  <2>1. glb[1] \in Nat
    BY Boxes DEF Dims, Box
  <2> QED BY <1>8, <2>1
<1>11. lcl2glb(k, x) = m + s /\ lcl2glb(k + q, x) = (q + m) + s /\ m \in Nat
  BY <1>8, <1>9
<1>12. m % lcl[1] = 0 /\ s % lcl[1] = 0
  <2>1. m % lcl[1] = 0
    <3>1. x[1] \in Int
      BY <1>9
    <3> QED BY <1>1, <3>1, Multiple, Zenon
  <2>2. s = lcl[1] * (grid[1] * R) /\ grid[1] * R \in Int
    <3>1. glb[1] = lcl[1] * grid[1] /\ grid[1] \in Nat
      BY Boxes DEF Dims, Box
    <3> QED BY <1>1, <1>8, <3>1
  <2>3. (lcl[1] * (grid[1] * R)) % lcl[1] = 0
    BY <1>1, <2>2, Multiple
  <2> QED BY <2>1, <2>2, <2>3
<1> HIDE DEF m, s
<1>13. (m + s) % lcl[1] = 0
  <2>1. (m + s) % lcl[1] = m % lcl[1]
    <3>1. m \in Int /\ s \in Int
      BY <1>10, <1>11
    <3> QED BY <1>1, <1>12, <3>1, ModSum
  <2> QED BY <1>12, <2>1
<1> QED BY <1>2, <1>3, <1>10, <1>11, <1>13

-----------------------------------------------------------------------------
(* What remap() picks.                                                     *)

LEMMA NodeCoor ==
  ASSUME JobOK, NEW n \in UniqueID
  PROVE  /\ In(node_coor(n), grid, 5) /\ In(node_coor(n), grid, dims)
         /\ mynodeid(n) \in 0..(Parts - 1) /\ n \in Nat
         /\ \A d \in 1..dims : Coor(mynodeid(n), grid)[d] = node_coor(n)[d]
<1>1. grid \in Box /\ dims \in {4, 5} /\ n \in Nat
  BY Boxes DEF UniqueID
<1>2. In(node_coor(n), grid, 5)
  <2>1. \A d \in 1..5 : d \in Dims
    BY DEF Dims
  <2> QED BY <1>1, <2>1, CoorChain DEF In, node_coor
<1>3. In(node_coor(n), grid, dims)
  BY <1>1, <1>2 DEF In
<1>4. /\ Number(node_coor(n), grid, dims) \in 0..(Prod(grid, dims) - 1)
      /\ \A d \in 1..dims :
           Coor(Number(node_coor(n), grid, dims), grid)[d] = node_coor(n)[d]
  BY <1>1, <1>3, CoorNumber, Zenon
<1> QED BY <1>1, <1>2, <1>3, <1>4 DEF mynodeid, Parts

LEMMA NodeX ==
  ASSUME JobOK, NEW n \in UniqueID, NEW i \in Nat
  PROVE  /\ In(node_x(n, i), grid, 5) /\ In(node_x(n, i), grid, dims)
         /\ \A d \in Dims : node_x(n, i)[d] = (Quot(i, grid, d - 1) + node_coor(n)[d]) % grid[d]
<1>1. grid \in Box /\ dims \in {4, 5}
  BY Boxes
<1>2. ASSUME NEW d \in Dims
      PROVE  /\ node_x(n, i)[d] = (Quot(i, grid, d - 1) + node_coor(n)[d]) % grid[d]
             /\ node_x(n, i)[d] \in 0..(grid[d] - 1)
  <2>1. node_x(n, i)[d] = (Quot(i, grid, d - 1) + node_coor(n)[d]) % grid[d]
    BY Zenon DEF node_x, Quot
  <2>2. d - 1 \in 0..5 /\ d \in 1..5 /\ grid[d] \in Nat \ {0}
    BY <1>1 DEF Dims, Box
  <2>3. node_coor(n)[d] \in 0..(grid[d] - 1)
    BY <2>2, NodeCoor DEF In
  <2>4. Quot(i, grid, d - 1) \in Nat
    BY <1>1, <2>2, CoorChain
  <2> DEFINE a == Quot(i, grid, d - 1) + node_coor(n)[d]
  <2>5. a \in Int
    BY <2>2, <2>3, <2>4
  <2> HIDE DEF a
  <2>6. a % grid[d] \in 0..(grid[d] - 1)
    BY <2>2, <2>5, QuotRem, Zenon
  <2> QED BY <2>1, <2>6 DEF a
<1>3. In(node_x(n, i), grid, 5)
  BY <1>2 DEF In, Dims
<1>4. In(node_x(n, i), grid, dims)
  BY <1>1, <1>3 DEF In
<1> QED BY <1>2, <1>3, <1>4

\* The dimensions after the last one do not count.
LEMMA SameOwner ==
  ASSUME JobOK, NEW k, NEW x, NEW y, \A d \in 1..dims : x[d] = y[d]
  PROVE  lcl2glb(k, x) = lcl2glb(k, y) /\ Number(x, grid, dims) = Number(y, grid, dims)
<1>1. dims \in {4, 5} /\ \A d \in 1..dims : d \in Dims
  BY Boxes DEF Dims
<1>2. \A d \in 1..dims : GloCoor(Coor(k, lcl), x)[d] = GloCoor(Coor(k, lcl), y)[d]
  BY <1>1 DEF GloCoor
<1>3. Number(x, grid, dims) = Number(y, grid, dims)
  BY <1>1, SameNumber, Zenon
<1>4. Number(GloCoor(Coor(k, lcl), x), glb, dims) = Number(GloCoor(Coor(k, lcl), y), glb, dims)
  <2>1. ASSUME NEW v, NEW w, \A d \in 1..dims : v[d] = w[d]
        PROVE  Number(v, glb, dims) = Number(w, glb, dims)
    <3>1. \A t : Number(v, t, dims) = Number(w, t, dims)
      BY <1>1, <2>1, SameNumber
    <3> QED BY <3>1
  <2> QED BY <1>2, <2>1
<1> QED BY <1>3, <1>4, Lcl2Glb

\* The place in the file of site k in part b.
Filed(b, k) == b * lcl_vol + k

LEMMA FiledFacts ==
  ASSUME JobOK, NEW b \in 0..(Parts - 1), NEW k \in Sites
  PROVE  /\ Filed(b, k) \in 0..(Vol - 1)
         /\ Filed(b, k) \div lcl_vol = b /\ Filed(b, k) % lcl_vol = k
         /\ Filed(b, k) % lcl[1] = k % lcl[1]
<1> DEFINE l == lcl_vol  a == Filed(b, k)
<1>1. l \in Nat \ {0} /\ k \in 0..(l - 1) /\ b \in Nat /\ Parts \in Nat
      /\ Vol = l * Parts
  BY Volumes DEF Sites
<1>2. a = k + l * b
  <2>1. b * l = l * b /\ l * b \in Int
    BY <1>1
  <2> QED BY <1>1, <2>1 DEF Filed
<1> HIDE DEF l, a
<1> DEFINE u == l * b  v == l * Parts  w == l * (Parts - 1 - b)
<1>3. u \in Nat /\ v \in Nat /\ w \in Nat /\ w = v - l - u
  <2>1. Parts - 1 - b \in Nat
    BY <1>1
  <2>2. w = v - l - u
    BY <1>1
  <2> QED BY <1>1, <2>1, <2>2
<1> HIDE DEF u, v, w
<1>4. a = k + u /\ a \in 0..(v - 1) /\ a \in Int
  BY <1>1, <1>2, <1>3 DEF u
<1>5. a \div l = b /\ a % l = k
  <2>1. l \in Nat \ {0} /\ b \in Int /\ k \in 0..(l - 1) /\ a \in Int
    BY <1>1, <1>4
  <2>2. a = k + l * b
    BY <1>2
  <2> QED BY <2>1, <2>2, DivMod, Zenon
<1>6. a % lcl[1] = k % lcl[1]
  <2>1. lcl[1] \in Nat \ {0} /\ l % lcl[1] = 0
    BY RowsFacts DEF l
  <2>2. u % lcl[1] = 0
    <3> DEFINE z == l \div lcl[1]
    <3>0. l \in Int
      BY <1>1
    <3>1. z \in Int /\ l = lcl[1] * z + (l % lcl[1]) /\ l \in Int
      BY <2>1, <3>0, QuotRem, Zenon
    <3>2. l = lcl[1] * z
      <4> HIDE DEF z
      <4> QED BY <2>1, <3>1
    <3> HIDE DEF z
    <3>3. u = lcl[1] * (z * b) /\ z * b \in Int
      BY <1>1, <2>1, <3>1, <3>2 DEF u
    <3> QED BY <2>1, <3>3, Multiple
  <2>3. k \in Int /\ u \in Int
    BY <1>1, <1>3
  <2>4. (k + u) % lcl[1] = k % lcl[1]
    BY <2>1, <2>2, <2>3, ModSum, Zenon
  <2> QED BY <1>4, <2>4
<1>7. a \in 0..(Vol - 1)
  BY <1>1, <1>4 DEF v
<1> QED BY <1>5, <1>6, <1>7 DEF l, a

LEMMA PartOf ==
  ASSUME JobOK, NEW g \in 0..(Vol - 1)
  PROVE  /\ g \div lcl_vol \in 0..(Parts - 1) /\ g % lcl_vol \in Sites
         /\ g = Filed(g \div lcl_vol, g % lcl_vol)
<1>1. lcl_vol \in Nat \ {0} /\ Vol = lcl_vol * Parts /\ Parts \in Nat /\ Vol \in Nat
  BY Volumes
<1> DEFINE l == lcl_vol
<1> HIDE DEF l
<1>2. g \in Nat /\ g \in Int /\ g < l * Parts
  BY <1>1 DEF l
<1>3. g \div l \in Nat /\ g % l \in 0..(l - 1) /\ g = l * (g \div l) + (g % l)
  BY <1>1, <1>2, QuotRem, Zenon DEF l
<1>4. g \div l < Parts
  BY <1>1, <1>2, DivLess DEF l
<1> DEFINE q == g \div l  r == g % l
<1>5. q \in Nat /\ r \in 0..(l - 1) /\ g = l * q + r /\ q < Parts /\ l \in Nat
  BY <1>1, <1>3, <1>4 DEF l
<1> HIDE DEF q, r
<1>6. q \in 0..(Parts - 1) /\ g = q * l + r
  <2>1. q * l = l * q
    BY <1>5
  <2> QED BY <1>1, <1>5, <2>1
<1> QED BY <1>5, <1>6 DEF l, q, r, Sites, Filed

\* In the last dimension, the parts of the file are those of the nodes.
LEMMA LastCoor ==
  ASSUME JobOK, NEW g \in 0..(Vol - 1)
  PROVE  Owner(g)[dims] = Coor(g \div lcl_vol, grid)[dims]
<1>1. /\ dims \in {4, 5} /\ grid \in Box /\ glb \in Box /\ lcl \in Box
      /\ dims \in Dims /\ dims - 1 \in 0..5 /\ dims \in 0..5 /\ dims - 1 \in 0..dims
  BY Boxes DEF Dims
<1>2. g \in Nat /\ g < Prod(glb, dims) /\ Vol \in Nat
  BY Volumes
<1>3. Coor(g, glb)[dims] = g \div Prod(glb, dims - 1)
  <2>1. Quot(g, glb, dims) = 0
    BY <1>1, <1>2, QuotZero
  <2>2. /\ Quot(g, glb, dims - 1) = Coor(g, glb)[dims] + glb[dims] * Quot(g, glb, dims)
        /\ Coor(g, glb)[dims] \in 0..(glb[dims] - 1)
    BY <1>1, <1>2, CoorChain, Zenon
  <2>3. glb[dims] \in Nat
    BY <1>1 DEF Box
  <2> QED BY <2>1, <2>2, <2>3 DEF Quot
<1>4. Owner(g)[dims] = (g \div Prod(glb, dims - 1)) \div lcl[dims]
  BY <1>1, <1>3 DEF Owner
<1> DEFINE A == Prod(lcl, dims - 1)  B == Prod(grid, dims - 1)  l == lcl[dims]
           C == Prod(glb, dims - 1)
<1>5. A \in Nat \ {0} /\ B \in Nat \ {0} /\ C \in Nat \ {0} /\ l \in Nat \ {0}
      /\ C = A * B /\ lcl_vol = A * l
  <2>1. A \in Nat \ {0} /\ B \in Nat \ {0} /\ C \in Nat \ {0} /\ l \in Nat \ {0}
    BY <1>1, ProdUp DEF Box
  <2>2. C = A * B
    BY <1>1, Volumes
  <2>3. lcl_vol = A * l
    BY <1>1, ProdUp, Volumes
  <2> QED BY <2>1, <2>2, <2>3
<1> HIDE DEF A, B, C, l
<1>6. (g \div C) \div l = g \div (C * l)
  BY <1>2, <1>5, DivDiv
<1>7. C * l = lcl_vol * B
  BY <1>5
<1>8. (g \div lcl_vol) \div B = g \div (lcl_vol * B)
  <2>1. lcl_vol \in Nat \ {0}
    BY Volumes
  <2> QED BY <1>2, <1>5, <2>1, DivDiv
<1> DEFINE b == g \div lcl_vol
<1>9. b \in 0..(Parts - 1) /\ Parts \in Nat
  BY PartOf, Volumes
<1> HIDE DEF b
<1>10. Coor(b, grid)[dims] = b \div B
  <2>0. b \in Nat /\ b < Prod(grid, dims)
    BY <1>9 DEF Parts
  <2>1. Quot(b, grid, dims) = 0
    BY <1>1, <2>0, QuotZero
  <2>2. /\ Quot(b, grid, dims - 1) = Coor(b, grid)[dims] + grid[dims] * Quot(b, grid, dims)
        /\ Coor(b, grid)[dims] \in 0..(grid[dims] - 1)
    BY <1>1, <2>0, CoorChain, Zenon
  <2>3. grid[dims] \in Nat
    BY <1>1 DEF Box
  <2> QED BY <2>1, <2>2, <2>3 DEF Quot, B
<1> QED BY <1>4, <1>6, <1>7, <1>8, <1>10 DEF b, C, l

\* Going round a ring: from c to x.
LEMMA RoundTo ==
  ASSUME NEW N \in Nat \ {0}, NEW c \in 0..(N - 1), NEW x \in 0..(N - 1), NEW a \in Nat,
         a % N = (x + N - c) % N
  PROVE  (a + c) % N = x
<1> DEFINE e == x + N - c  p == a \div N  q == e \div N  r == e % N
<1>1. e \in Int
  OBVIOUS
<1> HIDE DEF e
<1>2. p \in Int /\ a = N * p + r
  <2>1. a \in Int
    OBVIOUS
  <2> QED BY <2>1, QuotRem, Zenon DEF r, e
<1>3. q \in Int /\ r \in 0..(N - 1) /\ e = N * q + r
  BY <1>1, QuotRem, Zenon
<1> HIDE DEF p, q, r
<1> DEFINE z == p - q + 1  u == a + c
<1>4. u = x + N * z /\ z \in Int /\ u \in Int
  <2>1. N * z = N * p - N * q + N /\ N * p \in Int /\ N * q \in Int
    BY <1>2, <1>3
  <2> QED BY <1>2, <1>3, <2>1 DEF e
<1> HIDE DEF u, z
<1>5. u % N = x
  BY <1>4, DivMod
<1> QED BY <1>5 DEF u

\* Within Shifts("remap") shifts a node sees the data of all nodes that agree
\* with it in the last dimension.
LEMMA SeesAll ==
  ASSUME JobOK, NEW n \in UniqueID, NEW x, In(x, grid, dims),
         x[dims] = node_coor(n)[dims]
  PROVE  \E i \in 0..(Prod(grid, dims - 1) - 1) :
           \A d \in 1..dims : node_x(n, i)[d] = x[d]
<1> DEFINE c == node_coor(n)
           z == [d \in 1..dims |-> IF d = dims THEN 0 ELSE (x[d] + grid[d] - c[d]) % grid[d]]
           i == Number(z, grid, dims)
<1>1. /\ dims \in {4, 5} /\ grid \in Box /\ dims \in Dims /\ dims - 1 \in 0..5
      /\ dims - 1 \in 0..dims /\ dims \in 1..dims /\ In(c, grid, dims)
      /\ \A d \in 1..dims : d \in Dims /\ d - 1 \in 0..5 /\ d - 1 \in 0..dims
                            /\ grid[d] \in Nat \ {0}
  BY Boxes, NodeCoor DEF Dims, Box
<1>2. \A d \in 1..dims : c[d] \in 0..(grid[d] - 1) /\ x[d] \in 0..(grid[d] - 1)
  BY <1>1 DEF In
<1>3. In(z, grid, dims)
  <2> SUFFICES ASSUME NEW d \in 1..dims PROVE z[d] \in 0..(grid[d] - 1)
    BY Zenon DEF In
  <2>1. z[d] = IF d = dims THEN 0 ELSE (x[d] + grid[d] - c[d]) % grid[d]
    OBVIOUS
  <2>2. grid[d] \in Nat \ {0} /\ c[d] \in 0..(grid[d] - 1) /\ x[d] \in 0..(grid[d] - 1)
    BY <1>1, <1>2
  <2> HIDE DEF z, c
  <2> DEFINE e == x[d] + grid[d] - node_coor(n)[d]
  <2>3. e \in Int
    BY <2>2 DEF c
  <2> HIDE DEF e
  <2>4. e % grid[d] \in 0..(grid[d] - 1)
    BY <2>2, <2>3, QuotRem, Zenon
  <2> QED BY <2>1, <2>2, <2>4 DEF e, c
<1>4. /\ i \in 0..(Prod(grid, dims) - 1)
      /\ \A d \in 1..dims : Coor(i, grid)[d] = z[d]
      /\ \A d \in 0..dims : Quot(i, grid, d) = Rest(z, grid, dims, d)
  <2> HIDE DEF z
  <2>1. /\ Number(z, grid, dims) \in 0..(Prod(grid, dims) - 1)
        /\ \A d \in 1..dims : Coor(Number(z, grid, dims), grid)[d] = z[d]
        /\ \A d \in 0..dims : Quot(Number(z, grid, dims), grid, d) = Rest(z, grid, dims, d)
    <3>1. grid \in Box /\ dims \in {4, 5}
      BY <1>1
    <3> HIDE DEF i
    <3> QED BY <1>3, <3>1, CoorNumber, Zenon
  <2> QED BY <2>1
<1>5. z[dims] = 0 /\ \A d \in 1..dims : d # dims => z[d] = (x[d] + grid[d] - c[d]) % grid[d]
  BY <1>1
<1> HIDE DEF z, c
<1>6. i \in Nat
  <2>1. Prod(grid, dims) \in Nat
    BY Volumes DEF Parts
  <2> HIDE DEF i
  <2> QED BY <1>4, <2>1
<1>7. Quot(i, grid, dims - 1) = 0
  <2>1. Quot(i, grid, dims - 1) = Rest(z, grid, dims, dims - 1)
    BY <1>1, <1>4
  <2>0. \A d \in 1..dims : Rest(z, grid, dims, d - 1) = z[d] + grid[d] * Rest(z, grid, dims, d)
    BY <1>1, <1>3, RestUp, Zenon
  <2>2. Rest(z, grid, dims, dims - 1) = z[dims] + grid[dims] * Rest(z, grid, dims, dims)
    BY <1>1, <2>0, Zenon
  <2>3. Rest(z, grid, dims, dims) = 0
    BY <1>1, <1>3, RestUp, Zenon
  <2>4. grid[dims] \in Nat
    BY <1>1
  <2> QED BY <1>5, <2>1, <2>2, <2>3, <2>4
<1> HIDE DEF i
<1>8. i < Prod(grid, dims - 1) /\ Prod(grid, dims - 1) \in Nat
  BY <1>1, <1>6, <1>7, QuotZero, ProdUp
<1>9. ASSUME NEW d \in 1..dims PROVE node_x(n, i)[d] = x[d]
  <2>1. d \in Dims /\ grid[d] \in Nat \ {0} /\ Quot(i, grid, d - 1) \in Nat
    BY <1>1, <1>6, CoorChain
  <2>2. node_x(n, i)[d] = (Quot(i, grid, d - 1) + c[d]) % grid[d]
    BY <1>6, <2>1, NodeX DEF c
  <2>3. CASE d = dims
    <3>1. c[d] % grid[d] = c[d] /\ c[d] \in 0..(grid[d] - 1)
      BY <1>2, <2>1, DivSmall, Zenon
    <3>2. 0 + c[d] = c[d]
      BY <2>1, <3>1
    <3>3. node_x(n, i)[d] = (0 + c[d]) % grid[d]
      BY <1>7, <2>2, <2>3, Zenon
    <3>4. c[d] = x[d]
      BY <2>3 DEF c
    <3> QED BY <3>1, <3>2, <3>3, <3>4, Zenon
  <2>4. CASE d # dims
    <3>1. Quot(i, grid, d - 1) % grid[d] = (x[d] + grid[d] - c[d]) % grid[d]
      <4>1. Coor(i, grid)[d] = Quot(i, grid, d - 1) % grid[d]
        <5>1. grid \in Box
          BY <1>1
        <5>2. \A e \in Dims : Coor(i, grid)[e] = Quot(i, grid, e - 1) % grid[e]
          BY <1>6, <5>1, CoorChain, Zenon
        <5> QED BY <2>1, <5>2, Zenon
      <4> QED BY <1>4, <1>5, <2>4, <4>1
    <3> QED BY <1>2, <2>1, <2>2, <3>1, RoundTo
  <2> QED BY <2>3, <2>4
<1>10. i \in 0..(Prod(grid, dims - 1) - 1)
  BY <1>6, <1>8
<1> QED BY <1>9, <1>10

\* Where in the file the data for place k of the node at x come from or go
\* to, and where those that node n wants at place p do.
Key(x, k) == IF storing THEN lcl2glb(k, x) ELSE Filed(Number(x, grid, dims), k)
Goal(n, p) == IF storing THEN Filed(mynodeid(n), p) ELSE lcl2glb(p, node_coor(n))

LEMMA ModMod ==
  ASSUME NEW a \in Nat, NEW b \in Nat \ {0}, NEW c \in Nat \ {0}, c % b = 0
  PROVE  (a % c) % b = a % b
<1> DEFINE q == a \div c  r == a % c  z == c \div b
<1>0. a \in Int /\ c \in Int
  OBVIOUS
<1>1. q \in Int /\ r \in 0..(c - 1) /\ a = c * q + r
  BY <1>0, QuotRem, Zenon
<1>2. z \in Int /\ c = b * z + (c % b)
  BY <1>0, QuotRem, Zenon
<1> HIDE DEF q, r, z
<1> DEFINE y == c * q  w == z * q
<1>3. y = b * w /\ w \in Int /\ y \in Int
  <2>1. c = b * z
    BY <1>2
  <2> QED BY <1>1, <1>2, <2>1
<1>4. (b * w) % b = 0
  BY <1>3, Multiple, Zenon
<1>5. a = r + y /\ r \in Int
  BY <1>1
<1> HIDE DEF y, w
<1>6. (r + y) % b = r % b
  BY <1>3, <1>4, <1>5, ModSum, Zenon
<1> QED BY <1>5, <1>6 DEF r

LEMMA RowOf ==
  ASSUME JobOK, NEW p \in Sites
  PROVE  p - (p % lcl[1]) \in Rows /\ p % lcl[1] \in 0..(lcl[1] - 1)
<1> DEFINE b == lcl[1]  q == p \div b  r == p % b  w == b * q
<1>1. b \in Nat \ {0} /\ p \in Int /\ p \in Nat /\ p < lcl_vol /\ lcl_vol \in Nat
  BY RowsFacts, Volumes DEF Sites
<1> HIDE DEF b
<1>2. q \in Int /\ r \in 0..(b - 1) /\ p = b * q + r /\ q \in Nat
  BY <1>1, QuotRem, Zenon
<1> HIDE DEF q, r
<1>3. w % b = 0
  BY <1>1, <1>2, Multiple, Zenon
<1>4. w \in Nat /\ p = w + r
  BY <1>1, <1>2
<1> HIDE DEF w
<1>5. p - r = w /\ w \in Sites
  BY <1>1, <1>2, <1>4 DEF Sites
<1> QED BY <1>2, <1>3, <1>5 DEF b, r, Rows

\* The rows stay rows.
LEMMA RowPlace ==
  ASSUME JobOK, NEW g \in 0..(Vol - 1)
  PROVE  /\ Number(Place(g), lcl, dims) % lcl[1] = g % lcl[1]
         /\ (g % lcl_vol) % lcl[1] = g % lcl[1]
<1> DEFINE s == Number(Place(g), lcl, dims)
<1>1. /\ s \in Sites /\ \A d \in 1..dims : Coor(s, lcl)[d] = Place(g)[d]
  BY OwnSite, Zenon
<1>2. /\ g \in Nat /\ lcl[1] \in Nat \ {0} /\ glb[1] \in Nat \ {0}
      /\ lcl_vol \in Nat \ {0} /\ lcl_vol % lcl[1] = 0 /\ glb[1] % lcl[1] = 0
      /\ 1 \in 1..dims /\ 1 \in Dims /\ Vol \in Nat
  BY Volumes, Boxes, RowsFacts DEF Box, Dims
<1> HIDE DEF s
<1>3. s \in Nat
  BY <1>1, <1>2 DEF Sites
<1>4. s % lcl[1] = Place(g)[1]
  BY <1>1, <1>2, <1>3, RowsFacts
<1>5. Place(g)[1] = (g % glb[1]) % lcl[1]
  BY <1>2, RowsFacts DEF Place
<1>6. (g % glb[1]) % lcl[1] = g % lcl[1]
  BY <1>2, ModMod, Zenon
<1>7. (g % lcl_vol) % lcl[1] = g % lcl[1]
  BY <1>2, ModMod, Zenon
<1> QED BY <1>4, <1>5, <1>6, <1>7 DEF s

LEMMA InRow ==
  ASSUME JobOK, NEW k \in Rows, NEW q \in 0..(lcl[1] - 1)
  PROVE  k \in Sites /\ k + q \in Sites /\ k \in Nat /\ q \in Nat
<1>2. k \in Sites /\ k % lcl[1] = 0
  BY DEF Rows
<1>3. lcl[1] \in Nat \ {0} /\ lcl_vol \in Nat /\ lcl_vol % lcl[1] = 0
  BY RowsFacts, Volumes
<1>4. k \in Int /\ lcl_vol \in Int /\ k < lcl_vol /\ k >= 0
  BY <1>2, <1>3 DEF Sites
<1>5. k + lcl[1] <= lcl_vol
  BY <1>2, <1>3, <1>4, Aligned
<1> QED BY <1>2, <1>3, <1>4, <1>5 DEF Sites

LEMMA KeyUp ==
  ASSUME JobOK, NEW k \in Rows, NEW q \in 0..(lcl[1] - 1), NEW x, In(x, grid, dims)
  PROVE  /\ Key(x, k + q) = Key(x, k) + q
         /\ Key(x, k) \in 0..(Vol - 1) /\ Key(x, k) % lcl[1] = 0
<1>1. k \in Sites /\ k \in Nat /\ q \in Nat /\ k % lcl[1] = 0
  BY InRow DEF Rows
<1>2. CASE storing
  BY <1>1, <1>2, RowSite, GlobalSite DEF Key
<1>3. CASE ~storing
  <2>1. Number(x, grid, dims) \in 0..(Parts - 1)
    <3>1. grid \in Box /\ dims \in {4, 5}
      BY Boxes
    <3>2. Number(x, grid, dims) \in 0..(Prod(grid, dims) - 1)
      BY <3>1, CoorNumber, Zenon
    <3> QED BY <3>2 DEF Parts
  <2> DEFINE b == Number(x, grid, dims)
  <2> HIDE DEF b
  <2>2. Filed(b, k) \in 0..(Vol - 1) /\ Filed(b, k) % lcl[1] = 0
    BY <1>1, <2>1, FiledFacts DEF b
  <2>3. b * lcl_vol \in Nat
    BY <2>1, Volumes DEF b
  <2>4. Filed(b, k + q) = Filed(b, k) + q
    BY <1>1, <2>3 DEF Filed
  <2> QED BY <1>3, <2>2, <2>4 DEF Key, b
<1> QED BY <1>2, <1>3

LEMMA GoalUp ==
  ASSUME JobOK, NEW p \in Rows, NEW q \in 0..(lcl[1] - 1), NEW n \in UniqueID
  PROVE  /\ Goal(n, p + q) = Goal(n, p) + q
         /\ Goal(n, p) \in 0..(Vol - 1) /\ Goal(n, p) % lcl[1] = 0
<1>1. p \in Sites /\ p \in Nat /\ q \in Nat /\ p % lcl[1] = 0
  BY InRow DEF Rows
<1>2. CASE storing
  <2>1. mynodeid(n) \in 0..(Parts - 1)
    BY NodeCoor
  <2>2. Filed(mynodeid(n), p) \in 0..(Vol - 1) /\ Filed(mynodeid(n), p) % lcl[1] = 0
    BY <1>1, <2>1, FiledFacts
  <2>3. mynodeid(n) * lcl_vol \in Nat
    BY <2>1, Volumes
  <2>4. Filed(mynodeid(n), p + q) = Filed(mynodeid(n), p) + q
    BY <1>1, <2>3 DEF Filed
  <2> QED BY <1>2, <2>2, <2>4 DEF Goal
<1>3. CASE ~storing
  <2>1. In(node_coor(n), grid, dims)
    BY NodeCoor
  <2> QED BY <1>1, <1>3, <2>1, RowSite, GlobalSite DEF Goal
<1> QED BY <1>2, <1>3

\* A row that is picked up comes from its place and goes to its place.
LEMMA PickedRow ==
  ASSUME JobOK, NEW n \in UniqueID, NEW i \in Nat, NEW m \in Picked(n, i)
  PROVE  /\ m[1] \in Rows /\ m[2] \in Rows
         /\ Key(node_x(n, i), m[2]) = Goal(n, m[1])
<1> DEFINE x == node_x(n, i)  b == mynodeid(n)
<1>1. /\ In(x, grid, dims) /\ In(node_coor(n), grid, dims) /\ b \in 0..(Parts - 1)
      /\ \A d \in 1..dims : Coor(b, grid)[d] = node_coor(n)[d]
      /\ grid \in Box /\ dims \in {4, 5}
  BY NodeX, NodeCoor, Boxes
<1> HIDE DEF b
<1>2. CASE storing
  <2>1. PICK k \in Rows : /\ lcl2glb(k, x) \div lcl_vol = b
                          /\ m = <<lcl2glb(k, x) % lcl_vol, k>>
    BY <1>2, Zenon DEF Picked, b
  <2> HIDE DEF x
  <2> DEFINE g == lcl2glb(k, x)
  <2>2. k \in Sites /\ k % lcl[1] = 0
    BY DEF Rows
  <2>3. g \in 0..(Vol - 1)
    BY <1>1, <2>2, GlobalSite
  <2>4. g % lcl[1] = 0
    <3>1. /\ lcl[1] \in Nat \ {0}
      BY RowsFacts
    <3>2. 0 \in 0..(lcl[1] - 1)
      BY <3>1
    <3> QED BY <1>1, <3>2, RowSite
  <2>5. g % lcl_vol \in Sites /\ g = Filed(b, g % lcl_vol)
    <3> HIDE DEF g
    <3>1. g % lcl_vol \in Sites /\ g = Filed(g \div lcl_vol, g % lcl_vol)
      BY <2>3, PartOf, Zenon
    <3>2. g \div lcl_vol = b
      BY <2>1 DEF g
    <3> QED BY <3>1, <3>2
  <2>6. (g % lcl_vol) % lcl[1] = 0
    <3> HIDE DEF g
    <3>1. (g % lcl_vol) % lcl[1] = g % lcl[1]
      BY <2>3, RowPlace, Zenon
    <3> QED BY <2>4, <3>1
  <2>7. g % lcl_vol \in Rows
    BY <2>5, <2>6 DEF Rows
  <2>8. m[1] = g % lcl_vol /\ m[2] = k
    BY <2>1
  <2> QED BY <1>2, <2>5, <2>7, <2>8 DEF Key, Goal, b, x
<1>3. CASE ~storing
  <2> DEFINE filed(k) == Number(x, grid, dims) * lcl_vol + k
  <2>1. PICK k \in Rows : /\ glb2lcl(filed(k)).node_id = b
                          /\ m = <<glb2lcl(filed(k)).site_id, k>>
    BY <1>3, Zenon DEF Picked, b
  <2> HIDE DEF x
  <2> DEFINE g == Filed(Number(x, grid, dims), k)
  <2>2. k \in Sites /\ k % lcl[1] = 0
    BY DEF Rows
  <2>3. g \in 0..(Vol - 1) /\ g % lcl[1] = 0
    <3>1. lcl[1] \in Nat \ {0}
      BY RowsFacts
    <3>2. 0 \in 0..(lcl[1] - 1)
      BY <3>1
    <3>3. Key(x, k) \in 0..(Vol - 1) /\ Key(x, k) % lcl[1] = 0
      BY <1>1, <3>2, KeyUp
    <3> QED BY <1>3, <3>3 DEF Key
  <2>4. /\ Number(Owner(g), grid, dims) = b
        /\ m[1] = Number(Place(g), lcl, dims) /\ m[2] = k
    <3>1. filed(k) = g
      BY DEF Filed
    <3>2. /\ glb2lcl(g).node_id = Number(Owner(g), grid, dims)
          /\ glb2lcl(g).site_id = Number(Place(g), lcl, dims)
      BY DEF glb2lcl, Owner, Place
    <3> QED BY <2>1, <3>1, <3>2
  <2> HIDE DEF g
  <2> DEFINE p == Number(Place(g), lcl, dims)
  <2>5. p \in Sites /\ lcl2glb(p, Owner(g)) = g /\ In(Owner(g), grid, dims)
    BY <2>3, OwnSite, Zenon
  <2>6. p % lcl[1] = 0
    <3>1. p % lcl[1] = g % lcl[1]
      BY <2>3, RowPlace, Zenon
    <3> QED BY <2>3, <3>1
  <2>7. \A d \in 1..dims : Owner(g)[d] = node_coor(n)[d]
    <3>1. \A d \in 1..dims : Coor(Number(Owner(g), grid, dims), grid)[d] = Owner(g)[d]
      BY <1>1, <2>5, CoorNumber
    <3> QED BY <1>1, <2>4, <3>1
  <2> HIDE DEF p
  <2>8. lcl2glb(p, node_coor(n)) = g
    <3>1. lcl2glb(p, Owner(g)) = lcl2glb(p, node_coor(n))
      BY <2>7, SameOwner, Zenon
    <3> QED BY <2>5, <3>1
  <2>9. p \in Rows
    BY <2>5, <2>6 DEF Rows
  <2>10. m[1] = p
    BY <2>4 DEF p
  <2> QED BY <1>3, <2>4, <2>8, <2>9, <2>10 DEF Key, Goal, g, x
<1> QED BY <1>2, <1>3

\* Place p of node n is in a row that is picked up after i shifts.
Hit(n, i, p) == \E m \in Picked(n, i) : p \in m[1]..(m[1] + lcl[1] - 1)

\* In one loop each node picks up all it wants.
LEMMA AllPicked ==
  ASSUME JobOK, NEW n \in UniqueID, NEW p \in Sites
  PROVE  \E i \in 0..(Prod(grid, dims - 1) - 1) : Hit(n, i, p)
<1> DEFINE q == p % lcl[1]  r == p - q  b == mynodeid(n)
<1>1. r \in Rows /\ q \in 0..(lcl[1] - 1)
  BY RowOf
<1>2. /\ lcl[1] \in Nat \ {0} /\ p \in Int /\ p \in r..(r + lcl[1] - 1)
  <2>1. lcl[1] \in Nat \ {0} /\ p \in Int
    BY RowsFacts, Volumes DEF Sites
  <2> HIDE DEF q
  <2> QED BY <1>1, <2>1
<1>3. /\ In(node_coor(n), grid, dims) /\ b \in 0..(Parts - 1)
      /\ \A d \in 1..dims : Coor(b, grid)[d] = node_coor(n)[d]
      /\ grid \in Box /\ dims \in {4, 5} /\ lcl \in Box /\ dims \in 1..dims
      /\ r \in Sites /\ r % lcl[1] = 0 /\ Parts \in Nat
  BY <1>1, NodeCoor, Boxes, Volumes DEF Rows
<1>4. 0 \in 0..(lcl[1] - 1)
  BY <1>2
<1> HIDE DEF q, r, b
<1> DEFINE g == Goal(n, r)
<1>5. g \in 0..(Vol - 1) /\ g % lcl[1] = 0
  BY <1>1, <1>4, GoalUp
<1>6. Owner(g)[dims] = Coor(g \div lcl_vol, grid)[dims]
  <2> HIDE DEF g
  <2> QED BY <1>5, LastCoor, Zenon
<1>7. ASSUME NEW x, In(x, grid, dims), x[dims] = node_coor(n)[dims]
      PROVE  \E i \in 0..(Prod(grid, dims - 1) - 1) :
               i \in Nat /\ \A d \in 1..dims : node_x(n, i)[d] = x[d]
  <2>1. \E i \in 0..(Prod(grid, dims - 1) - 1) : \A d \in 1..dims : node_x(n, i)[d] = x[d]
    BY <1>7, SeesAll, Zenon
  <2>2. Prod(grid, dims - 1) \in Nat
    BY <1>3, ProdUp
  <2> QED BY <2>1, <2>2
<1>8. CASE storing
  <2> DEFINE x == Owner(g)  k == Number(Place(g), lcl, dims)
  <2>1. g = Filed(b, r)
    BY <1>8 DEF Goal, b
  <2>2. g \div lcl_vol = b /\ g % lcl_vol = r
    BY <1>3, <2>1, FiledFacts, Zenon
  <2> HIDE DEF g
  <2>3. In(x, grid, dims) /\ k \in Sites /\ lcl2glb(k, x) = g
    BY <1>5, OwnSite, Zenon
  <2>4. k % lcl[1] = 0
    <3>1. k % lcl[1] = g % lcl[1]
      BY <1>5, RowPlace, Zenon
    <3> QED BY <1>5, <3>1
  <2>5. x[dims] = node_coor(n)[dims]
    BY <1>3, <1>6, <2>2
  <2> HIDE DEF x, k
  <2>6. PICK i \in 0..(Prod(grid, dims - 1) - 1) :
          i \in Nat /\ \A d \in 1..dims : node_x(n, i)[d] = x[d]
    BY <1>7, <2>3, <2>5
  <2>7. lcl2glb(k, node_x(n, i)) = g
    BY <2>3, <2>6, SameOwner
  <2>8. k \in Rows
    BY <2>3, <2>4 DEF Rows
  <2>9. <<lcl2glb(k, node_x(n, i)) % lcl_vol, k>> \in Picked(n, i)
    <3>1. lcl2glb(k, node_x(n, i)) \div lcl_vol = mynodeid(n)
      BY <2>2, <2>7 DEF b
    <3> QED BY <1>8, <2>8, <3>1, Zenon DEF Picked
  <2>10. <<r, k>> \in Picked(n, i)
    BY <2>2, <2>7, <2>9
  <2>11. Hit(n, i, p)
    <3> DEFINE m == <<r, k>>
    <3>1. m[1] = r
      OBVIOUS
    <3>2. m \in Picked(n, i)
      BY <2>10
    <3> HIDE DEF m
    <3> QED BY <1>2, <3>1, <3>2 DEF Hit
  <2> QED BY <2>11
<1>9. CASE ~storing
  <2> DEFINE x == Coor(g \div lcl_vol, grid)  k == g % lcl_vol
  <2>1. g = lcl2glb(r, node_coor(n))
    BY <1>9 DEF Goal
  <2>2. \A d \in 1..dims : Owner(g)[d] = node_coor(n)[d] /\ Place(g)[d] = Coor(r, lcl)[d]
    <3>1. \A d \in 1..dims : d \in Dims
      BY <1>3 DEF Dims
    <3> QED BY <1>3, <2>1, <3>1, GlobalSite DEF Owner, Place
  <2> HIDE DEF g
  <2>3. g \div lcl_vol \in 0..(Parts - 1) /\ k \in Sites /\ g = Filed(g \div lcl_vol, k)
    BY <1>5, PartOf, Zenon
  <2>4. In(x, grid, dims) /\ Number(x, grid, dims) = g \div lcl_vol
    <3> DEFINE c == g \div lcl_vol
    <3>1. c \in 0..(Prod(grid, dims) - 1)
      BY <2>3 DEF Parts
    <3> HIDE DEF c
    <3>2. In(Coor(c, grid), grid, dims) /\ Number(Coor(c, grid), grid, dims) = c
      BY <1>3, <3>1, NumberCoor, Zenon
    <3> QED BY <3>2 DEF c
  <2>5. k % lcl[1] = 0
    <3>1. (g % lcl_vol) % lcl[1] = g % lcl[1]
      BY <1>5, RowPlace, Zenon
    <3> QED BY <1>5, <3>1
  <2>6. x[dims] = node_coor(n)[dims]
    BY <1>3, <1>6, <2>2
  <2> HIDE DEF x, k
  <2>7. PICK i \in 0..(Prod(grid, dims - 1) - 1) :
          i \in Nat /\ \A d \in 1..dims : node_x(n, i)[d] = x[d]
    BY <1>7, <2>4, <2>6
  <2>8. Number(node_x(n, i), grid, dims) * lcl_vol + k = g
    <3>1. Number(node_x(n, i), grid, dims) = Number(x, grid, dims)
      BY <2>7, SameOwner
    <3> QED BY <2>3, <2>4, <3>1 DEF Filed
  <2>9. glb2lcl(g).node_id = b /\ glb2lcl(g).site_id = r
    <3>1. /\ glb2lcl(g).node_id = Number(Owner(g), grid, dims)
          /\ glb2lcl(g).site_id = Number(Place(g), lcl, dims)
      BY DEF glb2lcl, Owner, Place
    <3>2. Number(Owner(g), grid, dims) = Number(node_coor(n), grid, dims)
      BY <1>3, <2>2, SameNumber
    <3>3. Number(Place(g), lcl, dims) = Number(Coor(r, lcl), lcl, dims)
      BY <1>3, <2>2, SameNumber
    <3>4. Number(Coor(r, lcl), lcl, dims) = r
      BY <1>3, SiteCoor
    <3> QED BY <3>1, <3>2, <3>3, <3>4 DEF mynodeid, b
  <2>10. k \in Rows
    BY <2>3, <2>5 DEF Rows
  <2>11. <<r, k>> \in Picked(n, i)
    <3>1. glb2lcl(Number(node_x(n, i), grid, dims) * lcl_vol + k).node_id = mynodeid(n)
      BY <2>8, <2>9 DEF b
    <3>2. <<glb2lcl(Number(node_x(n, i), grid, dims) * lcl_vol + k).site_id, k>>
            \in Picked(n, i)
      BY <1>9, <2>10, <3>1, Zenon DEF Picked
    <3> QED BY <2>8, <2>9, <3>2
  <2>12. Hit(n, i, p)
    <3> DEFINE m == <<r, k>>
    <3>1. m[1] = r
      OBVIOUS
    <3>2. m \in Picked(n, i)
      BY <2>11
    <3> HIDE DEF m
    <3> QED BY <1>2, <3>1, <3>2 DEF Hit
  <2> QED BY <2>12
<1> QED BY <1>8, <1>9

\* What one copying of rows does to place p.
LEMMA CopiedPlace ==
  ASSUME JobOK, NEW n \in UniqueID, NEW i \in Nat, NEW out, NEW o, NEW p \in Sites
  PROVE  /\ ~Hit(n, i, p) => Copied(out, o, Picked(n, i))[p] = out[p]
         /\ Hit(n, i, p) => \E k \in Sites :
              /\ Key(node_x(n, i), k) = Goal(n, p)
              /\ Copied(out, o, Picked(n, i))[p] = o[k]
<1> DEFINE rows == Picked(n, i)
           here == {m \in rows : p \in m[1]..(m[1] + lcl[1] - 1)}
           c == CHOOSE m \in here : TRUE
<1>1. Copied(out, o, rows)[p] = IF here = {} THEN out[p] ELSE o[c[2] + p - c[1]]
  BY Zenon DEF Copied
<1>2. Hit(n, i, p) <=> here # {}
  BY DEF Hit
<1>3. ASSUME here # {}
      PROVE  \E k \in Sites : /\ Key(node_x(n, i), k) = Goal(n, p)
                              /\ Copied(out, o, rows)[p] = o[k]
  <2>1. c \in here
    BY <1>3, Zenon
  <2>2. c \in rows /\ p \in c[1]..(c[1] + lcl[1] - 1)
    BY <2>1
  <2> HIDE DEF c, here
  <2>3. /\ c[1] \in Rows /\ c[2] \in Rows
        /\ Key(node_x(n, i), c[2]) = Goal(n, c[1])
    BY <2>2, PickedRow
  <2> DEFINE q == p - c[1]
  <2>4. /\ lcl[1] \in Nat \ {0} /\ c[1] \in Nat /\ c[2] \in Nat /\ p \in Int
        /\ 0 \in 0..(lcl[1] - 1)
    <3>1. lcl[1] \in Nat \ {0} /\ p \in Int
      BY RowsFacts, Volumes DEF Sites
    <3>2. 0 \in 0..(lcl[1] - 1)
      BY <3>1
    <3> QED BY <2>3, <3>1, <3>2, InRow
  <2>5. q \in 0..(lcl[1] - 1) /\ p = c[1] + q /\ c[2] + p - c[1] = c[2] + q
    BY <2>2, <2>4
  <2> HIDE DEF q
  <2>6. c[2] + q \in Sites
    BY <2>3, <2>5, InRow
  <2>7. Key(node_x(n, i), c[2] + q) = Goal(n, p)
    <3>1. In(node_x(n, i), grid, dims)
      BY NodeX
    <3>2. Key(node_x(n, i), c[2] + q) = Key(node_x(n, i), c[2]) + q
      BY <2>3, <2>5, <3>1, KeyUp
    <3>3. Goal(n, c[1] + q) = Goal(n, c[1]) + q
      BY <2>3, <2>5, GoalUp
    <3> QED BY <2>3, <2>5, <3>2, <3>3
  <2> QED BY <1>1, <1>3, <2>5, <2>6, <2>7
<1> QED BY <1>1, <1>2, <1>3

-----------------------------------------------------------------------------
(* What the nodes hold, and what is under way between them.                *)

\* What is stored for site g, and what is loaded for it.
Src(g) == IF storing THEN g ELSE file[g]

\* The data of the node at x in round i of a loop; when a file is read, only
\* the data of those that node 0 has had.
Part(b) == [s \in Sites |-> Src(Filed(b, s))]
Held(loop, i, x) ==
  IF loop = "remap" THEN [k \in Sites |-> Src(Key(x, k))]
  ELSE IF storing \/ Number(x, grid, dims) < i THEN Part(Number(x, grid, dims))
  ELSE Blank(job)

\* The node whose data node n has in round i when it has shifted them in the
\* dimensions before d.
Mid(n, i, d) ==
  [e \in Dims |-> IF e < d THEN node_x(n, i + 1)[e] ELSE node_x(n, i)[e]]

\* The blocks sent in dimension d in the loops before, and in i rounds.
FirstLoop == IF storing \/ job.style = "parallel" THEN "remap" ELSE "stream"
Base(loop, d) == IF loop = FirstLoop THEN 0 ELSE Quot(Shifts(FirstLoop), grid, d - 1)
Cnt(loop, i, d) == Base(loop, d) + Quot(i, grid, d - 1)

\* A node of a parallel job that has not read yet has not shifted yet.
Reads(nd) ==
  ~storing /\ job.style = "parallel" /\ nd.pc \in {"slot", "io", "io done", "sync"}
Rounds(nd) == IF nd.pc \in {"body", "wait"} THEN nd.i
              ELSE IF Reads(nd) THEN 0 ELSE Shifts(nd.loop)

Sent(nd, d) ==
  Cnt(nd.loop, IF nd.pc = "wait" /\ d <= nd.j THEN nd.i + 1 ELSE Rounds(nd), d)
Rcvd(nd, d) ==
  Cnt(nd.loop, IF nd.pc = "wait" /\ d < nd.j THEN nd.i + 1 ELSE Rounds(nd), d)

IsSeq(Q) == Q \in Seq({Q[p] : p \in 1..Len(Q)})

\* Block p under way to node m in dimension d is the one that m will need in the
\* round it belongs to; sent and rcvd count from the beginning of the job.
LinkOK(m, d, Q, sent, rcvd) ==
  /\ IsSeq(Q) /\ sent \in Nat /\ rcvd \in Nat /\ Len(Q) = sent - rcvd
  /\ \A loop \in {"remap", "stream"} : \A i \in 0..(Shifts(loop) - 1) :
       \A p \in 1..Len(Q) :
         Carries(i, d) /\ Cnt(loop, i + 1, d) = rcvd + p
           => Q[p] = Held(loop, i + 1, Mid(m, i, d + 1))

\* links are right between these nodes.
LinksOK(nodes, links) ==
  /\ links = [m \in UniqueID |-> [d \in 1..6 |-> links[m][d]]]
  /\ \A m \in UniqueID : \A d \in Dims :
       grid[d] > 1 => LinkOK(m, d, links[m][d], Sent(nodes[Neighbour(m, d, 1)], d),
                             Rcvd(nodes[m], d))

-----------------------------------------------------------------------------
\* Where a node may be.
PlaceOK(nd) ==
  /\ job.style = "serial" =>
       /\ nd.error = 0
       /\ nd.pc \in {"body", "wait", "sync", "csum", "returned", "rejected"}
       /\ nd.pc = "sync" => nd.loop = "stream"
       /\ nd.pc \in {"csum", "returned", "rejected"} =>
            nd.loop = IF storing THEN "stream" ELSE "remap"
  /\ job.style = "parallel" =>
       /\ nd.loop = "remap"
       /\ nd.pc \in {"body", "wait", "slot", "io", "io done", "sync", "csum",
                     "returned", "rejected"}
  /\ nd.pc \in {"body", "wait"} => nd.i \in 0..(Shifts(nd.loop) - 1)
  /\ nd.pc = "rejected" => ~storing

\* The data at hand.
DataOK(n, nd) ==
  /\ nd.pc = "body" => nd.o = Held(nd.loop, nd.i, node_x(n, nd.i))
  /\ nd.pc = "wait" =>
       /\ nd.j \in Dims /\ grid[nd.j] > 1 /\ Carries(nd.i, nd.j)
       /\ nd.o = Held(nd.loop, nd.i + 1, Mid(n, nd.i, nd.j))
  /\ ~storing /\ (nd.pc = "sync" \/ nd.pc = "io done") => nd.o = Part(mynodeid(n))

\* What has been picked up.
Sorted(n, d, p) == d[p] = Src(Goal(n, p))
RowsOK(n, nd) ==
  /\ nd.rdata = [p \in Sites |-> nd.rdata[p]]
  /\ nd.pc \in {"body", "wait"} /\ nd.loop = "remap" =>
       \A p \in Sites : \A k \in 0..(IF nd.pc = "body" THEN nd.i - 1 ELSE nd.i) :
         Hit(n, k, p) => Sorted(n, nd.rdata, p)
  /\ storing /\ (nd.pc \notin {"body", "wait"} \/ nd.loop = "stream") =>
       \A p \in Sites : Sorted(n, nd.rdata, p)
  /\ ~storing /\ nd.pc \in {"csum", "returned", "rejected"} =>
       \A p \in Sites : Sorted(n, nd.mem, p)

NodeOK(n, nd) == PlaceOK(nd) /\ DataOK(n, nd) /\ RowsOK(n, nd)

-----------------------------------------------------------------------------
\* The file.
FileShape ==
  /\ file = [p \in 0..(Vol - 1) |-> file[p]]
  /\ ~lost => \A p \in 0..(Vol - 1) : file[p] \in {p, Junk}

\* Node 0 has written these parts.
PartsPut(nd) ==
  IF nd.loop = "remap" THEN 0
  ELSE IF nd.pc = "body" THEN nd.i
  ELSE IF nd.pc = "wait" THEN nd.i + 1 ELSE Parts

SerialFile(nd) ==
  ~lost => /\ flen = PartsPut(nd) * lcl_vol
           /\ \A p \in 0..(flen - 1) : file[p] = p

ParallelFile(n, nd) ==
  ~lost /\ nd.pc \in {"io done", "sync", "csum", "returned"} /\ nd.error = 0 /\ Writes(n) =>
    \A s \in Sites : file[Filed(mynodeid(n), s)] = Filed(mynodeid(n), s)

FileOK ==
  storing =>
    /\ job.style = "serial" => SerialFile(node[0])
    /\ job.style = "parallel" => \A n \in UniqueID : ParallelFile(n, node[n])

Live == (\A n \in UniqueID : NodeOK(n, node[n])) /\ LinksOK(node, link) /\ FileOK

\* The job has stopped, or node 0 will not go on with shift_data().
Dead ==
  \/ \A n \in UniqueID : node[n].pc = "stopped"
  \/ /\ storing /\ job.style = "serial"
     /\ node[0].pc = "sync" /\ node[0].error # 0
     /\ \A n \in UniqueID : node[n].pc \in {"body", "wait", "sync"}

IOInv == JobOK /\ FileShape /\ (Live \/ Dead \/ SlicesLost)

-----------------------------------------------------------------------------
(* What does not change during a job.                                      *)

Same == /\ job' = job /\ storing' = storing /\ number_nodes' = number_nodes
        /\ storing \in BOOLEAN /\ (storing \/ file' = file) /\ (lost => lost')

LEMMA SameBoxes ==
  ASSUME Same
  PROVE  /\ grid' = grid /\ dims' = dims /\ glb' = glb /\ lcl' = lcl
         /\ lcl_vol' = lcl_vol /\ Sites' = Sites /\ UniqueID' = UniqueID
         /\ Vol' = Vol /\ Parts' = Parts /\ JobOK' = JobOK
<1>1. grid' = grid /\ dims' = dims
  BY DEF Same, grid, dims
<1>2. glb' = glb /\ lcl' = lcl
  BY <1>1, Zenon DEF glb, lcl
<1>3. lcl_vol' = lcl_vol /\ Vol' = Vol /\ Parts' = Parts
  BY <1>1, <1>2 DEF lcl_vol, Vol, Parts
<1>4. Sites' = Sites /\ UniqueID' = UniqueID
  BY <1>3 DEF Same, Sites, UniqueID
<1>5. JobOK' = JobOK
  BY DEF Same, JobOK
<1> QED BY <1>1, <1>2, <1>3, <1>4, <1>5


LEMMA SameNumbers ==
  ASSUME Same
  PROVE  /\ \A n : node_coor(n)' = node_coor(n) /\ mynodeid(n)' = mynodeid(n)
         /\ \A n, i : node_x(n, i)' = node_x(n, i)
         /\ \A k, x : lcl2glb(k, x)' = lcl2glb(k, x)
         /\ \A b, k : Filed(b, k)' = Filed(b, k)
         /\ \A n, d, s : Neighbour(n, d, s)' = Neighbour(n, d, s)
         /\ \A i, d : Carries(i, d)' = Carries(i, d)
         /\ \A loop : Shifts(loop)' = Shifts(loop)
         /\ \A n : Writes(n)' = Writes(n)
<1>1. /\ grid' = grid /\ dims' = dims /\ glb' = glb /\ lcl' = lcl
      /\ lcl_vol' = lcl_vol /\ Sites' = Sites
  BY SameBoxes
<1>2. \A n : node_coor(n)' = node_coor(n) /\ mynodeid(n)' = mynodeid(n)
  BY <1>1 DEF node_coor, mynodeid
<1>3. \A n, i : node_x(n, i)' = node_x(n, i)
  BY <1>1, <1>2 DEF node_x
<1>4. \A k, x : lcl2glb(k, x)' = lcl2glb(k, x)
  BY <1>1, Zenon DEF lcl2glb
<1>5. \A b, k : Filed(b, k)' = Filed(b, k)
  BY <1>1 DEF Filed
<1>6. \A n, d, s : Neighbour(n, d, s)' = Neighbour(n, d, s)
  BY <1>1, <1>2 DEF Neighbour
<1>7. \A i, d : Carries(i, d)' = Carries(i, d)
  BY <1>1 DEF Carries
<1>8. \A loop : Shifts(loop)' = Shifts(loop)
  BY <1>1 DEF Shifts
<1>9. \A n : Writes(n)' = Writes(n)
  BY <1>1, <1>2 DEF Writes
<1> QED BY <1>2, <1>3, <1>4, <1>5, <1>6, <1>7, <1>8, <1>9

LEMMA SameData ==
  ASSUME Same
  PROVE  /\ \A g : Src(g)' = Src(g)
         /\ \A x, k : Key(x, k)' = Key(x, k)
         /\ \A n, p : Goal(n, p)' = Goal(n, p)
         /\ \A b : Part(b)' = Part(b)
         /\ \A loop, i, x : Held(loop, i, x)' = Held(loop, i, x)
         /\ \A n, i, d : Mid(n, i, d)' = Mid(n, i, d)
         /\ \A n, k, p : Hit(n, k, p)' = Hit(n, k, p)
<1>1. /\ grid' = grid /\ dims' = dims /\ glb' = glb /\ lcl' = lcl
      /\ lcl_vol' = lcl_vol /\ Sites' = Sites
  BY SameBoxes
<1>2. /\ job' = job
      /\ (storing /\ storing') \/ (~storing /\ ~storing' /\ file' = file)
  BY DEF Same
<1>3. \A g : Src(g)' = Src(g)
  BY <1>2 DEF Src
<1>4. \A x, k : Key(x, k)' = Key(x, k)
  BY <1>1, <1>2, SameNumbers DEF Key
<1>5. \A n, p : Goal(n, p)' = Goal(n, p)
  BY <1>1, <1>2, SameNumbers DEF Goal
<1>6. \A b : Part(b)' = Part(b)
  BY <1>1, <1>3, SameNumbers DEF Part
<1>7. \A loop, i, x : Held(loop, i, x)' = Held(loop, i, x)
  <2>1. Blank(job)' = Blank(job)
    BY <1>2
  <2> QED BY <1>1, <1>2, <1>3, <1>4, <1>6, <2>1 DEF Held
<1>8. \A n, i, d : Mid(n, i, d)' = Mid(n, i, d)
  BY SameNumbers DEF Mid
<1>9. \A n, k : Picked(n, k)' = Picked(n, k)
  <2>1. Rows' = Rows
    BY <1>1 DEF Rows
  <2>2. \A g : glb2lcl(g)' = glb2lcl(g)
    BY <1>1, Zenon DEF glb2lcl
  <2>3. CASE storing
    <3>1. storing'
      BY <1>2, <2>3
    <3> QED BY <1>1, <2>1, <2>3, <3>1, SameNumbers DEF Picked
  <2>4. CASE ~storing
    <3>1. ~storing'
      BY <1>2, <2>4
    <3> QED BY <1>1, <2>1, <2>2, <2>4, <3>1, SameNumbers DEF Picked
  <2> QED BY <2>3, <2>4
<1>10. \A n, k, p : Hit(n, k, p)' = Hit(n, k, p)
  BY <1>1, <1>9, Zenon DEF Hit
<1> QED BY <1>3, <1>4, <1>5, <1>6, <1>7, <1>8, <1>10

LEMMA SameNode ==
  ASSUME Same, NEW n \in UniqueID, NodeOK(n, node'[n])
  PROVE  NodeOK(n, node[n])'
<1>1. /\ grid' = grid /\ Sites' = Sites /\ job' = job /\ storing' = storing
  BY SameBoxes DEF Same
<1>2. PlaceOK(node[n])'
  <2>1. Shifts(node[n].loop)' = Shifts(node'[n].loop)
    BY SameNumbers
  <2> QED BY <1>1, <2>1 DEF PlaceOK, NodeOK
<1>3. DataOK(n, node[n])'
  <2> DEFINE nd == node'[n]
  <2>1. Held(node[n].loop, node[n].i, node_x(n, node[n].i))'
          = Held(nd.loop, nd.i, node_x(n, nd.i))
    BY SameNumbers, SameData
  <2>2. Held(node[n].loop, node[n].i + 1, Mid(n, node[n].i, node[n].j))'
          = Held(nd.loop, nd.i + 1, Mid(n, nd.i, nd.j))
    BY SameNumbers, SameData
  <2>3. Carries(node[n].i, node[n].j)' = Carries(nd.i, nd.j)
    BY SameNumbers
  <2>4. Part(mynodeid(n))' = Part(mynodeid(n))
    BY SameNumbers, SameData
  <2> QED BY <1>1, <2>1, <2>2, <2>3, <2>4 DEF DataOK, NodeOK
<1>4. RowsOK(n, node[n])'
  BY <1>1, SameNumbers, SameData DEF RowsOK, NodeOK, Sorted
<1> QED BY <1>2, <1>3, <1>4 DEF NodeOK

LEMMA SameCounts ==
  ASSUME Same
  PROVE  /\ \A loop, i, d : Cnt(loop, i, d)' = Cnt(loop, i, d)
         /\ \A nd, d : Sent(nd, d)' = Sent(nd, d) /\ Rcvd(nd, d)' = Rcvd(nd, d)
<1>1. /\ grid' = grid /\ job' = job
      /\ (storing /\ storing') \/ (~storing /\ ~storing')
  BY SameBoxes DEF Same
<1>2. FirstLoop' = FirstLoop
  BY <1>1 DEF FirstLoop
<1>3. \A i, d : Quot(i, grid, d)' = Quot(i, grid, d)
  BY <1>1
<1>4. Shifts(FirstLoop)' = Shifts(FirstLoop)
  BY <1>2, SameNumbers
<1>5. \A loop, d : Base(loop, d)' = Base(loop, d)
  BY <1>1, <1>2, <1>4 DEF Base
<1>6. \A loop, i, d : Cnt(loop, i, d)' = Cnt(loop, i, d)
  BY <1>3, <1>5 DEF Cnt
<1>7. \A nd : Reads(nd)' = Reads(nd)
  BY <1>1 DEF Reads
<1>8. \A nd : Rounds(nd)' = Rounds(nd)
  BY <1>7, SameNumbers DEF Rounds
<1>9. \A nd, d : Sent(nd, d)' = Sent(nd, d) /\ Rcvd(nd, d)' = Rcvd(nd, d)
  BY <1>6, <1>8 DEF Sent, Rcvd
<1> QED BY <1>6, <1>9

LEMMA SameLinks ==
  ASSUME Same, LinksOK(node', link')
  PROVE  LinksOK(node, link)'
<1>1. grid' = grid /\ UniqueID' = UniqueID
  BY SameBoxes
<1>2. \A m, d, Q, a, b : LinkOK(m, d, Q, a, b) => LinkOK(m, d, Q, a, b)'
  BY SameNumbers, SameData, SameCounts DEF LinkOK
<1>3. link' = [m \in UniqueID' |-> [d \in 1..6 |-> link'[m][d]]]
  BY <1>1 DEF LinksOK
<1>4. ASSUME NEW m \in UniqueID, NEW d \in Dims, grid[d] > 1
      PROVE  LinkOK(m, d, link[m][d], Sent(node[Neighbour(m, d, 1)], d), Rcvd(node[m], d))'
  <2> DEFINE a == Sent(node'[Neighbour(m, d, 1)], d)  b == Rcvd(node'[m], d)
  <2>1. LinkOK(m, d, link'[m][d], a, b)
    BY <1>4 DEF LinksOK
  <2>2. a = Sent(node[Neighbour(m, d, 1)], d)' /\ b = Rcvd(node[m], d)'
    BY SameNumbers, SameCounts
  <2> QED BY <1>2, <2>1, <2>2
<1> QED BY <1>1, <1>3, <1>4 DEF LinksOK

-----------------------------------------------------------------------------
(* Queues.                                                                 *)

LEMMA Pushed ==
  ASSUME NEW Q, NEW e, IsSeq(Q)
  PROVE  /\ IsSeq(Append(Q, e)) /\ Len(Q) \in Nat /\ Len(Append(Q, e)) = Len(Q) + 1
         /\ \A p \in 1..Len(Q) : Append(Q, e)[p] = Q[p]
         /\ Append(Q, e)[Len(Q) + 1] = e
<1> DEFINE S == {Q[p] : p \in 1..Len(Q)}  T == S \union {e}  R == Append(Q, e)
<1>1. Q \in Seq(S) /\ Q \in Seq(T) /\ e \in T
  <2>1. Q \in Seq(S)
    BY DEF IsSeq
  <2> HIDE DEF S
  <2> QED BY <2>1
<1> HIDE DEF S
<1>2. /\ Len(Q) \in Nat /\ Len(R) = Len(Q) + 1
      /\ \A p \in 1..Len(Q) : R[p] = Q[p]
      /\ R[Len(Q) + 1] = e /\ R \in Seq(T)
  BY <1>1
<1>3. IsSeq(R)
  <2> HIDE DEF R, T
  <2> DEFINE U == {R[p] : p \in 1..Len(R)}
  <2>1. Len(R) \in Nat /\ R = [p \in 1..Len(R) |-> R[p]]
    BY <1>2
  <2>2. \A p \in 1..Len(R) : R[p] \in U
    OBVIOUS
  <2> HIDE DEF U
  <2>3. R \in Seq(U)
    BY <2>1, <2>2
  <2> QED BY <2>3 DEF IsSeq, U
<1> QED BY <1>2, <1>3

LEMMA Popped ==
  ASSUME NEW Q, IsSeq(Q), Q # <<>>
  PROVE  /\ IsSeq(Tail(Q)) /\ Len(Q) \in Nat \ {0} /\ Len(Tail(Q)) = Len(Q) - 1
         /\ \A p \in 1..(Len(Q) - 1) : Tail(Q)[p] = Q[p + 1]
         /\ Head(Q) = Q[1]
<1> DEFINE S == {Q[p] : p \in 1..Len(Q)}  R == Tail(Q)
<1>1. Q \in Seq(S)
  BY DEF IsSeq
<1> HIDE DEF S
<1>2. /\ Len(Q) \in Nat \ {0} /\ Len(R) = Len(Q) - 1 /\ R \in Seq(S)
      /\ \A p \in 1..(Len(Q) - 1) : R[p] = Q[p + 1]
      /\ Head(Q) = Q[1]
  BY <1>1
<1>3. IsSeq(R)
  <2> HIDE DEF R
  <2> DEFINE U == {R[p] : p \in 1..Len(R)}
  <2>1. Len(R) \in Nat /\ R = [p \in 1..Len(R) |-> R[p]]
    BY <1>2
  <2>2. \A p \in 1..Len(R) : R[p] \in U
    OBVIOUS
  <2> HIDE DEF U
  <2>3. R \in Seq(U)
    BY <2>1, <2>2
  <2> QED BY <2>3 DEF IsSeq, U
<1> QED BY <1>2, <1>3

-----------------------------------------------------------------------------
(* Rounds and carries.                                                     *)

LEMMA Carry ==
  ASSUME JobOK, NEW i \in Nat
  PROVE  \A d \in Dims : Quot(i + 1, grid, d - 1)
           = IF Carries(i, d) THEN Quot(i, grid, d - 1) + 1 ELSE Quot(i, grid, d - 1)
<1> DEFINE K(d) == Quot(i + 1, grid, d - 1)
             = IF Carries(i, d) THEN Quot(i, grid, d - 1) + 1 ELSE Quot(i, grid, d - 1)
<1>1. grid \in Box /\ i + 1 \in Nat
  BY Boxes
<1>2. K(1)
  <2>1. Quot(i, grid, 0) = i /\ Quot(i + 1, grid, 0) = i + 1
    BY <1>1, CoorChain
  <2>2. Carries(i, 1)
    BY DEF Carries
  <2> QED BY <2>1, <2>2
<1>3. ASSUME NEW d \in 1..4, K(d) PROVE K(d + 1)
  <2> DEFINE c == Coor(i, grid)[d]  g == grid[d]  q == Quot(i, grid, d)
             r == Quot(i + 1, grid, d - 1)
  <2>1. d \in Dims /\ d + 1 - 1 = d /\ d \in 0..5 /\ g \in Nat \ {0}
    BY <1>1 DEF Dims, Box
  <2>2. q \in Nat /\ c \in 0..(g - 1) /\ Quot(i, grid, d - 1) = c + g * q
    BY <1>1, <2>1, CoorChain
  <2>3. Carries(i, d + 1) <=> Carries(i, d) /\ c = g - 1
    <3>1. 1..(d + 1 - 1) = 1..(d - 1) \union {d}
      OBVIOUS
    <3>2. Carries(i, d + 1) <=>
            \A e \in 1..(d - 1) \union {d} : Coor(i, grid)[e] = grid[e] - 1
      BY <3>1 DEF Carries
    <3> QED BY <3>2 DEF Carries
  <2> HIDE DEF c, g, q
  <2>4. CASE Carries(i, d + 1)
    <3>1. g * (q + 1) = g * q + g /\ g * q \in Nat
      BY <2>1, <2>2
    <3>2. r = 0 + g * (q + 1) /\ 0 \in 0..(g - 1) /\ q + 1 \in Int
      BY <1>3, <2>1, <2>2, <2>3, <2>4, <3>1
    <3>3. Quot(i + 1, grid, d) = q + 1
      BY <1>1, <2>1, <3>2, NextDigit DEF g
    <3> QED BY <2>1, <2>4, <3>3 DEF q
  <2>5. CASE Carries(i, d) /\ c # g - 1
    <3>1. g * q \in Nat
      BY <2>1, <2>2
    <3>2. r = (c + 1) + g * q /\ c + 1 \in 0..(g - 1) /\ q \in Int
      BY <1>3, <2>1, <2>2, <2>5, <3>1
    <3>3. Quot(i + 1, grid, d) = q
      BY <1>1, <2>1, <3>2, NextDigit DEF g
    <3> QED BY <2>1, <2>3, <2>5, <3>3 DEF q
  <2>6. CASE ~Carries(i, d)
    <3>1. r = c + g * q /\ q \in Int
      BY <1>3, <2>2, <2>6
    <3>2. Quot(i + 1, grid, d) = q
      BY <1>1, <2>1, <2>2, <3>1, NextDigit DEF g
    <3> QED BY <2>1, <2>3, <2>6, <3>2 DEF q
  <2> QED BY <2>3, <2>4, <2>5, <2>6
<1> HIDE DEF K
<1>4. K(2) /\ K(3) /\ K(4) /\ K(5)
  <2>1. K(1 + 1)
    BY <1>2, <1>3
  <2>2. K(2 + 1)
    BY <2>1, <1>3
  <2>3. K(3 + 1)
    BY <2>2, <1>3
  <2>4. K(4 + 1)
    BY <2>3, <1>3
  <2> QED BY <2>1, <2>2, <2>3, <2>4
<1> QED BY <1>2, <1>4 DEF K, Dims

LEMMA DivUp ==
  ASSUME NEW a \in Nat, NEW b \in Nat, a <= b, NEW c \in Nat \ {0}
  PROVE  a \div c <= b \div c
<1> DEFINE p == a \div c  q == b \div c  r == a % c  s == b % c
<1>0. a \in Int /\ b \in Int
  OBVIOUS
<1>1. p \in Int /\ r \in 0..(c - 1) /\ a = c * p + r
  BY <1>0, QuotRem, Zenon
<1>2. q \in Int /\ s \in 0..(c - 1) /\ b = c * q + s
  BY <1>0, QuotRem, Zenon
<1> HIDE DEF p, q, r, s
<1>3. ASSUME p >= q + 1 PROVE FALSE
  <2> DEFINE z == p - q - 1  w == c * z
  <2>1. z \in Nat /\ p = q + 1 + z
    BY <1>1, <1>2, <1>3
  <2>2. w \in Nat
    BY <2>1
  <2>3. c * p = c * q + c + w /\ c * q \in Int
    BY <1>2, <2>1
  <2> HIDE DEF z, w
  <2> QED BY <1>1, <1>2, <2>2, <2>3
<1>4. p <= q
  BY <1>1, <1>2, <1>3
<1> QED BY <1>4 DEF p, q

LEMMA QuotUp ==
  ASSUME JobOK, NEW i \in Nat, NEW k \in Nat, i <= k, NEW d \in Dims
  PROVE  Quot(i, grid, d - 1) <= Quot(k, grid, d - 1)
<1>1. Prod(grid, d - 1) \in Nat \ {0}
  <2>1. grid \in Box /\ d - 1 \in 0..5
    BY Boxes DEF Dims
  <2> QED BY <2>1, ProdUp
<1> QED BY <1>1, DivUp DEF Quot

LEMMA ShiftsFacts ==
  ASSUME JobOK
  PROVE  /\ \A loop : Shifts(loop) \in Nat \ {0}
         /\ Shifts("remap") = Prod(grid, dims - 1) /\ Shifts("stream") = Parts
<1>1. grid \in Box /\ dims - 1 \in 0..5 /\ dims \in 0..5
  BY Boxes
<1> QED BY <1>1, ProdUp DEF Shifts, Parts

LEMMA CntFacts ==
  ASSUME JobOK, NEW loop, NEW i \in Nat, NEW d \in Dims
  PROVE  /\ Base(loop, d) \in Nat /\ Cnt(loop, i, d) \in Nat
         /\ Cnt(loop, i + 1, d) = Cnt(loop, i, d) + (IF Carries(i, d) THEN 1 ELSE 0)
<1>1. grid \in Box /\ d - 1 \in 0..5 /\ Shifts(FirstLoop) \in Nat
  BY Boxes, ShiftsFacts DEF Dims
<1>2. Quot(i, grid, d - 1) \in Nat /\ Quot(Shifts(FirstLoop), grid, d - 1) \in Nat
  BY <1>1, CoorChain
<1>3. Base(loop, d) \in Nat
  BY <1>2 DEF Base
<1> QED BY <1>2, <1>3, Carry DEF Cnt

LEMMA SkipCount ==
  ASSUME JobOK, NEW loop, NEW i \in Nat, NEW d \in Dims, ~Carries(i, d)
  PROVE  Cnt(loop, i + 1, d) = Cnt(loop, i, d)
BY CntFacts

\* A block belongs to one round only.
LEMMA CntUnique ==
  ASSUME JobOK, NEW d \in Dims, NEW l \in {"remap", "stream"}, NEW k \in {"remap", "stream"},
         NEW i \in 0..(Shifts(l) - 1), NEW j \in 0..(Shifts(k) - 1),
         Carries(i, d), Carries(j, d), Cnt(l, i + 1, d) = Cnt(k, j + 1, d)
  PROVE  l = k /\ i = j
<1> DEFINE Q(h) == Quot(h, grid, d - 1)
<1>1. i \in Nat /\ j \in Nat /\ Shifts(l) \in Nat /\ Shifts(k) \in Nat
  BY ShiftsFacts
<1>2. Q(i + 1) = Q(i) + 1 /\ Q(j + 1) = Q(j) + 1
  BY <1>1, Carry
<1>3. \A h \in Nat : Q(h) \in Nat
  <2>1. grid \in Box /\ d - 1 \in 0..5
    BY Boxes DEF Dims
  <2> QED BY <2>1, CoorChain
<1>4. \A h, m \in Nat : h <= m => Q(h) <= Q(m)
  BY QuotUp
<1>5. /\ Cnt(l, i + 1, d) = Base(l, d) + Q(i + 1)
      /\ Cnt(k, j + 1, d) = Base(k, d) + Q(j + 1)
  BY DEF Cnt
<1>6. Base(l, d) \in Nat /\ Base(k, d) \in Nat
  BY <1>1, CntFacts
<1>7. ASSUME l = FirstLoop, k # FirstLoop PROVE FALSE
  <2>1. Base(l, d) = 0 /\ Base(k, d) = Q(Shifts(l))
    BY <1>7 DEF Base
  <2>2. Q(i + 1) <= Q(Shifts(l))
    BY <1>1, <1>4
  <2> HIDE DEF Q
  <2>3. Q(j) \in Nat /\ Q(i + 1) \in Nat /\ Q(Shifts(l)) \in Nat /\ Q(j + 1) \in Nat
    BY <1>1, <1>3
  <2> QED BY <1>2, <1>5, <2>1, <2>2, <2>3
<1>8. ASSUME k = FirstLoop, l # FirstLoop PROVE FALSE
  <2>1. Base(k, d) = 0 /\ Base(l, d) = Q(Shifts(k))
    BY <1>8 DEF Base
  <2>2. Q(j + 1) <= Q(Shifts(k))
    BY <1>1, <1>4
  <2> HIDE DEF Q
  <2>3. Q(i) \in Nat /\ Q(j + 1) \in Nat /\ Q(Shifts(k)) \in Nat /\ Q(i + 1) \in Nat
    BY <1>1, <1>3
  <2> QED BY <1>2, <1>5, <2>1, <2>2, <2>3
<1>9. l = k
  BY <1>7, <1>8 DEF FirstLoop
<1>10. Q(i) = Q(j) /\ Q(i) \in Nat /\ Q(j) \in Nat
  <2> HIDE DEF Q
  <2>1. Q(i) \in Nat /\ Q(j) \in Nat
    BY <1>1, <1>3
  <2> QED BY <1>2, <1>5, <1>6, <1>9, <2>1
<1>11. ASSUME i < j PROVE FALSE
  <2>1. Q(i + 1) <= Q(j)
    BY <1>1, <1>4, <1>11
  <2> HIDE DEF Q
  <2> QED BY <1>2, <1>10, <2>1
<1>12. ASSUME j < i PROVE FALSE
  <2>1. Q(j + 1) <= Q(i)
    BY <1>1, <1>4, <1>12
  <2> HIDE DEF Q
  <2> QED BY <1>2, <1>10, <2>1
<1> QED BY <1>1, <1>9, <1>11, <1>12

-----------------------------------------------------------------------------
(* Neighbours, and the way of the data.                                    *)

LEMMA RingStep ==
  ASSUME NEW N \in Nat \ {0}, NEW c \in 0..(N - 1)
  PROVE  /\ (c - 1 + N) % N = (IF c = 0 THEN N - 1 ELSE c - 1)
         /\ (c + 1 + N) % N = (IF c = N - 1 THEN 0 ELSE c + 1)
<1> DEFINE a == c - 1 + N  b == c + 1 + N
<1>1. a \in Int /\ b \in Int /\ 0 \in Int /\ 1 \in Int /\ 2 \in Int
  OBVIOUS
<1>2. CASE c = 0
  <2> DEFINE r == N - 1
  <2>1. r \in 0..(N - 1) /\ a = r + N * 0
    BY <1>2
  <2> HIDE DEF a, r
  <2>2. a % N = r
    BY <1>1, <2>1, DivMod
  <2> QED BY <1>2, <2>2 DEF r
<1>3. CASE c # 0
  <2> DEFINE r == c - 1
  <2>1. r \in 0..(N - 1) /\ a = r + N * 1
    BY <1>3
  <2> HIDE DEF a, r
  <2>2. a % N = r
    BY <1>1, <2>1, DivMod
  <2> QED BY <1>3, <2>2 DEF r
<1>4. CASE c = N - 1
  <2>1. 0 \in 0..(N - 1) /\ b = 0 + N * 2
    BY <1>4
  <2> HIDE DEF b
  <2> QED BY <1>1, <1>4, <2>1, DivMod DEF b
<1>5. CASE c # N - 1
  <2>1. c + 1 \in 0..(N - 1) /\ b = (c + 1) + N * 1
    BY <1>5
  <2> HIDE DEF b
  <2> QED BY <1>1, <1>5, <2>1, DivMod DEF b
<1>6. a % N = (IF c = 0 THEN N - 1 ELSE c - 1)
  <2> HIDE DEF a, b
  <2> QED BY <1>2, <1>3 DEF a
<1>7. b % N = (IF c = N - 1 THEN 0 ELSE c + 1)
  <2> HIDE DEF a, b
  <2> QED BY <1>4, <1>5 DEF b
<1> QED BY <1>6, <1>7

LEMMA CoorFacts ==
  ASSUME JobOK, NEW n \in UniqueID
  PROVE  /\ node_coor(n) = [d \in Dims |-> node_coor(n)[d]]
         /\ \A d \in Dims : node_coor(n)[d] \in 0..(grid[d] - 1) /\ grid[d] \in Nat \ {0}
         /\ Number(node_coor(n), grid, 5) = n
<1>1. grid \in Box /\ 5 \in {4, 5} /\ n \in 0..(Prod(grid, 5) - 1)
  BY Boxes DEF JobOK, UniqueID, grid
<1>2. Number(Coor(n, grid), grid, 5) = n
  BY <1>1, NumberCoor, Zenon
<1>3. In(node_coor(n), grid, 5)
  BY NodeCoor
<1>4. \A d \in Dims : node_coor(n)[d] \in 0..(grid[d] - 1) /\ grid[d] \in Nat \ {0}
  BY <1>1, <1>3 DEF In, Box, Dims
<1>5. node_coor(n) = [d \in Dims |-> node_coor(n)[d]]
  BY DEF node_coor, Coor
<1> QED BY <1>2, <1>4, <1>5 DEF node_coor

LEMMA NeighbourCoor ==
  ASSUME JobOK, NEW n \in UniqueID, NEW d \in Dims, NEW s \in {-1, 1}
  PROVE  /\ Neighbour(n, d, s) \in UniqueID
         /\ node_coor(Neighbour(n, d, s))
              = [node_coor(n) EXCEPT ![d] = (@ + s + grid[d]) % grid[d]]
<1> DEFINE y == (node_coor(n)[d] + s + grid[d]) % grid[d]
           x == [node_coor(n) EXCEPT ![d] = y]
           m == Number(x, grid, 5)
<1>1. /\ node_coor(n) = [e \in Dims |-> node_coor(n)[e]]
      /\ \A e \in Dims : node_coor(n)[e] \in 0..(grid[e] - 1) /\ grid[e] \in Nat \ {0}
      /\ grid \in Box /\ 5 \in {4, 5} /\ number_nodes = Prod(grid, 5)
  BY CoorFacts, Boxes DEF JobOK, grid
<1>2. Neighbour(n, d, s) = m
  BY DEF Neighbour
<1>3. y \in 0..(grid[d] - 1)
  <2> DEFINE a == node_coor(n)[d] + s + grid[d]
  <2>1. a \in Int /\ grid[d] \in Nat \ {0}
    BY <1>1
  <2> HIDE DEF a
  <2>2. a % grid[d] \in 0..(grid[d] - 1)
    BY <2>1, QuotRem, Zenon
  <2> QED BY <2>2 DEF a
<1> HIDE DEF y
<1>4. \A e \in Dims : x[e] \in 0..(grid[e] - 1)
  BY <1>1, <1>3
<1>5. x = [e \in Dims |-> x[e]]
  BY <1>1
<1> HIDE DEF x
<1>6. In(x, grid, 5)
  BY <1>4 DEF In, Dims
<1>7. m \in 0..(Prod(grid, 5) - 1) /\ \A e \in 1..5 : Coor(m, grid)[e] = x[e]
  BY <1>1, <1>6, CoorNumber, Zenon
<1> HIDE DEF m
<1>8. node_coor(m) = x
  BY <1>5, <1>7 DEF node_coor, Coor, Dims
<1>9. m \in UniqueID
  BY <1>1, <1>7 DEF UniqueID
<1> QED BY <1>2, <1>8, <1>9 DEF x, y

LEMMA Opposite ==
  ASSUME JobOK, NEW n \in UniqueID, NEW d \in Dims
  PROVE  /\ Neighbour(Neighbour(n, d, -1), d, 1) = n
         /\ Neighbour(Neighbour(n, d, 1), d, -1) = n
<1> DEFINE u == Neighbour(n, d, -1)  v == Neighbour(n, d, 1)  c == node_coor(n)
           N == grid[d]
<1>1. /\ u \in UniqueID /\ node_coor(u) = [c EXCEPT ![d] = (@ + (-1) + N) % N]
      /\ v \in UniqueID /\ node_coor(v) = [c EXCEPT ![d] = (@ + 1 + N) % N]
  BY NeighbourCoor
<1> HIDE DEF u, v
<1> DEFINE uu == Neighbour(u, d, 1)  vv == Neighbour(v, d, -1)
<1>2. /\ uu \in UniqueID /\ node_coor(uu) = [node_coor(u) EXCEPT ![d] = (@ + 1 + N) % N]
      /\ vv \in UniqueID /\ node_coor(vv) = [node_coor(v) EXCEPT ![d] = (@ + (-1) + N) % N]
  BY <1>1, NeighbourCoor
<1>3. c = [e \in Dims |-> c[e]] /\ c[d] \in 0..(N - 1) /\ N \in Nat \ {0}
  BY CoorFacts
<1> HIDE DEF uu, vv, c, N
<1>4. /\ (((c[d] + (-1) + N) % N) + 1 + N) % N = c[d]
      /\ (((c[d] + 1 + N) % N) + (-1) + N) % N = c[d]
  <2> DEFINE a == (c[d] - 1 + N) % N  b == (c[d] + 1 + N) % N
  <2>1. /\ a = (IF c[d] = 0 THEN N - 1 ELSE c[d] - 1)
        /\ b = (IF c[d] = N - 1 THEN 0 ELSE c[d] + 1)
    BY <1>3, RingStep
  <2>2. c[d] + (-1) + N = c[d] - 1 + N
    BY <1>3
  <2> HIDE DEF a, b
  <2>3. a \in 0..(N - 1) /\ b \in 0..(N - 1)
    BY <1>3, <2>1
  <2>4. /\ (a + 1 + N) % N = (IF a = N - 1 THEN 0 ELSE a + 1)
        /\ (b - 1 + N) % N = (IF b = 0 THEN N - 1 ELSE b - 1)
    BY <1>3, <2>3, RingStep
  <2>5. b + (-1) + N = b - 1 + N
    BY <1>3, <2>3
  <2>6. (a + 1 + N) % N = c[d] /\ (b - 1 + N) % N = c[d]
    BY <1>3, <2>1, <2>4
  <2> QED BY <2>2, <2>5, <2>6 DEF a, b
<1>5. node_coor(uu) = c /\ node_coor(vv) = c
  <2>1. /\ node_coor(uu) = [e \in Dims |-> node_coor(uu)[e]]
        /\ node_coor(vv) = [e \in Dims |-> node_coor(vv)[e]]
    BY <1>2, CoorFacts
  <2>2. /\ node_coor(u)[d] = (c[d] + (-1) + N) % N
        /\ node_coor(v)[d] = (c[d] + 1 + N) % N
        /\ \A e \in Dims : e # d => node_coor(u)[e] = c[e] /\ node_coor(v)[e] = c[e]
        /\ d \in DOMAIN node_coor(u) /\ d \in DOMAIN node_coor(v)
    <3>1. d \in DOMAIN c
      BY <1>3, Zenon
    <3> QED BY <1>1, <1>3, <3>1, Zenon
  <2>3. /\ node_coor(uu)[d] = (node_coor(u)[d] + 1 + N) % N
        /\ node_coor(vv)[d] = (node_coor(v)[d] + (-1) + N) % N
        /\ \A e \in Dims : e # d => /\ node_coor(uu)[e] = node_coor(u)[e]
                                   /\ node_coor(vv)[e] = node_coor(v)[e]
    BY <1>2, <2>1, <2>2, Zenon
  <2>4. \A e \in Dims : node_coor(uu)[e] = c[e] /\ node_coor(vv)[e] = c[e]
    BY <1>4, <2>2, <2>3, Zenon
  <2> QED BY <1>3, <2>1, <2>4, Zenon
<1>6. Number(node_coor(uu), grid, 5) = uu /\ Number(node_coor(vv), grid, 5) = vv
  BY <1>2, CoorFacts
<1>7. Number(c, grid, 5) = n
  BY CoorFacts DEF c
<1> QED BY <1>5, <1>6, <1>7 DEF uu, vv, u, v

LEMMA NodeStart ==
  ASSUME JobOK, NEW n \in UniqueID
  PROVE  node_x(n, 0) = node_coor(n)
<1>1. ASSUME NEW d \in Dims PROVE node_x(n, 0)[d] = node_coor(n)[d]
  <2>1. /\ grid[d] \in Nat \ {0} /\ node_coor(n)[d] \in 0..(grid[d] - 1)
        /\ grid \in Box /\ d - 1 \in 0..5 /\ 0 \in Nat
    BY CoorFacts, Boxes DEF Dims
  <2>2. node_x(n, 0)[d] = (Quot(0, grid, d - 1) + node_coor(n)[d]) % grid[d]
    BY <2>1, NodeX
  <2>3. Quot(0, grid, d - 1) = 0
    <3>1. Prod(grid, d - 1) \in Nat \ {0}
      BY <2>1, ProdUp
    <3>2. 0 \in 0..(Prod(grid, d - 1) - 1)
      BY <3>1
    <3> QED BY <3>1, <3>2, DivSmall DEF Quot
  <2>4. node_coor(n)[d] % grid[d] = node_coor(n)[d]
    BY <2>1, DivSmall, Zenon
  <2>5. 0 + node_coor(n)[d] = node_coor(n)[d]
    BY <2>1
  <2> QED BY <2>2, <2>3, <2>4, <2>5
<1>2. node_x(n, 0) = [d \in Dims |-> node_x(n, 0)[d]]
  BY DEF node_x
<1> QED BY <1>1, <1>2, CoorFacts

LEMMA SameX ==
  ASSUME JobOK, NEW n \in UniqueID, NEW i \in Nat, NEW d \in Dims,
         grid[d] = 1 \/ ~Carries(i, d)
  PROVE  node_x(n, i + 1)[d] = node_x(n, i)[d]
<1>0. i + 1 \in Nat
  OBVIOUS
<1>1. CASE ~Carries(i, d)
  <2>1. Quot(i + 1, grid, d - 1) = Quot(i, grid, d - 1)
    BY <1>1, Carry
  <2> QED BY <1>0, <2>1, NodeX
<1>2. CASE grid[d] = 1
  <2>1. In(node_x(n, i + 1), grid, 5) /\ In(node_x(n, i), grid, 5) /\ d \in 1..5
    BY <1>0, NodeX DEF Dims
  <2>2. node_x(n, i + 1)[d] \in 0..0 /\ node_x(n, i)[d] \in 0..0
    BY <1>2, <2>1 DEF In
  <2> QED BY <2>2
<1> QED BY <1>1, <1>2

LEMMA NeighbourX ==
  ASSUME JobOK, NEW m \in UniqueID, NEW d \in Dims, NEW n \in UniqueID,
         n = Neighbour(m, d, 1), NEW i \in Nat, NEW e \in Dims
  PROVE  /\ e # d => node_x(n, i)[e] = node_x(m, i)[e]
         /\ Carries(i, d) => node_x(n, i)[d] = node_x(m, i + 1)[d]
<1>0. i + 1 \in Nat
  OBVIOUS
<1>1. node_coor(n) = [node_coor(m) EXCEPT ![d] = (@ + 1 + grid[d]) % grid[d]]
  BY NeighbourCoor
<1>2. ASSUME e # d PROVE node_x(n, i)[e] = node_x(m, i)[e]
  <2>1. node_coor(n)[e] = node_coor(m)[e]
    BY <1>1, <1>2, CoorFacts
  <2> QED BY <2>1, NodeX
<1>3. ASSUME Carries(i, d) PROVE node_x(n, i)[d] = node_x(m, i + 1)[d]
  <2> DEFINE N == grid[d]  c == node_coor(m)[d]  k == Quot(i, grid, d - 1)
             w == c + 1 + N  r == w % N  q == w \div N
  <2>1. N \in Nat \ {0} /\ c \in 0..(N - 1) /\ k \in Nat
    <3>1. grid \in Box /\ d - 1 \in 0..5
      BY Boxes DEF Dims
    <3> QED BY <3>1, CoorFacts, CoorChain
  <2>2. node_coor(n)[d] = r
    BY <1>1, CoorFacts
  <2>3. node_x(n, i)[d] = (k + r) % N
    BY <2>2, NodeX
  <2>4. node_x(m, i + 1)[d] = (k + 1 + c) % N
    <3>1. Quot(i + 1, grid, d - 1) = k + 1
      BY <1>3, Carry
    <3> QED BY <1>0, <3>1, NodeX
  <2> HIDE DEF N, c, k
  <2>5. w \in Int
    BY <2>1
  <2> HIDE DEF w
  <2>6. q \in Int /\ r \in 0..(N - 1) /\ w = N * q + r
    BY <2>1, <2>5, QuotRem, Zenon
  <2> HIDE DEF q, r
  <2> DEFINE z == q - 1  v == N * z  u == k + r
  <2>7. z \in Int /\ v \in Int /\ u \in Int /\ N * q \in Int /\ v = N * q - N
    BY <2>1, <2>6
  <2>8. v % N = 0
    <3> HIDE DEF z
    <3> QED BY <2>1, <2>7, Multiple
  <2> HIDE DEF v, z
  <2>9. u + v = k + 1 + c
    BY <2>1, <2>6, <2>7 DEF w
  <2> HIDE DEF u
  <2>10. (u + v) % N = u % N
    BY <2>1, <2>7, <2>8, ModSum, Zenon
  <2> QED BY <2>3, <2>4, <2>9, <2>10 DEF u
<1> QED BY <1>2, <1>3

\* What a node sends is what its neighbour needs.
LEMMA Hop ==
  ASSUME JobOK, NEW m \in UniqueID, NEW d \in Dims, NEW n \in UniqueID,
         n = Neighbour(m, d, 1), NEW i \in Nat, Carries(i, d)
  PROVE  Mid(m, i, d + 1) = Mid(n, i, d)
<1>1. ASSUME NEW e \in Dims PROVE Mid(m, i, d + 1)[e] = Mid(n, i, d)[e]
  <2>0. i + 1 \in Nat /\ e \in Int /\ d \in Int
    BY DEF Dims
  <2>1. /\ Mid(m, i, d + 1)[e] = IF e < d + 1 THEN node_x(m, i + 1)[e] ELSE node_x(m, i)[e]
        /\ Mid(n, i, d)[e] = IF e < d THEN node_x(n, i + 1)[e] ELSE node_x(n, i)[e]
    BY DEF Mid
  <2>2. CASE e < d
    <3>1. node_x(n, i + 1)[e] = node_x(m, i + 1)[e]
      BY <2>0, <2>2, NeighbourX
    <3> QED BY <2>0, <2>1, <2>2, <3>1
  <2>3. CASE e = d
    <3>1. node_x(n, i)[d] = node_x(m, i + 1)[d]
      BY NeighbourX
    <3> QED BY <2>0, <2>1, <2>3, <3>1
  <2>4. CASE e > d
    <3>1. node_x(n, i)[e] = node_x(m, i)[e]
      BY <2>0, <2>4, NeighbourX
    <3> QED BY <2>0, <2>1, <2>4, <3>1
  <2> QED BY <2>0, <2>2, <2>3, <2>4
<1> QED BY <1>1 DEF Mid

LEMMA NextDimFacts ==
  ASSUME JobOK, NEW i \in Nat, NEW d \in 0..5
  PROVE  /\ NextDim(i, d) \in (d + 1)..6
         /\ NextDim(i, d) # 6 =>
              NextDim(i, d) \in Dims /\ grid[NextDim(i, d)] > 1 /\ Carries(i, NextDim(i, d))
         /\ \A e \in Dims : d < e /\ e < NextDim(i, d) => grid[e] = 1 \/ ~Carries(i, e)
<1> DEFINE more == {e \in (d + 1)..5 : grid[e] > 1 /\ Carries(i, e)}
           next == CHOOSE e \in more : \A f \in more : e <= f
<1>1. NextDim(i, d) = IF more = {} THEN 6 ELSE next
  BY DEF NextDim
<1>2. \A e \in Dims : grid[e] \in Nat \ {0}
  BY Boxes DEF Box
<1>3. \A e \in Dims : d < e /\ e \notin more => grid[e] = 1 \/ ~Carries(i, e)
  BY <1>2 DEF Dims
<1>4. more \subseteq (d + 1)..5 /\ \A e \in more : e \in Dims /\ grid[e] > 1 /\ Carries(i, e)
  BY DEF Dims
<1> HIDE DEF more
<1>5. CASE more = {}
  BY <1>1, <1>3, <1>5 DEF Dims
<1>6. CASE more # {}
  <2>1. \E e \in more : \A f \in more : e <= f
    <3>1. \A e \in more : e \in {1, 2, 3, 4, 5}
      BY <1>4 DEF Dims
    <3>2. CASE 1 \in more
      BY <3>1, <3>2
    <3>3. CASE 1 \notin more /\ 2 \in more
      BY <3>1, <3>3
    <3>4. CASE 1 \notin more /\ 2 \notin more /\ 3 \in more
      BY <3>1, <3>4
    <3>5. CASE 1 \notin more /\ 2 \notin more /\ 3 \notin more /\ 4 \in more
      BY <3>1, <3>5
    <3>6. CASE 1 \notin more /\ 2 \notin more /\ 3 \notin more /\ 4 \notin more
      BY <1>6, <3>1, <3>6
    <3> QED BY <3>2, <3>3, <3>4, <3>5, <3>6
  <2>2. next \in more /\ \A f \in more : next <= f
    BY <2>1, Zenon
  <2> HIDE DEF next
  <2> QED BY <1>1, <1>3, <1>4, <1>6, <2>2 DEF Dims
<1> QED BY <1>5, <1>6

LEMMA MidFacts ==
  ASSUME JobOK, NEW n \in UniqueID, NEW i \in Nat, NEW d \in 0..5
  PROVE  /\ Mid(n, i, 1) = node_x(n, i)
         /\ Mid(n, i, d + 1) = Mid(n, i, NextDim(i, d))
         /\ Mid(n, i, 6) = node_x(n, i + 1)
<1>1. \A k : node_x(n, k) = [e \in Dims |-> node_x(n, k)[e]]
  BY DEF node_x
<1>2. Mid(n, i, 1) = node_x(n, i) /\ Mid(n, i, 6) = node_x(n, i + 1)
  <2>1. \A e \in Dims : ~(e < 1) /\ e < 6
    BY DEF Dims
  <2> QED BY <1>1, <2>1 DEF Mid
<1>3. ASSUME NEW e \in Dims PROVE Mid(n, i, d + 1)[e] = Mid(n, i, NextDim(i, d))[e]
  <2>1. NextDim(i, d) \in (d + 1)..6 /\ e \in Int
    BY NextDimFacts DEF Dims
  <2>2. /\ Mid(n, i, d + 1)[e] = IF e < d + 1 THEN node_x(n, i + 1)[e] ELSE node_x(n, i)[e]
        /\ Mid(n, i, NextDim(i, d))[e]
             = IF e < NextDim(i, d) THEN node_x(n, i + 1)[e] ELSE node_x(n, i)[e]
    BY DEF Mid
  <2>3. CASE d < e /\ e < NextDim(i, d)
    <3>1. grid[e] = 1 \/ ~Carries(i, e)
      BY <2>3, NextDimFacts
    <3>2. node_x(n, i + 1)[e] = node_x(n, i)[e]
      BY <3>1, SameX
    <3> QED BY <2>2, <3>2
  <2>4. CASE ~(d < e /\ e < NextDim(i, d))
    BY <2>1, <2>2, <2>4
  <2> QED BY <2>3, <2>4
<1>4. Mid(n, i, d + 1) = Mid(n, i, NextDim(i, d))
  BY <1>3 DEF Mid
<1> QED BY <1>2, <1>4

-----------------------------------------------------------------------------
(* Blocks under way.                                                       *)

Loops == {"remap", "stream"}

LEMMA PopLink ==
  ASSUME JobOK, NEW m, NEW d, NEW Q, NEW a, NEW b, LinkOK(m, d, Q, a, b), Q # <<>>
  PROVE  LinkOK(m, d, Tail(Q), a, b + 1)
<1>1. IsSeq(Q) /\ a \in Nat /\ b \in Nat /\ Len(Q) = a - b
  BY DEF LinkOK
<1>2. /\ IsSeq(Tail(Q)) /\ Len(Q) \in Nat \ {0} /\ Len(Tail(Q)) = Len(Q) - 1
      /\ \A p \in 1..(Len(Q) - 1) : Tail(Q)[p] = Q[p + 1]
  BY <1>1, Popped
<1>3. ASSUME NEW loop \in Loops, NEW i \in 0..(Shifts(loop) - 1), NEW p \in 1..Len(Tail(Q)),
             Carries(i, d), Cnt(loop, i + 1, d) = (b + 1) + p
      PROVE  Tail(Q)[p] = Held(loop, i + 1, Mid(m, i, d + 1))
  <2>1. p + 1 \in 1..Len(Q) /\ Tail(Q)[p] = Q[p + 1] /\ (b + 1) + p = b + (p + 1)
    BY <1>1, <1>2
  <2> QED BY <1>3, <2>1 DEF LinkOK, Loops
<1> QED BY <1>1, <1>2, <1>3 DEF LinkOK, Loops

LEMMA PushLink ==
  ASSUME JobOK, NEW m, NEW d \in Dims, NEW Q, NEW a, NEW b, LinkOK(m, d, Q, a, b),
         NEW loop \in Loops, NEW i \in 0..(Shifts(loop) - 1), Carries(i, d),
         Cnt(loop, i + 1, d) = a + 1
  PROVE  LinkOK(m, d, Append(Q, Held(loop, i + 1, Mid(m, i, d + 1))), a + 1, b)
<1> DEFINE e == Held(loop, i + 1, Mid(m, i, d + 1))  R == Append(Q, e)
<1>1. IsSeq(Q) /\ a \in Nat /\ b \in Nat /\ Len(Q) = a - b
  BY DEF LinkOK
<1> HIDE DEF e
<1>2. /\ IsSeq(R) /\ Len(Q) \in Nat /\ Len(R) = Len(Q) + 1
      /\ \A p \in 1..Len(Q) : R[p] = Q[p]
      /\ R[Len(Q) + 1] = e
  BY <1>1, Pushed
<1> HIDE DEF R
<1>3. ASSUME NEW l \in Loops, NEW k \in 0..(Shifts(l) - 1), NEW p \in 1..Len(R),
             Carries(k, d), Cnt(l, k + 1, d) = b + p
      PROVE  R[p] = Held(l, k + 1, Mid(m, k, d + 1))
  <2>1. CASE p \in 1..Len(Q)
    BY <1>2, <1>3, <2>1 DEF LinkOK, Loops
  <2>2. CASE p \notin 1..Len(Q)
    <3>1. p = Len(Q) + 1 /\ b + p = a + 1
      BY <1>1, <1>2, <2>2
    <3>2. Cnt(l, k + 1, d) = Cnt(loop, i + 1, d)
      BY <1>3, <3>1
    <3>3. l = loop /\ k = i
      BY <1>3, <3>2, CntUnique DEF Loops
    <3> QED BY <1>2, <3>1, <3>3 DEF e
  <2> QED BY <2>1, <2>2
<1> QED BY <1>1, <1>2, <1>3 DEF LinkOK, Loops, R, e

-----------------------------------------------------------------------------
(* shift_data().                                                           *)

\* A node in round i of a loop.
InLoop(nd) ==
  /\ nd.loop \in Loops /\ nd.i \in 0..(Shifts(nd.loop) - 1)
  /\ job.style = "parallel" => nd.loop = "remap"

LEMMA AfterCounts ==
  ASSUME JobOK, NEW nd, IsNode(nd), InLoop(nd), NEW e \in Dims
  PROVE  /\ Sent(AfterShift(nd), e) = Cnt(nd.loop, nd.i + 1, e)
         /\ Rcvd(AfterShift(nd), e) = Cnt(nd.loop, nd.i + 1, e)
<1> DEFINE i == nd.i  a == AfterShift(nd)
<1>1. /\ Shifts(nd.loop) \in Nat /\ i \in Nat /\ nd.loop \in Loops
      /\ job.style \in {"serial", "parallel"} /\ storing \in BOOLEAN
  BY ShiftsFacts DEF InLoop, JobOK
<1>2. CASE i + 1 < Shifts(nd.loop)
  <2>1. a = [nd EXCEPT !.pc = "body", !.i = i + 1]
    BY <1>2 DEF AfterShift
  <2>2. a.pc = "body" /\ a.i = i + 1 /\ a.loop = nd.loop
    BY <2>1 DEF IsNode, Fields
  <2> HIDE DEF a
  <2> QED BY <2>2 DEF Sent, Rcvd, Rounds, a
<1>3. CASE ~(i + 1 < Shifts(nd.loop))
  <2>1. a = AfterLoop(nd)
    BY <1>3 DEF AfterShift
  <2>2. i + 1 = Shifts(nd.loop)
    BY <1>1, <1>3 DEF InLoop
  <2>3. CASE nd.loop = "stream"
    <3>1. a = [nd EXCEPT !.pc = "sync"]
      BY <2>1, <2>3 DEF AfterLoop
    <3>2. a.pc = "sync" /\ a.loop = nd.loop
      BY <3>1 DEF IsNode, Fields
    <3> HIDE DEF a
    <3>3. job.style # "parallel"
      BY <2>3 DEF InLoop
    <3> QED BY <2>2, <3>2, <3>3 DEF Sent, Rcvd, Rounds, Reads, a
  <2>4. CASE nd.loop = "remap" /\ ~storing
    <3>1. a = [nd EXCEPT !.pc = "csum", !.mem = nd.rdata]
      BY <2>1, <2>4 DEF AfterLoop
    <3>2. a.pc = "csum" /\ a.loop = nd.loop
      BY <3>1 DEF IsNode, Fields
    <3> HIDE DEF a
    <3> QED BY <2>2, <3>2 DEF Sent, Rcvd, Rounds, Reads, a
  <2>5. CASE nd.loop = "remap" /\ storing /\ job.style = "parallel"
    <3>1. a = [nd EXCEPT !.pc = "slot"]
      BY <2>1, <2>5 DEF AfterLoop
    <3>2. a.pc = "slot" /\ a.loop = nd.loop
      BY <3>1 DEF IsNode, Fields
    <3> HIDE DEF a
    <3> QED BY <2>2, <2>5, <3>2 DEF Sent, Rcvd, Rounds, Reads, a
  <2>6. CASE nd.loop = "remap" /\ storing /\ job.style = "serial"
    <3>1. a = [nd EXCEPT !.pc = "body", !.loop = "stream", !.i = 0, !.o = nd.rdata]
      BY <2>1, <2>6 DEF AfterLoop
    <3>2. a.pc = "body" /\ a.loop = "stream" /\ a.i = 0
      BY <3>1 DEF IsNode, Fields
    <3> HIDE DEF a
    <3>3. Cnt("stream", 0, e) = Cnt("remap", i + 1, e)
      <4>1. FirstLoop = "remap"
        BY <2>6 DEF FirstLoop
      <4>2. Quot(0, grid, e - 1) = 0
        <5>1. grid \in Box /\ e - 1 \in 0..5 /\ Prod(grid, e - 1) \in Nat \ {0}
          BY Boxes, ProdUp DEF Dims
        <5> QED BY <5>1, QuotZero
      <4>3. Quot(i + 1, grid, e - 1) \in Nat
        <5>1. grid \in Box /\ e - 1 \in 0..5 /\ i + 1 \in Nat
          BY <1>1, Boxes DEF Dims
        <5> QED BY <5>1, CoorChain
      <4> QED BY <2>2, <2>6, <4>1, <4>2, <4>3 DEF Cnt, Base
    <3> QED BY <2>6, <3>2, <3>3 DEF Sent, Rcvd, Rounds, a
  <2> QED BY <1>1, <2>3, <2>4, <2>5, <2>6 DEF Loops
<1> QED BY <1>2, <1>3

\* Node n has been doing dimension d, or, when d = 0, the body of its loop.
Doing(n, d, links) ==
  \/ d = 0 /\ node[n].pc = "body" /\ links = link
  \/ /\ d \in Dims /\ node[n].pc = "wait" /\ node[n].j = d
     /\ grid[d] > 1 /\ Carries(node[n].i, d)
     /\ link[n][d] # <<>> /\ links = [link EXCEPT ![n][d] = Tail(@)]

\* nd is node[n] with its data at hand and what it has picked up renewed.
Renewed(n, nd) ==
  /\ IsNode(nd) /\ nd.loop = node[n].loop /\ nd.i = node[n].i
  /\ nd.error = node[n].error

LEMMA ShiftCounts ==
  ASSUME JobOK, NodesOK, NEW n \in UniqueID, NEW nd, NEW d, NEW links,
         Doing(n, d, links), Renewed(n, nd), InLoop(nd), Shift(n, nd, d, links)
  PROVE  /\ \A m \in UniqueID : m # n => node'[m] = node[m]
         /\ \A e \in Dims : grid[e] > 1 =>
              /\ Sent(node'[n], e) = Sent(node[n], e) + (IF e = NextDim(nd.i, d) THEN 1 ELSE 0)
              /\ Rcvd(node'[n], e) = Rcvd(node[n], e) + (IF e = d THEN 1 ELSE 0)
<1> DEFINE next == NextDim(nd.i, d)  i == nd.i  loop == nd.loop
           w == [nd EXCEPT !.pc = "wait", !.j = next]
           C(k, e) == Cnt(loop, k, e)
<1>1. /\ d \in 0..5 /\ i \in Nat /\ i + 1 \in Nat
      /\ next = 6 => node' = [node EXCEPT ![n] = AfterShift(nd)]
      /\ next # 6 => node' = [node EXCEPT ![n] = w]
  BY ShiftsFacts DEF Doing, Dims, InLoop, Shift
<1>2. /\ next \in (d + 1)..6
      /\ next # 6 => next \in Dims /\ grid[next] > 1 /\ Carries(i, next)
      /\ \A e \in Dims : d < e /\ e < next => grid[e] = 1 \/ ~Carries(i, e)
  BY <1>1, NextDimFacts
<1> HIDE DEF next, loop, i
<1>3. \A m \in UniqueID : m # n => node'[m] = node[m]
  BY <1>1 DEF NodesOK
<1>4. node[n].loop = loop /\ node[n].i = i
  BY DEF Renewed, loop, i
<1>5. ASSUME NEW e \in Dims
      PROVE  /\ Sent(node[n], e) = IF e <= d THEN C(i + 1, e) ELSE C(i, e)
             /\ Rcvd(node[n], e) = IF e < d THEN C(i + 1, e) ELSE C(i, e)
  <2>1. e \in 1..5
    BY DEF Dims
  <2>2. CASE d = 0 /\ node[n].pc = "body"
    <3>1. ~(e <= d) /\ ~(e < d)
      BY <2>1, <2>2
    <3> QED BY <1>4, <2>2, <3>1 DEF Sent, Rcvd, Rounds
  <2>3. CASE node[n].pc = "wait" /\ node[n].j = d
    BY <1>4, <2>3 DEF Sent, Rcvd, Rounds
  <2> QED BY <2>2, <2>3 DEF Doing
<1>6. ASSUME NEW e \in Dims
      PROVE  /\ Sent(node'[n], e) = IF e <= next THEN C(i + 1, e) ELSE C(i, e)
             /\ Rcvd(node'[n], e) = IF e < next THEN C(i + 1, e) ELSE C(i, e)
  <2>1. e \in 1..5
    BY DEF Dims
  <2>2. CASE next = 6
    <3>1. node'[n] = AfterShift(nd)
      BY <1>1, <2>2 DEF NodesOK
    <3>2. /\ Sent(AfterShift(nd), e) = C(i + 1, e)
          /\ Rcvd(AfterShift(nd), e) = C(i + 1, e)
      BY AfterCounts DEF Renewed, loop, i
    <3> QED BY <2>1, <2>2, <3>1, <3>2
  <2>3. CASE next # 6
    <3>1. node'[n] = w
      BY <1>1, <2>3 DEF NodesOK
    <3>2. w.pc = "wait" /\ w.j = next /\ w.loop = loop /\ w.i = i
      BY DEF Renewed, IsNode, Fields, loop, i
    <3> HIDE DEF w
    <3>3. /\ Sent(w, e) = IF e <= next THEN C(i + 1, e) ELSE C(i, e)
          /\ Rcvd(w, e) = IF e < next THEN C(i + 1, e) ELSE C(i, e)
      BY <3>2 DEF Sent, Rcvd, Rounds
    <3> QED BY <3>1, <3>3
  <2> QED BY <2>2, <2>3
<1>7. ASSUME NEW e \in Dims, grid[e] > 1
      PROVE  /\ Sent(node'[n], e) = Sent(node[n], e) + (IF e = next THEN 1 ELSE 0)
             /\ Rcvd(node'[n], e) = Rcvd(node[n], e) + (IF e = d THEN 1 ELSE 0)
  <2>1. e \in 1..5 /\ grid[e] # 1
    BY <1>7 DEF Dims
  <2>2. /\ C(i, e) \in Nat
        /\ C(i + 1, e) = C(i, e) + (IF Carries(i, e) THEN 1 ELSE 0)
    BY <1>1, CntFacts
  <2>3. e = d => Carries(i, e)
    BY <1>4, <2>1 DEF Doing
  <2> HIDE DEF C
  <2>4. CASE e < d
    BY <1>1, <1>2, <1>5, <1>6, <2>1, <2>2, <2>4
  <2>5. CASE e = d
    BY <1>1, <1>2, <1>5, <1>6, <2>1, <2>2, <2>3, <2>5
  <2>6. CASE d < e /\ e < next
    <3>1. ~Carries(i, e)
      BY <1>2, <2>1, <2>6
    <3> QED BY <1>1, <1>2, <1>5, <1>6, <2>1, <2>2, <2>6, <3>1
  <2>7. CASE e = next
    BY <1>1, <1>2, <1>5, <1>6, <2>1, <2>2, <2>7
  <2>8. CASE e > next
    BY <1>1, <1>2, <1>5, <1>6, <2>1, <2>2, <2>8
  <2> QED BY <1>1, <1>2, <2>1, <2>4, <2>5, <2>6, <2>7, <2>8
<1> QED BY <1>3, <1>7 DEF next, i

\* After a step of shift_data() all that is under way is right.
LEMMA ShiftLinks ==
  ASSUME JobOK, NodesOK, LinksOK(node, link), NEW n \in UniqueID, NEW nd, NEW d, NEW links,
         Doing(n, d, links), Renewed(n, nd), InLoop(nd), Shift(n, nd, d, links),
         nd.o = Held(nd.loop, nd.i + 1, Mid(n, nd.i, d + 1))
  PROVE  LinksOK(node', link')
<1> DEFINE next == NextDim(nd.i, d)  i == nd.i  loop == nd.loop
           to == Neighbour(n, next, -1)
           S(nodes, m, e) == Sent(nodes[Neighbour(m, e, 1)], e)
           pushed == [links EXCEPT ![to][next] = Append(@, nd.o)]
<1>1. /\ d \in 0..5 /\ i \in Nat /\ loop \in Loops /\ i \in 0..(Shifts(loop) - 1)
      /\ (next = 6 => link' = links) /\ (next # 6 => link' = pushed)
  BY ShiftsFacts DEF Doing, Dims, InLoop, Shift
<1>2. /\ next # 6 => next \in Dims /\ grid[next] > 1 /\ Carries(i, next)
      /\ nd.o = Held(loop, i + 1, Mid(n, i, next))
  <2>1. Mid(n, i, d + 1) = Mid(n, i, next)
    BY <1>1, MidFacts
  <2> QED BY <1>1, <2>1, NextDimFacts
<1>3. /\ \A m \in UniqueID : m # n => node'[m] = node[m]
      /\ \A e \in Dims : grid[e] > 1 =>
           /\ Sent(node'[n], e) = Sent(node[n], e) + (IF e = next THEN 1 ELSE 0)
           /\ Rcvd(node'[n], e) = Rcvd(node[n], e) + (IF e = d THEN 1 ELSE 0)
  BY ShiftCounts
<1>4. link = [m \in UniqueID |-> [e \in 1..6 |-> link[m][e]]]
  BY DEF LinksOK
<1>5. /\ links = [m \in UniqueID |-> [e \in 1..6 |-> links[m][e]]]
      /\ \A m \in UniqueID : \A e \in 1..6 :
           links[m][e] = IF m = n /\ e = d THEN Tail(link[m][e]) ELSE link[m][e]
  <2>1. CASE d = 0 /\ links = link
    BY <1>4, <2>1
  <2>2. CASE d \in Dims /\ links = [link EXCEPT ![n][d] = Tail(@)]
    <3>1. d \in 1..6
      BY <2>2 DEF Dims
    <3> QED BY <1>4, <2>2, <3>1
  <2> QED BY <2>1, <2>2 DEF Doing
<1>6. ASSUME next # 6 PROVE to \in UniqueID
  BY <1>2, <1>6, NeighbourCoor
<1>7. /\ link' = [m \in UniqueID |-> [e \in 1..6 |-> link'[m][e]]]
      /\ \A m \in UniqueID : \A e \in 1..6 :
           link'[m][e] = IF next # 6 /\ m = to /\ e = next THEN Append(links[m][e], nd.o)
                                                         ELSE links[m][e]
  <2> HIDE DEF next, to
  <2>1. CASE next = 6
    BY <1>1, <1>5, <2>1
  <2>2. CASE next # 6
    <3>1. next \in 1..6 /\ to \in UniqueID /\ link' = pushed
      BY <1>1, <1>2, <1>6, <2>2 DEF Dims
    <3> HIDE DEF pushed
    <3>2. \A m \in UniqueID : links[m] = [e \in 1..6 |-> links[m][e]]
      BY <1>5, Zenon
    <3> DEFINE row == [links[to] EXCEPT ![next] = Append(@, nd.o)]
    <3>3. row = [e \in 1..6 |-> IF e = next THEN Append(links[to][e], nd.o) ELSE links[to][e]]
      <4>1. links[to] = [e \in 1..6 |-> links[to][e]]
        BY <3>1, <3>2, Zenon
      <4> QED BY <3>1, <4>1
    <3> HIDE DEF row
    <3>4. links = [m \in UniqueID |-> links[m]]
      BY <1>5, Zenon
    <3>5. pushed = [links EXCEPT ![to] = row]
      BY DEF pushed, row
    <3>6. pushed = [m \in UniqueID |-> IF m = to THEN row ELSE links[m]]
      BY <3>1, <3>4, <3>5
    <3> QED BY <2>2, <3>1, <3>2, <3>3, <3>6
  <2> QED BY <2>1, <2>2
<1> HIDE DEF next, i, loop, pushed
<1>8. ASSUME NEW m \in UniqueID, NEW e \in Dims, grid[e] > 1
      PROVE  LinkOK(m, e, link'[m][e], S(node', m, e), Rcvd(node'[m], e))
  <2> DEFINE s == Neighbour(m, e, 1)
  <2>1. LinkOK(m, e, link[m][e], S(node, m, e), Rcvd(node[m], e)) /\ e \in 1..6
    BY <1>8 DEF LinksOK, Dims
  <2>2. LinkOK(m, e, links[m][e], S(node, m, e), Rcvd(node'[m], e))
    <3>1. CASE m = n /\ e = d
      <4>1. link[m][e] # <<>>
        BY <3>1 DEF Doing, Dims
      <4>2. LinkOK(m, e, Tail(link[m][e]), S(node, m, e), Rcvd(node[m], e) + 1)
        BY <2>1, <4>1, PopLink
      <4>3. Rcvd(node'[m], e) = Rcvd(node[m], e) + 1
        BY <1>3, <1>8, <3>1
      <4>4. links[m][e] = Tail(link[m][e])
        BY <1>5, <2>1, <3>1
      <4> QED BY <4>2, <4>3, <4>4
    <3>2. CASE ~(m = n /\ e = d)
      <4>0. links[m][e] = link[m][e]
        BY <1>5, <2>1, <3>2
      <4>1. Rcvd(node'[m], e) = Rcvd(node[m], e)
        <5>1. CASE m # n
          BY <1>3, <5>1
        <5>2. CASE m = n
          <6>1. Rcvd(node[m], e) \in Nat
            BY <2>1 DEF LinkOK
          <6> QED BY <1>3, <1>8, <3>2, <5>2, <6>1
        <5> QED BY <5>1, <5>2
      <4> QED BY <2>1, <4>0, <4>1
    <3> QED BY <3>1, <3>2
  <2>3. s \in UniqueID /\ Neighbour(s, e, -1) = m
    BY NeighbourCoor, Opposite
  <2>4. CASE s = n /\ e = next
    <3>1. next # 6 /\ m = to /\ next \in Dims
      BY <2>3, <2>4 DEF Dims, to
    <3>2. Carries(i, e) /\ nd.o = Held(loop, i + 1, Mid(n, i, e))
      BY <1>2, <2>4, <3>1
    <3>3. Mid(m, i, e + 1) = Mid(n, i, e)
      BY <1>1, <2>4, <3>2, Hop
    <3>4. S(node', m, e) = S(node, m, e) + 1
      BY <1>3, <1>8, <2>4
    <3>5. Cnt(loop, i + 1, e) = S(node', m, e)
      <4>1. Sent(node[n], e) = Cnt(loop, i, e)
        <5>1. node[n].loop = loop /\ node[n].i = i
          BY DEF Renewed, loop, i
        <5>2. d < e
          <6>1. next \in (d + 1)..6 /\ d \in Int
            BY <1>1, NextDimFacts DEF next, i
          <6> QED BY <2>4, <6>1
        <5>3. CASE d = 0 /\ node[n].pc = "body"
          BY <5>1, <5>3 DEF Sent, Rounds
        <5>4. CASE node[n].pc = "wait" /\ node[n].j = d
          <6>1. ~(e <= d)
            BY <1>1, <5>2 DEF Dims
          <6> QED BY <5>1, <5>4, <6>1 DEF Sent, Rounds
        <5> QED BY <5>3, <5>4 DEF Doing
      <4>2. Cnt(loop, i + 1, e) = Cnt(loop, i, e) + 1
        BY <1>1, <3>2, CntFacts
      <4> QED BY <2>4, <3>4, <4>1, <4>2
    <3>6. link'[m][e] = Append(links[m][e], nd.o)
      BY <1>7, <2>1, <2>4, <3>1
    <3> DEFINE a == S(node, m, e)  b == Rcvd(node'[m], e)  Q == links[m][e]
    <3>7. LinkOK(m, e, Q, a, b) /\ Cnt(loop, i + 1, e) = a + 1
      BY <2>2, <3>4, <3>5
    <3> HIDE DEF a, b, Q
    <3>8. LinkOK(m, e, Append(Q, Held(loop, i + 1, Mid(m, i, e + 1))), a + 1, b)
      BY <1>1, <3>2, <3>7, PushLink
    <3> QED BY <3>2, <3>3, <3>4, <3>6, <3>8 DEF a, b, Q
  <2>5. CASE ~(s = n /\ e = next)
    <3>1. link'[m][e] = links[m][e]
      <4>1. ~(next # 6 /\ m = to /\ e = next)
        <5> SUFFICES ASSUME next # 6, m = to, e = next PROVE FALSE
          OBVIOUS
        <5>1. Neighbour(to, next, 1) = n
          BY <1>2, Opposite DEF to
        <5> QED BY <2>5, <5>1
      <4> QED BY <1>7, <2>1, <4>1
    <3>2. S(node', m, e) = S(node, m, e)
      <4>1. CASE s # n
        BY <1>3, <2>3, <4>1
      <4>2. CASE s = n
        <5>1. Sent(node[n], e) \in Nat
          BY <2>1, <4>2 DEF LinkOK
        <5> QED BY <1>3, <1>8, <2>5, <4>2, <5>1
      <4> QED BY <4>1, <4>2
    <3> QED BY <2>2, <3>1, <3>2
  <2> QED BY <2>4, <2>5
<1> QED BY <1>7, <1>8 DEF LinksOK

-----------------------------------------------------------------------------
(* The end of a loop.                                                      *)

LEMMA ProdSplit ==
  ASSUME JobOK, NEW d \in 0..dims
  PROVE  \E z \in Nat : Prod(grid, dims) = Prod(grid, d) * z
<1> DEFINE P(e) == Prod(grid, e)
           E(e) == \E z \in Nat : P(dims) = P(e) * z
<1>1. /\ dims \in {4, 5} /\ \A e \in 0..5 : P(e) \in Nat
      /\ \A e \in 1..5 : grid[e] \in Nat /\ P(e) = P(e - 1) * grid[e]
  <2>1. grid \in Box /\ dims \in {4, 5}
    BY Boxes
  <2> QED BY <2>1, ProdUp DEF Dims, Box
<1>2. ASSUME NEW e \in 1..5, E(e) PROVE E(e - 1)
  <2> HIDE DEF P
  <2>1. PICK z \in Nat : P(dims) = P(e) * z
    BY <1>2
  <2>2. /\ P(e) = P(e - 1) * grid[e] /\ P(e - 1) \in Nat /\ grid[e] \in Nat
    BY <1>1
  <2>3. P(dims) = P(e - 1) * (grid[e] * z) /\ grid[e] * z \in Nat
    BY <2>1, <2>2
  <2> QED BY <2>3
<1>3. E(dims)
  <2> HIDE DEF P
  <2>1. P(dims) = P(dims) * 1
    BY <1>1
  <2> QED BY <2>1
<1> HIDE DEF E
<1>4. E(4)
  <2>1. E(5) => E(5 - 1)
    BY <1>2
  <2> QED BY <1>1, <1>3, <2>1
<1>5. E(3) /\ E(2) /\ E(1) /\ E(0)
  <2>1. E(4 - 1)
    BY <1>2, <1>4
  <2>2. E(3 - 1)
    BY <1>2, <2>1
  <2>3. E(2 - 1)
    BY <1>2, <2>2
  <2>4. E(1 - 1)
    BY <1>2, <2>3
  <2> QED BY <2>1, <2>2, <2>3, <2>4
<1>7. E(d)
  <2>1. d \in {0, 1, 2, 3, 4, 5} /\ (d = 5 => dims = 5)
    BY <1>1
  <2>2. CASE d = 5
    BY <1>3, <2>1, <2>2
  <2>3. CASE d = 0
    BY <1>5, <2>3
  <2>4. CASE d = 1
    BY <1>5, <2>4
  <2>5. CASE d = 2
    BY <1>5, <2>5
  <2>6. CASE d = 3
    BY <1>5, <2>6
  <2>7. CASE d = 4
    BY <1>4, <2>7
  <2> QED BY <2>1, <2>2, <2>3, <2>4, <2>5, <2>6, <2>7
<1> QED BY <1>7 DEF E, P

\* After a full turn in all dimensions each node has its own data.
LEMMA FullTurn ==
  ASSUME JobOK, NEW n \in UniqueID
  PROVE  /\ \A d \in 1..dims : node_x(n, Parts)[d] = node_coor(n)[d]
         /\ Number(node_x(n, Parts), grid, dims) = mynodeid(n)
<1>1. /\ dims \in {4, 5} /\ Parts \in Nat /\ \A d \in 1..dims : d \in Dims
      /\ grid \in Box
  BY Boxes, Volumes DEF Dims
<1>2. ASSUME NEW d \in 1..dims PROVE node_x(n, Parts)[d] = node_coor(n)[d]
  <2>1. d \in Dims /\ d \in 0..dims /\ d - 1 \in 0..5
    BY <1>1 DEF Dims
  <2> DEFINE g == grid[d]  c == node_coor(n)[d]  b == Prod(grid, d - 1)
  <2>2. g \in Nat \ {0} /\ c \in 0..(g - 1) /\ b \in Nat \ {0}
    BY <1>1, <2>1, CoorFacts, ProdUp
  <2>3. Prod(grid, d) = b * g
    BY <1>1, <2>1, ProdUp
  <2>4. node_x(n, Parts)[d] = (Quot(Parts, grid, d - 1) + c) % g
    BY <1>1, <2>1, NodeX
  <2> HIDE DEF g, c, b
  <2>5. PICK z \in Nat : Parts = (b * g) * z
    BY <2>1, <2>3, ProdSplit DEF Parts
  <2> DEFINE y == g * z
  <2>6. y \in Int /\ Parts = b * y
    BY <2>2, <2>5
  <2>7. y % g = 0
    BY <2>2, Multiple
  <2> HIDE DEF y
  <2>8. Quot(Parts, grid, d - 1) = y
    <3>1. (b * y) \div b = y
      BY <2>2, <2>6, Multiple
    <3> QED BY <2>6, <3>1 DEF Quot, b
  <2>9. c \in Int /\ c + y = y + c
    BY <2>2, <2>6
  <2>10. (c + y) % g = c % g
    BY <2>2, <2>6, <2>7, <2>9, ModSum, Zenon
  <2>11. c % g = c
    BY <2>2, DivSmall, Zenon
  <2> QED BY <2>4, <2>8, <2>9, <2>10, <2>11 DEF c
<1>3. Number(node_x(n, Parts), grid, dims) = Number(node_coor(n), grid, dims)
  BY <1>1, <1>2, SameNumber
<1> QED BY <1>2, <1>3 DEF mynodeid

\* Node 0 has the data of one node after the other.
LEMMA NodeZero ==
  ASSUME JobOK, NEW i \in 0..(Parts - 1)
  PROVE  /\ 0 \in UniqueID /\ i \in Nat /\ \A d \in Dims : node_coor(0)[d] = 0
         /\ Number(node_x(0, i), grid, dims) = i
<1>1. /\ 0 \in UniqueID /\ i \in Nat /\ grid \in Box /\ dims \in {4, 5}
      /\ \A d \in 1..dims : d \in Dims
  <2>1. number_nodes \in Nat \ {0}
    <3>1. grid \in Box
      BY Boxes
    <3> QED BY <3>1, ProdUp DEF JobOK, grid
  <2> QED BY <2>1, Boxes, Volumes DEF UniqueID, Dims
<1>2. ASSUME NEW d \in Dims
      PROVE  node_coor(0)[d] = 0 /\ node_x(0, i)[d] = Coor(i, grid)[d]
  <2>1. d - 1 \in 0..5 /\ grid[d] \in Nat \ {0} /\ 0 \in 0..(grid[d] - 1)
    BY <1>1, CoorFacts DEF Dims
  <2>2. Quot(0, grid, d - 1) = 0
    <3>1. Prod(grid, d - 1) \in Nat \ {0}
      BY <1>1, <2>1, ProdUp
    <3> QED BY <1>1, <2>1, <3>1, QuotZero
  <2>3. node_coor(0)[d] = Quot(0, grid, d - 1) % grid[d]
    BY <1>1, CoorChain DEF node_coor
  <2>4. 0 % grid[d] = 0
    BY <2>1, DivSmall, Zenon
  <2>5. node_x(0, i)[d] = (Quot(i, grid, d - 1) + node_coor(0)[d]) % grid[d]
    BY <1>1, NodeX
  <2>6. Quot(i, grid, d - 1) \in Nat /\ Coor(i, grid)[d] = Quot(i, grid, d - 1) % grid[d]
    BY <1>1, <2>1, CoorChain
  <2>7. Quot(i, grid, d - 1) + 0 = Quot(i, grid, d - 1)
    BY <2>6
  <2> QED BY <2>2, <2>3, <2>4, <2>5, <2>6, <2>7
<1>3. Number(Coor(i, grid), grid, dims) = i
  <2>1. i \in 0..(Prod(grid, dims) - 1)
    BY DEF Parts
  <2> QED BY <1>1, <2>1, NumberCoor, Zenon
<1>4. Number(node_x(0, i), grid, dims) = Number(Coor(i, grid), grid, dims)
  BY <1>1, <1>2, SameNumber
<1> QED BY <1>1, <1>2, <1>3, <1>4

LEMMA NoTurn ==
  ASSUME NEW g \in Nat \ {0}, NEW c \in 0..(g - 1), NEW a \in Nat, (a + c) % g = a % g
  PROVE  c = 0
<1> DEFINE b == a + c  p == a \div g  q == b \div g  r == a % g  s == b % g  z == q - p
<1>1. a \in Int /\ b \in Int /\ 0 \in 0..(g - 1) /\ 0 \in Int /\ g * 0 = 0
  OBVIOUS
<1>2. p \in Int /\ a = g * p + r /\ r \in 0..(g - 1)
  BY <1>1, QuotRem, Zenon
<1> HIDE DEF b
<1>3. q \in Int /\ b = g * q + s
  BY <1>1, QuotRem, Zenon
<1>4. r = s
  BY DEF b
<1> HIDE DEF p, q, r, s
<1>5. z \in Int /\ g * z = g * q - g * p /\ g * p \in Int /\ g * q \in Int
  BY <1>2, <1>3
<1> HIDE DEF z
<1>6. c + g * 0 = 0 + g * z
  BY <1>1, <1>2, <1>3, <1>4, <1>5 DEF b
<1> QED BY <1>1, <1>5, <1>6, Digit

\* No other node has the data that node 0 has, unless there are several slices
\* in s that hold the same.
LEMMA OnlyZero ==
  ASSUME JobOK, ~Spreads, NEW n \in UniqueID, n # 0, NEW i \in 0..(Parts - 1)
  PROVE  Number(node_x(n, i), grid, dims) # i
<1> SUFFICES ASSUME Number(node_x(n, i), grid, dims) = i PROVE FALSE
  OBVIOUS
<1>1. /\ 0 \in UniqueID /\ i \in Nat /\ \A d \in Dims : node_coor(0)[d] = 0
      /\ Number(node_x(0, i), grid, dims) = i
      /\ grid \in Box /\ dims \in {4, 5} /\ \A d \in 1..dims : d \in Dims
  BY NodeZero, Boxes DEF Dims
<1>2. ASSUME NEW d \in 1..dims PROVE node_coor(n)[d] = 0
  <2>1. In(node_x(n, i), grid, dims) /\ In(node_x(0, i), grid, dims)
    BY <1>1, NodeX
  <2>2. /\ Coor(Number(node_x(n, i), grid, dims), grid)[d] = node_x(n, i)[d]
        /\ Coor(Number(node_x(0, i), grid, dims), grid)[d] = node_x(0, i)[d]
    BY <1>1, <2>1, CoorNumber
  <2> DEFINE k == Quot(i, grid, d - 1)  c == node_coor(n)[d]
  <2>3. d \in Dims /\ grid[d] \in Nat \ {0} /\ c \in 0..(grid[d] - 1) /\ k \in Nat
    <3>1. d \in Dims /\ d - 1 \in 0..5
      BY <1>1 DEF Dims
    <3> QED BY <1>1, <3>1, CoorFacts, CoorChain
  <2>4. node_x(n, i)[d] = (k + c) % grid[d] /\ node_x(0, i)[d] = (k + 0) % grid[d]
    BY <1>1, <2>3, NodeX
  <2>5. k + 0 = k
    BY <2>3
  <2>6. (k + c) % grid[d] = k % grid[d]
    BY <1>1, <2>2, <2>4, <2>5
  <2> HIDE DEF k, c
  <2>7. c = 0
    BY <2>3, <2>6, NoTurn
  <2> QED BY <2>7 DEF c
<1>3. ASSUME NEW d \in Dims PROVE node_coor(n)[d] = 0
  <2>1. CASE d \in 1..dims
    BY <1>2, <2>1
  <2>2. CASE d \notin 1..dims
    <3>1. dims = 4 /\ d = 5 /\ grid[5] \in Nat \ {0}
      BY <1>1, <2>2, CoorFacts DEF Dims
    <3>2. grid[d] = 1
      BY <3>1 DEF Spreads
    <3> QED BY <3>2, CoorFacts
  <2> QED BY <2>1, <2>2
<1>4. node_coor(n) = node_coor(0)
  <2>1. node_coor(n) = [d \in Dims |-> node_coor(n)[d]]
    BY CoorFacts
  <2>2. node_coor(0) = [d \in Dims |-> node_coor(0)[d]]
    BY <1>1, CoorFacts
  <2> QED BY <1>1, <1>3, <2>1, <2>2
<1>5. Number(node_coor(n), grid, 5) = n /\ Number(node_coor(0), grid, 5) = 0
  BY <1>1, CoorFacts
<1> QED BY <1>4, <1>5

-----------------------------------------------------------------------------
(* A node after a step of shift_data().                                    *)

LEMMA HeldFacts ==
  ASSUME JobOK
  PROVE  /\ \A i, j, x : Held("remap", i, x) = Held("remap", j, x)
         /\ \A i \in Nat : \A x : Number(x, grid, dims) \in Nat =>
              /\ storing \/ Number(x, grid, dims) # i =>
                   Held("stream", i + 1, x) = Held("stream", i, x)
              /\ storing \/ Number(x, grid, dims) = i =>
                   Held("stream", i + 1, x) = Part(Number(x, grid, dims))
<1>1. \A i, j, x : Held("remap", i, x) = Held("remap", j, x)
  BY DEF Held
<1>2. ASSUME NEW i \in Nat, NEW x, Number(x, grid, dims) \in Nat
      PROVE  /\ storing \/ Number(x, grid, dims) # i =>
                   Held("stream", i + 1, x) = Held("stream", i, x)
             /\ storing \/ Number(x, grid, dims) = i =>
                   Held("stream", i + 1, x) = Part(Number(x, grid, dims))
  <2> DEFINE b == Number(x, grid, dims)
  <2>1. b \in Nat
    BY <1>2
  <2>2. \A j : Held("stream", j, x) = IF storing \/ b < j THEN Part(b) ELSE Blank(job)
    BY DEF Held
  <2> HIDE DEF b
  <2>3. b # i => (b < i + 1 <=> b < i)
    BY <2>1
  <2>4. b = i => b < i + 1
    BY <2>1
  <2>5. storing \/ b # i => Held("stream", i + 1, x) = Held("stream", i, x)
    BY <2>2, <2>3
  <2>6. storing \/ b = i => Held("stream", i + 1, x) = Part(b)
    BY <2>2, <2>4
  <2> QED BY <2>5, <2>6 DEF b
<1> QED BY <1>1, <1>2

\* What a node holds before its first shift, and after a full turn.
LEMMA HeldEnds ==
  ASSUME JobOK, NEW n \in UniqueID
  PROVE  /\ Held("stream", Parts, node_x(n, Parts)) = Part(mynodeid(n))
         /\ storing => Held("stream", 0, node_x(n, 0)) = Part(mynodeid(n))
         /\ ~storing => Held("remap", 0, node_x(n, 0)) = Part(mynodeid(n))
         /\ ~storing => Held("stream", 0, node_x(n, 0)) = Blank(job)
<1>1. /\ node_x(n, 0) = node_coor(n) /\ Parts \in Nat
      /\ Number(node_x(n, Parts), grid, dims) = mynodeid(n)
      /\ mynodeid(n) \in 0..(Parts - 1)
  BY NodeStart, FullTurn, NodeCoor, Volumes
<1>2. mynodeid(n) < Parts /\ ~(mynodeid(n) < 0)
  BY <1>1
<1>3. Number(node_coor(n), grid, dims) = mynodeid(n)
  BY DEF mynodeid
<1>4. Held("stream", Parts, node_x(n, Parts)) = Part(mynodeid(n))
  BY <1>1, <1>2 DEF Held
<1>5. storing => Held("stream", 0, node_x(n, 0)) = Part(mynodeid(n))
  BY <1>1, <1>3 DEF Held
<1>6. ~storing => Held("stream", 0, node_x(n, 0)) = Blank(job)
  BY <1>1, <1>2, <1>3 DEF Held
<1>7. ~storing => Held("remap", 0, node_x(n, 0)) = Part(mynodeid(n))
  BY <1>1, <1>3 DEF Held, Part, Key
<1> QED BY <1>4, <1>5, <1>6, <1>7

\* What a node that has shifted its data has picked up.
Picks(n, nd) ==
  /\ nd.rdata = [p \in Sites |-> nd.rdata[p]]
  /\ nd.loop = "remap" =>
       \A p \in Sites : \A k \in 0..nd.i : Hit(n, k, p) => Sorted(n, nd.rdata, p)
  /\ storing /\ nd.loop = "stream" => \A p \in Sites : Sorted(n, nd.rdata, p)

LEMMA AllSorted ==
  ASSUME JobOK, NEW n \in UniqueID, NEW nd, InLoop(nd), Picks(n, nd),
         nd.loop = "remap", nd.i + 1 = Shifts("remap")
  PROVE  /\ \A p \in Sites : Sorted(n, nd.rdata, p)
         /\ storing => nd.rdata = Part(mynodeid(n))
<1>1. Shifts("remap") = Prod(grid, dims - 1) /\ Shifts("remap") \in Nat /\ nd.i \in Nat
  BY ShiftsFacts DEF InLoop
<1>2. ASSUME NEW p \in Sites PROVE Sorted(n, nd.rdata, p)
  <2>1. PICK i \in 0..(Prod(grid, dims - 1) - 1) : Hit(n, i, p)
    BY AllPicked
  <2>2. i \in 0..nd.i
    BY <1>1, <2>1
  <2> QED BY <2>1, <2>2 DEF Picks
<1>3. ASSUME storing PROVE nd.rdata = Part(mynodeid(n))
  BY <1>2, <1>3 DEF Picks, Sorted, Goal, Part
<1> QED BY <1>2, <1>3

LEMMA AfterShiftNode ==
  ASSUME JobOK, NEW n \in UniqueID, NEW nd, IsNode(nd), InLoop(nd),
         job.style = "serial" => nd.error = 0,
         nd.o = Held(nd.loop, nd.i + 1, node_x(n, nd.i + 1)), Picks(n, nd)
  PROVE  NodeOK(n, AfterShift(nd))
<1> DEFINE i == nd.i  a == AfterShift(nd)
<1>1. /\ Shifts(nd.loop) \in Nat /\ i \in Nat /\ nd.loop \in Loops
      /\ job.style \in {"serial", "parallel"} /\ storing \in BOOLEAN
      /\ Shifts("stream") = Parts
  BY ShiftsFacts DEF InLoop, JobOK
<1>2. CASE i + 1 < Shifts(nd.loop)
  <2>1. a = [nd EXCEPT !.pc = "body", !.i = i + 1]
    BY <1>2 DEF AfterShift
  <2>2. /\ a.pc = "body" /\ a.i = i + 1 /\ a.loop = nd.loop /\ a.o = nd.o
        /\ a.rdata = nd.rdata /\ a.error = nd.error
    BY <2>1 DEF IsNode, Fields
  <2> HIDE DEF a
  <2>3. i + 1 \in 0..(Shifts(nd.loop) - 1) /\ (i + 1) - 1 = i
    BY <1>1, <1>2
  <2>4. PlaceOK(a)
    BY <2>2, <2>3 DEF PlaceOK, InLoop
  <2>5. DataOK(n, a)
    BY <2>2 DEF DataOK
  <2>6. RowsOK(n, a)
    <3>1. nd.rdata = [p \in Sites |-> nd.rdata[p]]
      BY DEF Picks
    <3>2. nd.loop = "remap" => \A p \in Sites : \A k \in 0..((i + 1) - 1) :
            Hit(n, k, p) => Sorted(n, nd.rdata, p)
      BY <2>3 DEF Picks
    <3>3. storing /\ nd.loop = "stream" => \A p \in Sites : Sorted(n, nd.rdata, p)
      BY DEF Picks
    <3> HIDE DEF i
    <3> QED BY <2>2, <3>1, <3>2, <3>3 DEF RowsOK
  <2> QED BY <2>4, <2>5, <2>6 DEF NodeOK, a
<1>3. CASE ~(i + 1 < Shifts(nd.loop))
  <2>1. a = AfterLoop(nd)
    BY <1>3 DEF AfterShift
  <2>2. i + 1 = Shifts(nd.loop)
    BY <1>1, <1>3 DEF InLoop
  <2>3. CASE nd.loop = "stream"
    <3>1. a = [nd EXCEPT !.pc = "sync"]
      BY <2>1, <2>3 DEF AfterLoop
    <3>2. /\ a.pc = "sync" /\ a.loop = "stream" /\ a.o = nd.o
          /\ a.rdata = nd.rdata /\ a.error = nd.error
      BY <2>3, <3>1 DEF IsNode, Fields
    <3> HIDE DEF a
    <3>3. job.style = "serial"
      BY <1>1, <2>3 DEF InLoop
    <3>4. nd.o = Part(mynodeid(n))
      BY <1>1, <2>2, <2>3, HeldEnds
    <3>5. PlaceOK(a)
      BY <3>2, <3>3 DEF PlaceOK
    <3>6. DataOK(n, a)
      BY <3>2, <3>4 DEF DataOK
    <3>7. RowsOK(n, a)
      BY <2>3, <3>2 DEF RowsOK, Picks
    <3> QED BY <3>5, <3>6, <3>7 DEF NodeOK, a
  <2>4. CASE nd.loop = "remap" /\ ~storing
    <3>1. a = [nd EXCEPT !.pc = "csum", !.mem = nd.rdata]
      BY <2>1, <2>4 DEF AfterLoop
    <3>2. /\ a.pc = "csum" /\ a.loop = "remap" /\ a.mem = nd.rdata
          /\ a.rdata = nd.rdata /\ a.error = nd.error
      BY <2>4, <3>1 DEF IsNode, Fields
    <3> HIDE DEF a
    <3>3. \A p \in Sites : Sorted(n, nd.rdata, p)
      BY <2>2, <2>4, AllSorted
    <3>5. PlaceOK(a)
      BY <1>1, <2>4, <3>2 DEF PlaceOK
    <3>6. DataOK(n, a)
      BY <3>2 DEF DataOK
    <3>7. RowsOK(n, a)
      BY <2>4, <3>2, <3>3 DEF RowsOK, Picks
    <3> QED BY <3>5, <3>6, <3>7 DEF NodeOK, a
  <2>5. CASE nd.loop = "remap" /\ storing /\ job.style = "parallel"
    <3>1. a = [nd EXCEPT !.pc = "slot"]
      BY <2>1, <2>5 DEF AfterLoop
    <3>2. /\ a.pc = "slot" /\ a.loop = "remap"
          /\ a.rdata = nd.rdata /\ a.error = nd.error
      BY <2>5, <3>1 DEF IsNode, Fields
    <3> HIDE DEF a
    <3>3. \A p \in Sites : Sorted(n, nd.rdata, p)
      BY <2>2, <2>5, AllSorted
    <3>5. PlaceOK(a)
      BY <1>1, <2>5, <3>2 DEF PlaceOK
    <3>6. DataOK(n, a)
      BY <3>2 DEF DataOK
    <3>7. RowsOK(n, a)
      BY <2>5, <3>2, <3>3 DEF RowsOK, Picks
    <3> QED BY <3>5, <3>6, <3>7 DEF NodeOK, a
  <2>6. CASE nd.loop = "remap" /\ storing /\ job.style = "serial"
    <3>1. a = [nd EXCEPT !.pc = "body", !.loop = "stream", !.i = 0, !.o = nd.rdata]
      BY <2>1, <2>6 DEF AfterLoop
    <3>2. /\ a.pc = "body" /\ a.loop = "stream" /\ a.i = 0 /\ a.o = nd.rdata
          /\ a.rdata = nd.rdata /\ a.error = nd.error
      BY <2>6, <3>1 DEF IsNode, Fields
    <3> HIDE DEF a
    <3>3. (\A p \in Sites : Sorted(n, nd.rdata, p)) /\ nd.rdata = Part(mynodeid(n))
      BY <2>2, <2>6, AllSorted
    <3>4. Held("stream", 0, node_x(n, 0)) = Part(mynodeid(n))
      BY <2>6, HeldEnds
    <3>5. PlaceOK(a)
      <4>1. 0 \in 0..(Shifts("stream") - 1)
        BY <1>1, Volumes
      <4> QED BY <1>1, <2>6, <3>2, <4>1 DEF PlaceOK
    <3>6. DataOK(n, a)
      BY <2>6, <3>2, <3>3, <3>4 DEF DataOK
    <3>7. RowsOK(n, a)
      BY <2>6, <3>2, <3>3 DEF RowsOK, Picks
    <3> QED BY <3>5, <3>6, <3>7 DEF NodeOK, a
  <2> QED BY <1>1, <2>3, <2>4, <2>5, <2>6 DEF Loops
<1> QED BY <1>2, <1>3

LEMMA ShiftNode ==
  ASSUME JobOK, NodesOK, NEW n \in UniqueID, NEW nd, NEW d \in 0..5, NEW links,
         IsNode(nd), InLoop(nd), Shift(n, nd, d, links),
         job.style = "serial" => nd.error = 0,
         nd.o = Held(nd.loop, nd.i + 1, Mid(n, nd.i, d + 1)), Picks(n, nd)
  PROVE  /\ NodeOK(n, node'[n])
         /\ nd.loop = "stream" => PartsPut(node'[n]) = nd.i + 1
         /\ nd.loop = "remap" => PartsPut(node'[n]) = 0
         /\ node'[n].pc \notin {"io done", "returned"} /\ node'[n].error = nd.error
         /\ node'[n].pc = "csum" => ~storing
         /\ node'[n].pc \in {"body", "wait", "sync"} \/ ~(storing /\ job.style = "serial")
         /\ node'[n].pc = "sync" => job.style = "serial"
<1> DEFINE next == NextDim(nd.i, d)  i == nd.i
           w == [nd EXCEPT !.pc = "wait", !.j = next]
<1>1. /\ i \in Nat /\ i \in 0..(Shifts(nd.loop) - 1) /\ nd.loop \in Loops
      /\ job.style \in {"serial", "parallel"}
      /\ Shifts(nd.loop) \in Nat /\ Shifts("stream") = Parts
  BY ShiftsFacts DEF InLoop, JobOK
<1>2. /\ next # 6 => next \in Dims /\ grid[next] > 1 /\ Carries(i, next)
      /\ nd.o = Held(nd.loop, i + 1, Mid(n, i, next))
      /\ Mid(n, i, 6) = node_x(n, i + 1)
  BY <1>1, MidFacts, NextDimFacts
<1>3. CASE next = 6
  <2>1. node'[n] = AfterShift(nd)
    BY <1>3 DEF Shift, NodesOK
  <2>2. nd.o = Held(nd.loop, nd.i + 1, node_x(n, nd.i + 1))
    BY <1>2, <1>3
  <2>3. NodeOK(n, AfterShift(nd))
    BY <2>2, AfterShiftNode
  <2>4. LET a == AfterShift(nd) IN
         /\ nd.loop = "stream" => PartsPut(a) = nd.i + 1
         /\ nd.loop = "remap" => PartsPut(a) = 0
         /\ a.pc \notin {"io done", "returned"} /\ a.error = nd.error
         /\ a.pc = "csum" => ~storing
         /\ a.pc \in {"body", "wait", "sync"} \/ ~(storing /\ job.style = "serial")
         /\ a.pc = "sync" => job.style = "serial"
    <3> DEFINE a == AfterShift(nd)
    <3>1. CASE i + 1 < Shifts(nd.loop)
      <4>1. a = [nd EXCEPT !.pc = "body", !.i = i + 1]
        BY <3>1 DEF AfterShift
      <4>2. a.pc = "body" /\ a.i = i + 1 /\ a.loop = nd.loop /\ a.error = nd.error
        BY <4>1 DEF IsNode, Fields
      <4> HIDE DEF a
      <4> QED BY <4>2 DEF PartsPut, a
    <3>2. CASE ~(i + 1 < Shifts(nd.loop))
      <4>1. a = AfterLoop(nd)
        BY <3>2 DEF AfterShift
      <4>2. i + 1 = Shifts(nd.loop)
        BY <1>1, <3>2
      <4>3. CASE nd.loop = "stream"
        <5>1. a = [nd EXCEPT !.pc = "sync"]
          BY <4>1, <4>3 DEF AfterLoop
        <5>2. a.pc = "sync" /\ a.loop = "stream" /\ a.error = nd.error
          BY <4>3, <5>1 DEF IsNode, Fields
        <5> HIDE DEF a
        <5>3. PartsPut(a) = i + 1
          BY <1>1, <4>2, <4>3, <5>2 DEF PartsPut
        <5>4. job.style = "serial"
          BY <1>1, <4>3 DEF InLoop
        <5> QED BY <4>3, <5>2, <5>3, <5>4 DEF a
      <4>4. CASE nd.loop = "remap" /\ ~storing
        <5>1. a = [nd EXCEPT !.pc = "csum", !.mem = nd.rdata]
          BY <4>1, <4>4 DEF AfterLoop
        <5>2. a.pc = "csum" /\ a.loop = "remap" /\ a.error = nd.error
          BY <4>4, <5>1 DEF IsNode, Fields
        <5> HIDE DEF a
        <5> QED BY <4>4, <5>2 DEF PartsPut, a
      <4>5. CASE nd.loop = "remap" /\ storing /\ job.style = "parallel"
        <5>1. a = [nd EXCEPT !.pc = "slot"]
          BY <4>1, <4>5 DEF AfterLoop
        <5>2. a.pc = "slot" /\ a.loop = "remap" /\ a.error = nd.error
          BY <4>5, <5>1 DEF IsNode, Fields
        <5> HIDE DEF a
        <5> QED BY <4>5, <5>2 DEF PartsPut, a
      <4>6. CASE nd.loop = "remap" /\ storing /\ job.style = "serial"
        <5>1. a = [nd EXCEPT !.pc = "body", !.loop = "stream", !.i = 0, !.o = nd.rdata]
          BY <4>1, <4>6 DEF AfterLoop
        <5>2. a.pc = "body" /\ a.loop = "stream" /\ a.i = 0 /\ a.error = nd.error
          BY <5>1 DEF IsNode, Fields
        <5> HIDE DEF a
        <5> QED BY <4>6, <5>2 DEF PartsPut, a
      <4> QED BY <1>1, <4>3, <4>4, <4>5, <4>6 DEF Loops
    <3> QED BY <3>1, <3>2
  <2> QED BY <2>1, <2>3, <2>4
<1>4. CASE next # 6
  <2>1. node'[n] = w
    BY <1>4 DEF Shift, NodesOK
  <2>2. /\ w.pc = "wait" /\ w.j = next /\ w.loop = nd.loop /\ w.i = i /\ w.o = nd.o
        /\ w.rdata = nd.rdata /\ w.error = nd.error
    BY DEF IsNode, Fields
  <2> HIDE DEF w, next
  <2>3. PlaceOK(w)
    BY <1>1, <2>2 DEF PlaceOK, InLoop
  <2>4. DataOK(n, w)
    BY <1>2, <1>4, <2>2 DEF DataOK
  <2>5. RowsOK(n, w)
    BY <2>2 DEF RowsOK, Picks
  <2>6. PartsPut(w) = IF nd.loop = "remap" THEN 0 ELSE i + 1
    BY <2>2 DEF PartsPut
  <2> QED BY <2>1, <2>2, <2>3, <2>4, <2>5, <2>6 DEF NodeOK
<1> QED BY <1>3, <1>4

-----------------------------------------------------------------------------
(* What one step does to the whole state.                                  *)

\* Every node is right when those that have not moved were.
LEMMA OthersOK ==
  ASSUME Same, NEW n \in UniqueID, \A m \in UniqueID : NodeOK(m, node[m]),
         \A m \in UniqueID : m # n => node'[m] = node[m], NodeOK(n, node'[n])
  PROVE  (\A m \in UniqueID : NodeOK(m, node[m]))'
<1>1. UniqueID' = UniqueID
  BY SameBoxes
<1>2. ASSUME NEW m \in UniqueID PROVE NodeOK(m, node'[m])
  <2>1. CASE m = n
    BY <2>1
  <2>2. CASE m # n
    BY <2>2
  <2> QED BY <2>1, <2>2
<1>3. \A m \in UniqueID : NodeOK(m, node[m])'
  BY <1>2, SameNode
<1> QED BY <1>1, <1>3

\* A step without shift_data().
LEMMA QuietLinks ==
  ASSUME JobOK, Same, LinksOK(node, link), link' = link,
         \A m \in UniqueID : \A d \in Dims :
           Sent(node'[m], d) = Sent(node[m], d) /\ Rcvd(node'[m], d) = Rcvd(node[m], d)
  PROVE  LinksOK(node, link)'
<1>1. ASSUME NEW m \in UniqueID, NEW d \in Dims, grid[d] > 1
      PROVE  LinkOK(m, d, link'[m][d], Sent(node'[Neighbour(m, d, 1)], d), Rcvd(node'[m], d))
  <2>1. Neighbour(m, d, 1) \in UniqueID
    BY NeighbourCoor
  <2>2. LinkOK(m, d, link[m][d], Sent(node[Neighbour(m, d, 1)], d), Rcvd(node[m], d))
    BY <1>1 DEF LinksOK
  <2> QED BY <2>1, <2>2
<1>2. LinksOK(node', link')
  BY <1>1 DEF LinksOK
<1> QED BY <1>2, SameLinks

LEMMA SamePuts ==
  ASSUME Same
  PROVE  \A nd : PartsPut(nd)' = PartsPut(nd)
BY SameBoxes DEF PartsPut

\* A step that leaves the file alone.
LEMMA QuietFile ==
  ASSUME JobOK, Same, FileShape, FileOK, file' = file, flen' = flen,
         storing /\ job.style = "serial" => PartsPut(node'[0]) = PartsPut(node[0]),
         storing /\ job.style = "parallel" =>
           \A n \in UniqueID : ParallelFile(n, node'[n])
  PROVE  FileShape' /\ FileOK'
<1>1. /\ Vol' = Vol /\ lcl_vol' = lcl_vol /\ UniqueID' = UniqueID /\ Sites' = Sites
      /\ job' = job /\ storing' = storing
  BY SameBoxes DEF Same
<1>2. FileShape'
  BY <1>1 DEF FileShape, Same
<1>3. ASSUME storing, job.style = "serial" PROVE SerialFile(node[0])'
  <2> SUFFICES ASSUME ~lost'
               PROVE  /\ flen' = PartsPut(node[0])' * lcl_vol'
                      /\ \A p \in 0..(flen' - 1) : file'[p] = p
    BY DEF SerialFile
  <2>1. ~lost /\ SerialFile(node[0])
    BY <1>3 DEF FileOK, Same
  <2>2. PartsPut(node[0])' = PartsPut(node[0])
    BY <1>3, SamePuts
  <2> QED BY <1>1, <2>1, <2>2 DEF SerialFile
<1>4. ASSUME storing, job.style = "parallel", NEW n \in UniqueID
      PROVE  ParallelFile(n, node[n])'
  <2>1. ParallelFile(n, node'[n])
    BY <1>4
  <2>2. /\ \A s : Filed(mynodeid(n), s)' = Filed(mynodeid(n), s)
        /\ Writes(n)' = Writes(n)
    BY SameNumbers
  <2>3. lost => lost'
    BY DEF Same
  <2> QED BY <1>1, <2>1, <2>2, <2>3 DEF ParallelFile
<1> QED BY <1>1, <1>2, <1>3, <1>4 DEF FileOK

\* Of a file that has lost data only its size is known.
LEMMA LostFile ==
  ASSUME JobOK, Same, FileShape, lost',
         file' = file \/ \E p, o, len : file' = Written(p, o, len)
  PROVE  FileShape' /\ FileOK'
<1>1. Vol' = Vol /\ DOMAIN file = 0..(Vol - 1)
  BY SameBoxes DEF FileShape
<1>2. file' = [p \in 0..(Vol - 1) |-> file'[p]]
  BY <1>1 DEF Written, FileShape
<1> QED BY <1>1, <1>2 DEF FileShape, FileOK, SerialFile, ParallelFile

\* What has been written to the file is right.
LEMMA WrittenShape ==
  ASSUME JobOK, FileShape, NEW p \in Nat, NEW o, NEW len \in Nat,
         \A s \in 0..(len - 1) : o[s] = p + s
  PROVE  /\ Written(p, o, len) = [q \in 0..(Vol - 1) |-> Written(p, o, len)[q]]
         /\ \A q \in 0..(Vol - 1) :
              Written(p, o, len)[q] = IF q \in p..(p + len - 1) THEN q ELSE file[q]
<1>1. DOMAIN file = 0..(Vol - 1) /\ Vol \in Nat
  BY Volumes DEF FileShape
<1>2. Written(p, o, len)
        = [q \in 0..(Vol - 1) |-> IF q \in p..(p + len - 1) THEN o[q - p] ELSE file[q]]
  BY <1>1 DEF Written
<1>3. ASSUME NEW q \in 0..(Vol - 1), q \in p..(p + len - 1) PROVE o[q - p] = q
  <2>1. q - p \in 0..(len - 1) /\ p + (q - p) = q
    BY <1>1, <1>3
  <2> QED BY <2>1
<1> QED BY <1>2, <1>3
-----------------------------------------------------------------------------
\* The node of which a job without errors knows what it shifts.
LEMMA ShiftingNode ==
  ASSUME JobOK, NodesOK, Live, NEW n \in UniqueID, node[n].pc \in {"body", "wait"}
  PROVE  /\ IsNode(node[n]) /\ InLoop(node[n]) /\ node[n].i \in Nat
         /\ job.style = "serial" => node[n].error = 0
<1>1. IsNode(node[n]) /\ NodeOK(n, node[n])
  BY DEF NodesOK, Live
<1>2. Shifts(node[n].loop) \in Nat
  BY ShiftsFacts
<1>3. node[n].loop \in Loops
  BY <1>1 DEF IsNode, Loops
<1>4. PlaceOK(node[n])
  BY <1>1 DEF NodeOK
<1>5. node[n].i \in 0..(Shifts(node[n].loop) - 1) /\ node[n].i \in Nat
  <2>1. node[n].i \in 0..(Shifts(node[n].loop) - 1)
    BY <1>4, Zenon DEF PlaceOK
  <2> QED BY <1>2, <2>1
<1>6. /\ job.style = "parallel" => node[n].loop = "remap"
      /\ job.style = "serial" => node[n].error = 0
  BY <1>4, Zenon DEF PlaceOK
<1>7. InLoop(node[n])
  BY <1>3, <1>5, <1>6 DEF InLoop
<1> QED BY <1>1, <1>5, <1>6, <1>7

\* A step of shift_data() on node n.
LEMMA ShiftLive ==
  ASSUME JobOK, NodesOK, Live, Same, NEW n \in UniqueID, NEW nd, NEW d, NEW links,
         Doing(n, d, links), Renewed(n, nd), Shift(n, nd, d, links),
         nd.o = Held(nd.loop, nd.i + 1, Mid(n, nd.i, d + 1)), Picks(n, nd)
  PROVE  /\ (\A m \in UniqueID : NodeOK(m, node[m]))' /\ LinksOK(node, link)'
         /\ \A m \in UniqueID : m # n => node'[m] = node[m]
         /\ nd.loop = "stream" => PartsPut(node'[n]) = nd.i + 1
         /\ nd.loop = "remap" => PartsPut(node'[n]) = 0
         /\ storing /\ job.style = "parallel" => ParallelFile(n, node'[n])
<1>1. d \in 0..5 /\ node[n].pc \in {"body", "wait"}
  BY DEF Doing, Dims
<1>2. IsNode(nd) /\ InLoop(nd) /\ (job.style = "serial" => nd.error = 0)
  BY <1>1, ShiftingNode DEF Renewed, InLoop
<1>3. /\ NodeOK(n, node'[n])
      /\ nd.loop = "stream" => PartsPut(node'[n]) = nd.i + 1
      /\ nd.loop = "remap" => PartsPut(node'[n]) = 0
      /\ node'[n].pc \notin {"io done", "returned"} /\ node'[n].error = nd.error
      /\ node'[n].pc = "csum" => ~storing
      /\ node'[n].pc = "sync" => job.style = "serial"
  BY <1>1, <1>2, ShiftNode
<1>4. \A m \in UniqueID : m # n => node'[m] = node[m]
  BY <1>2, ShiftCounts
<1>5. LinksOK(node, link)'
  <2>1. LinksOK(node', link')
    BY <1>2, ShiftLinks DEF Live
  <2> QED BY <2>1, SameLinks
<1>6. (\A m \in UniqueID : NodeOK(m, node[m]))'
  BY <1>3, <1>4, OthersOK DEF Live
<1>7. storing /\ job.style = "parallel" => ParallelFile(n, node'[n])
  BY <1>3 DEF ParallelFile
<1> QED BY <1>3, <1>4, <1>5, <1>6, <1>7

\* The same when the file stays as it is.
LEMMA ShiftQuiet ==
  ASSUME JobOK, NodesOK, FileShape, Live, Same, NEW n \in UniqueID, NEW nd, NEW d, NEW links,
         Doing(n, d, links), Renewed(n, nd), Shift(n, nd, d, links),
         nd.o = Held(nd.loop, nd.i + 1, Mid(n, nd.i, d + 1)), Picks(n, nd),
         file' = file, flen' = flen,
         storing /\ job.style = "serial" /\ n = 0 =>
           nd.loop = "remap" \/ node[n].pc = "wait"
  PROVE  FileShape' /\ Live'
<1>1. /\ (\A m \in UniqueID : NodeOK(m, node[m]))' /\ LinksOK(node, link)'
      /\ \A m \in UniqueID : m # n => node'[m] = node[m]
      /\ nd.loop = "stream" => PartsPut(node'[n]) = nd.i + 1
      /\ nd.loop = "remap" => PartsPut(node'[n]) = 0
      /\ storing /\ job.style = "parallel" => ParallelFile(n, node'[n])
  BY ShiftLive
<1>2. 0 \in UniqueID
  BY NodeZero, Volumes
<1>3. ASSUME storing, job.style = "serial" PROVE PartsPut(node'[0]) = PartsPut(node[0])
  <2>1. CASE n # 0
    BY <1>1, <1>2, <2>1
  <2>2. CASE n = 0 /\ nd.loop = "remap"
    BY <1>1, <2>2 DEF PartsPut, Renewed
  <2>3. CASE n = 0 /\ nd.loop # "remap"
    <3>1. nd.loop = "stream" /\ node[0].pc = "wait" /\ node[0].loop = "stream"
          /\ node[0].i = nd.i
      BY <1>3, <2>3 DEF Renewed, IsNode
    <3> QED BY <1>1, <2>3, <3>1 DEF PartsPut
  <2> QED BY <2>1, <2>2, <2>3
<1>4. ASSUME storing, job.style = "parallel", NEW m \in UniqueID
      PROVE  ParallelFile(m, node'[m])
  BY <1>1, <1>4 DEF Live, FileOK
<1>5. FileShape' /\ FileOK'
  BY <1>3, <1>4, QuietFile DEF Live
<1> QED BY <1>1, <1>5 DEF Live

-----------------------------------------------------------------------------
(* The actions of one node in a job without errors.                        *)

LEMMA ReceiveLive ==
  ASSUME JobOK, NodesOK, FileShape, Live, NEW n \in UniqueID, Receive(n)
  PROVE  FileShape' /\ Live'
<1> DEFINE d == node[n].j  i == node[n].i  loop == node[n].loop
           nd == [node[n] EXCEPT !.o = Head(link[n][d])]
           links == [link EXCEPT ![n][d] = Tail(@)]
<1>1. /\ node[n].pc = "wait" /\ link[n][d] # <<>> /\ Shift(n, nd, d, links)
      /\ Same /\ file' = file /\ flen' = flen
  BY DEF Receive, Same, slots, JobOK
<1>2. IsNode(node[n]) /\ InLoop(node[n]) /\ i \in Nat /\ NodeOK(n, node[n])
  BY <1>1, ShiftingNode DEF Live
<1>3. /\ d \in Dims /\ grid[d] > 1 /\ Carries(i, d)
      /\ RowsOK(n, node[n])
  BY <1>1, <1>2 DEF NodeOK, DataOK
<1>4. Head(link[n][d]) = Held(loop, i + 1, Mid(n, i, d + 1))
  <2> DEFINE Q == link[n][d]  b == Rcvd(node[n], d)
             a == Sent(node[Neighbour(n, d, 1)], d)
  <2>1. LinkOK(n, d, Q, a, b)
    BY <1>3 DEF Live, LinksOK
  <2>2. b = Cnt(loop, i, d)
    <3>1. ~(d < d)
      BY <1>3 DEF Dims
    <3> QED BY <1>1, <3>1 DEF Rcvd, Rounds
  <2>3. Cnt(loop, i + 1, d) = Cnt(loop, i, d) + 1
    BY <1>2, <1>3, CntFacts
  <2> HIDE DEF Q, a, b
  <2>4. IsSeq(Q) /\ Q # <<>>
    BY <1>1, <2>1 DEF LinkOK, Q
  <2>5. Len(Q) \in Nat \ {0} /\ Head(Q) = Q[1]
    BY <2>4, Popped
  <2>6. 1 \in 1..Len(Q) /\ loop \in {"remap", "stream"} /\ i \in 0..(Shifts(loop) - 1)
    BY <1>2, <2>5 DEF InLoop, Loops
  <2>7. Q[1] = Held(loop, i + 1, Mid(n, i, d + 1))
    BY <1>3, <2>1, <2>2, <2>3, <2>6 DEF LinkOK
  <2> QED BY <2>5, <2>7 DEF Q
<1>5. /\ nd.o = Head(link[n][d]) /\ nd.loop = loop /\ nd.i = i /\ nd.rdata = node[n].rdata
      /\ nd.error = node[n].error /\ IsNode(nd)
  BY <1>2 DEF IsNode, Fields
<1> HIDE DEF nd
<1>6. Picks(n, nd)
  BY <1>1, <1>3, <1>5 DEF RowsOK, Picks
<1>7. Doing(n, d, links) /\ Renewed(n, nd)
  BY <1>1, <1>3, <1>5 DEF Doing, Renewed
<1> HIDE DEF d, i, loop, links
<1> QED BY <1>1, <1>4, <1>5, <1>6, <1>7, ShiftQuiet

LEMMA RemapLive ==
  ASSUME JobOK, NodesOK, FileShape, Live, NEW n \in UniqueID, Remap(n)
  PROVE  FileShape' /\ Live'
<1> DEFINE i == node[n].i  rows == Picked(n, i)
           out == node[n].rdata  o == node[n].o
           nd == [node[n] EXCEPT !.rdata = Copied(@, node[n].o, rows)]
<1>1. /\ node[n].pc = "body" /\ node[n].loop = "remap" /\ Shift(n, nd, 0, link)
      /\ Same /\ file' = file /\ flen' = flen
  BY DEF Remap, Same, slots, JobOK
<1>2. IsNode(node[n]) /\ InLoop(node[n]) /\ i \in Nat /\ NodeOK(n, node[n])
  BY <1>1, ShiftingNode DEF Live
<1>3. o = Held("remap", i, node_x(n, i)) /\ RowsOK(n, node[n])
  BY <1>1, <1>2 DEF NodeOK, DataOK
<1>4. o = Held("remap", i + 1, Mid(n, i, 0 + 1))
  <2>1. Mid(n, i, 1) = node_x(n, i)
    BY <1>2, MidFacts
  <2> QED BY <1>3, <2>1, HeldFacts
<1>5. /\ nd.o = o /\ nd.loop = "remap" /\ nd.i = i /\ nd.rdata = Copied(out, o, rows)
      /\ nd.error = node[n].error /\ IsNode(nd)
  BY <1>1, <1>2 DEF IsNode, Fields
<1> HIDE DEF nd
<1>6. ASSUME NEW p \in Sites, NEW k \in 0..i, Hit(n, k, p)
      PROVE  Sorted(n, nd.rdata, p)
  <2>1. CASE Hit(n, i, p)
    <3>1. PICK s \in Sites : Key(node_x(n, i), s) = Goal(n, p)
                             /\ Copied(out, o, rows)[p] = o[s]
      BY <1>2, <2>1, CopiedPlace
    <3>2. o[s] = Src(Key(node_x(n, i), s))
      BY <1>3 DEF Held
    <3> QED BY <1>5, <3>1, <3>2 DEF Sorted
  <2>2. CASE ~Hit(n, i, p)
    <3>1. Copied(out, o, rows)[p] = out[p]
      BY <1>2, <2>2, CopiedPlace
    <3>2. k \in 0..(i - 1)
      <4>1. k # i
        BY <1>6, <2>2
      <4> QED BY <1>2, <4>1
    <3>3. Sorted(n, out, p)
      BY <1>1, <1>3, <1>6, <3>2 DEF RowsOK
    <3> QED BY <1>5, <3>1, <3>3 DEF Sorted
  <2> QED BY <2>1, <2>2
<1>7. nd.rdata = [p \in Sites |-> nd.rdata[p]]
  BY <1>5 DEF Copied
<1>8. Picks(n, nd)
  BY <1>5, <1>6, <1>7 DEF Picks
<1>9. Doing(n, 0, link) /\ Renewed(n, nd)
  BY <1>1, <1>5 DEF Doing, Renewed
<1> HIDE DEF i, rows, out, o
<1> QED BY <1>1, <1>4, <1>5, <1>8, <1>9, ShiftQuiet

\* What SerialIO does in the body of its loop.
LEMMA StreamBody ==
  ASSUME JobOK, NodesOK, Live, NEW n \in UniqueID,
         node[n].pc = "body", node[n].loop = "stream"
  PROVE  /\ job.style = "serial" /\ node[n].i \in 0..(Parts - 1)
         /\ node[n].o = Held("stream", node[n].i, node_x(n, node[n].i))
         /\ IsNode(node[n]) /\ Picks(n, node[n])
         /\ node_x(n, node[n].i) = Mid(n, node[n].i, 0 + 1)
         /\ Number(node_x(n, node[n].i), grid, dims) \in Nat
<1>1. IsNode(node[n]) /\ InLoop(node[n]) /\ node[n].i \in Nat /\ NodeOK(n, node[n])
  BY ShiftingNode DEF Live
<1>2. job.style = "serial"
  BY <1>1 DEF InLoop, JobOK
<1>3. node[n].i \in 0..(Parts - 1)
  BY <1>1, ShiftsFacts DEF InLoop
<1>4. node[n].o = Held("stream", node[n].i, node_x(n, node[n].i)) /\ Picks(n, node[n])
  BY <1>1 DEF NodeOK, DataOK, RowsOK, Picks
<1>5. node_x(n, node[n].i) = Mid(n, node[n].i, 0 + 1)
  BY <1>1, MidFacts
<1>6. Number(node_x(n, node[n].i), grid, dims) \in Nat
  <2>1. In(node_x(n, node[n].i), grid, dims) /\ grid \in Box /\ dims \in {4, 5}
    BY <1>1, NodeX, Boxes
  <2>2. Number(node_x(n, node[n].i), grid, dims) \in 0..(Prod(grid, dims) - 1)
    BY <2>1, CoorNumber
  <2>3. Prod(grid, dims) \in Nat
    BY Volumes DEF Parts
  <2> QED BY <2>2, <2>3
<1> QED BY <1>1, <1>2, <1>3, <1>4, <1>5, <1>6

LEMMA FlushFailsLive ==
  ASSUME JobOK, NodesOK, FileShape, Live, 0 \in UniqueID, FlushFails
  PROVE  FileShape' /\ Live'
<1> DEFINE i == node[0].i  nd == node[0]  o == node[0].o
<1>1. /\ storing /\ nd.pc = "body" /\ nd.loop = "stream" /\ Shift(0, nd, 0, link) /\ Same
      /\ lost' /\ (file' = file \/ \E p, q, len : file' = Written(p, q, len))
  BY DEF FlushFails, PartlyWritten, Same, slots, JobOK
<1>2. /\ i \in 0..(Parts - 1) /\ o = Held("stream", i, node_x(0, i)) /\ IsNode(nd)
      /\ Picks(0, nd) /\ node_x(0, i) = Mid(0, i, 0 + 1)
      /\ Number(node_x(0, i), grid, dims) \in Nat
  BY <1>1, StreamBody
<1>3. i \in Nat
  BY <1>2, Volumes
<1>4. o = Held("stream", i + 1, Mid(0, i, 0 + 1))
  BY <1>1, <1>2, <1>3, HeldFacts
<1>5. Doing(0, 0, link) /\ Renewed(0, nd)
  BY <1>1, <1>2 DEF Doing, Renewed
<1>6. nd.o = Held(nd.loop, nd.i + 1, Mid(0, nd.i, 0 + 1))
  BY <1>1, <1>4
<1>7. (\A m \in UniqueID : NodeOK(m, node[m]))' /\ LinksOK(node, link)'
  <2> HIDE DEF i, nd, o
  <2> QED BY <1>1, <1>2, <1>5, <1>6, ShiftLive
<1>8. FileShape' /\ FileOK'
  BY <1>1, LostFile
<1> QED BY <1>7, <1>8 DEF Live

LEMMA SerialWriteLive ==
  ASSUME JobOK, NodesOK, FileShape, Live, NEW n \in UniqueID, SerialWrite(n)
  PROVE  FileShape' /\ Live'
<1> DEFINE i == node[n].i  nd == node[n]  o == node[n].o
<1>1. /\ storing /\ nd.pc = "body" /\ nd.loop = "stream" /\ Shift(n, nd, 0, link) /\ Same
      /\ n = 0 => file' = Written(flen, o, lcl_vol) /\ flen' = NewEnd(flen, lcl_vol)
      /\ n # 0 => file' = file /\ flen' = flen
  BY DEF SerialWrite, Same, slots, JobOK
<1>2. /\ job.style = "serial" /\ i \in 0..(Parts - 1) /\ i \in Nat
      /\ o = Held("stream", i, node_x(n, i)) /\ IsNode(nd) /\ Picks(n, nd)
      /\ o = Held("stream", i + 1, Mid(n, i, 0 + 1))
      /\ o = Part(Number(node_x(n, i), grid, dims))
  <2>1. /\ job.style = "serial" /\ i \in 0..(Parts - 1)
        /\ o = Held("stream", i, node_x(n, i)) /\ IsNode(nd) /\ Picks(n, nd)
        /\ node_x(n, i) = Mid(n, i, 0 + 1) /\ Number(node_x(n, i), grid, dims) \in Nat
    BY <1>1, StreamBody
  <2>2. i \in Nat
    BY <2>1, Volumes
  <2>3. /\ Held("stream", i + 1, node_x(n, i)) = Held("stream", i, node_x(n, i))
        /\ Held("stream", i + 1, node_x(n, i)) = Part(Number(node_x(n, i), grid, dims))
    BY <1>1, <2>1, <2>2, HeldFacts
  <2> QED BY <2>1, <2>2, <2>3
<1>3. Doing(n, 0, link) /\ Renewed(n, nd)
  BY <1>1, <1>2 DEF Doing, Renewed
<1>4. CASE n # 0
  <2> HIDE DEF i, nd, o
  <2>1. nd.o = Held(nd.loop, nd.i + 1, Mid(n, nd.i, 0 + 1))
    BY <1>1, <1>2 DEF nd, o, i
  <2> QED BY <1>1, <1>2, <1>3, <1>4, <2>1, ShiftQuiet
<1>5. CASE n = 0
  <2>1. /\ (\A m \in UniqueID : NodeOK(m, node[m]))' /\ LinksOK(node, link)'
        /\ PartsPut(node'[0]) = i + 1
    <3> HIDE DEF i, nd, o
    <3>1. nd.o = Held(nd.loop, nd.i + 1, Mid(n, nd.i, 0 + 1)) /\ nd.i = i
      BY <1>1, <1>2 DEF nd, o, i
    <3> QED BY <1>1, <1>2, <1>3, <1>5, <3>1, ShiftLive
  <2>0. CASE lost
    <3>1. FileShape' /\ FileOK'
      BY <1>1, <1>5, <2>0, LostFile DEF Same
    <3> QED BY <2>1, <3>1 DEF Live
  <2> SUFFICES ASSUME ~lost PROVE FileShape' /\ Live'
    BY <2>0
  <2>2. /\ Number(node_x(0, i), grid, dims) = i
    BY <1>2, NodeZero
  <2>3. flen = i * lcl_vol /\ \A p \in 0..(flen - 1) : file[p] = p
    BY <1>1, <1>2, <1>5 DEF Live, FileOK, SerialFile, PartsPut
  <2>4. \A s \in Sites : o[s] = flen + s
    BY <1>1, <1>2, <1>5, <2>2, <2>3 DEF Part, Src, Filed
  <2> HIDE DEF i, nd, o
  <2>5. lcl_vol \in Nat \ {0} /\ flen \in Nat /\ Vol \in Nat
        /\ flen + lcl_vol = (i + 1) * lcl_vol /\ Vol = lcl_vol * Parts /\ Parts \in Nat
    <3>1. lcl_vol \in Nat \ {0} /\ Vol = lcl_vol * Parts /\ Parts \in Nat /\ Vol \in Nat
      BY Volumes
    <3>2. i \in Nat /\ flen = i * lcl_vol
      BY <1>2, <2>3
    <3>3. flen \in Nat /\ flen + lcl_vol = (i + 1) * lcl_vol
      BY <3>1, <3>2
    <3> QED BY <3>1, <3>3
  <2>6. /\ Written(flen, o, lcl_vol) = [q \in 0..(Vol - 1) |-> Written(flen, o, lcl_vol)[q]]
        /\ \A q \in 0..(Vol - 1) :
             Written(flen, o, lcl_vol)[q] = IF q \in flen..(flen + lcl_vol - 1) THEN q ELSE file[q]
    BY <2>4, <2>5, WrittenShape DEF Sites
  <2>7. flen' = flen + lcl_vol
    BY <1>1, <1>5, <2>5 DEF NewEnd
  <2>8. /\ Vol' = Vol /\ lcl_vol' = lcl_vol /\ job' = job /\ storing' = storing
        /\ PartsPut(node[0])' = PartsPut(node'[0])
    BY <1>1, SameBoxes, SamePuts DEF Same
  <2>9. FileShape'
    BY <1>1, <1>5, <2>6, <2>8 DEF FileShape, Same
  <2>10. flen + lcl_vol <= Vol
    <3> DEFINE a == (i + 1) * lcl_vol  z == Parts - (i + 1)  w == z * lcl_vol
    <3>1. z \in Nat /\ i + 1 \in Nat
      BY <1>2, <2>5
    <3>2. w \in Nat
      BY <2>5, <3>1
    <3>3. lcl_vol * Parts = a + w
      <4>1. Parts = (i + 1) + z
        BY <2>5, <3>1
      <4> HIDE DEF z
      <4>2. lcl_vol * ((i + 1) + z) = (i + 1) * lcl_vol + z * lcl_vol
        BY <2>5, <3>1
      <4> QED BY <4>1, <4>2
    <3> HIDE DEF w, a, z
    <3>4. a = flen + lcl_vol
      BY <2>5 DEF a
    <3> QED BY <2>5, <3>2, <3>3, <3>4
  <2>11. SerialFile(node[0])'
    <3>1. flen' = PartsPut(node[0])' * lcl_vol'
      BY <2>1, <2>5, <2>7, <2>8
    <3>2. ASSUME NEW p \in 0..(flen' - 1) PROVE file'[p] = p
      <4>1. p \in 0..(Vol - 1) /\ (p \in 0..(flen - 1) \/ p \in flen..(flen + lcl_vol - 1))
        BY <2>5, <2>7, <2>10
      <4> QED BY <1>1, <1>5, <2>3, <2>6, <4>1
    <3> QED BY <3>1, <3>2 DEF SerialFile
  <2>12. FileOK'
    BY <1>2, <2>8, <2>11 DEF FileOK
  <2> QED BY <2>1, <2>9, <2>12 DEF Live
<1> QED BY <1>4, <1>5

LEMMA SerialReadLive ==
  ASSUME JobOK, NodesOK, FileShape, Live, ~SlicesLost, NEW n \in UniqueID, SerialRead(n)
  PROVE  Exit \/ (FileShape' /\ Live')
<1> SUFFICES ASSUME ~Exit PROVE FileShape' /\ Live'
  OBVIOUS
<1> DEFINE i == node[n].i  loop == node[n].loop
           nd == IF n > 0 THEN node[n] ELSE [node[n] EXCEPT !.o = FileBlock(i)]
<1>1. /\ ~storing /\ node[n].pc = "body" /\ loop = "stream" /\ Shift(n, nd, 0, link)
      /\ Same /\ file' = file /\ flen' = flen
  BY DEF SerialRead, Same, slots, JobOK
<1>2. /\ job.style = "serial" /\ i \in 0..(Parts - 1)
      /\ node[n].o = Held("stream", i, node_x(n, i)) /\ IsNode(node[n]) /\ Picks(n, node[n])
      /\ node_x(n, i) = Mid(n, i, 0 + 1) /\ Number(node_x(n, i), grid, dims) \in Nat
  BY <1>1, StreamBody
<1>3. i \in Nat /\ n \in Nat
  BY <1>2, Volumes DEF UniqueID, JobOK
<1>4. ~Spreads
  BY <1>1, <1>2 DEF SlicesLost
<1>5. /\ nd.o = Held("stream", i + 1, Mid(n, i, 0 + 1))
      /\ nd.loop = loop /\ nd.i = i /\ nd.rdata = node[n].rdata /\ IsNode(nd)
      /\ nd.error = node[n].error
  <2>1. CASE n = 0
    <3>1. nd = [node[n] EXCEPT !.o = FileBlock(i)]
      BY <2>1
    <3>2. /\ nd.o = FileBlock(i) /\ nd.loop = loop /\ nd.i = i /\ nd.rdata = node[n].rdata
          /\ IsNode(nd) /\ nd.error = node[n].error
      BY <1>2, <3>1 DEF IsNode, Fields
    <3>3. FileBlock(i) = Part(i)
      BY <1>1 DEF FileBlock, Part, Src, Filed
    <3>4. Number(node_x(n, i), grid, dims) = i
      BY <1>2, <2>1, NodeZero
    <3>5. Held("stream", i + 1, node_x(n, i)) = Part(i)
      BY <1>2, <1>3, <3>4, HeldFacts
    <3> QED BY <1>2, <3>2, <3>3, <3>5
  <2>2. CASE n # 0
    <3>1. nd = node[n]
      BY <1>3, <2>2
    <3>2. Number(node_x(n, i), grid, dims) # i
      BY <1>2, <1>4, <2>2, OnlyZero
    <3>3. Held("stream", i + 1, node_x(n, i)) = Held("stream", i, node_x(n, i))
      BY <1>2, <1>3, <3>2, HeldFacts
    <3> QED BY <1>2, <3>1, <3>3
  <2> QED BY <2>1, <2>2
<1> HIDE DEF nd
<1>6. Picks(n, nd)
  BY <1>2, <1>5 DEF Picks
<1>7. Doing(n, 0, link) /\ Renewed(n, nd)
  BY <1>1, <1>5 DEF Doing, Renewed
<1> HIDE DEF i, loop
<1> QED BY <1>1, <1>5, <1>6, <1>7, ShiftQuiet

-----------------------------------------------------------------------------
(* The time slots of ParallelIO.                                           *)

LEMMA SlotNode ==
  ASSUME JobOK, NEW n \in UniqueID, NEW r, NodeOK(n, r), r.pc \in {"slot", "io", "io done"}
  PROVE  /\ job.style = "parallel" /\ r.loop = "remap"
         /\ r.rdata = [p \in Sites |-> r.rdata[p]]
         /\ storing => \A p \in Sites : Sorted(n, r.rdata, p)
<1>1. job.style = "parallel" /\ r.loop = "remap"
  <2>1. PlaceOK(r)
    BY DEF NodeOK
  <2>2. job.style \in {"serial", "parallel"}
    BY DEF JobOK
  <2>3. job.style # "serial"
    BY <2>1 DEF PlaceOK
  <2> QED BY <2>1, <2>2, <2>3, Zenon DEF PlaceOK
<1>2. /\ r.rdata = [p \in Sites |-> r.rdata[p]]
      /\ storing => \A p \in Sites : Sorted(n, r.rdata, p)
  BY DEF NodeOK, RowsOK
<1> QED BY <1>1, <1>2

\* Node n goes on within its time slot.
Proceeds(n, r, nd) ==
  /\ r.pc \in {"slot", "io", "io done"} /\ nd.pc \in {"io", "io done", "sync"}
  /\ nd.loop = r.loop /\ nd.rdata = r.rdata
  /\ ~storing /\ nd.pc # "io" => nd.o = Part(mynodeid(n))

LEMMA SlotLive ==
  ASSUME JobOK, NodesOK, Live, Same, NEW n \in UniqueID, NEW nd,
         Proceeds(n, node[n], nd), node' = [node EXCEPT ![n] = nd], link' = link
  PROVE  /\ (\A m \in UniqueID : NodeOK(m, node[m]))' /\ LinksOK(node, link)'
         /\ \A m \in UniqueID : m # n => node'[m] = node[m]
         /\ node'[n] = nd /\ job.style = "parallel"
<1> DEFINE r == node[n]
<1>1. /\ job.style = "parallel" /\ r.loop = "remap" /\ nd.loop = "remap"
      /\ nd.rdata = [p \in Sites |-> nd.rdata[p]]
      /\ storing => \A p \in Sites : Sorted(n, nd.rdata, p)
      /\ nd.pc \in {"io", "io done", "sync"}
      /\ r.pc \in {"slot", "io", "io done"} /\ storing \in BOOLEAN
  BY SlotNode DEF Proceeds, Live, JobOK
<1>2. node'[n] = nd /\ \A m \in UniqueID : m # n => node'[m] = node[m]
  BY DEF NodesOK
<1>3. PlaceOK(nd)
  BY <1>1 DEF PlaceOK
<1>4. DataOK(n, nd)
  BY <1>1 DEF DataOK, Proceeds
<1>5. RowsOK(n, nd)
  BY <1>1 DEF RowsOK
<1>6. (\A m \in UniqueID : NodeOK(m, node[m]))'
  BY <1>2, <1>3, <1>4, <1>5, OthersOK DEF NodeOK, Live
<1>7. Reads(nd) = ~storing /\ Reads(r) = ~storing
  BY <1>1 DEF Reads
<1>8. \A d : Sent(nd, d) = Sent(r, d) /\ Rcvd(nd, d) = Rcvd(r, d)
  BY <1>1, <1>7 DEF Sent, Rcvd, Rounds
<1>9. LinksOK(node, link)'
  BY <1>2, <1>8, QuietLinks DEF Live
<1> QED BY <1>1, <1>2, <1>6, <1>9

\* The same when the file stays as it is.
LEMMA SlotQuiet ==
  ASSUME JobOK, NodesOK, FileShape, Live, Same, NEW n \in UniqueID, NEW nd,
         Proceeds(n, node[n], nd), node' = [node EXCEPT ![n] = nd], link' = link,
         file' = file, flen' = flen,
         storing => ParallelFile(n, nd)
  PROVE  FileShape' /\ Live'
<1>1. /\ (\A m \in UniqueID : NodeOK(m, node[m]))' /\ LinksOK(node, link)'
      /\ \A m \in UniqueID : m # n => node'[m] = node[m]
      /\ node'[n] = nd /\ job.style = "parallel"
  BY SlotLive
<1>2. ASSUME storing, NEW m \in UniqueID PROVE ParallelFile(m, node'[m])
  <2>1. CASE m = n
    BY <1>1, <1>2, <2>1
  <2>2. CASE m # n
    BY <1>1, <1>2, <2>2 DEF Live, FileOK
  <2> QED BY <2>1, <2>2
<1>3. FileShape' /\ FileOK'
  BY <1>1, <1>2, QuietFile DEF Live
<1> QED BY <1>1, <1>3 DEF Live

LEMMA GetSlotLive ==
  ASSUME JobOK, NodesOK, FileShape, Live, NEW n \in UniqueID, GetSlot(n)
  PROVE  FileShape' /\ Live'
<1> DEFINE r == node[n]  nd == [r EXCEPT !.pc = "io"]
<1>1. r.pc = "slot" /\ node' = [node EXCEPT ![n] = nd] /\ link' = link
      /\ Same /\ file' = file /\ flen' = flen
  BY DEF GetSlot, Move, Same, getIOTimeSlot, JobOK
<1>2. nd.pc = "io" /\ nd.loop = r.loop /\ nd.rdata = r.rdata
  BY DEF NodesOK, IsNode, Fields
<1> HIDE DEF nd
<1>3. Proceeds(n, r, nd) /\ ParallelFile(n, nd)
  BY <1>1, <1>2 DEF Proceeds, ParallelFile
<1> QED BY <1>1, <1>3, SlotQuiet

LEMMA FinishSlotLive ==
  ASSUME JobOK, NodesOK, FileShape, Live, NEW n \in UniqueID, FinishSlot(n)
  PROVE  FileShape' /\ Live'
<1> DEFINE r == node[n]  nd == [r EXCEPT !.pc = "sync"]
<1>1. r.pc = "io done" /\ node' = [node EXCEPT ![n] = nd] /\ link' = link
      /\ Same /\ file' = file /\ flen' = flen
  BY DEF FinishSlot, Move, Same, finishIOTimeSlot, JobOK
<1>2. nd.pc = "sync" /\ nd.loop = r.loop /\ nd.rdata = r.rdata /\ nd.o = r.o
      /\ nd.error = r.error
  BY DEF NodesOK, IsNode, Fields
<1> HIDE DEF nd
<1>3. Proceeds(n, r, nd)
  <2>1. ~storing => r.o = Part(mynodeid(n))
    BY <1>1 DEF Live, NodeOK, DataOK
  <2> QED BY <1>1, <1>2, <2>1 DEF Proceeds
<1>4. ASSUME storing PROVE ParallelFile(n, nd)
  <2>1. ParallelFile(n, r)
    <3>1. job.style = "parallel"
      BY <1>1, SlotNode DEF Live
    <3> QED BY <1>4, <3>1 DEF Live, FileOK
  <2> QED BY <1>1, <1>2, <2>1 DEF ParallelFile
<1> QED BY <1>1, <1>3, <1>4, SlotQuiet

LEMMA WriteSkippedLive ==
  ASSUME JobOK, NodesOK, FileShape, Live, NEW n \in UniqueID, WriteSkipped(n)
  PROVE  FileShape' /\ Live'
<1> DEFINE r == node[n]  nd == [r EXCEPT !.pc = "io done"]
<1>1. r.pc = "io" /\ storing /\ ~Writes(n) /\ node' = [node EXCEPT ![n] = nd]
      /\ link' = link /\ Same /\ file' = file /\ flen' = flen
  BY DEF WriteSkipped, InSlot, Move, Same, slots, JobOK
<1>2. nd.pc = "io done" /\ nd.loop = r.loop /\ nd.rdata = r.rdata
  BY DEF NodesOK, IsNode, Fields
<1> HIDE DEF nd
<1>3. Proceeds(n, r, nd) /\ ParallelFile(n, nd)
  BY <1>1, <1>2 DEF Proceeds, ParallelFile
<1> QED BY <1>1, <1>3, SlotQuiet

LEMMA ReadLive ==
  ASSUME JobOK, NodesOK, FileShape, Live, NEW n \in UniqueID, Read(n)
  PROVE  Exit \/ (FileShape' /\ Live')
<1> SUFFICES ASSUME ~Exit PROVE FileShape' /\ Live'
  OBVIOUS
<1> DEFINE r == node[n]  nd == [r EXCEPT !.pc = "io done", !.o = FileBlock(mynodeid(n))]
<1>1. r.pc = "io" /\ ~storing /\ node' = [node EXCEPT ![n] = nd]
      /\ link' = link /\ Same /\ file' = file /\ flen' = flen
  BY DEF Read, InSlot, Same, slots, JobOK
<1>2. nd.pc = "io done" /\ nd.loop = r.loop /\ nd.rdata = r.rdata
      /\ nd.o = FileBlock(mynodeid(n))
  BY DEF NodesOK, IsNode, Fields
<1>3. FileBlock(mynodeid(n)) = Part(mynodeid(n))
  BY <1>1 DEF FileBlock, Part, Src, Filed
<1> HIDE DEF nd
<1>4. Proceeds(n, r, nd)
  BY <1>1, <1>2, <1>3 DEF Proceeds
<1> QED BY <1>1, <1>4, SlotQuiet

-----------------------------------------------------------------------------
LEMMA PutShape ==
  ASSUME JobOK, FileShape, NEW p \in Nat, NEW o, NEW len \in 1..lcl_vol,
         \A s \in Sites : o[s] = p + s
  PROVE  /\ Written(p, o, len) = [q \in 0..(Vol - 1) |-> Written(p, o, len)[q]]
         /\ \A q \in 0..(Vol - 1) : Written(p, o, len)[q] \in {q, file[q]}
         /\ len = lcl_vol => \A s \in Sites :
              p + s \in 0..(Vol - 1) => Written(p, o, len)[p + s] = p + s
<1>1. lcl_vol \in Nat /\ len \in Nat
  BY Volumes
<1>2. \A s \in 0..(len - 1) : o[s] = p + s
  BY <1>1 DEF Sites
<1>3. /\ Written(p, o, len) = [q \in 0..(Vol - 1) |-> Written(p, o, len)[q]]
      /\ \A q \in 0..(Vol - 1) :
           Written(p, o, len)[q] = IF q \in p..(p + len - 1) THEN q ELSE file[q]
  BY <1>1, <1>2, WrittenShape
<1>4. ASSUME len = lcl_vol, NEW s \in Sites, p + s \in 0..(Vol - 1)
      PROVE  Written(p, o, len)[p + s] = p + s
  <2>1. p + s \in p..(p + len - 1)
    BY <1>1, <1>4 DEF Sites
  <2> QED BY <1>3, <1>4, <2>1
<1> QED BY <1>3, <1>4

\* A node writes its part, or, when the call fails, the first site of it.
LEMMA PutLive ==
  ASSUME JobOK, NodesOK, FileShape, Live, Same, NEW n \in UniqueID, NEW nd,
         storing, Proceeds(n, node[n], nd), node' = [node EXCEPT ![n] = nd], link' = link,
         NEW len \in 1..lcl_vol, nd.error = 0 => len = lcl_vol,
         file' = Written(mynodeid(n) * lcl_vol, node[n].rdata, len)
  PROVE  FileShape' /\ Live'
<1> DEFINE p == mynodeid(n) * lcl_vol  o == node[n].rdata
<1>1. /\ (\A m \in UniqueID : NodeOK(m, node[m]))' /\ LinksOK(node, link)'
      /\ \A m \in UniqueID : m # n => node'[m] = node[m]
      /\ node'[n] = nd /\ job.style = "parallel"
  BY SlotLive
<1>2. \A s \in Sites : o[s] = p + s
  <2>1. \A s \in Sites : Sorted(n, o, s)
    BY SlotNode DEF Live, Proceeds
  <2> QED BY <2>1 DEF Sorted, Goal, Src, Filed
<1>3. p \in Nat
  <2>1. mynodeid(n) \in Nat /\ lcl_vol \in Nat
    BY NodeCoor, Volumes
  <2> QED BY <2>1
<1>4. /\ file' = [q \in 0..(Vol - 1) |-> file'[q]]
      /\ \A q \in 0..(Vol - 1) : file'[q] \in {q, file[q]}
      /\ len = lcl_vol => \A s \in Sites :
           p + s \in 0..(Vol - 1) => file'[p + s] = p + s
  <2>1. file' = Written(p, o, len)
    OBVIOUS
  <2> HIDE DEF p, o
  <2>2. /\ Written(p, o, len) = [q \in 0..(Vol - 1) |-> Written(p, o, len)[q]]
        /\ \A q \in 0..(Vol - 1) : Written(p, o, len)[q] \in {q, file[q]}
        /\ len = lcl_vol => \A s \in Sites :
             p + s \in 0..(Vol - 1) => Written(p, o, len)[p + s] = p + s
    BY <1>2, <1>3, PutShape, Zenon
  <2> QED BY <2>1, <2>2, Zenon
<1> HIDE DEF p, o
<1>5. /\ Vol' = Vol /\ UniqueID' = UniqueID /\ Sites' = Sites
      /\ job' = job /\ storing' = storing
  BY SameBoxes DEF Same
<1>6. FileShape'
  BY <1>4, <1>5 DEF FileShape, Same
<1>7. ASSUME NEW m \in UniqueID PROVE ParallelFile(m, node[m])'
  <2> SUFFICES ASSUME ~lost', node'[m].pc \in {"io done", "sync", "csum", "returned"},
                      node'[m].error = 0, Writes(m), NEW s \in Sites
               PROVE  file'[Filed(mynodeid(m), s)] = Filed(mynodeid(m), s)
    <3>1. /\ \A t : Filed(mynodeid(m), t)' = Filed(mynodeid(m), t)
          /\ Writes(m)' = Writes(m)
      BY SameNumbers
    <3> QED BY <1>5, <3>1 DEF ParallelFile
  <2> DEFINE q == Filed(mynodeid(m), s)
  <2>1. q \in 0..(Vol - 1)
    <3>1. mynodeid(m) \in 0..(Parts - 1)
      BY NodeCoor
    <3> QED BY <3>1, FiledFacts
  <2>2. CASE m = n
    <3>1. len = lcl_vol
      BY <1>1, <2>2
    <3>2. q = p + s
      BY <2>2 DEF Filed, p
    <3> QED BY <1>4, <2>1, <3>1, <3>2
  <2>3. CASE m # n
    <3>1. ParallelFile(m, node[m]) /\ node'[m] = node[m] /\ ~lost
      BY <1>1, <2>3 DEF Live, FileOK, Same
    <3>2. file[q] = q
      BY <3>1 DEF ParallelFile
    <3> QED BY <1>4, <2>1, <3>2
  <2> QED BY <2>2, <2>3
<1>8. FileOK'
  <2>1. \A m \in UniqueID : ParallelFile(m, node[m])'
    BY <1>7
  <2> QED BY <1>1, <1>5, <2>1 DEF FileOK
<1> QED BY <1>1, <1>6, <1>8 DEF Live

LEMMA RetriedFacts ==
  ASSUME NEW e, IsNode(e), e.pc = "io"
  PROVE  /\ Retried(e).pc \in {"io", "io done"} /\ Retried(e).loop = e.loop
         /\ Retried(e).rdata = e.rdata /\ Retried(e).error = e.error
BY DEF Retried, IsNode, Fields

LEMMA WriteLive ==
  ASSUME JobOK, NodesOK, FileShape, Live, NEW n \in UniqueID, Write(n)
  PROVE  FileShape' /\ Live'
<1> DEFINE r == node[n]  nd == Retried(r)
<1>1. r.pc = "io" /\ storing /\ node' = [node EXCEPT ![n] = nd] /\ link' = link /\ Same
      /\ file' = Written(mynodeid(n) * lcl_vol, node[n].rdata, lcl_vol)
  BY DEF Write, InSlot, Same, slots, JobOK
<1>2. /\ nd.pc \in {"io", "io done"} /\ nd.loop = r.loop /\ nd.rdata = r.rdata
  BY <1>1, RetriedFacts DEF NodesOK
<1> HIDE DEF nd
<1>3. Proceeds(n, r, nd)
  BY <1>1, <1>2 DEF Proceeds
<1>4. lcl_vol \in 1..lcl_vol
  BY Volumes
<1> QED BY <1>1, <1>3, <1>4, PutLive

LEMMA WriteFailsLive ==
  ASSUME JobOK, NodesOK, FileShape, Live, NEW n \in UniqueID, WriteFails(n)
  PROVE  FileShape' /\ Live'
<1> DEFINE r == node[n]  e == [r EXCEPT !.error = 1]  nd == Retried(e)
<1>1. r.pc = "io" /\ storing /\ node' = [node EXCEPT ![n] = nd] /\ link' = link /\ Same
      /\ \/ file' = file /\ flen' = flen
         \/ file' = Written(mynodeid(n) * lcl_vol, node[n].rdata, 1)
  BY DEF WriteFails, PartlyWritten, InSlot, Same, slots, JobOK
<1>2. IsNode(e) /\ e.pc = "io" /\ e.loop = r.loop /\ e.rdata = r.rdata /\ e.error = 1
  BY <1>1 DEF NodesOK, IsNode, Fields
<1> HIDE DEF e
<1>3. /\ nd.pc \in {"io", "io done"} /\ nd.loop = r.loop /\ nd.rdata = r.rdata
      /\ nd.error # 0
  <2>1. nd.pc \in {"io", "io done"} /\ nd.loop = e.loop /\ nd.rdata = e.rdata
        /\ nd.error = e.error
    BY <1>2, RetriedFacts
  <2> HIDE DEF nd
  <2>2. e.loop = r.loop /\ e.rdata = r.rdata /\ e.error = 1
    BY <1>2
  <2>3. nd.error # 0
    <3>1. nd.error = 1
      BY <2>1, <2>2, Zenon
    <3>2. 1 # 0
      OBVIOUS
    <3> QED BY <3>1, <3>2, Zenon
  <2> QED BY <2>1, <2>2, <2>3, Zenon
<1> HIDE DEF nd
<1>4. /\ Proceeds(n, r, nd) /\ ParallelFile(n, nd)
      /\ 1 \in 1..lcl_vol
  <2>1. Proceeds(n, r, nd) /\ ParallelFile(n, nd)
    BY <1>1, <1>3 DEF Proceeds, ParallelFile
  <2>2. 1 \in 1..lcl_vol
    BY Volumes
  <2> QED BY <2>1, <2>2
<1>5. CASE file' = file /\ flen' = flen
  BY <1>1, <1>4, <1>5, SlotQuiet
<1>6. CASE file' = Written(mynodeid(n) * lcl_vol, node[n].rdata, 1)
  <2>1. nd.error = 0 => 1 = lcl_vol
    BY <1>3
  <2> QED BY <1>1, <1>4, <1>6, <2>1, PutLive
<1> QED BY <1>1, <1>5, <1>6

LEMMA CloseFailsLive ==
  ASSUME JobOK, NodesOK, FileShape, Live, NEW n \in UniqueID, CloseFails(n)
  PROVE  FileShape' /\ Live'
<1> DEFINE r == node[n]  nd == Retried(r)
<1>1. r.pc = "io" /\ storing /\ node' = [node EXCEPT ![n] = nd] /\ link' = link /\ Same
      /\ lost' /\ (file' = file \/ \E p, o, len : file' = Written(p, o, len))
  BY DEF CloseFails, PartlyWritten, InSlot, Same, slots, JobOK
<1>2. /\ nd.pc \in {"io", "io done"} /\ nd.loop = r.loop /\ nd.rdata = r.rdata
  BY <1>1, RetriedFacts DEF NodesOK
<1> HIDE DEF nd
<1>3. Proceeds(n, r, nd)
  BY <1>1, <1>2 DEF Proceeds
<1>4. (\A m \in UniqueID : NodeOK(m, node[m]))' /\ LinksOK(node, link)'
  BY <1>1, <1>3, SlotLive
<1>5. FileShape' /\ FileOK'
  BY <1>1, LostFile
<1> QED BY <1>4, <1>5 DEF Live

-----------------------------------------------------------------------------
(* The steps of all nodes together.                                        *)

LEMMA FirstNode ==
  ASSUME JobOK
  PROVE  0 \in UniqueID
<1>1. 0 \in 0..(Parts - 1)
  BY Volumes
<1> QED BY <1>1, NodeZero

LEMMA AllLive ==
  ASSUME JobOK, NodesOK, FileShape, Live, Same, link' = link, file' = file, flen' = flen,
         \A n \in UniqueID : NodeOK(n, node'[n]),
         \A n \in UniqueID : \A d \in Dims :
           Sent(node'[n], d) = Sent(node[n], d) /\ Rcvd(node'[n], d) = Rcvd(node[n], d),
         storing /\ job.style = "serial" => PartsPut(node'[0]) = PartsPut(node[0]),
         storing /\ job.style = "parallel" =>
           \A n \in UniqueID : ParallelFile(n, node'[n])
  PROVE  FileShape' /\ Live'
<1>1. (\A n \in UniqueID : NodeOK(n, node[n]))'
  <2>1. UniqueID' = UniqueID
    BY SameBoxes
  <2>2. \A n \in UniqueID : NodeOK(n, node[n])'
    BY SameNode
  <2> QED BY <2>1, <2>2
<1>2. LinksOK(node, link)'
  BY QuietLinks DEF Live
<1>3. FileShape' /\ FileOK'
  BY QuietFile DEF Live
<1> QED BY <1>1, <1>2, <1>3 DEF Live

\* All nodes go on with what they have.
LEMMA AllGoOn ==
  ASSUME JobOK, NodesOK, FileShape, Live, Same, link' = link, file' = file, flen' = flen,
         NEW from, NEW to,
         \/ storing /\ from = "sync" /\ to = "csum"
         \/ from = "csum" /\ to = "returned"
         \/ ~storing /\ from = "csum" /\ to = "rejected",
         \A n \in UniqueID : node[n].pc = from,
         node' = [n \in UniqueID |-> [node[n] EXCEPT !.pc = to]]
  PROVE  FileShape' /\ Live'
<1>1. from \in {"sync", "csum"} /\ to \in {"csum", "returned", "rejected"}
  OBVIOUS
<1>2. ASSUME NEW n \in UniqueID
      PROVE  LET r == node[n]  nd == node'[n] IN
             /\ r.pc = from /\ nd.pc = to /\ nd.loop = r.loop /\ nd.rdata = r.rdata
             /\ nd.mem = r.mem /\ nd.error = r.error /\ NodeOK(n, r)
  BY DEF NodesOK, IsNode, Fields, Live
<1>3. ASSUME NEW n \in UniqueID PROVE NodeOK(n, node'[n])
  <2> DEFINE r == node[n]  nd == node'[n]
  <2>1. /\ r.pc = from /\ nd.pc = to /\ nd.loop = r.loop /\ nd.rdata = r.rdata
        /\ nd.mem = r.mem /\ nd.error = r.error /\ NodeOK(n, r)
    BY <1>2
  <2>2. storing \in BOOLEAN /\ job.style \in {"serial", "parallel"}
    BY DEF JobOK
  <2> HIDE DEF r, nd
  <2>3. PlaceOK(nd)
    <3>1. PlaceOK(r)
      BY <2>1 DEF NodeOK
    <3>2. CASE job.style = "serial"
      <4>1. r.error = 0 /\ (from = "sync" => r.loop = "stream")
            /\ (from = "csum" => r.loop = IF storing THEN "stream" ELSE "remap")
        BY <2>1, <3>1, <3>2 DEF PlaceOK
      <4> QED BY <1>1, <2>1, <2>2, <3>2, <4>1 DEF PlaceOK
    <3>3. CASE job.style = "parallel"
      <4>1. r.loop = "remap"
        BY <3>1, <3>3 DEF PlaceOK
      <4> QED BY <1>1, <2>1, <2>2, <3>3, <4>1 DEF PlaceOK
    <3> QED BY <2>2, <3>2, <3>3
  <2>4. DataOK(n, nd)
    BY <1>1, <2>1 DEF DataOK
  <2>5. RowsOK(n, nd)
    BY <1>1, <2>1, <2>2 DEF NodeOK, RowsOK
  <2> QED BY <2>3, <2>4, <2>5 DEF NodeOK, nd
<1>4. ASSUME NEW n \in UniqueID, NEW d
      PROVE  Sent(node'[n], d) = Sent(node[n], d) /\ Rcvd(node'[n], d) = Rcvd(node[n], d)
  <2>1. ~Reads(node[n]) /\ ~Reads(node'[n])
    BY <1>1, <1>2 DEF Reads
  <2> QED BY <1>1, <1>2, <2>1 DEF Sent, Rcvd, Rounds
<1>5. 0 \in UniqueID
  BY FirstNode
<1>6. PartsPut(node'[0]) = PartsPut(node[0])
  BY <1>1, <1>2, <1>5 DEF PartsPut
<1>7. ASSUME storing, job.style = "parallel", NEW n \in UniqueID
      PROVE  ParallelFile(n, node'[n])
  <2>1. ParallelFile(n, node[n])
    BY <1>7 DEF Live, FileOK
  <2> QED BY <1>1, <1>2, <2>1 DEF ParallelFile
<1> QED BY <1>3, <1>4, <1>6, <1>7, AllLive

LEMMA SynchronizeLive ==
  ASSUME JobOK, NodesOK, FileShape, Live, ~SlicesLost, Synchronize
  PROVE  Exit \/ (FileShape' /\ Live')
<1> SUFFICES ASSUME ~Exit PROVE FileShape' /\ Live'
  OBVIOUS
<1>1. /\ ~ErrorStatus /\ \A n \in UniqueID : node[n].pc = "sync"
      /\ Same /\ file' = file /\ flen' = flen /\ link' = link
  BY DEF Synchronize, Same, slots, JobOK
<1>2. CASE storing
  <2>1. node' = [n \in UniqueID |-> [node[n] EXCEPT !.pc = "csum"]]
    BY <1>1, <1>2 DEF Synchronize
  <2> QED BY <1>1, <1>2, <2>1, AllGoOn
<1>3. CASE ~storing
  <2>1. node' = [n \in UniqueID |-> StartRemap(node[n])]
    BY <1>1, <1>3 DEF Synchronize, SlicesLost
  <2>2. ASSUME NEW n \in UniqueID
        PROVE  LET r == node[n]  nd == node'[n] IN
               /\ r.pc = "sync" /\ nd.pc = "body" /\ nd.loop = "remap" /\ nd.i = 0
               /\ nd.rdata = r.rdata /\ nd.o = r.o /\ nd.error = r.error /\ NodeOK(n, r)
    <3>1. node'[n] = StartRemap(node[n]) /\ IsNode(node[n])
      BY <2>1 DEF NodesOK
    <3>2. LET nd == StartRemap(node[n]) IN
          /\ nd.pc = "body" /\ nd.loop = "remap" /\ nd.i = 0
          /\ nd.rdata = node[n].rdata /\ nd.o = node[n].o /\ nd.error = node[n].error
      BY <3>1 DEF StartRemap, IsNode, Fields
    <3> QED BY <1>1, <3>1, <3>2 DEF Live
  <2>3. job.style \in {"serial", "parallel"}
    BY DEF JobOK
  <2>4. ASSUME NEW n \in UniqueID PROVE NodeOK(n, node'[n])
    <3> DEFINE r == node[n]  nd == node'[n]
    <3>1. /\ r.pc = "sync" /\ nd.pc = "body" /\ nd.loop = "remap" /\ nd.i = 0
          /\ nd.rdata = r.rdata /\ nd.o = r.o /\ nd.error = r.error /\ NodeOK(n, r)
      BY <2>2
    <3> HIDE DEF r, nd
    <3>2. PlaceOK(nd)
      <4>1. 0 \in 0..(Shifts("remap") - 1)
        <5>1. Shifts("remap") \in Nat \ {0}
          BY ShiftsFacts
        <5> QED BY <5>1
      <4>2. job.style = "serial" => nd.error = 0
        BY <3>1 DEF NodeOK, PlaceOK
      <4> QED BY <3>1, <4>1, <4>2 DEF PlaceOK
    <3>3. DataOK(n, nd)
      <4>1. r.o = Part(mynodeid(n))
        BY <1>3, <3>1 DEF NodeOK, DataOK
      <4>2. Held("remap", 0, node_x(n, 0)) = Part(mynodeid(n))
        BY <1>3, HeldEnds
      <4> QED BY <3>1, <4>1, <4>2, <1>3 DEF DataOK
    <3>4. RowsOK(n, nd)
      <4>1. nd.rdata = [p \in Sites |-> nd.rdata[p]]
        BY <3>1 DEF NodeOK, RowsOK
      <4>2. 0..(0 - 1) = {}
        OBVIOUS
      <4> QED BY <1>3, <3>1, <4>1, <4>2 DEF RowsOK
    <3> QED BY <3>2, <3>3, <3>4 DEF NodeOK, nd
  <2>5. ASSUME NEW n \in UniqueID, NEW d \in Dims
        PROVE  Sent(node'[n], d) = Sent(node[n], d) /\ Rcvd(node'[n], d) = Rcvd(node[n], d)
    <3> DEFINE r == node[n]  nd == node'[n]
    <3>1. r.pc = "sync" /\ nd.pc = "body" /\ nd.loop = "remap" /\ nd.i = 0 /\ PlaceOK(r)
      BY <2>2 DEF NodeOK
    <3> HIDE DEF r, nd
    <3>2. Sent(nd, d) = Cnt("remap", 0, d) /\ Rcvd(nd, d) = Cnt("remap", 0, d)
      BY <3>1 DEF Sent, Rcvd, Rounds
    <3>3. Sent(r, d) = Cnt("remap", 0, d) /\ Rcvd(r, d) = Cnt("remap", 0, d)
      <4>1. CASE job.style = "parallel"
        <5>1. r.loop = "remap" /\ Reads(r)
          BY <1>3, <3>1, <4>1 DEF PlaceOK, Reads
        <5> QED BY <3>1, <5>1 DEF Sent, Rcvd, Rounds
      <4>2. CASE job.style = "serial"
        <5>1. r.loop = "stream" /\ ~Reads(r) /\ FirstLoop = "stream"
          BY <1>3, <3>1, <4>2 DEF PlaceOK, Reads, FirstLoop
        <5>2. Sent(r, d) = Cnt("stream", Shifts("stream"), d)
              /\ Rcvd(r, d) = Cnt("stream", Shifts("stream"), d)
          BY <3>1, <5>1 DEF Sent, Rcvd, Rounds
        <5>3. Quot(0, grid, d - 1) = 0 /\ Quot(Shifts("stream"), grid, d - 1) \in Nat
          <6>1. grid \in Box /\ d - 1 \in 0..5 /\ Shifts("stream") \in Nat
                /\ Prod(grid, d - 1) \in Nat \ {0}
            BY Boxes, ShiftsFacts, ProdUp DEF Dims
          <6>2. 0 \in Nat /\ 0 < Prod(grid, d - 1)
            BY <6>1
          <6>3. Quot(0, grid, d - 1) = 0
            BY <6>1, <6>2, QuotZero
          <6>4. Quot(Shifts("stream"), grid, d - 1) \in Nat
            BY <6>1, CoorChain
          <6> QED BY <6>3, <6>4
        <5> QED BY <5>1, <5>2, <5>3 DEF Cnt, Base
      <4> QED BY <2>3, <4>1, <4>2
    <3> QED BY <3>2, <3>3 DEF r, nd
  <2> QED BY <1>1, <1>3, <2>4, <2>5, AllLive
<1> QED BY <1>2, <1>3

LEMMA FillInLive ==
  ASSUME JobOK, NodesOK, FileShape, Live, FillInChecksum
  PROVE  FileShape' /\ Live'
<1>1. /\ storing /\ \A n \in UniqueID : node[n].pc = "csum"
      /\ node' = [n \in UniqueID |-> [node[n] EXCEPT !.pc = "returned"]]
      /\ Same /\ file' = file /\ flen' = flen /\ link' = link
  BY DEF FillInChecksum, Same, slots, JobOK
<1> QED BY <1>1, AllGoOn

LEMMA FillInFailsLive ==
  ASSUME JobOK, NodesOK, FileShape, Live, FillInFails
  PROVE  Exit \/ (FileShape' /\ Live')
<1> SUFFICES ASSUME ~Exit PROVE FileShape' /\ Live'
  OBVIOUS
<1>1. /\ storing /\ \A n \in UniqueID : node[n].pc = "csum"
      /\ node' = [n \in UniqueID |-> [node[n] EXCEPT !.pc = "returned"]]
      /\ Same /\ file' = file /\ flen' = flen /\ link' = link
  BY DEF FillInFails, Same, slots, JobOK
<1> QED BY <1>1, AllGoOn

LEMMA CheckLive ==
  ASSUME JobOK, NodesOK, FileShape, Live, CheckChecksum
  PROVE  Exit \/ (FileShape' /\ Live')
<1> DEFINE verdict == IF header = GlobalCsum THEN "returned"
                      ELSE IF dims = 4 THEN "stopped" ELSE "rejected"
<1>1. /\ ~storing /\ \A n \in UniqueID : node[n].pc = "csum"
      /\ node' = [n \in UniqueID |-> [node[n] EXCEPT !.pc = verdict]]
      /\ Same /\ file' = file /\ flen' = flen /\ link' = link
  BY DEF CheckChecksum, Same, slots, JobOK
<1>2. CASE verdict = "returned"
  BY <1>1, <1>2, AllGoOn
<1>3. CASE verdict = "rejected"
  BY <1>1, <1>3, AllGoOn
<1>4. CASE verdict = "stopped"
  BY <1>1, <1>4 DEF Exit
<1> QED BY <1>2, <1>3, <1>4

-----------------------------------------------------------------------------
(* A job with and without errors.                                          *)

LEMMA KeptFile ==
  ASSUME Same, JobOK, FileShape, file' = file
  PROVE  JobOK' /\ FileShape'
<1>1. Vol' = Vol /\ JobOK' = JobOK
  BY SameBoxes
<1> QED BY <1>1 DEF FileShape, Same

LEMMA ExitDead ==
  ASSUME JobOK, NodesOK, FileShape, Same, file' = file, Exit
  PROVE  FileShape' /\ Dead'
<1>1. UniqueID' = UniqueID
  BY SameBoxes
<1>2. \A n \in UniqueID : node'[n].pc = "stopped"
  BY DEF Exit, NodesOK, IsNode, Fields
<1> QED BY <1>1, <1>2, KeptFile DEF Dead

LEMMA LiveNode ==
  ASSUME JobOK, NodesOK, FileShape, Live, ~SlicesLost, NEW n \in UniqueID,
         Step(n) \/ WriteFails(n) \/ CloseFails(n)
  PROVE  FileShape' /\ (Live' \/ Dead')
<1>1. CASE SerialRead(n)
  <2>1. Same /\ file' = file
    BY <1>1 DEF SerialRead, Same, slots, JobOK
  <2> QED BY <1>1, <2>1, SerialReadLive, ExitDead
<1>2. CASE Read(n)
  <2>1. Same /\ file' = file
    BY <1>2 DEF Read, Same, slots, JobOK
  <2> QED BY <1>2, <2>1, ReadLive, ExitDead
<1>3. CASE SpreadSend(n) \/ SpreadReceive(n)
  <2>1. node[n].pc \in {"spread", "spread wait"}
    BY <1>3 DEF SpreadSend, SpreadReceive
  <2>2. PlaceOK(node[n]) /\ job.style \in {"serial", "parallel"}
    BY DEF Live, NodeOK, JobOK
  <2> QED BY <2>1, <2>2 DEF PlaceOK
<1> QED BY <1>1, <1>2, <1>3, ReceiveLive, RemapLive, SerialWriteLive, GetSlotLive,
        FinishSlotLive, WriteSkippedLive, WriteLive, WriteFailsLive, CloseFailsLive DEF Step

LEMMA LiveStays ==
  ASSUME JobOK, NodesOK, FileShape, Live, Same,
         UNCHANGED <<node, link, file, flen>>
  PROVE  FileShape' /\ Live'
<1>1. \A n \in UniqueID : NodeOK(n, node'[n])
  BY DEF Live
<1>2. storing /\ job.style = "parallel" => \A n \in UniqueID : ParallelFile(n, node'[n])
  BY DEF Live, FileOK
<1> QED BY <1>1, <1>2, AllLive

LEMMA LiveTogether ==
  ASSUME JobOK, NodesOK, FileShape, Live, ~SlicesLost,
         Together \/ FillInFails \/ FlushFails
  PROVE  FileShape' /\ (Live' \/ Dead')
<1>1. CASE SlotSum
  <2>1. Same /\ UNCHANGED <<node, link, file, flen>>
    BY <1>1 DEF SlotSum, GlobalSum, data, Same, JobOK
  <2> QED BY <2>1, LiveStays
<1>2. CASE Synchronize
  <2>1. Same /\ file' = file
    BY <1>2 DEF Synchronize, Same, slots, JobOK
  <2> QED BY <1>2, <2>1, SynchronizeLive, ExitDead
<1>3. CASE FillInChecksum
  BY <1>3, FillInLive
<1>4. CASE CheckChecksum
  <2>1. Same /\ file' = file
    BY <1>4 DEF CheckChecksum, Same, slots, JobOK
  <2> QED BY <1>4, <2>1, CheckLive, ExitDead
<1>5. CASE FillInFails
  <2>1. Same /\ file' = file
    BY <1>5 DEF FillInFails, Same, slots, JobOK
  <2> QED BY <1>5, <2>1, FillInFailsLive, ExitDead
<1>6. CASE FlushFails
  BY <1>6, FirstNode, FlushFailsLive
<1> QED BY <1>1, <1>2, <1>3, <1>4, <1>5, <1>6 DEF Together

\* Node 0 leaves the loop.
LEMMA LiveFails ==
  ASSUME JobOK, ErrorInv, FileShape, Live, SerialWriteFails
  PROVE  FileShape' /\ Dead'
<1>1. /\ storing /\ node[0].pc = "body" /\ node[0].loop = "stream"
      /\ node' = [node EXCEPT ![0].pc = "sync", ![0].error = 1]
      /\ Same /\ file' = file /\ job' = job /\ storing' = storing
  BY DEF SerialWriteFails, Same, slots, JobOK
<1>2. 0 \in UniqueID /\ UniqueID' = UniqueID
  BY <1>1, FirstNode, SameBoxes
<1>3. job.style = "serial"
  <2>1. InLoop(node[0])
    BY <1>1, <1>2, ShiftingNode DEF ErrorInv
  <2> QED BY <1>1, <2>1 DEF InLoop, JobOK
<1>4. node'[0].pc = "sync" /\ node'[0].error # 0
  <2>1. node = [n \in UniqueID |-> node[n]] /\ node[0] = [f \in Fields |-> node[0][f]]
    BY <1>2 DEF ErrorInv, NodesOK, IsNode
  <2>2. node'[0] = [node[0] EXCEPT !.pc = "sync", !.error = 1]
    BY <1>1, <1>2, <2>1
  <2>3. node'[0].pc = "sync" /\ node'[0].error = 1
    BY <2>1, <2>2 DEF Fields
  <2> QED BY <2>3
<1>5. ASSUME NEW n \in UniqueID PROVE node'[n].pc \in {"body", "wait", "sync"}
  <2>1. CASE n = 0
    BY <1>4, <2>1
  <2>2. CASE n # 0
    <3>1. node'[n] = node[n]
      BY <1>1, <2>2 DEF ErrorInv, NodesOK
    <3>2. node[n].pc \in {"body", "wait", "sync", "csum", "returned", "rejected"}
          /\ node[n].pc # "rejected"
      BY <1>1, <1>3 DEF Live, NodeOK, PlaceOK
    <3>3. ~Past(node[n])
      <4>1. Past(node[n]) => node[0].pc = node[n].pc
        BY <1>1, <1>2 DEF ErrorInv
      <4> QED BY <1>1, <4>1 DEF Past
    <3> QED BY <3>1, <3>2, <3>3 DEF Past
  <2> QED BY <2>1, <2>2
<1> QED BY <1>1, <1>2, <1>3, <1>4, <1>5, KeptFile DEF Dead

-----------------------------------------------------------------------------
\* After the error of node 0 the others shift until they wait for it.
LEMMA ShiftWaits ==
  ASSUME NodesOK, storing, job.style = "serial", NEW n \in UniqueID, NEW nd, IsNode(nd),
         NEW d, NEW links, Shift(n, nd, d, links)
  PROVE  /\ node'[n].pc \in {"body", "wait", "sync"}
         /\ \A m \in UniqueID : m # n => node'[m] = node[m]
<1> DEFINE next == NextDim(nd.i, d)  w == [nd EXCEPT !.pc = "wait", !.j = next]
           a == AfterShift(nd)
<1>1. node' = [node EXCEPT ![n] = w] \/ node' = [node EXCEPT ![n] = a]
  BY DEF Shift
<1>2. w.pc = "wait"
  BY DEF IsNode, Fields
<1>3. a.pc \in {"body", "sync"}
  <2>1. CASE nd.i + 1 < Shifts(nd.loop)
    BY <2>1 DEF AfterShift, IsNode, Fields
  <2>2. CASE ~(nd.i + 1 < Shifts(nd.loop)) /\ nd.loop = "stream"
    <3>1. a = [nd EXCEPT !.pc = "sync"]
      BY <2>2 DEF AfterShift, AfterLoop
    <3> QED BY <3>1 DEF IsNode, Fields
  <2>3. CASE ~(nd.i + 1 < Shifts(nd.loop)) /\ nd.loop = "remap"
    <3>1. a = [nd EXCEPT !.pc = "body", !.loop = "stream", !.i = 0, !.o = nd.rdata]
      BY <2>3 DEF AfterShift, AfterLoop
    <3> QED BY <3>1 DEF IsNode, Fields
  <2> QED BY <2>1, <2>2, <2>3 DEF IsNode
<1> HIDE DEF w, a
<1> QED BY <1>1, <1>2, <1>3 DEF NodesOK

LEMMA DeadNode ==
  ASSUME JobOK, NodesOK, FileShape, Dead, NEW n \in UniqueID,
         Step(n) \/ WriteFails(n) \/ CloseFails(n)
  PROVE  FileShape' /\ Dead'
<1> DEFINE r == node[n]
<1>1. /\ storing /\ job.style = "serial" /\ 0 \in UniqueID
      /\ node[0].pc = "sync" /\ node[0].error # 0
      /\ \A m \in UniqueID : node[m].pc \in {"body", "wait", "sync"}
      /\ IsNode(r)
  <2>1. r.pc # "stopped"
    BY DEF Step, Receive, Remap, SerialWrite, SerialRead, SpreadSend, SpreadReceive, GetSlot,
           FinishSlot, WriteSkipped, Write, WriteFails, CloseFails, Read, InSlot
  <2> QED BY <2>1, FirstNode DEF Dead, NodesOK
<1>2. PICK nd, d, links : IsNode(nd) /\ Shift(n, nd, d, links)
  <2>1. CASE Receive(n)
    <3>1. PICK d : Shift(n, [r EXCEPT !.o = Head(link[n][d])], d,
                         [link EXCEPT ![n][d] = Tail(@)])
      BY <2>1 DEF Receive
    <3>2. IsNode([r EXCEPT !.o = Head(link[n][d])])
      BY <1>1 DEF IsNode, Fields
    <3> QED BY <3>1, <3>2
  <2>2. CASE Remap(n)
    <3>1. PICK rows : Shift(n, [r EXCEPT !.rdata = Copied(@, r.o, rows)], 0, link)
      BY <2>2 DEF Remap
    <3>2. IsNode([r EXCEPT !.rdata = Copied(@, r.o, rows)])
      BY <1>1 DEF IsNode, Fields
    <3> QED BY <3>1, <3>2
  <2>3. CASE SerialWrite(n)
    BY <1>1, <2>3 DEF SerialWrite
  <2> QED BY <1>1, <2>1, <2>2, <2>3
        DEF Step, SerialRead, SpreadSend, SpreadReceive, GetSlot,
            FinishSlot, WriteSkipped, Write, WriteFails, CloseFails, Read, InSlot
<1>3. n # 0 /\ Same /\ file' = file /\ job' = job /\ storing' = storing
  <2>1. n # 0
    <3>1. r.pc # "sync"
      BY DEF Step, Receive, Remap, SerialWrite, SerialRead, SpreadSend, SpreadReceive, GetSlot,
             FinishSlot, WriteSkipped, Write, WriteFails, CloseFails, Read, InSlot
    <3> QED BY <1>1, <3>1
  <2>2. CASE Receive(n) \/ Remap(n)
    BY <2>1, <2>2 DEF Receive, Remap, Same, slots, JobOK
  <2>3. CASE SerialWrite(n)
    BY <2>1, <2>3 DEF SerialWrite, Same, slots, JobOK
  <2> QED BY <1>1, <2>1, <2>2, <2>3
        DEF Step, SerialRead, SpreadSend, SpreadReceive, GetSlot,
            FinishSlot, WriteSkipped, Write, WriteFails, CloseFails, Read, InSlot
<1>4. /\ node'[n].pc \in {"body", "wait", "sync"}
      /\ \A m \in UniqueID : m # n => node'[m] = node[m]
  BY <1>1, <1>2, ShiftWaits
<1>5. UniqueID' = UniqueID
  BY <1>3, SameBoxes
<1> QED BY <1>1, <1>3, <1>4, <1>5, KeptFile DEF Dead

LEMMA DeadTogether ==
  ASSUME JobOK, NodesOK, FileShape, Dead,
         Together \/ SerialWriteFails \/ FlushFails \/ FillInFails
  PROVE  FileShape' /\ Dead'
<1>1. 0 \in UniqueID
  BY FirstNode
<1>2. CASE SlotSum
  <2>1. Same /\ file' = file /\ node' = node /\ job' = job /\ storing' = storing
    BY <1>2 DEF SlotSum, GlobalSum, data, Same, JobOK
  <2>2. UniqueID' = UniqueID
    BY <2>1, SameBoxes
  <2> QED BY <2>1, <2>2, KeptFile DEF Dead
<1>3. CASE Synchronize
  <2>1. ErrorStatus
    BY <1>1, <1>3 DEF Synchronize, Dead, ErrorStatus
  <2>2. Exit /\ Same /\ file' = file
    BY <1>3, <2>1 DEF Synchronize, Same, slots, JobOK
  <2> QED BY <2>2, ExitDead
<1>4. CASE FillInChecksum \/ CheckChecksum \/ SerialWriteFails \/ FlushFails \/ FillInFails
  BY <1>1, <1>4
  DEF FillInChecksum, CheckChecksum, SerialWriteFails, FlushFails, FillInFails, Dead
<1> QED BY <1>2, <1>3, <1>4 DEF Together

-----------------------------------------------------------------------------
\* While loading, the file stays as it is.
LEMMA LoadFrame ==
  ASSUME JobOK, ~storing, IoNext
  PROVE  Same /\ file' = file /\ job' = job /\ storing' = storing
<1>1. ASSUME NEW n \in UniqueID, Step(n) \/ WriteFails(n) \/ CloseFails(n)
      PROVE  UNCHANGED <<job, storing, number_nodes, file, lost>>
  BY <1>1 DEF Step, Receive, Remap, SerialWrite, SerialRead, SpreadSend, SpreadReceive, GetSlot,
              FinishSlot, WriteSkipped, Write, WriteFails, CloseFails, Read, Move, slots,
              getIOTimeSlot, finishIOTimeSlot
<1>2. Together \/ SerialWriteFails \/ FlushFails \/ FillInFails
        => UNCHANGED <<job, storing, number_nodes, file, lost>>
  BY DEF Together, SlotSum, Synchronize, FillInChecksum, CheckChecksum, SerialWriteFails,
         FlushFails, FillInFails, GlobalSum, data, slots
<1>3. ASSUME NEW jb \in LoadJobs, Restart(jb) PROVE FALSE
  BY <1>3 DEF Restart
<1>4. storing \in BOOLEAN /\ UNCHANGED <<job, storing, number_nodes, file, lost>>
  BY <1>1, <1>2, <1>3 DEF IoNext, JobOK, Restart
<1> QED BY <1>4 DEF Same

LEMMA LostStep ==
  ASSUME JobOK, FileShape, SlicesLost, IoNext
  PROVE  FileShape' /\ SlicesLost'
<1>1. ~storing /\ job.style = "serial" /\ Spreads
  BY DEF SlicesLost
<1>2. Same /\ file' = file /\ job' = job /\ storing' = storing
  BY <1>1, LoadFrame
<1>3. Spreads' = Spreads
  BY <1>2, SameBoxes DEF Spreads
<1> QED BY <1>1, <1>2, <1>3, KeptFile DEF SlicesLost

-----------------------------------------------------------------------------
(* The beginning of a job.                                                 *)

\* Memory holds one value for each site of a node.
LEMMA BlankSites ==
  ASSUME JobOK
  PROVE  Blank(job) = [s \in Sites |-> Junk]
<1> DEFINE t == [d \in Dims |-> Glb[d] \div job.grid[d]]
<1>1. /\ dims \in {4, 5} /\ lcl \in Box /\ lcl_vol = Prod(lcl, dims) /\ Glb \in Box
      /\ job.grid = grid /\ job.dimension = dims /\ grid \in Box
  BY Boxes, Volumes, JobAssumption DEF Box, grid, dims
<1>2. \A d \in 1..dims : d \in Dims /\ ~(d = 5 /\ dims = 4)
  BY <1>1 DEF Dims
<1>3. \A d \in 1..dims : lcl[d] = t[d]
  <2>1. \A d \in Dims : lcl[d] = IF d = 5 /\ dims = 4 THEN 1 ELSE Glb[d] \div grid[d]
    BY Zenon DEF lcl
  <2>2. \A d \in Dims : t[d] = Glb[d] \div grid[d]
    BY <1>1, Zenon
  <2> HIDE DEF t
  <2> QED BY <1>2, <2>1, <2>2
<1>4. t \in Box
  <2>1. \A d \in Dims : t[d] \in Nat \ {0}
    <3> SUFFICES ASSUME NEW d \in Dims PROVE t[d] \in Nat \ {0}
      OBVIOUS
    <3>1. Glb[d] \in Nat \ {0} /\ grid[d] \in Nat \ {0} /\ Glb[d] % grid[d] = 0
      BY <1>1 DEF JobOK, Box, grid
    <3> DEFINE a == Glb[d]  b == grid[d]  q == a \div b
    <3>2. q \in Nat /\ b * q <= a /\ a < b * q + b
      <4>1. a \in Nat /\ b \in Nat \ {0}
        BY <3>1
      <4> QED BY <4>1, DivBounds, Zenon
    <3>3. a = b * q + (a % b)
      <4>1. a \in Int /\ b \in Nat \ {0}
        BY <3>1
      <4> QED BY <4>1, QuotRem, Zenon
    <3>4. a \in Nat \ {0} /\ b \in Nat \ {0} /\ a % b = 0
      BY <3>1
    <3>5. t[d] = q
      BY <1>1, Zenon
    <3> HIDE DEF a, b, q
    <3>6. q # 0
      <4>1. b * 0 = 0
        BY <3>4
      <4> QED BY <3>2, <3>3, <3>4, <4>1
    <3> QED BY <3>2, <3>5, <3>6
  <2>2. t = [d \in Dims |-> t[d]]
    OBVIOUS
  <2> HIDE DEF t
  <2> QED BY <2>1, <2>2 DEF Box
<1> HIDE DEF t
<1> DEFINE A(d) == Prod(lcl, d)  B(d) == Prod(t, d)
<1>5. ASSUME NEW d \in 1..dims, A(d - 1) = B(d - 1) PROVE A(d) = B(d)
  <2>1. A(d) = A(d - 1) * lcl[d] /\ B(d) = B(d - 1) * t[d]
    BY <1>1, <1>2, <1>4, ProdUp
  <2> QED BY <1>3, <1>5, <2>1
<1>6. A(0) = B(0)
  BY <1>1, <1>4, ProdUp
<1> HIDE DEF A, B
<1>7. 1 - 1 = 0 /\ 2 - 1 = 1 /\ 3 - 1 = 2 /\ 4 - 1 = 3 /\ 5 - 1 = 4
      /\ 1 \in 1..dims /\ 2 \in 1..dims /\ 3 \in 1..dims /\ 4 \in 1..dims
      /\ (dims = 5 => 5 \in 1..dims)
  BY <1>1
<1>8. A(1) = B(1)
  BY <1>5, <1>6, <1>7
<1>9. A(2) = B(2)
  BY <1>5, <1>7, <1>8
<1>10. A(3) = B(3)
  BY <1>5, <1>7, <1>9
<1>11. A(4) = B(4)
  BY <1>5, <1>7, <1>10
<1>12. A(dims) = B(dims)
  BY <1>1, <1>5, <1>7, <1>11
<1>13. Blank(job) = [s \in 0..(Prod(t, dims) - 1) |-> Junk]
  BY <1>1, Zenon DEF Blank, t
<1> QED BY <1>1, <1>12, <1>13 DEF A, B, Sites

\* Nothing is under way.
LEMMA StartLinks ==
  ASSUME JobOK, link = Links(job),
         \A n \in UniqueID : /\ node[n].loop = FirstLoop /\ node[n].i = 0
                             /\ node[n].pc = "body" \/ (node[n].pc = "slot" /\ Reads(node[n]))
  PROVE  LinksOK(node, link)
<1>1. Machine(job) = UniqueID /\ grid \in Box
  BY Boxes DEF JobOK, Machine, UniqueID
<1>2. link = [m \in UniqueID |-> [d \in 1..6 |-> <<>>]]
  BY <1>1 DEF Links
<1>3. ASSUME NEW n \in UniqueID, NEW d \in Dims
      PROVE  Sent(node[n], d) = 0 /\ Rcvd(node[n], d) = 0
  <2>1. node[n].pc # "wait" /\ Rounds(node[n]) = 0 /\ node[n].loop = FirstLoop
    BY DEF Rounds
  <2>2. Quot(0, grid, d - 1) = 0
    <3>1. Prod(grid, d - 1) \in Nat \ {0}
      <4>1. d - 1 \in 0..5
        BY DEF Dims
      <4> QED BY <1>1, <4>1, ProdUp
    <3> QED BY <3>1 DEF Quot
  <2>3. Cnt(FirstLoop, 0, d) = 0 + 0
    BY <2>2, Zenon DEF Cnt, Base
  <2> QED BY <2>1, <2>3 DEF Sent, Rcvd
<1>4. \A m \in UniqueID : \A d \in Dims : LinkOK(m, d, <<>>, 0, 0)
  <2>1. IsSeq(<<>>)
    BY DEF IsSeq
  <2> QED BY <2>1 DEF LinkOK
<1>5. ASSUME NEW m \in UniqueID, NEW d \in Dims
      PROVE  LinkOK(m, d, link[m][d], Sent(node[Neighbour(m, d, 1)], d), Rcvd(node[m], d))
  <2>1. Neighbour(m, d, 1) \in UniqueID
    BY NeighbourCoor
  <2>2. link[m][d] = <<>>
    BY <1>2 DEF Dims
  <2> QED BY <1>3, <1>4, <2>1, <2>2
<1>6. link = [m \in UniqueID |-> [d \in 1..6 |-> link[m][d]]]
  BY <1>2
<1> QED BY <1>5, <1>6 DEF LinksOK

\* A job that loads.
LoadNode == IF job.style = "serial" THEN Fresh(job, "body", "stream", Blank(job))
                                    ELSE Fresh(job, "slot", "remap", Blank(job))
LoadStart ==
  /\ JobOK /\ FileShape /\ ~storing
  /\ node = [n \in UniqueID |-> LoadNode] /\ link = Links(job)

LEMMA LoadStarts == LoadStart => IOInv
<1> SUFFICES ASSUME LoadStart PROVE IOInv
  OBVIOUS
<1>1. JobOK /\ FileShape /\ ~storing /\ link = Links(job)
      /\ \A n \in UniqueID : node[n] = LoadNode
  BY DEF LoadStart
<1>2. /\ job.style \in {"serial", "parallel"} /\ Blank(job) = [s \in Sites |-> Junk]
      /\ \A loop : Shifts(loop) \in Nat \ {0}
  BY <1>1, BlankSites, ShiftsFacts DEF JobOK
<1>3. /\ LoadNode.i = 0 /\ LoadNode.error = 0 /\ LoadNode.o = Blank(job)
      /\ LoadNode.rdata = Blank(job)
      /\ job.style = "serial" => LoadNode.pc = "body" /\ LoadNode.loop = "stream"
      /\ job.style = "parallel" => LoadNode.pc = "slot" /\ LoadNode.loop = "remap"
  BY <1>2 DEF LoadNode, Fresh
<1>4. ASSUME NEW n \in UniqueID PROVE NodeOK(n, LoadNode)
  <2>1. PlaceOK(LoadNode)
    <3>1. LoadNode.i \in 0..(Shifts(LoadNode.loop) - 1)
      BY <1>2, <1>3
    <3> QED BY <1>1, <1>2, <1>3, <3>1, Zenon DEF PlaceOK
  <2>2. DataOK(n, LoadNode)
    <3>1. Held("stream", 0, node_x(n, 0)) = Blank(job)
      BY <1>1, HeldEnds
    <3> QED BY <1>1, <1>2, <1>3, <3>1 DEF DataOK
  <2>3. RowsOK(n, LoadNode)
    <3>1. LoadNode.rdata = [p \in Sites |-> LoadNode.rdata[p]]
      BY <1>2, <1>3
    <3> QED BY <1>1, <1>2, <1>3, <3>1 DEF RowsOK
  <2> QED BY <2>1, <2>2, <2>3 DEF NodeOK
<1>5. LinksOK(node, link)
  BY <1>1, <1>2, <1>3, StartLinks DEF FirstLoop, Reads
<1> QED BY <1>1, <1>4, <1>5 DEF IOInv, Live, FileOK

LEMMA LoadStartsNext == LoadStart' => IOInv'
<1> QED BY LoadStarts, PTL

LEMMA RestartInv ==
  ASSUME IOInv, NEW jb \in LoadJobs, Restart(jb)
  PROVE  IOInv'
<1>1. /\ jb \in Job /\ jb.dimension = job.dimension /\ job' = jb /\ storing' = FALSE
      /\ number_nodes' = Prod(jb.grid, 5) /\ file' = file /\ lost' = lost
      /\ link' = Links(jb)
      /\ node' = [n \in Machine(jb) |->
           IF jb.style = "serial" THEN Fresh(jb, "body", "stream", Blank(jb))
                                  ELSE Fresh(jb, "slot", "remap", Blank(jb))]
  BY JobAssumption, Zenon DEF Restart, dims
<1>2. JobOK'
  <2>1. /\ jb.style \in {"serial", "parallel"} /\ jb.dimension \in {4, 5}
        /\ jb.grid \in [Dims -> Nat \ {0}]
    BY <1>1 DEF Job
  <2>2. \A d \in Dims : Glb[d] % jb.grid[d] = 0
    BY JobAssumption, Zenon
  <2> QED BY <1>1, <2>1, <2>2, Zenon DEF JobOK, Box
<1>3. FileShape'
  <2>1. dims' = dims
    BY <1>1 DEF dims
  <2>2. glb' = glb
    BY <2>1, Zenon DEF glb
  <2>3. Vol' = Vol
    BY <2>2 DEF Vol
  <2> QED BY <1>1, <2>3 DEF IOInv, FileShape
<1>4. Machine(jb) = UniqueID'
  BY <1>1 DEF Machine, UniqueID
<1>5. LoadStart'
  BY <1>1, <1>2, <1>3, <1>4, Zenon DEF LoadStart, LoadNode
<1> QED BY <1>5, LoadStartsNext

\* A job that stores.
LEMMA StoreStarts == IoInit => IOInv
<1> SUFFICES ASSUME IoInit PROVE IOInv
  OBVIOUS
<1>1. PICK jb \in StoreJobs :
        /\ job = jb /\ storing = TRUE
        /\ node = [n \in Machine(jb) |->
             Fresh(jb, "body", "remap",
                   [s \in DOMAIN Blank(jb) |-> lcl2glb(s, node_coor(n))])]
        /\ link = Links(jb)
        /\ file = [p \in 0..(Prod(glb, 5) - 1) |-> Junk]
        /\ flen = 0 /\ header = NoChecksum /\ faults = 0 /\ lost = FALSE
        /\ SlotsInit(Prod(jb.grid, 5), jb.concur)
  BY Zenon DEF IoInit
<1>2. jb \in Job /\ \A d \in Dims : Glb[d] % jb.grid[d] = 0
  BY JobAssumption, Zenon
<1>3. number_nodes = Prod(jb.grid, 5)
  BY <1>1 DEF SlotsInit
<1>4. JobOK
  <2>1. /\ jb.style \in {"serial", "parallel"} /\ jb.dimension \in {4, 5}
        /\ jb.grid \in [Dims -> Nat \ {0}]
    BY <1>2 DEF Job
  <2>2. storing \in BOOLEAN /\ job = jb
    BY <1>1
  <2> QED BY <1>2, <1>3, <2>1, <2>2, Zenon DEF JobOK, Box
<1>5. /\ job.style \in {"serial", "parallel"} /\ Blank(job) = [s \in Sites |-> Junk]
      /\ \A loop : Shifts(loop) \in Nat \ {0} /\ Machine(jb) = UniqueID
  BY <1>1, <1>3, <1>4, BlankSites, ShiftsFacts DEF JobOK, Machine, UniqueID
<1>6. FileShape
  <2>1. file = [p \in 0..(Vol - 1) |-> Junk]
    BY <1>1, Zenon DEF Vol
  <2> QED BY <2>1 DEF FileShape
<1>7. ASSUME NEW n \in UniqueID
      PROVE  /\ node[n].pc = "body" /\ node[n].loop = "remap" /\ node[n].i = 0
             /\ node[n].error = 0 /\ node[n].rdata = Blank(job)
             /\ node[n].o = [s \in Sites |-> lcl2glb(s, node_coor(n))]
  <2>1. DOMAIN Blank(jb) = Sites
    BY <1>1, <1>5
  <2>2. node[n] = Fresh(jb, "body", "remap", [s \in Sites |-> lcl2glb(s, node_coor(n))])
    BY <1>1, <1>5, <2>1, Zenon
  <2> QED BY <1>1, <2>2 DEF Fresh
<1>8. ASSUME NEW n \in UniqueID PROVE NodeOK(n, node[n])
  <2>1. PlaceOK(node[n])
    <3>1. node[n].i \in 0..(Shifts(node[n].loop) - 1)
      <4>1. node[n].i = 0 /\ Shifts(node[n].loop) \in Nat \ {0}
        BY <1>5, <1>7, Zenon
      <4> QED BY <4>1
    <3>2. node[n].pc = "body" /\ node[n].loop = "remap" /\ node[n].error = 0
      BY <1>7
    <3> QED BY <3>1, <3>2 DEF PlaceOK
  <2>2. DataOK(n, node[n])
    <3>1. Held("remap", 0, node_x(n, 0)) = [s \in Sites |-> lcl2glb(s, node_coor(n))]
      <4>1. node_x(n, 0) = node_coor(n) /\ storing
        BY <1>1, <1>4, NodeStart
      <4> QED BY <4>1 DEF Held, Src, Key
    <3> QED BY <1>1, <1>7, <3>1 DEF DataOK
  <2>3. RowsOK(n, node[n])
    <3>1. node[n].rdata = [p \in Sites |-> node[n].rdata[p]]
      BY <1>5, <1>7
    <3>2. \A k : k \notin 0..(node[n].i - 1)
      <4>1. node[n].i = 0
        BY <1>7, Zenon
      <4> QED BY <4>1
    <3>3. node[n].pc = "body" /\ node[n].loop = "remap" /\ storing
      BY <1>1, <1>7
    <3> QED BY <3>1, <3>2, <3>3 DEF RowsOK
  <2> QED BY <2>1, <2>2, <2>3 DEF NodeOK
<1>9. LinksOK(node, link)
  BY <1>1, <1>4, <1>7, StartLinks DEF FirstLoop
<1>10. FileOK
  <2>1. 0 \in UniqueID /\ lcl_vol \in Nat
    BY <1>4, FirstNode, Volumes
  <2>2. PartsPut(node[0]) = 0
    BY <1>7, <2>1 DEF PartsPut
  <2>3. SerialFile(node[0])
    BY <1>1, <2>1, <2>2 DEF SerialFile
  <2> QED BY <1>7, <2>3 DEF FileOK, ParallelFile
<1> QED BY <1>4, <1>6, <1>8, <1>9, <1>10 DEF IOInv, Live

-----------------------------------------------------------------------------
(* What the invariant says.                                                *)

\* Each part of the file has a node that writes it.
LEMMA PartWriter ==
  ASSUME JobOK, NEW b \in 0..(Parts - 1)
  PROVE  b \in UniqueID /\ mynodeid(b) = b /\ Writes(b)
<1>1. /\ grid \in Box /\ dims \in {4, 5} /\ Parts = Prod(grid, dims) /\ b \in Nat
      /\ number_nodes = Prod(grid, 5)
  BY Boxes DEF JobOK, grid, Parts
<1>2. mynodeid(b) = b
  <2>1. b \in 0..(Prod(grid, dims) - 1)
    BY <1>1
  <2>2. Number(Coor(b, grid), grid, dims) = b
    BY <1>1, <2>1, NumberCoor, Zenon
  <2> QED BY <2>2 DEF mynodeid, node_coor
<1>3. CASE dims = 5
  BY <1>1, <1>2, <1>3 DEF UniqueID, Writes
<1>4. CASE dims = 4
  <2>1. 4 \in 0..5 /\ 5 \in Dims /\ 5 - 1 = 4
    BY DEF Dims
  <2>2. /\ Prod(grid, 5) = Prod(grid, 4) * grid[5] /\ Prod(grid, 4) \in Nat \ {0}
        /\ grid[5] \in Nat \ {0}
    BY <1>1, <2>1, ProdUp DEF Box
  <2> DEFINE p == Prod(grid, 4)  g == grid[5]
  <2>3. p <= p * g /\ p * g \in Nat
    <3>1. p \in Nat /\ g \in Nat \ {0}
      BY <2>2
    <3> HIDE DEF p, g
    <3>2. g = 1 + (g - 1) /\ g - 1 \in Nat
      BY <3>1
    <3>3. p * g = p + p * (g - 1) /\ p * (g - 1) \in Nat
      BY <3>1, <3>2
    <3> QED BY <3>1, <3>3
  <2>4. number_nodes = p * g /\ b < p /\ p \in Nat \ {0}
    BY <1>1, <1>4, <2>2
  <2>5. b \in UniqueID
    <3> HIDE DEF p, g
    <3> QED BY <1>1, <2>3, <2>4 DEF UniqueID
  <2>6. Quot(b, grid, 4) = 0
    BY <1>1, <2>1, <2>4, QuotZero
  <2>7. node_coor(b)[5] = Quot(b, grid, 4) % grid[5]
    BY <1>1, <2>1, CoorChain DEF node_coor
  <2>8. node_coor(b)[5] = 0
    BY <2>2, <2>6, <2>7
  <2> QED BY <1>2, <2>5, <2>8 DEF Writes
<1> QED BY <1>1, <1>3, <1>4

\* When the nodes go on to the checksum, all sites are in the file.
LEMMA AllFiled ==
  ASSUME JobOK, ErrorInv, Live, storing, ~lost, NEW m \in UniqueID, Past(node[m])
  PROVE  \A p \in 0..(Vol - 1) : file[p] = p
<1>1. \A n \in UniqueID : Past(node[n]) /\ node[n].error = 0 /\ PlaceOK(node[n])
  BY DEF ErrorInv, Past, Live, NodeOK
<1>2. Vol = lcl_vol * Parts /\ lcl_vol \in Nat \ {0} /\ Parts \in Nat \ {0}
  BY Volumes
<1>3. CASE job.style = "serial"
  <2>1. 0 \in UniqueID
    BY FirstNode
  <2>2. node[0].loop = "stream" /\ node[0].pc \notin {"body", "wait"}
    BY <1>1, <1>3, <2>1 DEF PlaceOK, Past
  <2>3. PartsPut(node[0]) = Parts
    BY <2>2 DEF PartsPut
  <2>4. flen = Parts * lcl_vol /\ \A p \in 0..(flen - 1) : file[p] = p
    BY <1>3, <2>3 DEF Live, FileOK, SerialFile
  <2>5. flen = Vol
    BY <1>2, <2>4
  <2> QED BY <2>4, <2>5
<1>4. CASE job.style = "parallel"
  <2> SUFFICES ASSUME NEW p \in 0..(Vol - 1) PROVE file[p] = p
    OBVIOUS
  <2> DEFINE b == p \div lcl_vol  s == p % lcl_vol
  <2>1. b \in 0..(Parts - 1) /\ s \in Sites /\ p = Filed(b, s)
    BY PartOf
  <2> HIDE DEF b, s
  <2>2. b \in UniqueID /\ mynodeid(b) = b /\ Writes(b)
    BY <2>1, PartWriter
  <2>3. file[Filed(mynodeid(b), s)] = Filed(mynodeid(b), s)
    BY <1>1, <1>4, <2>1, <2>2 DEF Live, FileOK, ParallelFile, Past
  <2> QED BY <2>1, <2>2, <2>3
<1> QED BY <1>3, <1>4 DEF JobOK

\* A node that is past synchronize(), or has returned, is in a job that lives.
LEMMA PastLives ==
  ASSUME IOInv, ~SlicesLost, NEW m \in UniqueID,
         node[m].pc \in {"csum", "returned"} \/ (~storing /\ node[m].pc # "stopped")
  PROVE  Live
BY DEF IOInv, Dead

LEMMA FileRight ==
  ASSUME ErrorInv, IOInv
  PROVE  FileInGlobalOrder
<1> SUFFICES ASSUME ~lost PROVE FileInGlobalOrder
  BY DEF FileInGlobalOrder
<1>1. /\ JobOK /\ DOMAIN file = 0..(Vol - 1)
      /\ \A p \in 0..(Vol - 1) : file[p] \in {p, Junk}
  BY DEF IOInv, FileShape
<1>2. ASSUME storing, NEW m \in UniqueID, node[m].pc = "returned"
      PROVE  \A p \in 0..(Vol - 1) : file[p] = p
  <2>1. Live
    BY <1>2, PastLives DEF SlicesLost
  <2> QED BY <1>1, <1>2, <2>1, AllFiled DEF Past
<1> QED BY <1>1, <1>2, Zenon DEF FileInGlobalOrder

LEMMA PartsStart ==
  ASSUME IOInv
  PROVE  PartsInPlaceOtherwise
<1> SUFFICES ASSUME ~SlicesLost, ~storing, NEW n \in UniqueID, node[n].pc = "body",
                    node[n].loop = "remap", node[n].i = 0
             PROVE  node[n].o = FileBlock(mynodeid(n))
  BY DEF PartsInPlaceOtherwise, PartsInPlace
<1>1. Live /\ JobOK
  BY PastLives DEF IOInv
<1>2. node[n].o = Held("remap", 0, node_x(n, 0))
  BY <1>1 DEF Live, NodeOK, DataOK
<1>3. node[n].o = Part(mynodeid(n))
  BY <1>1, <1>2, HeldEnds
<1> QED BY <1>3 DEF Part, FileBlock, Src, Filed

-----------------------------------------------------------------------------
(* The invariant holds.                                                    *)

\* A job stays the same until the next one.
LEMMA JobFrame ==
  ASSUME IOInv, IoNext, \A jb \in LoadJobs : ~Restart(jb)
  PROVE  JobOK' /\ UNCHANGED <<job, storing, number_nodes>>
<1>1. ASSUME NEW n \in UniqueID, Step(n) \/ WriteFails(n) \/ CloseFails(n)
      PROVE  UNCHANGED <<job, storing, number_nodes>>
  BY <1>1 DEF Step, Receive, Remap, SerialWrite, SerialRead, SpreadSend, SpreadReceive, GetSlot,
              FinishSlot, WriteSkipped, Write, WriteFails, CloseFails, Read, Move, slots,
              getIOTimeSlot, finishIOTimeSlot
<1>2. Together \/ SerialWriteFails \/ FlushFails \/ FillInFails
        => UNCHANGED <<job, storing, number_nodes>>
  BY DEF Together, SlotSum, Synchronize, FillInChecksum, CheckChecksum, SerialWriteFails,
         FlushFails, FillInFails, GlobalSum, data, slots
<1>3. UNCHANGED <<job, storing, number_nodes>>
  BY <1>1, <1>2 DEF IoNext
<1> QED BY <1>3 DEF IOInv, JobOK

LEMMA IOStep ==
  ASSUME ErrorInv, IOInv, [IoNext]_vars
  PROVE  IOInv'
<1>1. JobOK /\ FileShape /\ NodesOK
  BY DEF IOInv, ErrorInv
<1>2. ASSUME NEW jb \in LoadJobs, Restart(jb) PROVE IOInv'
  BY <1>2, RestartInv
<1>3. CASE UNCHANGED vars
  <2>1. Same /\ UNCHANGED <<node, link, file, flen>> /\ job' = job /\ storing' = storing
    BY <1>1, <1>3 DEF vars, data, slots, Same, JobOK
  <2>2. JobOK' /\ FileShape' /\ UniqueID' = UniqueID /\ Spreads' = Spreads
    BY <1>1, <2>1, KeptFile, SameBoxes DEF Spreads
  <2>3. Live => Live'
    BY <1>1, <2>1, LiveStays
  <2>4. (Dead => Dead') /\ (SlicesLost => SlicesLost')
    BY <2>1, <2>2 DEF Dead, SlicesLost
  <2> QED BY <2>2, <2>3, <2>4 DEF IOInv
<1>4. CASE IoNext /\ \A jb \in LoadJobs : ~Restart(jb)
  <2>1. JobOK'
    BY <1>4, JobFrame
  <2>2. CASE SlicesLost
    BY <1>1, <1>4, <2>1, <2>2, LostStep DEF IOInv
  <2>3. CASE Live /\ ~SlicesLost
    <3>1. FileShape' /\ (Live' \/ Dead')
      BY <1>1, <1>4, <2>3, LiveNode, LiveTogether, LiveFails DEF IoNext
    <3> QED BY <2>1, <3>1 DEF IOInv
  <2>4. CASE Dead
    <3>1. FileShape' /\ Dead'
      BY <1>1, <1>4, <2>4, DeadNode, DeadTogether DEF IoNext
    <3> QED BY <2>1, <3>1 DEF IOInv
  <2> QED BY <2>2, <2>3, <2>4 DEF IOInv
<1> QED BY <1>2, <1>3, <1>4

\* While a job lives, each node has in each round the data of the node that it
\* should have them from, each block under way in shift_data() is the one that
\* its receiver needs next, and remap() has sorted what it has seen.
THEOREM IOInvariance == IoSpec => []IOInv
<1>1. ErrorInv /\ IOInv /\ [IoNext]_vars => IOInv'
  BY IOStep
<1> QED BY StoreStarts, <1>1, ErrorInvariance, PTL DEF IoSpec

\* On every grid of nodes, in both styles, when calls of fopen and fwrite fail
\* and when the job is killed at any moment: a site that is in the file is at
\* its place in the global order, and store() returns only when all are there.
\* This holds until a call fails whose result the code ignores (fclose, Fflush,
\* Fclose): then nothing is said of the file.
THEOREM FileOrdered == IoSpec => []FileInGlobalOrder
<1> QED BY FileRight, IOInvariance, ErrorInvariance, PTL

\* When remap() begins to sort what was loaded, each node holds the part of the
\* file that belongs to it, on every grid and in both styles; but for a serial
\* load of 4-dimensional data on a machine with several nodes in s.
THEOREM PartsRight == IoSpec => []PartsInPlaceOtherwise
<1> QED BY PartsStart, IOInvariance, PTL

-----------------------------------------------------------------------------
(* What was stored is loaded.                                              *)

\* A file whose checksum is filled in has all sites, and nobody writes it.
FilledIn ==
  header # NoChecksum =>
    /\ ~lost => \A p \in 0..(Vol - 1) : file[p] = p
    /\ storing => \A n \in UniqueID : node[n].pc = "returned"

LEMMA FilledInStep ==
  ASSUME ErrorInv, IOInv, FilledIn, [IoNext]_vars
  PROVE  FilledIn'
<1> SUFFICES ASSUME header' # NoChecksum PROVE FilledIn'
  BY DEF FilledIn
<1>1. JobOK /\ NodesOK /\ 0 \in UniqueID
  BY FirstNode DEF IOInv, ErrorInv
<1>2. CASE FillInChecksum
  <2>1. storing /\ file' = file /\ Same
        /\ \A n \in UniqueID : node[n].pc = "csum" /\ node'[n] = [node[n] EXCEPT !.pc = "returned"]
    BY <1>1, <1>2 DEF FillInChecksum, Same, slots, JobOK
  <2>2. Vol' = Vol /\ UniqueID' = UniqueID
    BY <2>1, SameBoxes
  <2>3. Live
    BY <1>1, <2>1, PastLives DEF SlicesLost
  <2>4. ~lost => \A p \in 0..(Vol - 1) : file[p] = p
    BY <1>1, <2>1, <2>3, AllFiled DEF Past
  <2>5. \A n \in UniqueID : node'[n].pc = "returned"
    BY <1>1, <2>1 DEF NodesOK, IsNode, Fields
  <2> QED BY <2>1, <2>2, <2>4, <2>5 DEF FilledIn, Same
<1>3. CASE \E jb \in LoadJobs : Restart(jb)
  <2>1. PICK jb \in LoadJobs : Restart(jb)
    BY <1>3
  <2>2. storing' = FALSE /\ UNCHANGED <<file, header, lost, dims>>
    BY <2>1 DEF Restart, dims
  <2>3. glb' = glb
    BY <2>2, Zenon DEF glb
  <2>4. Vol' = Vol
    BY <2>3 DEF Vol
  <2> QED BY <2>2, <2>4 DEF FilledIn
<1>4. CASE UNCHANGED vars
  <2>1. Same /\ UNCHANGED <<node, file, header, storing>>
    BY <1>1, <1>4 DEF vars, data, slots, Same, JobOK
  <2> QED BY <2>1, SameBoxes DEF FilledIn, Same
<1>5. ASSUME ~storing, IoNext, ~FillInChecksum
      PROVE  FilledIn'
  <2>1. Same /\ file' = file /\ storing' = storing
    BY <1>1, <1>5, LoadFrame
  <2>2. header' = header
    <3>1. ASSUME NEW n \in UniqueID, Step(n) \/ WriteFails(n) \/ CloseFails(n)
          PROVE  header' = header
      BY <3>1 DEF Step, Receive, Remap, SerialWrite, SerialRead, SpreadSend, SpreadReceive,
                  GetSlot, FinishSlot, WriteSkipped, Write, WriteFails, CloseFails, Read
    <3>2. Together \/ SerialWriteFails \/ FlushFails \/ FillInFails => header' = header
      BY <1>5 DEF Together, SlotSum, Synchronize, CheckChecksum, SerialWriteFails, FlushFails,
                     FillInFails, data
    <3> QED BY <1>5, <3>1, <3>2 DEF IoNext, Restart
  <2> QED BY <1>5, <2>1, <2>2, SameBoxes DEF FilledIn, Same
<1>6. ASSUME storing, IoNext, ~FillInChecksum, \A jb \in LoadJobs : ~Restart(jb)
      PROVE  FilledIn'
  <2>1. header' = header
    <3>1. ASSUME NEW n \in UniqueID, Step(n) \/ WriteFails(n) \/ CloseFails(n)
          PROVE  header' = header
      BY <3>1 DEF Step, Receive, Remap, SerialWrite, SerialRead, SpreadSend, SpreadReceive,
                  GetSlot, FinishSlot, WriteSkipped, Write, WriteFails, CloseFails, Read
    <3>2. Together \/ SerialWriteFails \/ FlushFails \/ FillInFails => header' = header
      BY <1>6 DEF Together, SlotSum, Synchronize, CheckChecksum, SerialWriteFails, FlushFails,
                     FillInFails, data
    <3> QED BY <1>6, <3>1, <3>2 DEF IoNext
  <2>2. \A n \in UniqueID : node[n].pc = "returned"
    BY <1>6, <2>1 DEF FilledIn
  <2>3. SlotSum
    <3>1. ASSUME NEW n \in UniqueID, Step(n) \/ WriteFails(n) \/ CloseFails(n)
          PROVE  FALSE
      BY <2>2, <3>1
      DEF Step, Receive, Remap, SerialWrite, SerialRead, SpreadSend, SpreadReceive,
          GetSlot, FinishSlot, WriteSkipped, Write, WriteFails, CloseFails, Read, InSlot
    <3>2. /\ ~SerialWriteFails /\ ~FlushFails /\ ~FillInFails
          /\ ~Synchronize /\ ~CheckChecksum
      BY <1>1, <2>2
      DEF SerialWriteFails, FlushFails, FillInFails, Synchronize, CheckChecksum
    <3> QED BY <1>6, <3>1, <3>2 DEF IoNext, Together
  <2>4. Same /\ UNCHANGED <<node, file, storing>>
    BY <1>1, <2>3 DEF SlotSum, GlobalSum, data, Same, JobOK
  <2> QED BY <2>1, <2>4, SameBoxes DEF FilledIn, Same
<1> QED BY <1>1, <1>2, <1>3, <1>4, <1>5, <1>6 DEF JobOK

LEMMA LoadedRight ==
  ASSUME IOInv, FilledIn, header # NoChecksum, ~lost, ~SlicesLost
  PROVE  LoadRestores
<1> SUFFICES ASSUME ~storing, NEW n \in UniqueID, node[n].pc = "returned", NEW s \in Sites
             PROVE  node[n].mem[s] = lcl2glb(s, node_coor(n))
  BY DEF LoadRestores
<1>1. Live /\ JobOK
  BY PastLives DEF IOInv
<1>2. node[n].mem[s] = file[lcl2glb(s, node_coor(n))]
  BY <1>1 DEF Live, NodeOK, RowsOK, Sorted, Src, Goal
<1>3. lcl2glb(s, node_coor(n)) \in 0..(Vol - 1)
  <2>1. In(node_coor(n), grid, dims)
    BY <1>1, NodeCoor
  <2> QED BY <1>1, <2>1, GlobalSite
<1> QED BY <1>2, <1>3 DEF FilledIn

\* Once store() has filled in the checksum, and no call has failed whose result
\* it ignores, all that a later load() returns is what was stored, each site
\* where it belongs, whatever the two grids, styles and orders of the nodes; but
\* for a serial load of 4-dimensional data on a machine with several nodes in s.
THEOREM StoredIsLoaded ==
  IoSpec => [](header # NoChecksum /\ ~lost /\ ~SlicesLost => LoadRestores)
<1>1. IoInit => FilledIn
  BY DEF IoInit, FilledIn
<1>2. ErrorInv /\ IOInv /\ FilledIn /\ [IoNext]_vars => FilledIn'
  BY FilledInStep
<1>3. IoSpec => []FilledIn
  BY <1>1, <1>2, IOInvariance, ErrorInvariance, PTL DEF IoSpec
<1>4. IOInv /\ FilledIn => (header # NoChecksum /\ ~lost /\ ~SlicesLost => LoadRestores)
  BY LoadedRight
<1> QED BY <1>3, <1>4, IOInvariance, PTL
=============================================================================
