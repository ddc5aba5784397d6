------------------------------ MODULE IoSlots -------------------------------
(***************************************************************************)
(* QioControl::getIOTimeSlot and finishIOTimeSlot (util/qcdio/qioarg.C):   *)
(* the nodes of a parallel job take turns at a file, in batches of at most *)
(* num_concur_io nodes, "using intelligent commander (node-0), dumb server *)
(* (others) mode".  They talk in global sums only, two broadcasts of the   *)
(* bounds of the next batch and one synchronize() when it is done, in      *)
(* which every node of the machine has to take part, also the one that has *)
(* had its turn and the one that still waits for it.                       *)
(***************************************************************************)
EXTENDS Integers, FiniteSets

CONSTANTS
  Machines,            (* numbers of nodes a job may have                  *)
  Concurrencies        (* values the user may give for ConcurIONumber      *)

ASSUME SlotsAssumption ==
  /\ Machines \subseteq Nat \ {0}
  /\ Concurrencies \subseteq Int

VARIABLES
  number_nodes,        (* fixed when the QioControl object is built        *)
  num_concur_io,       (* fixed by setConcurIONumber                       *)
  stage,               (* "out", in getIOTimeSlot ("get"), doing "io", in  *)
                       (* finishIOTimeSlot ("finish"), or "done"           *)
  op,                  (* op[n]: the global sum node n enters next: the    *)
                       (* broadcast of the "first" or the "last" node of   *)
                       (* the batch, or "sync"                             *)
  firstID,             (* firstID[n]: what node n was told last            *)
  batch                (* IOCommander's loop variable, on node 0           *)

slots == <<number_nodes, num_concur_io, stage, op, firstID, batch>>

UniqueID == 0..(number_nodes - 1)

SlotsInit(N, k) ==
  /\ number_nodes = N
  /\ num_concur_io = k
  /\ stage = [n \in UniqueID |-> "out"]
  /\ op = [n \in UniqueID |-> "first"]
  /\ firstID = [n \in UniqueID |-> 0]
  /\ batch = 0

-----------------------------------------------------------------------------
do_concur_io == IF num_concur_io <= 0 THEN number_nodes ELSE num_concur_io

\* Mutant: the last batch is forgotten if it is not full.
batches_Bug == number_nodes \div do_concur_io

batches ==
  LET full == number_nodes \div do_concur_io IN
  IF do_concur_io * full < number_nodes THEN full + 1 ELSE full

\* Mutant: the bound is the first node of the next batch.
Bound_Bug(i) == IF (i + 1) * do_concur_io > number_nodes - 1
                  THEN number_nodes - 1 ELSE (i + 1) * do_concur_io

\* The last node of batch i.
Bound(i) == IF (i + 1) * do_concur_io - 1 > number_nodes - 1
              THEN number_nodes - 1 ELSE (i + 1) * do_concur_io - 1

\* What node 0 puts into its next global sum.  All other nodes put in zero,
\* so this is also what every node gets out of it.
Commanded ==
  CASE op[0] = "first" -> batch * do_concur_io
    [] op[0] = "last"  -> Bound(batch)
    [] op[0] = "sync"  -> IF batch = batches - 1 THEN -1 ELSE 0

\* Mutant: the last node of a batch is left out.
InBatch_Bug(n, r) == n = 0 \/ n \in firstID[n]..(r - 1)

\* Node n finds itself in the batch; the commander's turn is the first one.
InBatch(n, r) == n = 0 \/ n \in firstID[n]..r

\* A job of one node has nobody to wait for.
getIOTimeSlot(n) ==
  /\ stage[n] = "out"
  /\ stage' = [stage EXCEPT ![n] = IF number_nodes = 1 THEN "io" ELSE "get"]
  /\ UNCHANGED <<number_nodes, num_concur_io, op, firstID, batch>>

finishIOTimeSlot(n) ==
  /\ stage[n] = "io"
  /\ stage' = [stage EXCEPT ![n] = IF number_nodes = 1 THEN "done"
                                                       ELSE "finish"]
  /\ op' = [op EXCEPT ![n] = "sync"]
  /\ UNCHANGED <<number_nodes, num_concur_io, firstID, batch>>

\* Where a node goes from a global sum that gave r.
StageAfter(n, r) ==
  IF stage[n] = "get" /\ op[n] = "last" /\ InBatch(n, r) THEN "io"
  ELSE IF stage[n] = "finish" /\ op[n] = "sync" /\ r < 0 THEN "done"
  ELSE stage[n]

\* Mutant: a node that is not in the batch does not synchronize().
OpAfter_Bug(n) ==
  CASE op[n] = "first" -> "last"
    [] op[n] = "last"  -> IF stage[n] = "get" THEN "first" ELSE "sync"
    [] op[n] = "sync"  -> "first"

OpAfter(n) ==
  CASE op[n] = "first" -> "last"
    [] op[n] = "last"  -> "sync"
    [] op[n] = "sync"  -> "first"

\* A global sum is over when every node has entered it.
GlobalSum ==
  /\ \A n \in UniqueID : stage[n] \in {"get", "finish"}
  /\ stage' = [n \in UniqueID |-> StageAfter(n, Commanded)]
  /\ op' = [n \in UniqueID |-> OpAfter(n)]
  /\ firstID' = [n \in UniqueID |->
                   IF stage[n] = "get" /\ op[n] = "first"
                     THEN Commanded ELSE firstID[n]]
  /\ batch' = IF op[0] = "sync" /\ Commanded = 0 THEN batch + 1 ELSE batch
  /\ UNCHANGED <<number_nodes, num_concur_io>>

-----------------------------------------------------------------------------
Init == \E N \in Machines, k \in Concurrencies : SlotsInit(N, k)

Next ==
  \/ GlobalSum
  \/ \E n \in UniqueID : getIOTimeSlot(n) \/ finishIOTimeSlot(n)

Spec == Init /\ [][Next]_slots

-----------------------------------------------------------------------------
SlotsTypeOK ==
  /\ number_nodes \in Nat \ {0}
  /\ num_concur_io \in Int
  /\ stage \in [UniqueID -> {"out", "get", "io", "finish", "done"}]
  /\ op \in [UniqueID -> {"first", "last", "sync"}]
  /\ firstID \in [UniqueID -> Int]
  /\ batch \in Nat

\* Never do more nodes use the file than the user allowed: ConcurIONumber is
\* the "number of nodes to excecute concurrent io" (qioarg.h).
AtMostConcurrent ==
  num_concur_io > 0 =>
    Cardinality({n \in UniqueID : stage[n] = "io"}) <= num_concur_io

\* Whenever all nodes are in a global sum it is the same one for all of them:
\* no node takes the bound of a batch for the status of a synchronize().
SameSum ==
  (\A n \in UniqueID : stage[n] \in {"get", "finish"}) =>
    \A m, n \in UniqueID : op[m] = op[n]

\* The commander does not declare the I/O finished before every node had its
\* turn: no node is left waiting in getIOTimeSlot when another one has left.
NobodyForgotten ==
  \A m, n \in UniqueID :
    stage[m] = "done" /\ number_nodes > 1 => stage[n] = "done"

-----------------------------------------------------------------------------
\* The inductive invariant.

\* Node n still waits for its turn and is behind the current batch.
Behind(n) == stage[n] = "get" => n > Bound(batch)

\* Nobody has been told anything yet.
Starting ==
  /\ batch = 0
  /\ \A n \in UniqueID : stage[n] \in {"out", "get"} /\ op[n] = "first"

\* The bounds of a batch are broadcast.
Announcing(o) ==
  /\ batch < batches
  /\ \A n \in UniqueID :
       /\ op[n] = o
       /\ stage[n] = "get" /\ n > 0 => n >= batch * do_concur_io
       /\ stage[n] = "get" /\ n = 0 => batch = 0
       /\ stage[n] = "get" /\ o = "last" => firstID[n] = batch * do_concur_io
       /\ stage[n] \in {"get", "finish"}

\* The batch uses the file; everybody else waits in synchronize().
Working ==
  /\ batch < batches
  /\ \A n \in UniqueID :
       /\ stage[n] \in {"get", "io", "finish"}
       /\ stage[n] # "io" => op[n] = "sync"
       /\ stage[n] = "io" => n \in (batch * do_concur_io)..Bound(batch)
       /\ Behind(n)
       /\ n = 0 => stage[n] # "get"

Finished == \A n \in UniqueID : stage[n] = "done"

\* A machine of several nodes is in one of these phases.
SlotsInv ==
  /\ SlotsTypeOK
  /\ number_nodes > 1 =>
       \/ Starting
       \/ Announcing("first")
       \/ Announcing("last")
       \/ Working
       \/ Finished
=============================================================================
