------------------------------ MODULE RingSum -------------------------------
(***************************************************************************)
(* glb_sum_internal2 (comms/qmp/scu/glb_sum2.C), the sum over a periodic   *)
(* grid of nodes, and slice_sum and glb_sum_multi_dir, the sums over a     *)
(* plane or a line of it (glb_sum_internal, comms/qmp/glb_cpp).  They go   *)
(* through their dimensions one after the other.  Along each dimension     *)
(* every node passes the numbers it holds on to its minus                  *)
(* neighbour until it has seen the number of every node of its ring; it    *)
(* keeps them by coordinate and only then adds them up, so that all nodes  *)
(* add in the same order.  Coordinates count from GDS.Origin, so that the  *)
(* order does not change either when all data are shifted.                 *)
(*                                                                         *)
(* Each of the two functions has static buffers of its own; a node is in   *)
(* one of them at a time and leaves none of its messages unfinished, so    *)
(* one set of buffers stands for both.                                     *)
(*                                                                         *)
(* Floating-point addition is not associative: a sum is modelled by the    *)
(* function from coordinates to addends, whose equality is equality of     *)
(* addends and of order.                                                   *)
(*                                                                         *)
(* QMP (external) may do either of two things with each message: copy the  *)
(* buffer when the send is started, which is then complete, or take the    *)
(* message from the sender's buffer when the receiver's buffer is filled,  *)
(* and complete the send then.                                             *)
(***************************************************************************)
EXTENDS Integers, Sequences

CONSTANT Machines      (* grids and programs: records with the fields      *)
                       (*   NP: NP[i] nodes along dimension i = 1..ndir    *)
                       (*   Origin: GDS.Origin(i) for every dimension      *)
                       (*   sums: the dimensions each call sums over,      *)
                       (*         the same sequence on all nodes           *)

ASSUME MachineAssumption ==
  \A mc \in Machines :
    /\ mc.NP \in Seq(Nat \ {0}) /\ Len(mc.NP) > 0
    /\ mc.Origin \in Seq(Int) /\ Len(mc.Origin) = Len(mc.NP)
    /\ \A i \in 1..Len(mc.NP) : mc.Origin[i] \in (1 - mc.NP[i])..(mc.NP[i] - 1)
    /\ mc.sums \in Seq(SUBSET (1..Len(mc.NP)))

\* The nodes of a grid, by their coordinates.
Nodes ==
  [mc \in Machines |->
     {n \in [1..Len(mc.NP) -> UNION {0..(mc.NP[i] - 1) : i \in 1..Len(mc.NP)}] :
        \A i \in 1..Len(mc.NP) : n[i] \in 0..(mc.NP[i] - 1)}]

VARIABLES
  machine,             (* the grid and program of this job                 *)
  pc,                  (* "out", "ring" or "wait"                          *)
  calls,               (* calls[n]: sums node n has begun                  *)
  results,             (* results[n]: the sums it was given                *)
  dir, itmp, coor,     (* loop variables                                   *)
  tmp_sum, gsum_buf, transmit_buf, receive_buf,
  link,                (* link[i][n]: messages for n from Plus(n, i), each *)
                       (* a sequence: its copy, or empty if there is none  *)
  got, sent            (* receive and send of this round are complete      *)

vars == <<machine, pc, calls, results, dir, itmp, coor, tmp_sum, gsum_buf,
          transmit_buf, receive_buf, link, got, sent>>

NP     == machine.NP
Origin == machine.Origin
ndir   == Len(NP)
Dim    == 1..ndir
Node   == Nodes[machine]

Coor(i) == 0..(NP[i] - 1)

Minus(n, i) == [n EXCEPT ![i] = (@ - 1 + NP[i]) % NP[i]]
Plus(n, i)  == [n EXCEPT ![i] = (@ + 1) % NP[i]]

\* Nothing was stored here yet.
Junk == <<>>

Init ==
  /\ machine \in Machines
  /\ pc = [n \in Node |-> "out"]
  /\ calls = [n \in Node |-> 0]
  /\ results = [n \in Node |-> <<>>]
  /\ dir = [n \in Node |-> 0]
  /\ itmp = [n \in Node |-> 0]
  /\ coor = [n \in Node |-> 0]
  /\ tmp_sum = [n \in Node |-> Junk]
  /\ gsum_buf = [n \in Node |-> [c \in UNION {Coor(i) : i \in Dim} |-> Junk]]
  /\ transmit_buf = [n \in Node |-> Junk]
  /\ receive_buf = [n \in Node |-> Junk]
  /\ link = [i \in Dim |-> [n \in Node |-> <<>>]]
  /\ got = [n \in Node |-> FALSE]
  /\ sent = [n \in Node |-> FALSE]

-----------------------------------------------------------------------------
\* The data node n holds are those of node Home(n) before GDS.Shift moved all
\* data by the origin; what n adds to sum k comes from them.
Home(n) == [i \in Dim |-> (n[i] - Origin[i]) % NP[i]]

Contribution(n, k) == <<k, Home(n)>>

\* Mutant: the data are taken to be where they were allocated.
LogicalCoor_Bug(n, i) == n[i]

\* Coordinate of n along i, counted from the origin.
LogicalCoor(n, i) == (n[i] - Origin[i] + NP[i]) % NP[i]

\* Mutant: slice_sum sums over its own direction as well.
NextDim_Bug(i, along) ==
  LET more == {j \in (i + 1)..ndir : NP[j] > 1} IN
  IF more = {} THEN ndir + 1 ELSE CHOOSE j \in more : \A k \in more : j <= k

\* The next dimension to sum over that is split; ndir + 1 if there is none.
NextDim(i, along) ==
  LET more == {j \in (i + 1)..ndir : j \in along /\ NP[j] > 1} IN
  IF more = {} THEN ndir + 1 ELSE CHOOSE j \in more : \A k \in more : j <= k

\* The loop over dimensions reaches dimension i with s summed so far.
EnterDim(n, i, s) ==
  /\ dir' = [dir EXCEPT ![n] = i]
  /\ tmp_sum' = [tmp_sum EXCEPT ![n] = s]
  /\ IF i > ndir
       THEN /\ results' = [results EXCEPT ![n] = Append(@, s)]
            /\ pc' = [pc EXCEPT ![n] = "out"]
            /\ UNCHANGED <<itmp, coor, gsum_buf, transmit_buf>>
       ELSE /\ pc' = [pc EXCEPT ![n] = "ring"]
            /\ itmp' = [itmp EXCEPT ![n] = 1]
            /\ coor' = [coor EXCEPT ![n] = LogicalCoor(n, i)]
            /\ gsum_buf' = [gsum_buf EXCEPT ![n][LogicalCoor(n, i)] = s]
            /\ transmit_buf' = [transmit_buf EXCEPT ![n] = s]
            /\ UNCHANGED results

Call(n) ==
  /\ pc[n] = "out"
  /\ calls[n] < Len(machine.sums)
  /\ calls' = [calls EXCEPT ![n] = @ + 1]
  /\ EnterDim(n, NextDim(0, machine.sums[calls[n] + 1]),
              Contribution(n, calls[n] + 1))
  /\ UNCHANGED <<machine, receive_buf, link, got, sent>>

\* Mutant: the coordinate does not wrap around.
NextCoor_Bug(c, i) == c + 1

NextCoor(c, i) == (c + 1) % NP[i]

\* QMP_start of the send to the minus neighbour and of the receive.
Start(n) ==
  /\ pc[n] = "ring"
  /\ pc' = [pc EXCEPT ![n] = "wait"]
  /\ coor' = [coor EXCEPT ![n] = NextCoor(@, dir[n])]
  /\ \E copied \in BOOLEAN :
       /\ link' = [link EXCEPT ![dir[n]][Minus(n, dir[n])] =
                     Append(@, IF copied THEN <<transmit_buf[n]>> ELSE <<>>)]
       /\ sent' = [sent EXCEPT ![n] = copied]
  /\ got' = [got EXCEPT ![n] = FALSE]
  /\ UNCHANGED <<machine, calls, results, dir, itmp, tmp_sum, gsum_buf,
                 transmit_buf, receive_buf>>

\* QMP fills the receive buffer of n.
Deliver(n) ==
  LET i == dir[n]
      from == Plus(n, i)
      copied == Head(link[i][n]) # <<>>
  IN
  /\ pc[n] = "wait" /\ ~got[n]
  /\ link[i][n] # <<>>
  /\ link' = [link EXCEPT ![i][n] = Tail(@)]
  /\ receive_buf' = [receive_buf EXCEPT
       ![n] = IF copied THEN Head(Head(link[i][n]))
                  ELSE transmit_buf[from]]
  /\ got' = [got EXCEPT ![n] = TRUE]
  /\ sent' = IF copied THEN sent ELSE [sent EXCEPT ![from] = TRUE]
  /\ UNCHANGED <<machine, pc, calls, results, dir, itmp, coor, tmp_sum, gsum_buf,
                 transmit_buf>>

\* Both QMP_waits are over: the number is stored and passed on, or, when it was
\* the last one of this ring, the sum is taken in the order of the coordinates.

\* Mutant: only the receive is waited for.
Waited_Bug(n) == got[n]

\* Mutant: only the send is waited for.
Waited_Bug2(n) == sent[n]

Waited(n) == got[n] /\ sent[n]

Stored(n) == [gsum_buf[n] EXCEPT ![coor[n]] = receive_buf[n]]

\* Mutant: added up from the node's own number on, as it came in.
RingTotal_Bug(n) ==
  [c \in Coor(dir[n]) |-> Stored(n)[(c + LogicalCoor(n, dir[n])) % NP[dir[n]]]]

RingTotal(n) == [c \in Coor(dir[n]) |-> Stored(n)[c]]

PassOn(n) ==
  /\ pc[n] = "wait" /\ Waited(n)
  /\ itmp[n] + 1 < NP[dir[n]]
  /\ pc' = [pc EXCEPT ![n] = "ring"]
  /\ itmp' = [itmp EXCEPT ![n] = @ + 1]
  /\ gsum_buf' = [gsum_buf EXCEPT ![n] = Stored(n)]
  /\ transmit_buf' = [transmit_buf EXCEPT ![n] = receive_buf[n]]
  /\ UNCHANGED <<machine, calls, results, dir, coor, tmp_sum, receive_buf, link,
                 got, sent>>

LeaveDim(n) ==
  /\ pc[n] = "wait" /\ Waited(n)
  /\ itmp[n] + 1 >= NP[dir[n]]
  /\ EnterDim(n, NextDim(dir[n], machine.sums[calls[n]]), RingTotal(n))
  /\ UNCHANGED <<machine, calls, receive_buf, link, got, sent>>

NodeNext(n) == Call(n) \/ Start(n) \/ Deliver(n) \/ PassOn(n) \/ LeaveDim(n)

Next == \E n \in Node : NodeNext(n)

\* Every node runs and QMP delivers what was sent.
Fairness ==
  \A mc \in Machines : \A n \in Nodes[mc] :
    WF_vars(machine = mc /\ NodeNext(n))

Spec == Init /\ [][Next]_vars /\ Fairness

-----------------------------------------------------------------------------
(* Properties *)

\* The loop variables stay in range; in particular gsum_buf is only indexed
\* inside the ring of the current dimension.
InRange(n) ==
  pc[n] # "out" =>
    /\ dir[n] \in Dim
    /\ coor[n] \in Coor(dir[n])
    /\ itmp[n] \in 1..(NP[dir[n]] - 1)

TypeOK ==
  /\ machine \in Machines
  /\ pc \in [Node -> {"out", "ring", "wait"}]
  /\ calls \in [Node -> Nat]
  /\ dir \in [Node -> Nat] /\ itmp \in [Node -> Nat] /\ coor \in [Node -> Nat]
  /\ got \in [Node -> BOOLEAN] /\ sent \in [Node -> BOOLEAN]
  /\ \A n \in Node : InRange(n)

\* A fast neighbour can run at most one ring ahead, into the next call: the
\* communication layer never has to keep more than NP messages of a link.
BacklogBounded == \A i \in Dim, n \in Node : Len(link[i][n]) <= NP[i]

\* The nodes that take part in call k of node n: those it shares the
\* coordinates with that are not summed over.
Partners(mc, k, n) ==
  {x \in Nodes[mc] : \A i \in 1..Len(mc.NP) : i \notin mc.sums[k] => x[i] = n[i]}

\* Ordered[mc][k][i][x] is the sum of call k over dimensions 1..i, at
\* coordinates x counted from the origin: along every dimension in the order of
\* the coordinates, dimension 1 innermost.
Ordered ==
  [mc \in Machines |-> [k \in 1..Len(mc.sums) |->
    LET split == {i \in mc.sums[k] : mc.NP[i] > 1}
        term[i \in 0..Len(mc.NP)] ==
          [x \in Nodes[mc] |->
            IF i = 0 THEN <<k, x>>
            ELSE IF i \notin split THEN term[i - 1][x]
            ELSE [c \in 0..(mc.NP[i] - 1) |-> term[i - 1][[x EXCEPT ![i] = c]]]]
    IN  term]]

OrderedTotal(mc, k, n) ==
  Ordered[mc][k][Len(mc.NP)][
    [i \in 1..Len(mc.NP) |-> (n[i] - mc.Origin[i]) % mc.NP[i]]]

NumberOfSums(mc) == Len(mc.sums)

\* A sum is a barrier for the nodes that take part, it loses or doubles no
\* contribution, and it gives each of them the same sum with the same rounding,
\* whatever the origin: the nodes may run apart, with messages of later rounds
\* under way, sums over a plane follow sums over the grid at other times on
\* every plane, and buffers are reused from round to round and call to call.
Sum == INSTANCE GlobalSum WITH Total <- OrderedTotal, Sums <- NumberOfSums

ImplementsGlobalSum == Sum!Spec
=============================================================================
