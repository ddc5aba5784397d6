----------------------------- MODULE GlobalSum ------------------------------
(***************************************************************************)
(* What glb_sum, glb_sum_five, glb_sum_multi_dir and slice_sum promise: in *)
(* its k-th call every node contributes a number to a sum over some of the *)
(* nodes, its partners; it does not return before all of them have         *)
(* contributed, and all of them return the very same sum, bit for bit:     *)
(* Total stands for one order of the additions, the same on every partner. *)
(***************************************************************************)
EXTENDS Naturals, Sequences

CONSTANTS
  Machines,            (* the grids of nodes a program may run on          *)
  Nodes,               (* Nodes[mc]: the nodes of grid mc                  *)
  Sums(_),             (* how many sums the program makes                  *)
  Partners(_, _, _),   (* the nodes that take part in call k of node n     *)
  Total(_, _, _)       (* what call k returns on node n                    *)

VARIABLES
  machine,
  calls,               (* calls[n]: calls node n has made                  *)
  results              (* results[n]: what its calls have returned         *)

vars == <<machine, calls, results>>

Init ==
  /\ machine \in Machines
  /\ calls = [n \in Nodes[machine] |-> 0]
  /\ results = [n \in Nodes[machine] |-> <<>>]

Returned(n) == calls[n] = Len(results[n])

Call(n) ==
  /\ Returned(n)
  /\ calls[n] < Sums(machine)
  /\ calls' = [calls EXCEPT ![n] = @ + 1]
  /\ UNCHANGED <<machine, results>>

Return(n) ==
  /\ ~Returned(n)
  /\ \A x \in Partners(machine, calls[n], n) : calls[x] >= calls[n]
  /\ results' = [results EXCEPT ![n] = Append(@, Total(machine, calls[n], n))]
  /\ UNCHANGED <<machine, calls>>

\* A node without partners need not wait for anything.
CallAlone(n) ==
  /\ Returned(n)
  /\ calls[n] < Sums(machine)
  /\ Partners(machine, calls[n] + 1, n) = {n}
  /\ calls' = [calls EXCEPT ![n] = @ + 1]
  /\ results' = [results EXCEPT ![n] = Append(@, Total(machine, calls[n] + 1, n))]
  /\ UNCHANGED machine

NodeNext(n) == Call(n) \/ Return(n) \/ CallAlone(n)

Next == \E n \in Nodes[machine] : NodeNext(n)

\* Every call returns, if every node makes its calls.
Fairness ==
  \A mc \in Machines : \A n \in Nodes[mc] :
    WF_vars(machine = mc /\ NodeNext(n))

Spec == Init /\ [][Next]_vars /\ Fairness
=============================================================================
