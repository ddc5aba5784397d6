----------------------------- MODULE Metropolis -----------------------------
(***************************************************************************)
(* Lattice::MetropolisAccept (lattice_base.C) on all nodes of the machine. *)
(* The four-dimensional lattice is spread over the nodes of a slice, and   *)
(* every slice of the fifth direction holds a copy of it.  In each slice   *)
(* the node at the origin decides and the others learn the decision from a *)
(* global sum.  SoCheck compares a number around the ring of slices and    *)
(* stops the program if it is not the same everywhere; MetropolisAccept    *)
(* checks delta_h before and the decision after.                           *)
(*                                                                         *)
(* glb_sum and glb_sum_five are used as GlobalSum states: no node leaves   *)
(* before all have contributed.  delta_h is an input: it may differ between *)
(* nodes, because QMP_sum_double need not round alike everywhere, and it   *)
(* may be plainly wrong on some slice.                                     *)
(***************************************************************************)
EXTENDS Integers, Sequences, FiniteSets

CONSTANTS
  X,                   (* nodes of a slice; 0 is its origin                *)
  S,                   (* GJP.Snodes()                                     *)
  DeltaH,              (* energy differences, integers here                *)
  Rng,                 (* states of the 4D generator at the slice's origin *)
  Uniform(_),          (* LRG.Urand(), in units of 10^-9                   *)
  AfterUniform(_),     (* generator state -> generator state               *)
  Exp(_),              (* exp(-delta_h), in units of 10^-9                 *)
  MaxCalls             (* bound on the number of calls                     *)

ASSUME MetropolisAssumption ==
  /\ X \in Nat \ {0} /\ S \in Nat \ {0}
  /\ DeltaH \subseteq Int
  /\ \A r \in Rng : Uniform(r) \in Nat /\ AfterUniform(r) \in Rng
  /\ \A d \in DeltaH : Exp(d) \in Nat
  /\ MaxCalls \in Nat

Slice == 0..(S - 1)
Node  == [x : 0..(X - 1), s : Slice]

\* Mutant: the flag is not summed.
InSlice_Bug(n) == {n}

InSlice(n) == {m \in Node : m.s = n.s}
Plus(n)    == [n EXCEPT !.s = (@ + 1) % S]

\* accept points to a variable run() never gave a value.
Unset == -1

\* The global sums of one call: of failed_flag in either SoCheck, and of flag.
GlobalSums == {"SoCheck(delta_h)", "flag", "SoCheck(flag)"}
None == -1

VARIABLES
  pc,                  (* where each node is                               *)
  ncalls,              (* calls begun, at most MaxCalls                    *)
  delta_h, flag, accept,
  rng,                 (* rng[s]: 4D generator at the origin of slice s    *)
  result,              (* what MetropolisAccept returned                   *)
  checking,            (* the SoCheck a node is in                         *)
  number, snd_buf, round, failed_flag,
  link,                (* link[n]: numbers sent to n by its minus slice    *)
  addend,              (* addend[n][c]: what n added to global sum c       *)
  begin                (* history: the generators when the call began      *)

vars == <<pc, ncalls, delta_h, flag, accept, rng, result, checking, number,
          snd_buf, round, failed_flag, link, addend, begin>>

inputs == <<ncalls, delta_h, begin>>
socheck == <<checking, number, snd_buf, round, failed_flag, link>>

Init ==
  /\ pc = [n \in Node |-> "out"]
  /\ ncalls = 0
  /\ delta_h = [n \in Node |-> 0]
  /\ flag = [n \in Node |-> 0]
  /\ accept = [n \in Node |-> Unset]
  /\ rng \in [Slice -> Rng]
  /\ result = [n \in Node |-> 0]
  /\ checking = [n \in Node |-> "SoCheck(delta_h)"]
  /\ number = [n \in Node |-> 0]
  /\ snd_buf = [n \in Node |-> 0]
  /\ round = [n \in Node |-> 0]
  /\ failed_flag = [n \in Node |-> 0]
  /\ link = [n \in Node |-> <<>>]
  /\ addend = [n \in Node |-> [c \in GlobalSums |-> None]]
  /\ begin = rng

-----------------------------------------------------------------------------
\* AlgHmc::run has summed delta_h over all nodes and calls MetropolisAccept.
Call ==
  /\ \A n \in Node : pc[n] = "out"
  /\ ncalls < MaxCalls
  /\ ncalls' = ncalls + 1
  /\ delta_h' \in [Node -> DeltaH]
  /\ pc' = [n \in Node |-> "enter"]
  /\ flag' = [n \in Node |-> 0]
  /\ accept' = [n \in Node |-> Unset]
  /\ addend' = [n \in Node |-> [c \in GlobalSums |-> None]]
  /\ begin' = rng
  /\ UNCHANGED <<rng, result, socheck>>

-----------------------------------------------------------------------------
(* Global sums *)

\* All nodes of a group have added to sum c, and what they added.
Complete(c, group) == \A m \in group : addend[m][c] # None
Total(c, group)    == Cardinality({m \in group : addend[m][c] = 1})

-----------------------------------------------------------------------------
(* SoCheck *)

\* SoCheck(num) is called.
EnterSoCheck(n, c, num) ==
  /\ pc' = [pc EXCEPT ![n] = "send"]
  /\ checking' = [checking EXCEPT ![n] = c]
  /\ number' = [number EXCEPT ![n] = num]
  /\ snd_buf' = [snd_buf EXCEPT ![n] = num]
  /\ round' = [round EXCEPT ![n] = 1]
  /\ failed_flag' = [failed_flag EXCEPT ![n] = 0]
  /\ UNCHANGED link

\* getMinusData: what every node holds goes to its plus slice ...
Send(n) ==
  /\ pc[n] = "send"
  /\ pc' = [pc EXCEPT ![n] = "receive"]
  /\ link' = [link EXCEPT ![Plus(n)] = Append(@, snd_buf[n])]
  /\ UNCHANGED <<inputs, flag, accept, rng, result, checking, number, snd_buf,
                 round, failed_flag, addend>>

\* ... and what its minus slice held is compared and then passed on.
Receive(n) ==
  LET rcv_buf == Head(link[n])
      failed  == IF rcv_buf # number[n] THEN 1 ELSE failed_flag[n]
  IN
  /\ pc[n] = "receive"
  /\ link[n] # <<>>
  /\ link' = [link EXCEPT ![n] = Tail(@)]
  /\ failed_flag' = [failed_flag EXCEPT ![n] = failed]
  /\ snd_buf' = [snd_buf EXCEPT ![n] = rcv_buf]
  /\ round' = [round EXCEPT ![n] = @ + 1]
  /\ IF round[n] + 1 < S
       THEN pc' = [pc EXCEPT ![n] = "send"] /\ UNCHANGED addend
       ELSE /\ pc' = [pc EXCEPT ![n] = "glb_sum_five"]
            /\ addend' = [addend EXCEPT ![n][checking[n]] = failed]
  /\ UNCHANGED <<inputs, flag, accept, rng, result, checking, number>>

\* Mutant: a node acts on its own comparison alone.
CheckFailed_Bug(n) == failed_flag[n] = 1

\* The sum of failed_flag over all nodes of the machine is above 0.1.
CheckFailed(n) == Total(checking[n], Node) > 0

\* ERR.General stops the program on this node.
Stop(n) ==
  /\ pc[n] = "glb_sum_five"
  /\ Complete(checking[n], Node)
  /\ CheckFailed(n)
  /\ pc' = [pc EXCEPT ![n] = "stopped"]
  /\ UNCHANGED <<inputs, flag, accept, rng, result, socheck, addend>>

-----------------------------------------------------------------------------
(* The decision *)

\* Mutant: the origin of the five-dimensional machine decides for all slices.
Decides_Bug(n) == n.x = 0 /\ n.s = 0

\* Mutant: every node decides for itself.
Decides_Bug2(n) == TRUE

\* node_id is 0: the sum of the four coordinates within the slice.
Decides(n) == n.x = 0

\* The origin draws a uniform number only if delta_h is positive.  The others
\* leave flag at 0 and *accept as it is.
Decide(n) ==
  LET d == delta_h[n]
      f == IF ~Decides(n) THEN 0
           ELSE IF d <= 0 \/ Uniform(rng[n.s]) <= Exp(d) THEN 1 ELSE 0
  IN
  /\ flag' = [flag EXCEPT ![n] = f]
  /\ addend' = [addend EXCEPT ![n]["flag"] = f]
  /\ IF Decides(n)
       THEN accept' = [accept EXCEPT ![n] = IF d <= 0 THEN Exp(0) ELSE Exp(d)]
       ELSE UNCHANGED accept
  /\ IF Decides(n) /\ d > 0
       THEN rng' = [rng EXCEPT ![n.s] = AfterUniform(@)]
       ELSE UNCHANGED rng
  /\ pc' = [pc EXCEPT ![n] = "glb_sum"]
  /\ UNCHANGED <<inputs, result>>

\* Mutant: delta_h is not compared between slices.
ChecksDeltaH_Bug == FALSE

ChecksDeltaH == S # 1

Enter(n) ==
  /\ pc[n] = "enter"
  /\ IF ChecksDeltaH
       THEN /\ EnterSoCheck(n, "SoCheck(delta_h)", delta_h[n])
            /\ UNCHANGED <<inputs, flag, accept, rng, result, addend>>
       ELSE Decide(n) /\ UNCHANGED socheck

\* delta_h is the same on every slice.
DeltaHChecked(n) ==
  /\ pc[n] = "glb_sum_five" /\ checking[n] = "SoCheck(delta_h)"
  /\ Complete(checking[n], Node)
  /\ ~CheckFailed(n)
  /\ Decide(n) /\ UNCHANGED socheck

Return(n, f) ==
  /\ pc' = [pc EXCEPT ![n] = "out"]
  /\ result' = [result EXCEPT ![n] = IF f = 0 THEN 0 ELSE 1]

\* Mutant: the decision is not compared between slices.
ChecksFlag_Bug == FALSE

ChecksFlag == S # 1

\* glb_sum(&flag) has told every node of the slice what the origin decided.
Learn(n) ==
  LET f == Total("flag", InSlice(n)) IN
  /\ pc[n] = "glb_sum"
  /\ Complete("flag", InSlice(n))
  /\ flag' = [flag EXCEPT ![n] = f]
  /\ IF ChecksFlag
       THEN EnterSoCheck(n, "SoCheck(flag)", f) /\ UNCHANGED result
       ELSE Return(n, f) /\ UNCHANGED socheck
  /\ UNCHANGED <<inputs, accept, rng, addend>>

\* The decision is the same on every slice.
FlagChecked(n) ==
  /\ pc[n] = "glb_sum_five" /\ checking[n] = "SoCheck(flag)"
  /\ Complete(checking[n], Node)
  /\ ~CheckFailed(n)
  /\ Return(n, flag[n])
  /\ UNCHANGED <<inputs, flag, accept, rng, socheck, addend>>

-----------------------------------------------------------------------------
NodeNext(n) ==
  \/ Enter(n) \/ DeltaHChecked(n) \/ Learn(n) \/ FlagChecked(n)
  \/ Send(n) \/ Receive(n) \/ Stop(n)

Next == Call \/ \E n \in Node : NodeNext(n)

\* Every node runs; run() need not be called again.
Spec == Init /\ [][Next]_vars /\ \A n \in Node : WF_vars(NodeNext(n))

-----------------------------------------------------------------------------
(* Properties *)

Returned(n) == ncalls > 0 /\ pc[n] = "out"
Origin(n)   == [x |-> 0, s |-> n.s]

\* No two nodes return different decisions, even if slices were given different
\* energies or their generators have drifted apart: the copies of the gauge
\* field cannot come to differ.
AllAgree ==
  \A n, m \in Node : Returned(n) /\ Returned(m) => result[n] = result[m]

\* The decision is the one of the Metropolis test on the energy difference of
\* the node at the origin, however the others' copies were rounded, and however
\* large it is: that from 20 on "the routine always rejects"
\* (lattice_base.C:2327, 2399) is not what the code does, whose test for it is
\* commented out (lattice_base.C:2354; see the README).
DecisionIsOrigins ==
  \A n \in Node : Returned(n) =>
    LET d == delta_h[Origin(n)] IN
    result[n] = IF d <= 0 \/ Uniform(begin[n.s]) <= Exp(d) THEN 1 ELSE 0

\* Generators that were alike on all slices when a call began are alike when it
\* has returned: no slice has used a number that another has not.
GeneratorsInStep ==
  (\A n \in Node : pc[n] = "out") /\ (\A s, t \in Slice : begin[s] = begin[t]) =>
    \A s, t \in Slice : rng[s] = rng[t]

\* The program only stops if slices really were given different energies, or
\* their generators really differed.
StopsForCause ==
  (\E n \in Node : pc[n] = "stopped") =>
    \/ \E n, m \in Node : n.x = m.x /\ delta_h[n] # delta_h[m]
    \/ \E s, t \in Slice : begin[s] # begin[t]

\* A call ends alike on all nodes: all return or all stop, and none is left
\* waiting for a sum that others will never contribute to.
EndsTogether ==
  (\E n \in Node : pc[n] = "enter") ~>
    \/ \A n \in Node : pc[n] = "out"
    \/ \A n \in Node : pc[n] = "stopped"
=============================================================================
