------------------------------ MODULE HmcChain ------------------------------
(***************************************************************************)
(* What AlgHmc::run promises its caller: every call moves the Markov chain *)
(* of gauge fields by one trajectory.  The chain either takes the field    *)
(* that molecular dynamics produces from the current field and the current *)
(* random numbers, or keeps the current field exactly; the generator moves *)
(* on by one trajectory's worth of numbers however many times the          *)
(* trajectory had to be computed; a run that cannot be reproduced stops    *)
(* the program and never hands a field over.                               *)
(***************************************************************************)
EXTENDS Integers

CONSTANTS
  Field,               (* gauge configurations                             *)
  Rng,                 (* states of the lattice random number generator    *)
  Propose(_, _, _),    (* mode, field, rng -> field MD ends with        *)
  AfterHeatbath(_),    (* generator after the heatbath of one trajectory   *)
  AfterUniform(_)      (* generator after one more uniform number          *)

VARIABLES
  mode,      (* how MD is run: never changes while the program runs        *)
  field,     (* the chain's current configuration                          *)
  rng,       (* the generator's state between trajectories                 *)
  updates,   (* number of accepted trajectories                            *)
  halted     (* the program has stopped on an error                        *)

vars == <<mode, field, rng, updates, halted>>

Init ==
  /\ field \in Field
  /\ rng \in Rng
  /\ updates = 0
  /\ halted = FALSE

\* The generator after a trajectory: the Metropolis test may or may not have
\* needed a uniform number.
RngAfterTrajectory(r) == {AfterHeatbath(r), AfterUniform(AfterHeatbath(r))}

Accept ==
  /\ ~halted
  /\ field' = Propose(mode, field, rng)
  /\ rng' \in RngAfterTrajectory(rng)
  /\ updates' = updates + 1
  /\ UNCHANGED <<mode, halted>>

Reject ==
  /\ ~halted
  /\ rng' \in RngAfterTrajectory(rng)
  /\ UNCHANGED <<mode, field, updates, halted>>

Halt ==
  /\ ~halted
  /\ halted' = TRUE
  /\ UNCHANGED <<mode, field, rng, updates>>

Next == Accept \/ Reject \/ Halt

Spec == Init /\ [][Next]_vars
=============================================================================
