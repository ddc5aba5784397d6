---------------------------- MODULE EvolutionChain ---------------------------
(***************************************************************************)
(* What an evolution promises: one Markov chain that depends on nothing    *)
(* but its start, however often the program is killed and started again,   *)
(* on whatever machines, and whatever is measured on the way.              *)
(***************************************************************************)
EXTENDS Integers

CONSTANTS
  Start,               (* the chain's first state, a record with traj = 0  *)
  Trajectory(_, _),    (* fate and state of the chain -> its next state    *)
  LastTraj,            (* trajectories the evolution is followed for       *)
  Period               (* trajectories between saved states                *)

VARIABLES
  fate,                (* how the Metropolis test of a trajectory ends     *)
  now,                 (* the chain's state in the running program, or Off *)
  saved                (* the states saved so far                          *)

vars == <<fate, now, saved>>

Off == [traj |-> -1]

Init == now = Off /\ saved = {}

\* The program goes on where the youngest saved state is, or begins.
Resume ==
  /\ now = Off
  /\ IF saved = {} THEN now' = Start
     ELSE now' \in {s \in saved : \A t \in saved : t.traj <= s.traj}
  /\ UNCHANGED <<fate, saved>>

Step ==
  /\ now # Off /\ now.traj < LastTraj
  /\ now' = Trajectory(fate, now)
  /\ UNCHANGED <<fate, saved>>

Saves ==
  /\ now.traj > 0 /\ now.traj % Period = 0
  /\ saved' = saved \cup {now}

Save == Saves /\ UNCHANGED <<fate, now>>

\* A program that is stopped while it saves may have saved enough.
Stop ==
  /\ now' = Off
  /\ Saves \/ UNCHANGED saved
  /\ UNCHANGED fate

Next == Resume \/ Step \/ Save \/ Stop

Spec == Init /\ [][Next]_vars
=============================================================================
