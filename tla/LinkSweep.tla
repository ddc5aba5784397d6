----------------------------- MODULE LinkSweep ------------------------------
(***************************************************************************)
(* What a heat bath promises, whatever machine it runs on: the links of    *)
(* the lattice are updated one after the other, each from the links as     *)
(* they are at that moment and with the next number of its own generator,  *)
(* and no link is updated again before every link near it had its turn.    *)
(* Updates of links that are not near each other commute, so that the      *)
(* fields are those of whole sweeps, one after the other: this is what     *)
(* makes them a Markov chain with the wanted distribution.  The order      *)
(* within a sweep is free, and far parts of a large lattice may be in      *)
(* different sweeps at one time.                                           *)
(***************************************************************************)
EXTENDS Integers

CONSTANTS
  Link, Generator,
  GeneratorOf,        (* GeneratorOf[l]: the generator link l draws from     *)
  U0, G0,             (* the links and the generators at the start           *)
  Draw(_),            (* the state of a generator after an update            *)
  Heat(_, _, _, _),   (* Heat(ga, U, g, l): the new link l under gauge       *)
                      (* action ga, in field U, with generator state g       *)
  Near(_, _)          (* Near(ga, l): the links whose updates do not commute *)
                      (* with that of l                                      *)

VARIABLES ga, U, G, swept

vars == <<ga, U, G, swept>>

Init == /\ U = U0
        /\ G = G0
        /\ swept = [l \in Link |-> 0]

\* The first conjunct follows from the third; it spares TLC the functions of
\* the links that a step does not update.
Update(l) ==
  /\ swept'[l] # swept[l]
  /\ \A k \in Near(ga, l) : swept[l] <= swept[k]
  /\ swept' = [swept EXCEPT ![l] = @ + 1]
  /\ U' = [U EXCEPT ![l] = Heat(ga, U, G[GeneratorOf[l]], l)]
  /\ G' = [G EXCEPT ![GeneratorOf[l]] = Draw(@)]
  /\ UNCHANGED ga

Next == \E l \in Link : Update(l)

Spec == Init /\ [][Next]_vars
=============================================================================
