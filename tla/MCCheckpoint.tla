---------------------------- MODULE MCCheckpoint -----------------------------
(* A lattice of 4 x 4 x 2 x 2 sites and four slices on one node, on two      *)
(* along X, or on four along X and Y.  All slices are on one node: Lattice   *)
(* stops a program whose fifth direction is spread (GsoCheck).               *)
EXTENDS Checkpoint

Lattice4 == [d \in Dir |-> <<4, 4, 2, 2, 4>>[d + 1]]
Boxes    == {[d \in Dir |-> n[d + 1]] :
               n \in {<<1, 1, 1, 1, 1>>, <<2, 1, 1, 1, 1>>, <<2, 2, 1, 1, 1>>}}
Written  == <<"do_arg", "hmc_arg", "evo_arg", "quo_arg", "rat_quo_arg",
              "gauge_arg", "ab1_arg", "ab2_arg", "ab3_arg">>
\* Every outcome as the first and as the second of a checkpoint's trajectories.
Outcomes == {[t \in 0..5 |-> <<"up", "down", "down", "reject",
                               "reject", "up">>[t + 1]]}
=============================================================================
