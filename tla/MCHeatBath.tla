----------------------------- MODULE MCHeatBath -----------------------------
(* A lattice of 8 x 4 sites: 4 x 2 hypercubes, so that hypercubes of one     *)
(* colour lie on both sides of the border between two nodes of 4 x 4 sites.  *)
(* A direction that is not split still has a halo, filled by the node        *)
(* itself.                                                                   *)
EXTENDS HeatBath

EightByFour == <<8, 4>>

Job(sizeN, ga, runs, num_iter) ==
  [sizeN |-> sizeN, ga |-> ga, runs |-> runs, num_iter |-> num_iter]

SomeJobs == {Job(<<2, 1>>, "IMPR_RECT", 2, 1), Job(<<2, 1>>, "WILSON", 1, 2),
             Job(<<1, 1>>, "IMPR_RECT", 1, 2)}
=============================================================================
