----------------------------- MODULE MCGetData ------------------------------
(* Two nodes, split in the y direction, and the calls NLocalPropS::transfer  *)
(* makes for the sites beside a node (one of each kind).                     *)
EXTENDS GetData, TLC

TwoNodes == (0 :> 1) @@ (1 :> 2) @@ (2 :> 1) @@ (3 :> 1)
Length   == 6

Made(op, mu, nu) == [op |-> op, mu |-> mu, nu |-> nu, len |-> Length]

transfer ==
  <<Made("getMinus3Data", 3, 3),
    Made("getMinus2Data", 1, 2), Made("getMinus2Data", 2, 0),
    Made("getMinus2Data", 0, 1),
    Made("getMinusData", 2, 2), Made("getMinusData", 1, 1),
    Made("getMinusData", 0, 0)>>
=============================================================================
