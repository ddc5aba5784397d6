----------------------------- MODULE MCRingSum ------------------------------
(* A ring of three nodes beside a dimension that is not split, and a grid of *)
(* two dimensions, both with shifted data; sums over the grid (glb_sum) and  *)
(* over its lines (glb_sum_multi_dir, slice_sum).                            *)
EXTENDS RingSum

Line == [NP |-> <<1, 3>>, Origin |-> <<0, -1>>,
         sums |-> <<{1, 2}, {1}, {2}, {1, 2}>>]
Grid == [NP |-> <<2, 2>>, Origin |-> <<1, 0>>, sums |-> <<{2}, {1, 2}, {1}>>]

LineAndGrid == {Line, Grid}
=============================================================================
