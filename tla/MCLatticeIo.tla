---------------------------- MODULE MCLatticeIo -----------------------------
(* Grids of one to four nodes on a lattice of 2 x 2 x 1 x 2 x 2 sites. *)
EXTENDS LatticeIo

MCGlb == <<2, 2, 1, 2, 2>>
MCMachines == {1, 2, 3, 4}
MCConcurrencies == {0, 1, 2, 3}

J(style, dimension, g, concur) ==
  [style |-> style, dimension |-> dimension, grid |-> g, concur |-> concur]

\* One node; two carries; a gap before the last dimension; two slices in s.
One == <<1, 1, 1, 1, 1>>
Square == <<2, 2, 1, 1, 1>>
Gap == <<1, 2, 1, 2, 1>>
Slices == <<2, 1, 1, 1, 2>>

MCStoreJobs ==
  {J("serial", d, g, 0) : d \in {4, 5}, g \in {One, Slices}}
  \union {J("serial", 5, Square, 0), J("serial", 4, Gap, 0)}
  \union {J("parallel", 5, One, 3), J("parallel", 5, Square, 3),
          J("parallel", 4, Slices, 3)}

MCLoadJobs ==
  {J("serial", d, g, 0) : d \in {4, 5}, g \in {One, Gap, Slices}}
  \union {J("parallel", d, g, 1) : d \in {4, 5}, g \in {One, Square, Slices}}

\* For serial_write_error.
FourNodes == {J("serial", 4, Slices, 0)}
=============================================================================
