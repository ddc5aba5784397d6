------------------------------ MODULE LatRanGen ------------------------------
(***************************************************************************)
(* LRG, the random number generators of the lattice: one generator for     *)
(* every hypercube of 2^5 sites and one for every hypercube of 2^4 sites,  *)
(* kept in arrays (ugran and ugran_4d) on the nodes the hypercubes lie on. *)
(*                                                                         *)
(* A generator is [seed, pos]: how it was seeded, in units of 23 above the *)
(* base seed, and how often it was visited since.  A visit draws all the   *)
(* numbers of one site, <<seed, pos>>.  The fields of Gaussian numbers     *)
(* take an even number per site, so the spare one of the Box-Muller        *)
(* method, which StoreSeeds leaves behind, is never there.                 *)
(*                                                                         *)
(* A machine is the number of its nodes in every direction.  Nodes, sites  *)
(* and hypercubes are numbered canonically, those of the whole lattice as  *)
(* well as those of one node.  dim is 4 or 5, for FOUR_D and FIVE_D.       *)
(***************************************************************************)
EXTENDS Integers, FiniteSets

CONSTANTS
  Size,        (* sites of the lattice in the directions X, Y, Z, T and S  *)
  Machines     (* the machines the program may be started on               *)

Dir == 0..4

ASSUME LatticeAssumption ==
  /\ Size \in [Dir -> Nat] /\ Machines \subseteq [Dir -> Nat]
  /\ \A m \in Machines, d \in Dir :
       /\ m[d] > 0 /\ Size[d] % m[d] = 0 /\ Size[d] > 0
       /\ (Size[d] \div m[d]) % 2 = 0 \/ (d = 4 /\ Size[d] = 1)

\* Canonical numbers: direction 0 runs fastest, n[d] values in direction d.
Stride(n, d) ==
  LET s[k \in 0..5] == IF k = 0 THEN 1 ELSE s[k - 1] * n[k - 1] IN s[d]
Coor(n, i, d)   == (i \div Stride(n, d)) % n[d]
Number(n, x)    == x[0] + n[0] * (x[1] + n[1] * (x[2] + n[2] * (x[3] + n[3] * x[4])))
Indices(n, dim) == 0..(Stride(n, dim) - 1)

\* Sites of a node, and hypercubes; a single slice counts as one.
NodeSites(m) == [d \in Dir |-> Size[d] \div m[d]]
Half(n)      == [d \in Dir |-> IF n[d] < 2 THEN 1 ELSE n[d] \div 2]
hx(m)        == Half(NodeSites(m))

Node(m)      == Indices(m, 5)
Generator    == [m \in Machines |-> [dim \in {4, 5} |-> Indices(hx(m), dim)]]

-----------------------------------------------------------------------------
(* LatRanGen::Initialize with START_SEED_FIXED *)

\* Half of the coordinates of the first site of hypercube k of node c.
Corner(m, c, k) ==
  [d \in Dir |->
     (Coor(m, c, d) * NodeSites(m)[d] + 2 * Coor(hx(m), k, d)) \div 2]

\* Mutant: numbered by the hypercubes of one node.
StartSeed_Bug(m, dim, h) ==
  LET vx == hx(m) IN
  h[0] + vx[0] * (h[1] + vx[1] * (h[2] + vx[2] *
    (h[3] + IF dim = 5 THEN vx[3] * (h[4] + 1) ELSE 0)))

StartSeed(m, dim, h) ==
  LET vx == [d \in Dir |-> hx(m)[d] * m[d]] IN
  h[0] + vx[0] * (h[1] + vx[1] * (h[2] + vx[2] *
    (h[3] + IF dim = 5 THEN vx[3] * (h[4] + 1) ELSE 0)))

Seeded(m) ==
  [dim \in {4, 5} |-> [c \in Node(m) |-> [k \in Generator[m][dim] |->
     [seed |-> StartSeed(m, dim, Corner(m, c, k)), pos |-> 0]]]]

-----------------------------------------------------------------------------
(* Drawing a field of numbers *)

\* AssignGenerator(i): rgen_pos or rgen_pos_4d for site i of the node.
AssignGenerator(m, dim, i) ==
  LET h(d) == (i \div (2 * Stride(NodeSites(m), d))) % hx(m)[d] IN
  h(0) + hx(m)[0] * (h(1) + hx(m)[1] * (h(2) + hx(m)[2] *
    (h(3) + IF dim = 5 THEN hx(m)[3] * h(4) ELSE 0)))

\* The sites a field is drawn at, of the node or of the whole lattice:
\* RandGaussAntiHermMatrix takes all sites, RandGaussVector of one checkerboard
\* every other one.
Drawn(n, dim) == {i \in Indices(n, dim) : dim = 4 \/ i % 2 = 0}

\* How often the generator of site i is visited before i, and altogether.
Before == [m \in Machines |-> [dim \in {4, 5} |->
  LET S == Drawn(NodeSites(m), dim)  A(i) == AssignGenerator(m, dim, i)
  IN [i \in S |-> Cardinality({j \in S : j < i /\ A(j) = A(i)})]]]
Visits == [m \in Machines |-> [dim \in {4, 5} |->
  LET S == Drawn(NodeSites(m), dim)  A(i) == AssignGenerator(m, dim, i)
  IN [k \in Generator[m][dim] |-> Cardinality({j \in S : A(j) = k})]]]

\* Where a site of the whole lattice lies on a machine; of a four-dimensional
\* site every slice of nodes has a copy, the first one counts.
Place == [m \in Machines |-> [dim \in {4, 5} |-> [g \in Drawn(Size, dim) |->
  LET n == NodeSites(m)
      x == [d \in Dir |-> Coor(Size, g, d)]
      i == Number(n, [d \in Dir |-> x[d] % n[d]])
  IN [node |-> Number(m, [d \in Dir |-> x[d] \div n[d]]),
      k |-> AssignGenerator(m, dim, i), before |-> Before[m][dim][i]]]]]

Numbers(m, dim, lrg) ==
  [g \in Drawn(Size, dim) |->
     LET p == Place[m][dim][g]  r == lrg[dim][p.node][p.k] IN
     <<r.seed, r.pos + p.before>>]

AfterField(m, dim, lrg) ==
  [lrg EXCEPT ![dim] = [c \in Node(m) |-> [k \in Generator[m][dim] |->
     [@[c][k] EXCEPT !.pos = @ + Visits[m][dim][k]]]]]

\* MetropolisAccept: one number of the generator of the origin, in every slice.
AfterUniform(m, lrg) ==
  [lrg EXCEPT ![4] = [c \in Node(m) |->
     IF \A d \in 0..3 : Coor(m, c, d) = 0 THEN [@[c] EXCEPT ![0].pos = @ + 1]
     ELSE @[c]]]

-----------------------------------------------------------------------------
(* Files and copies *)

\* The hypercube of the whole lattice a generator of a node belongs to, and a
\* node and generator that belong to a hypercube.
Hypercube == [dim \in {4, 5} |-> Indices(Half(Size), dim)]
CubeOf == [m \in Machines |-> [dim \in {4, 5} |-> [c \in Node(m) |->
  [k \in Generator[m][dim] |->
     LET h == Corner(m, c, k) IN
     Number(Half(Size), IF dim = 4 THEN [h EXCEPT ![4] = 0] ELSE h)]]]]
Holder == [m \in Machines |-> [dim \in {4, 5} |-> [h \in Hypercube[dim] |->
  CHOOSE p \in Node(m) \X Generator[m][dim] : CubeOf[m][dim][p[1]][p[2]] = h]]]

\* LatRngWrite keeps the generators in the order of the hypercubes of the whole
\* lattice, LatRngRead deals them out again.
ToFile(m, lrg) ==
  [dim \in {4, 5} |-> [h \in Hypercube[dim] |->
     LET p == Holder[m][dim][h] IN lrg[dim][p[1]][p[2]]]]

FromFile(m, file) ==
  [dim \in {4, 5} |-> [c \in Node(m) |-> [k \in Generator[m][dim] |->
     file[dim][CubeOf[m][dim][c][k]]]]]

\* Mutant: without the four-dimensional generators.
SetStates_Bug(saved, lrg) == [lrg EXCEPT ![5] = saved[5]]

\* LRGState: GetStates before a measurement, SetStates after it.
SetStates(saved, lrg) == [lrg EXCEPT ![5] = saved[5], ![4] = saved[4]]
=============================================================================
