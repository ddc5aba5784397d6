-------------------------- MODULE HeatBath_proofs ---------------------------
(***************************************************************************)
(* The heat bath on any number of nodes and threads implements a sweep     *)
(* over the links of the lattice, on every lattice whose sizes are         *)
(* multiples of four on each node.                                         *)
(*                                                                         *)
(* Arithmetic of the grid of nodes comes first: where the sites of a node  *)
(* lie, which node owns what a staple reads, and that the corners of the   *)
(* nodes are corners of hypercubes.  Then the inductive invariant: what a  *)
(* node swept, what is on the wires, in the halo and in the lists of       *)
(* recorded offsets, and what a thread computed but has not written.  Its  *)
(* core is ReadyInv: a node enters a sweep after every node it reads from  *)
(* has entered the refresh before it, so that two nodes that read each     *)
(* other sweep the same colour if they sweep at one time, and sites of one *)
(* colour are apart.                                                       *)
(***************************************************************************)
EXTENDS HeatBath, TLAPS

\* b is d steps from a on a ring of s sites.
Reached(s, a, d, b) == b = (a + d) % s

\* In one direction, a step of at most two that ends on a coordinate of the
\* same parity goes nowhere or to the hypercube next door, also around the
\* lattice.
LEMMA StepInOneDirection ==
  ASSUME NEW s \in Nat, s % 4 = 0, s > 0,
         NEW a \in 0..(s - 1), NEW d \in (-2)..2, NEW b \in Nat,
         Reached(s, a, d, b), b % 2 = a % 2
  PROVE  \/ d = 0 /\ b = a
         \/ /\ d = 2 \/ d = -2
            /\ (b \div 2) % 2 # (a \div 2) % 2
<1>1. PICK k \in Nat : s = 4 * k
  OBVIOUS
<1>2. b = a + d \/ b = a + d + s \/ b = a + d - s
  BY DEF Reached
<1>3. d = 0 => b = a
  BY DEF Reached
<1>4. d # 1 /\ d # -1
  BY <1>1, <1>2
<1>5. CASE d = 0
  BY <1>3, <1>5
<1>6. CASE d = 2 \/ d = -2
  BY <1>1, <1>2, <1>6
<1> QED
  BY <1>4, <1>5, <1>6

\* On every lattice whose sizes are multiples of four, and so on every part
\* of it a node holds, no site of the colour being updated lies within reach
\* of another site of that colour: the threads, which update a colour in any
\* order, and the nodes, which fetch the halo only between two colours, read
\* no link that is changed meanwhile.  (ghb.C:92: every other hypercube.)
THEOREM ColoursIndependent ==
  ASSUME L[1] \in Nat, L[2] \in Nat, L[1] % 4 = 0, L[2] % 4 = 0,
         NEW x \in Site, NEW d \in Int \X Int, InReach(d),
         Colour(Around(x, d)) = Colour(x)
  PROVE  d = <<0, 0>>
<1> DEFINE y == Around(x, d)
<1>1. /\ L[1] > 0 /\ x[1] \in 0..(L[1] - 1)
      /\ L[2] > 0 /\ x[2] \in 0..(L[2] - 1)
  BY DEF Site
<1>2. /\ d[1] \in (-2)..2 /\ d[2] \in (-2)..2
      /\ y[1] = (x[1] + d[1]) % L[1] /\ y[2] = (x[2] + d[2]) % L[2]
  BY DEF InReach, Around, Dir
<1>3. y[1] \in Nat /\ y[2] \in Nat
  BY <1>1, <1>2
<1>4. Colour(y) = Colour(x)
  OBVIOUS
<1> HIDE DEF y
<1>5. /\ y[1] % 2 = x[1] % 2 /\ y[2] % 2 = x[2] % 2
      /\ (y[1] \div 2 + y[2] \div 2) % 2 = (x[1] \div 2 + x[2] \div 2) % 2
  <2>1. x[1] \in Nat /\ x[2] \in Nat
    BY <1>1
  <2>2. 4 * ((y[1] \div 2 + y[2] \div 2) % 2) + (y[1] % 2) + 2 * (y[2] % 2)
          = 4 * ((x[1] \div 2 + x[2] \div 2) % 2) + (x[1] % 2) + 2 * (x[2] % 2)
    BY <1>4 DEF Colour
  <2> DEFINE a == y[1]  b == y[2]  e == x[1]  f == x[2]
  <2>3. /\ a \in Nat /\ b \in Nat /\ e \in Nat /\ f \in Nat
        /\ 4 * ((a \div 2 + b \div 2) % 2) + (a % 2) + 2 * (b % 2)
             = 4 * ((e \div 2 + f \div 2) % 2) + (e % 2) + 2 * (f % 2)
    BY <1>3, <2>1, <2>2
  <2> HIDE DEF a, b, e, f
  <2>4. /\ a % 2 = e % 2 /\ b % 2 = f % 2
        /\ (a \div 2 + b \div 2) % 2 = (e \div 2 + f \div 2) % 2
    BY <2>3
  <2> QED
    BY <2>4 DEF a, b, e, f
<1>6. \A i \in Dir : \/ d[i] = 0 /\ y[i] = x[i]
                     \/ /\ d[i] = 2 \/ d[i] = -2
                        /\ (y[i] \div 2) % 2 # (x[i] \div 2) % 2
  <2>1. ASSUME NEW i \in Dir
        PROVE  \/ d[i] = 0 /\ y[i] = x[i]
               \/ /\ d[i] = 2 \/ d[i] = -2
                  /\ (y[i] \div 2) % 2 # (x[i] \div 2) % 2
    <3>1. i = 1 \/ i = 2
      BY DEF Dir
    <3>2. /\ L[i] \in Nat /\ L[i] % 4 = 0 /\ L[i] > 0
          /\ x[i] \in 0..(L[i] - 1) /\ d[i] \in (-2)..2
          /\ y[i] = (x[i] + d[i]) % L[i] /\ y[i] % 2 = x[i] % 2
      BY <1>1, <1>2, <1>5, <3>1
    <3> DEFINE s == L[i]  a == x[i]  e == d[i]  b == y[i]
    <3>3. /\ s \in Nat /\ s % 4 = 0 /\ s > 0 /\ a \in 0..(s - 1)
          /\ e \in (-2)..2 /\ b \in Nat /\ Reached(s, a, e, b) /\ b % 2 = a % 2
      BY <1>3, <3>1, <3>2 DEF Reached
    <3> HIDE DEF s, a, e, b
    <3>4. \/ e = 0 /\ b = a
          \/ (e = 2 \/ e = -2) /\ (b \div 2) % 2 # (a \div 2) % 2
      BY <3>3, StepInOneDirection
    <3> QED
      BY <3>4 DEF s, a, e, b
  <2> QED
    BY <2>1
<1>7. d[1] = 0 \/ d[2] = 0
  BY <1>6 DEF InReach, Dir
<1>8. \A p, q, r \in Nat : (p + q) % 2 = (p + r) % 2 => q % 2 = r % 2
  OBVIOUS
<1>9. /\ x[1] \div 2 \in Nat /\ x[2] \div 2 \in Nat
      /\ y[1] \div 2 \in Nat /\ y[2] \div 2 \in Nat
  BY <1>1, <1>3
<1>10. CASE d[1] = 0
  <2>1. y[1] = x[1]
    BY <1>6, <1>10 DEF Dir
  <2>2. (y[2] \div 2) % 2 = (x[2] \div 2) % 2
    BY <1>5, <1>8, <1>9, <2>1
  <2> QED
    BY <1>6, <1>10, <2>2 DEF Dir
<1>11. CASE d[2] = 0
  <2>1. y[2] = x[2]
    BY <1>6, <1>11 DEF Dir
  <2>2. (y[1] \div 2) % 2 = (x[1] \div 2) % 2
    BY <1>5, <1>8, <1>9, <2>1
  <2> QED
    BY <1>6, <1>11, <2>2 DEF Dir
<1> QED
  BY <1>7, <1>10, <1>11

\* Products of natural numbers.
LEMMA MulNat == \A a, b \in Nat : a * b \in Nat
  BY SMTT(30)

\* Products grow with their factors.
LEMMA MulMonotonic ==
  ASSUME NEW a \in Nat, NEW b \in Nat, NEW c \in Nat, a <= b
  PROVE  a * c <= b * c
<1>1. (b - a) * c \in Nat
  BY MulNat
<1>2. (b - a) * c = b * c - a * c
  OBVIOUS
<1> QED
  BY <1>1, <1>2, MulNat

\* Quotient and remainder are unique.
LEMMA DivMod ==
  ASSUME NEW b \in Nat \ {0}, NEW q \in Int, NEW r \in 0..(b - 1), NEW a \in Int,
         a = b * q + r
  PROVE  a \div b = q /\ a % b = r
<1> DEFINE d == a \div b  m == a % b
<1>1. d \in Int /\ m \in 0..(b - 1) /\ a = b * d + m
  BY SMTT(30)
<1> HIDE DEF d, m
<1>2. b * (q - d) = b * q - b * d /\ b * (d - q) = b * d - b * q
  BY <1>1
<1>3. \A z \in Int : z >= 1 => b * z >= b
  BY SMTT(30)
<1>4. ~(q - d >= 1)
  <2>1. q - d \in Int
    BY <1>1
  <2>2. b * q \in Int /\ b * d \in Int
    BY <1>1
  <2> QED
    BY <1>1, <1>2, <1>3, <2>1, <2>2
<1>5. ~(d - q >= 1)
  <2>1. d - q \in Int
    BY <1>1
  <2>2. b * q \in Int /\ b * d \in Int
    BY <1>1
  <2> QED
    BY <1>1, <1>2, <1>3, <2>1, <2>2
<1>6. d = q
  BY <1>1, <1>4, <1>5
<1>7. m = r
  BY <1>1, <1>6
<1> QED
  BY <1>6, <1>7 DEF d, m

\* A coordinate on a ring of N nodes with s sites each, and one counted from
\* node n.
OnRing(N, s, a, g) == g = a % (N * s)
FromNode(s, n, x, a) == a = n * s + x

\* The node and the place of any number taken around the ring.
LEMMA RingSite ==
  ASSUME NEW s \in Nat \ {0}, NEW N \in Nat \ {0}, NEW a \in Int,
         NEW g, OnRing(N, s, a, g)
  PROVE  /\ g \in 0..(N * s - 1)
         /\ g \div s \in 0..(N - 1)
         /\ g % s = a % s
         /\ g = (g \div s) * s + (a % s)
<1> DEFINE c == N * s
           q == a \div c
           d == g \div s
           e == g % s
<1>1. c \in Nat \ {0}
  BY SMTT(30)
<1>2. q \in Int /\ g \in 0..(c - 1) /\ a = c * q + g
  <2>1. g = a % c
    BY DEF OnRing
  <2> HIDE DEF c
  <2> QED
    BY <1>1, <2>1
<1>3. d \in Int /\ e \in 0..(s - 1) /\ g = s * d + e
  <2> HIDE DEF c
  <2> QED
    BY <1>2
<1> HIDE DEF q, d, e
<1>4. a = s * (N * q + d) + e
  <2>1. c * q = s * (N * q)
    BY <1>2 DEF c
  <2>2. s * (N * q + d) = s * (N * q) + s * d
    BY <1>2, <1>3
  <2> QED
    BY <1>2, <1>3, <2>1, <2>2
<1>5. a % s = e
  <2> DEFINE p == N * q + d
  <2>1. p \in Int /\ a = s * p + e
    BY <1>2, <1>3, <1>4
  <2> HIDE DEF p
  <2> QED
    BY <1>3, <2>1, DivMod
<1>6. d >= 0
  <2>1. d < 0 => s * d <= -s
    BY <1>3, SMTT(30)
  <2> QED
    BY <1>2, <1>3, <2>1
<1>7. d <= N - 1
  <2>1. d >= N => N * s <= d * s
    BY <1>3, <1>6, MulMonotonic
  <2>2. d * s = s * d
    BY <1>3
  <2> QED
    BY <1>2, <1>3, <2>1, <2>2 DEF c
<1>8. g \in 0..(N * s - 1) /\ g = d * s + e
  BY <1>2, <1>3 DEF c
<1>9. g \div s = d /\ g % s = e
  BY DEF d, e
<1>10. g = (g \div s) * s + (a % s)
  BY Zenon, <1>5, <1>8, <1>9
<1>11. g \div s \in 0..(N - 1) /\ g % s = a % s
  BY <1>3, <1>5, <1>6, <1>7, <1>9
<1> QED
  BY Zenon, <1>8, <1>10, <1>11

\* Quotient and remainder of any number.
LEMMA DivRem ==
  ASSUME NEW s \in Nat \ {0}, NEW a \in Int
  PROVE  a \div s \in Int /\ a % s \in 0..(s - 1) /\ FromNode(s, a \div s, a % s, a)
<1> DEFINE q == a \div s  r == a % s
<1>1. q \in Int /\ r \in 0..(s - 1) /\ a = s * q + r
  BY SMTT(30)
<1> HIDE DEF q, r
<1>2. s * q = q * s
  BY <1>1
<1>3. FromNode(s, q, r, a)
  BY <1>1, <1>2 DEF FromNode
<1> QED
  BY <1>1, <1>3 DEF q, r

\* A coordinate gives back the node and the place on it.
LEMMA DivFrom ==
  ASSUME NEW s \in Nat \ {0}, NEW n \in Int, NEW x \in 0..(s - 1), NEW a \in Int,
         FromNode(s, n, x, a)
  PROVE  a \div s = n /\ a % s = x
<1>1. n * s = s * n
  OBVIOUS
<1>2. a = s * n + x
  BY <1>1 DEF FromNode
<1> QED
  BY <1>2, DivMod

\* A site of a node lies on the ring as it is counted.
LEMMA RingNode ==
  ASSUME NEW s \in Nat \ {0}, NEW N \in Nat \ {0},
         NEW n \in 0..(N - 1), NEW x \in 0..(s - 1), NEW a \in Int,
         FromNode(s, n, x, a)
  PROVE  OnRing(N, s, a, a) /\ a \div s = n
<1>1. a \div s = n /\ a % s = x
  BY DivFrom
<1>2. n * s \in Nat
  BY MulNat
<1>3. n * s + s <= N * s
  <2>1. (N - 1 - n) * s \in Nat
    BY MulNat
  <2>2. (N - 1 - n) * s = N * s - s - n * s
    OBVIOUS
  <2> QED
    BY <2>1, <2>2
<1> DEFINE c == N * s  p == n * s
<1>4. c \in Nat /\ p \in Nat
  BY <1>2, MulNat
<1>5. a = p + x /\ p >= 0 /\ p + s <= c
  BY <1>2, <1>3 DEF FromNode
<1> HIDE DEF c, p
<1>6. a \in 0..(c - 1) /\ a % c = a
  BY <1>4, <1>5
<1> QED
  BY <1>1, <1>6 DEF c, OnRing

\* A multiple of 4 * s, shared by s nodes.
LEMMA FourDivides ==
  ASSUME NEW s \in Nat \ {0}, NEW l \in Nat \ {0}, l % (4 * s) = 0
  PROVE  /\ l \div s \in Nat \ {0} /\ (l \div s) % 4 = 0 /\ l = s * (l \div s)
         /\ l % 4 = 0
<1> DEFINE c == 4 * s
           k == l \div c
           n == l \div s
<1>1. c \in Nat \ {0}
  OBVIOUS
<1>2. k \in Nat /\ l = c * k
  <2> HIDE DEF c
  <2>1. l % c = 0
    BY DEF c
  <2> QED
    BY <1>1, <2>1
<1> HIDE DEF k, n
<1>3. l = s * (4 * k) + 0 /\ l = 4 * (s * k) + 0
  BY <1>2 DEF c
<1>4. n = 4 * k
  <2> DEFINE p == 4 * k
  <2>1. p \in Int /\ l = s * p + 0
    BY <1>2, <1>3
  <2> HIDE DEF p
  <2>2. l \div s = p
    BY <2>1, DivMod
  <2> QED
    BY <2>2 DEF p, n
<1>5. l % 4 = 0
  <2> DEFINE p == s * k
  <2>1. p \in Int /\ l = 4 * p
    BY <1>2, <1>3
  <2> HIDE DEF p
  <2> QED
    BY <2>1
<1>6. n # 0
  BY <1>3, <1>4, <1>2
<1>7. n % 4 = 0 /\ n \in Nat /\ l = s * n
  BY <1>2, <1>3, <1>4
<1> QED
  BY <1>5, <1>6, <1>7 DEF n

\* Every node has the same part of the lattice, a multiple of four wide.
LEMMA Sizes ==
  ASSUME job \in Jobs, NEW i \in Dir
  PROVE  /\ NodeSites(i) \in Nat \ {0} /\ NodeSites(i) % 4 = 0
         /\ job.sizeN[i] \in Nat \ {0} /\ L[i] = job.sizeN[i] * NodeSites(i)
         /\ L[i] \in Nat \ {0} /\ L[i] % 4 = 0
<1> DEFINE s == job.sizeN[i]  l == L[i]
<1>1. s \in Nat \ {0} /\ l \in Nat \ {0} /\ l % (4 * s) = 0
  BY HeatBathAssumption
<1>2. NodeSites(i) = l \div s
  BY DEF NodeSites
<1> HIDE DEF s, l
<1>3. /\ l \div s \in Nat \ {0} /\ (l \div s) % 4 = 0 /\ l = s * (l \div s)
      /\ l % 4 = 0
  BY <1>1, FourDivides
<1> QED
  BY <1>1, <1>2, <1>3 DEF s, l

\* Global and Owner in one direction.
LEMMA Coordinates ==
  ASSUME job \in Jobs, NEW n \in Node, NEW x \in Int \X Int, NEW i \in Dir,
         NEW s, s = NodeSites(i), NEW g, g = Global(n, x)[i]
  PROVE  /\ g \in 0..(L[i] - 1)
         /\ g \div s \in 0..(job.sizeN[i] - 1)
         /\ g % s = x[i] % s
         /\ g = (g \div s) * s + (x[i] % s)
         /\ g = (n[i] * s + x[i]) % L[i]
         /\ x[i] \in 0..(s - 1) => g = n[i] * s + x[i] /\ g \div s = n[i]
<1> DEFINE N == job.sizeN[i]  m == n[i]  a == m * s + x[i]
<1>1. /\ s \in Nat \ {0} /\ N \in Nat \ {0} /\ L[i] = N * s
  BY Sizes
<1>2. m \in 0..(N - 1) /\ x[i] \in Int
  BY DEF Node, Dir
<1>3. g = a % L[i]
  BY DEF Global
<1>4. a \in Int
  BY <1>1, <1>2
<1>5. /\ g \in 0..(N * s - 1) /\ g \div s \in 0..(N - 1)
      /\ g % s = a % s /\ g = (g \div s) * s + (a % s)
  <2> HIDE DEF a, N
  <2>1. OnRing(N, s, a, g)
    BY <1>1, <1>3 DEF OnRing
  <2>2. s \in Nat \ {0} /\ N \in Nat \ {0}
    BY <1>1
  <2> QED
    BY <1>4, <2>1, <2>2, RingSite
<1>6. a % s = x[i] % s
  <2> DEFINE y == x[i]
             q == y \div s
             r == y % s
  <2>1. q \in Int /\ r \in 0..(s - 1) /\ y = s * q + r
    <3>1. y \in Int /\ s \in Nat \ {0}
      BY <1>1, <1>2
    <3> HIDE DEF y
    <3>2. q \in Int /\ r \in 0..(s - 1) /\ FromNode(s, q, r, y)
      BY <3>1, DivRem
    <3> HIDE DEF q, r
    <3>3. q * s = s * q
      BY <3>1, <3>2
    <3> QED
      BY <3>2, <3>3 DEF FromNode
  <2> HIDE DEF q, r
  <2>2. a = s * (m + q) + r
    <3>1. m \in Int /\ s \in Int
      BY <1>1, <1>2
    <3>2. s * (m + q) = m * s + s * q
      BY <2>1, <3>1
    <3> QED
      BY <1>2, <2>1, <3>1, <3>2
  <2>3. a % s = r
    <3> DEFINE p == m + q
    <3>1. p \in Int /\ a = s * p + r
      BY <1>1, <1>2, <2>1, <2>2
    <3> HIDE DEF p, a
    <3> QED
      BY <1>1, <1>4, <2>1, <3>1, DivMod
  <2> QED
    BY <2>3 DEF r
<1>7. ASSUME x[i] \in 0..(s - 1)
      PROVE  g = a /\ g \div s = m
  <2> DEFINE y == x[i]
  <2> HIDE DEF N, m, y
  <2>1. y \in 0..(s - 1) /\ FromNode(s, m, y, a)
    BY <1>7 DEF y, FromNode
  <2> HIDE DEF a
  <2>2. OnRing(N, s, a, a) /\ a \div s = m
    <3>1. s \in Nat \ {0} /\ N \in Nat \ {0} /\ m \in 0..(N - 1)
      BY <1>1, <1>2
    <3> QED
      BY <1>4, <2>1, <3>1, RingNode
  <2>3. a = a % (N * s)
    BY <2>2 DEF OnRing
  <2> QED
    BY <1>1, <1>3, <2>2, <2>3
<1> QED
  <2> HIDE DEF N
  <2>1. /\ g \in 0..(L[i] - 1) /\ g \div s \in 0..(N - 1)
        /\ g % s = x[i] % s /\ g = (g \div s) * s + (x[i] % s)
    BY <1>1, <1>5, <1>6
  <2> QED
    BY <1>3, <1>7, <2>1 DEF N

\* Where the sites of a node lie on the lattice, and whose they are.
LEMMA GlobalSite ==
  ASSUME job \in Jobs, NEW n \in Node, NEW x \in Int \X Int
  PROVE  Global(n, x) \in Site /\ Owner(n, x) \in Node
<1>1. \A i \in Dir : /\ Global(n, x)[i] \in 0..(L[i] - 1)
                     /\ Owner(n, x)[i] \in 0..(job.sizeN[i] - 1)
  <2>1. ASSUME NEW i \in Dir
        PROVE  /\ Global(n, x)[i] \in 0..(L[i] - 1)
               /\ Owner(n, x)[i] \in 0..(job.sizeN[i] - 1)
    <3>1. Owner(n, x)[i] = Global(n, x)[i] \div NodeSites(i)
      BY DEF Owner
    <3> QED
      BY <3>1, Coordinates
  <2> QED
    BY <2>1
<1>2. Global(n, x) = [i \in Dir |-> Global(n, x)[i]]
  BY DEF Global
<1>3. Owner(n, x) = [i \in Dir |-> Owner(n, x)[i]]
  BY DEF Owner
<1> QED
  BY <1>1, <1>2, <1>3 DEF Site, Node, Dir

\* The sites of a node.
LEMMA LocalPair ==
  ASSUME job \in Jobs
  PROVE  \A x \in LocalSite :
           x \in Int \X Int /\ OnNode(x) /\ \A i \in Dir : x[i] \in 0..(NodeSites(i) - 1)
BY Sizes DEF LocalSite, OnNode, Dir

\* A node owns its sites.
LEMMA OwnSite ==
  ASSUME job \in Jobs, NEW n \in Node, NEW x \in LocalSite
  PROVE  /\ Owner(n, x) = n
         /\ \A i \in Dir : Global(n, x)[i] = n[i] * NodeSites(i) + x[i]
<1>1. x \in Int \X Int /\ \A i \in Dir : x[i] \in 0..(NodeSites(i) - 1)
  BY LocalPair
<1>2. \A i \in Dir : /\ Global(n, x)[i] = n[i] * NodeSites(i) + x[i]
                     /\ Global(n, x)[i] \div NodeSites(i) = n[i]
  BY <1>1, Coordinates
<1>3. \A i \in Dir : Owner(n, x)[i] = n[i]
  BY <1>2 DEF Owner
<1>4. Owner(n, x) = [i \in Dir |-> Owner(n, x)[i]] /\ n = [i \in Dir |-> n[i]]
  BY DEF Owner, Node, Dir
<1> QED
  BY <1>2, <1>3, <1>4

\* A site of the lattice is one site of one node.
LEMMA SameSite ==
  ASSUME job \in Jobs, NEW n \in Node, NEW x \in Int \X Int,
         NEW m \in Node, NEW w \in LocalSite, Global(m, w) = Global(n, x)
  PROVE  /\ m = Owner(n, x)
         /\ x \in LocalSite => m = n /\ w = x
<1>1. Owner(m, w) = Owner(n, x)
  BY DEF Owner
<1>2. Owner(m, w) = m
  BY OwnSite
<1>3. ASSUME x \in LocalSite
      PROVE  m = n /\ w = x
  <2>1. m = n
    BY <1>1, <1>2, <1>3, OwnSite
  <2>2. \A i \in Dir : w[i] = x[i]
    <3>1. ASSUME NEW i \in Dir
          PROVE  w[i] = x[i]
      <4> DEFINE p == n[i] * NodeSites(i)  a == w[i]  b == x[i]
      <4>1. p + a = p + b
        BY <1>3, <2>1, OwnSite
      <4>2. p \in Int /\ a \in Int /\ b \in Int
        <5>1. n[i] \in Int /\ NodeSites(i) \in Int
          BY Sizes DEF Node, Dir
        <5>2. a \in Int /\ b \in Int
          BY <1>3, LocalPair DEF Dir
        <5> QED
          BY <5>1, <5>2
      <4> HIDE DEF p, a, b
      <4>3. a = b
        BY <4>1, <4>2
      <4> QED
        BY <4>3 DEF a, b
    <3> QED
      BY <3>1
  <2>3. x \in Int \X Int /\ w \in Int \X Int
    BY LocalPair
  <2> QED
    BY <2>1, <2>2, <2>3 DEF Dir
<1> QED
  BY <1>1, <1>2, <1>3

Offset == (Int \X Int) \X Dir

\* The links outside a node that a staple reads, counted from its own sites.
OffNode(x, mu) == {o \in StapleReads(job.ga, x, mu) : ~OnNode(o[1])}

\* A link, from where node n sees it.
Seen(n, o)  == <<Global(n, o[1]), o[2]>>
HomeSite(y) == [i \in Dir |-> y[i] % NodeSites(i)]
Home(o)     == <<HomeSite(o[1]), o[2]>>

\* Refreshes a node has entered.
Entered(n) == Round(n) + (IF pc[n] = "refresh" THEN 0 ELSE 1)

\* A node still has to write what is fetched in refresh r to its halo.
Awaits(n, r) == Round(n) < r \/ (Round(n) = r /\ pc[n] \in {"refresh", "fetch"})

LoopType == [run : Nat, i : Nat, colour : 0..(NColour - 1)]

TypeInv ==
  /\ job \in Jobs
  /\ link = [l \in Link |-> link[l]]
  /\ ugran_4d = [q \in Cube |-> ugran_4d[q]]
  /\ halo = [n \in Node |-> halo[n]]
  /\ swept \in [Link -> Nat]
  /\ pc \in [Node -> {"refresh", "fetch", "sweep", "ran"}]
  /\ loop \in [Node -> LoopType]
  /\ recorded_offsets \in [Node -> SUBSET Offset]
  /\ record_offset \in [Node -> BOOLEAN]
  /\ offsets_list \in [Node -> [0..(NColour - 1) -> SUBSET Offset]]
  /\ offsets_list_initialized \in [Node -> BOOLEAN]
  /\ sent = [n \in Node |-> [k \in 0..1 |-> sent[n][k]]]
  /\ \A n \in Node, k \in 0..1 : sent[n][k].round \in Int
  /\ \A u \in updating : u.node \in Node /\ u.x \in LocalSite /\ u.mu \in Dir

\* The loops count the updates of every link.
LoopInv == \A n \in Node :
  /\ loop[n].i < job.num_iter
  /\ pc[n] = "ran" => /\ loop[n].i = job.num_iter - 1
                      /\ loop[n].colour = NColour - 1
                      /\ offsets_list_initialized[n]

SweptInv == \A n \in Node, x \in LocalSite, mu \in Dir :
  LET s == swept[<<Global(n, x), mu>>]
      colour == loop[n].colour
  IN  /\ s = Iteration(n) \/ s = Iteration(n) + 1
      /\ pc[n] = "ran" \/ Colour(x) < colour => s = Iteration(n) + 1
      /\ pc[n] # "ran" /\ Colour(x) > colour => s = Iteration(n)
      /\ pc[n] \in {"refresh", "fetch"} /\ Colour(x) = colour => s = Iteration(n)

SentInv == \A n \in Node, k \in 0..1 : sent[n][k].round < Entered(n)

\* What a node put on the wires is still what its links are, where a
\* neighbour has yet to fetch it and will read it.
WireInv == \A m \in Node, k \in 0..1, n \in Node, x \in LocalSite, mu \in Dir :
  LET r == sent[m][k].round IN
  r >= 0 /\ Awaits(n, r) /\ Colour(x) = r % NColour =>
    \A o \in OffNode(x, mu) :
      Owner(n, o[1]) = m /\ o \in sent[m][k].offsets =>
        sent[m][k].links[Home(o)] = link[Seen(n, o)]

\* A node sweeps a colour after the nodes it reads from entered the refresh
\* before it.
ReadyInv == \A n \in Node, x \in LocalSite, mu \in Dir :
  pc[n] = "sweep" /\ x \in Active(n) =>
    \A r \in Reads[job.ga][mu] : Entered(Owner(n, Plus(x, r[1]))) > Round(n)

\* The halo is current where the staples of the colour read it.
HaloInv == \A n \in Node, x \in LocalSite, mu \in Dir :
  pc[n] = "sweep" /\ x \in Active(n) =>
    \A o \in OffNode(x, mu) : halo[n][o] = link[Seen(n, o)]

\* The lists hold every link the staples read; while they are recorded, those
\* the threads have read.
ListInv == \A n \in Node :
  /\ \A x \in LocalSite, mu \in Dir :
       offsets_list_initialized[n] \/ Colour(x) < loop[n].colour =>
         OffNode(x, mu) \subseteq offsets_list[n][Colour(x)]
  /\ pc[n] = "sweep" /\ ~offsets_list_initialized[n] =>
       /\ record_offset[n]
       /\ \A x \in Active(n), mu \in Dir :
            \/ mu \notin ToDo(n, x)
            \/ \E u \in updating : u.node = n /\ u.x = x /\ u.mu = mu
            => OffNode(x, mu) \subseteq recorded_offsets[n]

\* What a thread computed is still what it would compute now.
ThreadInv == \A u \in updating :
  /\ pc[u.node] = "sweep" /\ u.x \in Active(u.node) /\ u.mu \in ToDo(u.node, u.x)
  /\ u.staple = GlobalStaple(job.ga, link, Global(u.node, u.x), u.mu)
  /\ u.seed = ugran_4d[GeneratorPos(Global(u.node, u.x))]
  /\ \A v \in updating : v.node = u.node /\ v.x = u.x => v = u

IInv == /\ TypeInv /\ LoopInv /\ SweptInv /\ SentInv /\ WireInv /\ ReadyInv
        /\ HaloInv /\ ListInv /\ ThreadInv

\* The site of the node that owns y, counted from its own corner.
LEMMA HomeOf ==
  ASSUME job \in Jobs, NEW n \in Node, NEW y \in Int \X Int
  PROVE  /\ HomeSite(y) \in LocalSite
         /\ Global(Owner(n, y), HomeSite(y)) = Global(n, y)
<1> DEFINE m == Owner(n, y)  h == HomeSite(y)
<1>1. \A i \in Dir : h[i] \in 0..(NodeSites(i) - 1)
  <2>1. ASSUME NEW i \in Dir
        PROVE  h[i] \in 0..(NodeSites(i) - 1)
    <3>1. h[i] = y[i] % NodeSites(i) /\ y[i] \in Int
      BY DEF HomeSite, Dir
    <3> QED
      BY <2>1, <3>1, Sizes
  <2> QED
    BY <2>1
<1>2. h \in LocalSite
  BY <1>1 DEF HomeSite, LocalSite, Dir
<1>3. m \in Node
  BY GlobalSite
<1> HIDE DEF m
<1>4. \A i \in Dir : Global(m, h)[i] = m[i] * NodeSites(i) + h[i]
  BY <1>2, <1>3, OwnSite
<1>5. \A i \in Dir :
        Global(n, y)[i] = (Global(n, y)[i] \div NodeSites(i)) * NodeSites(i)
                            + (y[i] % NodeSites(i))
  BY Coordinates
<1>6. \A i \in Dir : m[i] = Global(n, y)[i] \div NodeSites(i)
  BY DEF m, Owner
<1>7. \A i \in Dir : h[i] = y[i] % NodeSites(i)
  BY DEF HomeSite
<1>8. \A i \in Dir : Global(m, h)[i] = Global(n, y)[i]
  BY <1>4, <1>5, <1>6, <1>7
<1>9. /\ Global(m, h) = [i \in Dir |-> Global(m, h)[i]]
      /\ Global(n, y) = [i \in Dir |-> Global(n, y)[i]]
  BY DEF Global
<1>10. Global(m, h) = Global(n, y)
  BY <1>8, <1>9
<1> QED
  BY <1>2, <1>10 DEF m

\* Going around before or after a step.
LEMMA ModPlus ==
  ASSUME NEW c \in Nat \ {0}, NEW a \in Int, NEW d \in Int
  PROVE  ((a % c) + d) % c = (a + d) % c
<1> DEFINE q == a \div c  r == a % c
           p == (a + d) \div c  t == (a + d) % c
<1>1. q \in Int /\ r \in 0..(c - 1) /\ a = c * q + r
  BY SMTT(30)
<1>2. p \in Int /\ t \in 0..(c - 1) /\ a + d = c * p + t
  <2> DEFINE b == a + d
  <2>1. b \in Int
    OBVIOUS
  <2> HIDE DEF b
  <2>2. (b \div c) \in Int /\ (b % c) \in 0..(c - 1) /\ b = c * (b \div c) + (b % c)
    BY <2>1, SMTT(30)
  <2> QED
    BY <2>2 DEF b
<1> HIDE DEF q, r, p, t
<1>3. r + d = c * (p - q) + t
  <2>1. c * (p - q) = c * p - c * q
    BY <1>1, <1>2
  <2> QED
    BY <1>1, <1>2, <2>1
<1>4. (r + d) % c = t
  <2> DEFINE z == r + d  k == p - q
  <2>1. z \in Int /\ k \in Int /\ z = c * k + t
    BY <1>1, <1>2, <1>3
  <2> HIDE DEF z, k
  <2>2. z % c = t
    BY <1>2, <2>1, DivMod
  <2> QED
    BY <2>2 DEF z
<1> QED
  BY <1>4 DEF r, t

\* A displacement on the node is one on the lattice.
LEMMA GlobalPlus ==
  ASSUME job \in Jobs, NEW n \in Node, NEW x \in Int \X Int, NEW d \in Int \X Int
  PROVE  /\ Plus(x, d) \in Int \X Int
         /\ Around(Global(n, x), d) = Global(n, Plus(x, d))
<1>1. Plus(x, d) \in Int \X Int
  BY DEF Plus, Dir
<1>2. \A i \in Dir : Around(Global(n, x), d)[i] = Global(n, Plus(x, d))[i]
  <2>1. ASSUME NEW i \in Dir
        PROVE  Around(Global(n, x), d)[i] = Global(n, Plus(x, d))[i]
    <3> DEFINE a == n[i] * NodeSites(i) + x[i]  c == L[i]  e == d[i]
    <3>1. Global(n, x)[i] = a % c
      BY Coordinates
    <3>2. Global(n, Plus(x, d))[i] = (n[i] * NodeSites(i) + Plus(x, d)[i]) % c
      BY <1>1, Coordinates
    <3>3. /\ NodeSites(i) \in Int /\ c \in Nat \ {0}
          /\ n[i] \in Int /\ x[i] \in Int /\ e \in Int
      BY Sizes DEF Node, Dir
    <3>4. a \in Int
      BY <3>3
    <3>5. n[i] * NodeSites(i) + Plus(x, d)[i] = a + e
      <4>1. Plus(x, d)[i] = x[i] + e
        BY DEF Plus
      <4> DEFINE p == n[i] * NodeSites(i)
      <4>2. p \in Int
        BY <3>3
      <4> HIDE DEF p
      <4>3. p + (x[i] + e) = (p + x[i]) + e
        BY <3>3, <4>2
      <4> QED
        BY <4>1, <4>3 DEF p
    <3>6. Around(Global(n, x), d)[i] = ((a % c) + e) % c
      BY <3>1 DEF Around
    <3> HIDE DEF a, c, e
    <3>7. ((a % c) + e) % c = (a + e) % c
      BY <3>3, <3>4, ModPlus
    <3> QED
      BY <3>2, <3>5, <3>6, <3>7
  <2> QED
    BY <2>1
<1>3. /\ Around(Global(n, x), d) = [i \in Dir |-> Around(Global(n, x), d)[i]]
      /\ Global(n, Plus(x, d)) = [i \in Dir |-> Global(n, Plus(x, d))[i]]
  BY DEF Around, Global
<1> QED
  BY <1>1, <1>2, <1>3

\* Two nodes see a displacement from its two ends.
LEMMA GlobalBack ==
  ASSUME job \in Jobs, NEW n \in Node, NEW x \in Int \X Int, NEW d \in Int \X Int,
         NEW m \in Node, NEW w \in Int \X Int, Global(m, w) = Global(n, Plus(x, d))
  PROVE  Global(m, Plus(w, Minus(d))) = Global(n, x)
<1> DEFINE e == Minus(d)  y == Plus(x, d)
<1>1. e \in Int \X Int /\ y \in Int \X Int
  BY DEF Minus, Plus, Dir
<1>2. Plus(y, e) = x
  BY DEF Minus, Plus, Dir
<1> HIDE DEF e
<1>3. Global(m, Plus(w, e)) = Around(Global(n, y), e)
  BY <1>1, GlobalPlus
<1> HIDE DEF y
<1>4. Around(Global(n, y), e) = Global(n, Plus(y, e))
  BY <1>1, GlobalPlus
<1> QED
  BY <1>2, <1>3, <1>4 DEF e

\* A node's corner is that of a hypercube, and an even number of hypercubes
\* away from the lattice's.
LEMMA RingColour ==
  ASSUME NEW s \in Nat \ {0}, s % 4 = 0, NEW n \in Nat, NEW x \in 0..(s - 1),
         NEW g, FromNode(s, n, x, g)
  PROVE  /\ g \in Nat /\ g % 2 = x % 2 /\ g \div 2 \in Nat /\ x \div 2 \in Nat
         /\ (g \div 2) % 2 = (x \div 2) % 2
<1> DEFINE k == s \div 4  p == n * k
<1>1. k \in Nat /\ s = 4 * k
  OBVIOUS
<1>2. p \in Nat
  <2> HIDE DEF k
  <2> QED
    BY <1>1, MulNat
<1>3. g = 4 * p + x
  <2> HIDE DEF k
  <2>1. n * s = 4 * (n * k)
    BY <1>1
  <2> QED
    BY <2>1 DEF FromNode
<1> HIDE DEF k, p
<1> QED
  BY <1>2, <1>3

\* A site has the colour it has on the lattice.
LEMMA ColourLocal ==
  ASSUME job \in Jobs, NEW n \in Node, NEW x \in LocalSite
  PROVE  Colour(Global(n, x)) = Colour(x)
<1> DEFINE g == Global(n, x)
<1>1. \A i \in Dir : /\ g[i] \in Nat /\ g[i] % 2 = x[i] % 2
                     /\ g[i] \div 2 \in Nat /\ x[i] \div 2 \in Nat
                     /\ (g[i] \div 2) % 2 = (x[i] \div 2) % 2
  <2>1. ASSUME NEW i \in Dir
        PROVE  /\ g[i] \in Nat /\ g[i] % 2 = x[i] % 2
               /\ g[i] \div 2 \in Nat /\ x[i] \div 2 \in Nat
               /\ (g[i] \div 2) % 2 = (x[i] \div 2) % 2
    <3> DEFINE s == NodeSites(i)  m == n[i]  y == x[i]  b == g[i]
    <3>1. s \in Nat \ {0} /\ s % 4 = 0 /\ m \in Nat /\ y \in 0..(s - 1)
      BY Sizes, LocalPair DEF Node, Dir
    <3>2. FromNode(s, m, y, b)
      BY OwnSite DEF FromNode
    <3> HIDE DEF s, m, y, b
    <3>3. /\ b \in Nat /\ b % 2 = y % 2 /\ b \div 2 \in Nat /\ y \div 2 \in Nat
          /\ (b \div 2) % 2 = (y \div 2) % 2
      BY <3>1, <3>2, RingColour
    <3> QED
      BY <3>3 DEF b, y
  <2> QED
    BY <2>1
<1> HIDE DEF g
<1>2. \A p, q, r, t \in Nat :
        p % 2 = r % 2 /\ q % 2 = t % 2 => (p + q) % 2 = (r + t) % 2
  OBVIOUS
<1>3. (g[1] \div 2 + g[2] \div 2) % 2 = (x[1] \div 2 + x[2] \div 2) % 2
  <2> DEFINE p == g[1] \div 2  q == g[2] \div 2
             r == x[1] \div 2  t == x[2] \div 2
  <2>1. /\ p \in Nat /\ q \in Nat /\ r \in Nat /\ t \in Nat
        /\ p % 2 = r % 2 /\ q % 2 = t % 2
    BY <1>1 DEF Dir
  <2> HIDE DEF p, q, r, t
  <2>2. (p + q) % 2 = (r + t) % 2
    BY <1>2, <2>1
  <2> QED
    BY <2>2 DEF p, q, r, t
<1>4. Colour(g) = Colour(x)
  BY <1>1, <1>3 DEF Colour, Dir
<1> QED
  BY <1>4 DEF g

\* Eight colours.
LEMMA ColourRange ==
  ASSUME job \in Jobs, NEW x \in LocalSite
  PROVE  Colour(x) \in 0..(NColour - 1)
<1> DEFINE a == x[1]  b == x[2]
<1>1. a \in Nat /\ b \in Nat
  BY LocalPair, Sizes DEF Dir
<1> HIDE DEF a, b
<1>2. 4 * ((a \div 2 + b \div 2) % 2) + (a % 2) + 2 * (b % 2) \in 0..7
  BY <1>1
<1> QED
  BY <1>2 DEF a, b, Colour, NColour

\* A node's generators are its own, and it draws from one of them for one
\* site of a colour only.
LEMMA RingCube ==
  ASSUME NEW s \in Nat \ {0}, s % 4 = 0, NEW n \in Nat, NEW m \in Nat,
         NEW x \in 0..(s - 1), NEW w \in 0..(s - 1), NEW g \in Int, NEW h \in Int,
         FromNode(s, n, x, g), FromNode(s, m, w, h), g \div 2 = h \div 2
  PROVE  n = m
<1> DEFINE k == s \div 2
<1>1. k \in Nat \ {0} /\ s = 2 * k
  OBVIOUS
<1> HIDE DEF k
<1>2. \A p \in Nat, y \in 0..(s - 1), a \in Int :
        FromNode(s, p, y, a) => (a \div 2) \div k = p
  <2>1. ASSUME NEW p \in Nat, NEW y \in 0..(s - 1), NEW a \in Int, FromNode(s, p, y, a)
        PROVE  (a \div 2) \div k = p
    <3> DEFINE q == k * p  t == y \div 2  b == a \div 2
    <3>1. q \in Int /\ t \in 0..(k - 1)
      BY <1>1
    <3>2. a = 2 * q + y
      <4>1. p * s = 2 * (k * p)
        BY <1>1
      <4> QED
        BY <2>1, <4>1 DEF FromNode
    <3>3. b = q + t /\ b \in Int
      <4> HIDE DEF q
      <4> QED
        BY <3>1, <3>2
    <3>4. FromNode(k, p, t, b)
      BY <1>1, <3>3 DEF FromNode
    <3> HIDE DEF q, t, b
    <3>6. k \in Nat \ {0} /\ p \in Int /\ b \in Int /\ t \in 0..(k - 1)
      BY <1>1, <3>1, <3>3
    <3>5. b \div k = p
      BY <3>4, <3>6, DivFrom
    <3> QED
      BY <3>5 DEF b
  <2> QED
    BY <2>1
<1>3. (g \div 2) \div k = n /\ (h \div 2) \div k = m
  BY <1>2
<1> QED
  BY <1>3

\* The sites of a hypercube are on one node.
LEMMA SameCubeNode ==
  ASSUME job \in Jobs, NEW n \in Node, NEW x \in LocalSite,
         NEW m \in Node, NEW w \in LocalSite,
         GeneratorPos(Global(n, x)) = GeneratorPos(Global(m, w))
  PROVE  n = m
<1> DEFINE g == Global(n, x)  h == Global(m, w)
<1>1. \A i \in Dir : g[i] \div 2 = h[i] \div 2
  BY DEF GeneratorPos, Dir
<1>2. g \in Site /\ h \in Site
  BY LocalPair, GlobalSite
<1>3. \A i \in Dir : g[i] \in Int /\ h[i] \in Int
  BY <1>2, HeatBathAssumption DEF Site, Dir
<1>4. \A i \in Dir : n[i] = m[i]
  <2>1. ASSUME NEW i \in Dir
        PROVE  n[i] = m[i]
    <3> DEFINE s == NodeSites(i)  p == n[i]  q == m[i]  y == x[i]  z == w[i]
               a == g[i]  b == h[i]
    <3>1. /\ s \in Nat \ {0} /\ s % 4 = 0 /\ p \in Nat /\ q \in Nat
          /\ y \in 0..(s - 1) /\ z \in 0..(s - 1)
      BY Sizes, LocalPair DEF Node, Dir
    <3>2. FromNode(s, p, y, a) /\ FromNode(s, q, z, b)
      BY OwnSite DEF FromNode
    <3>3. a \in Int /\ b \in Int /\ a \div 2 = b \div 2
      BY <1>1, <1>3
    <3> HIDE DEF s, p, q, y, z, a, b
    <3>4. p = q
      BY <3>1, <3>2, <3>3, RingCube
    <3> QED
      BY <3>4 DEF p, q
  <2> QED
    BY <2>1
<1> QED
  BY <1>4 DEF Node, Dir

\* No two sites of a colour are in one hypercube.
LEMMA SameCube ==
  ASSUME job \in Jobs, NEW n \in Node, NEW x \in LocalSite,
         NEW m \in Node, NEW w \in LocalSite,
         GeneratorPos(Global(n, x)) = GeneratorPos(Global(m, w)),
         Colour(x) = Colour(w)
  PROVE  n = m /\ x = w
<1> DEFINE g == Global(n, x)  h == Global(m, w)
<1>1. g \in Site /\ h \in Site
  BY LocalPair, GlobalSite
<1>2. \A i \in Dir : g[i] \in Nat /\ h[i] \in Nat
  BY <1>1, HeatBathAssumption DEF Site, Dir
<1>3. \A i \in Dir : g[i] \div 2 = h[i] \div 2
  BY DEF GeneratorPos, Dir
<1>4. Colour(g) = Colour(h)
  BY ColourLocal
<1>5. g = h
  <2> HIDE DEF g, h
  <2>1. g[1] % 2 = h[1] % 2 /\ g[2] % 2 = h[2] % 2
    <3> DEFINE a == g[1]  b == g[2]  e == h[1]  f == h[2]
    <3>1. /\ a \in Nat /\ b \in Nat /\ e \in Nat /\ f \in Nat
          /\ 4 * ((a \div 2 + b \div 2) % 2) + (a % 2) + 2 * (b % 2)
               = 4 * ((e \div 2 + f \div 2) % 2) + (e % 2) + 2 * (f % 2)
      BY <1>2, <1>4 DEF Colour, Dir
    <3> HIDE DEF a, b, e, f
    <3>2. a % 2 = e % 2 /\ b % 2 = f % 2
      BY <3>1
    <3> QED
      BY <3>2 DEF a, b, e, f
  <2>2. \A p, q \in Nat : p \div 2 = q \div 2 /\ p % 2 = q % 2 => p = q
    OBVIOUS
  <2>3. g[1] = h[1] /\ g[2] = h[2]
    BY <1>2, <1>3, <2>1, <2>2 DEF Dir
  <2> QED
    BY <1>1, <2>3 DEF Site
<1>6. x \in Int \X Int
  BY LocalPair
<1>7. Global(m, w) = Global(n, x)
  BY <1>5
<1> QED
  BY <1>6, <1>7, SameSite

\* Where the staples of a node's sites look.
LEMMA ReadsOf ==
  ASSUME job \in Jobs, NEW mu \in Dir, NEW x \in LocalSite
  PROVE  \A r \in Reads[job.ga][mu] :
           /\ r[1] \in Int \X Int /\ r[2] \in Dir /\ InReach(r[1])
           /\ <<Minus(r[1]), mu>> \in Reads[job.ga][r[2]]
           /\ Plus(x, r[1]) \in Int \X Int
           /\ <<Plus(x, r[1]), r[2]>> \in Offset
           /\ ~OnNode(Plus(x, r[1])) => <<Plus(x, r[1]), r[2]>> \in HaloLink
<1>1. job.ga \in GaugeAction
  BY HeatBathAssumption
<1>2. ASSUME NEW r \in Reads[job.ga][mu]
      PROVE  /\ r[1] \in Int \X Int /\ r[2] \in Dir /\ InReach(r[1])
             /\ <<Minus(r[1]), mu>> \in Reads[job.ga][r[2]]
             /\ Plus(x, r[1]) \in Int \X Int
             /\ <<Plus(x, r[1]), r[2]>> \in Offset
             /\ ~OnNode(Plus(x, r[1])) => <<Plus(x, r[1]), r[2]>> \in HaloLink
  <2> DEFINE d == r[1]  y == Plus(x, d)  t == Thick[job.ga]
  <2>1. /\ r \in (Int \X Int) \X Dir /\ InReach(d)
        /\ \A i \in Dir : d[i] \in (-t)..t
        /\ <<Minus(d), mu>> \in Reads[job.ga][r[2]]
    BY <1>1, <1>2, StaplesInReach
  <2>2. d \in Int \X Int /\ r[2] \in Dir
    BY <2>1
  <2>3. x \in Int \X Int /\ \A i \in Dir : x[i] \in 0..(NodeSites(i) - 1)
    BY LocalPair
  <2>4. t \in Nat
    BY <1>1 DEF Thick, GaugeAction
  <2>5. y \in Int \X Int /\ \A i \in Dir : y[i] = x[i] + d[i]
    BY <2>2, <2>3 DEF Plus, Dir
  <2> HIDE DEF y, t, d
  <2>6. \A i \in Dir : y[i] \in (-t)..(NodeSites(i) + t - 1)
    <3>1. ASSUME NEW i \in Dir
          PROVE  y[i] \in (-t)..(NodeSites(i) + t - 1)
      <4> DEFINE s == NodeSites(i)  a == x[i]  e == d[i]
      <4>1. s \in Nat /\ a \in 0..(s - 1) /\ e \in (-t)..t /\ y[i] = a + e
        BY <2>1, <2>3, <2>5, Sizes
      <4> HIDE DEF s, a, e
      <4>2. y[i] \in (-t)..(s + t - 1)
        BY <2>4, <4>1
      <4> QED
        BY <4>2 DEF s
    <3> QED
      BY <3>1
  <2>7. ~OnNode(y) => y \notin LocalSite
    BY LocalPair
  <2>8. ~OnNode(y) => <<y, r[2]>> \in HaloLink
    BY <2>2, <2>5, <2>6, <2>7 DEF HaloLink, t, Dir
  <2>9. <<y, r[2]>> \in Offset
    BY <2>2, <2>5 DEF Offset
  <2> QED
    BY <2>1, <2>2, <2>5, <2>8, <2>9 DEF d, y
<1> QED
  BY <1>2

\* A halo link a staple reads.
LEMMA OffNodeOf ==
  ASSUME job \in Jobs, NEW mu \in Dir, NEW x \in LocalSite, NEW o \in OffNode(x, mu)
  PROVE  /\ o[1] \in Int \X Int /\ ~OnNode(o[1]) /\ o \in Offset /\ o \in HaloLink
         /\ \E r \in Reads[job.ga][mu] : o = <<Plus(x, r[1]), r[2]>>
<1>1. PICK r \in Reads[job.ga][mu] : o = <<Plus(x, r[1]), r[2]>>
  BY DEF OffNode, StapleReads
<1>2. ~OnNode(o[1])
  BY DEF OffNode
<1> QED
  BY <1>1, <1>2, ReadsOf

\* The job never changes, and with it where everything lies.
LEMMA SameJob ==
  ASSUME job' = job
  PROVE  /\ Node' = Node /\ LocalSite' = LocalSite /\ HaloLink' = HaloLink
         /\ \A i \in Dir : NodeSites(i)' = NodeSites(i)
         /\ \A n, x : Global(n, x)' = Global(n, x) /\ Owner(n, x)' = Owner(n, x)
         /\ \A x : OnNode(x)' <=> OnNode(x)
         /\ \A x, mu : OffNode(x, mu)' = OffNode(x, mu)
         /\ \A n, o : Seen(n, o)' = Seen(n, o)
         /\ \A o : Home(o)' = Home(o)
<1>1. \A i : NodeSites(i)' = NodeSites(i)
  BY DEF NodeSites
<1>2. Node' = Node
  BY DEF Node
<1>3. LocalSite' = LocalSite
  BY <1>1 DEF LocalSite
<1>4. HaloLink' = HaloLink
  BY <1>1, <1>3 DEF HaloLink
<1>5. \A n, x : Global(n, x)' = Global(n, x)
  BY <1>1 DEF Global
<1>6. \A n, x : Owner(n, x)' = Owner(n, x)
  BY <1>1, <1>5 DEF Owner
<1>7. \A x : OnNode(x)' <=> OnNode(x)
  BY <1>1 DEF OnNode
<1>8. \A x, mu : OffNode(x, mu)' = OffNode(x, mu)
  BY <1>7 DEF OffNode, StapleReads
<1>9. \A n, o : Seen(n, o)' = Seen(n, o)
  BY <1>5 DEF Seen
<1>10. \A o : Home(o)' = Home(o)
  BY <1>1 DEF Home, HomeSite
<1> QED
  BY <1>1, <1>2, <1>3, <1>4, <1>5, <1>6, <1>7, <1>8, <1>9, <1>10

\* The counters of a node.
LEMMA Counters ==
  ASSUME TypeInv, NEW n \in Node
  PROVE  /\ Iteration(n) \in Nat /\ Round(n) \in Nat /\ Entered(n) \in Nat
         /\ Round(n) % NColour = loop[n].colour
         /\ loop[n].colour \in 0..(NColour - 1)
         /\ Round(n) = Iteration(n) * NColour + loop[n].colour
<1>1. loop[n] \in LoopType /\ job \in Jobs
  BY DEF TypeInv
<1>2. /\ loop[n].run \in Nat /\ loop[n].i \in Nat
      /\ loop[n].colour \in 0..(NColour - 1) /\ job.num_iter \in Nat
  BY <1>1, HeatBathAssumption DEF LoopType
<1>3. Iteration(n) \in Nat
  BY <1>2, MulNat DEF Iteration
<1>4. Round(n) \in Nat /\ Round(n) % NColour = loop[n].colour
  <2> DEFINE k == Iteration(n)  c == loop[n].colour
  <2>1. k \in Nat /\ c \in 0..7 /\ Round(n) = k * 8 + c
    BY <1>2, <1>3 DEF Round, NColour
  <2> HIDE DEF k, c
  <2>2. k * 8 + c \in Nat /\ (k * 8 + c) % 8 = c
    BY <2>1
  <2> QED
    BY <2>1, <2>2 DEF c, NColour
<1>5. Entered(n) \in Nat
  BY <1>4 DEF Entered
<1> QED
  BY <1>2, <1>3, <1>4, <1>5 DEF Round

\* Two sites of one colour do not read each other's links.
LEMMA Apart ==
  ASSUME TypeInv, NEW n \in Node, NEW m \in Node,
         NEW x \in LocalSite, NEW w \in LocalSite, NEW mu \in Dir,
         NEW r \in Reads[job.ga][mu],
         Global(m, w) = Global(n, Plus(x, r[1])), Colour(x) = Colour(w)
  PROVE  m = n /\ w = x /\ Plus(x, r[1]) = x
<1> DEFINE g == Global(n, x)  d == r[1]
<1>1. job \in Jobs
  BY DEF TypeInv
<1>2. x \in Int \X Int /\ d \in Int \X Int /\ InReach(d)
  BY <1>1, LocalPair, ReadsOf
<1>3. g \in Site
  BY <1>1, <1>2, GlobalSite
<1>4. Around(g, d) = Global(m, w)
  BY <1>1, <1>2, GlobalPlus
<1>5. Colour(Around(g, d)) = Colour(g)
  BY <1>1, <1>4, ColourLocal
<1>6. L[1] \in Nat /\ L[2] \in Nat /\ L[1] % 4 = 0 /\ L[2] % 4 = 0
  BY <1>1, Sizes DEF Dir
<1> HIDE DEF g
<1>7. d = <<0, 0>>
  BY <1>2, <1>3, <1>5, <1>6, ColoursIndependent
<1>8. Plus(x, d) = x
  BY <1>2, <1>7 DEF Plus, Dir
<1> QED
  BY <1>1, <1>2, <1>8, SameSite

\* What a node reads belongs to a node that reads what is its own.
LEMMA ReadsBack ==
  ASSUME TypeInv, ReadyInv, NEW n \in Node, NEW m \in Node,
         NEW x \in LocalSite, NEW w \in LocalSite, NEW mu \in Dir,
         NEW r \in Reads[job.ga][mu], Global(m, w) = Global(n, Plus(x, r[1])),
         pc[m] = "sweep", w \in Active(m)
  PROVE  Entered(n) > Round(m)
<1> DEFINE s == <<Minus(r[1]), mu>>
<1>1. job \in Jobs
  BY DEF TypeInv
<1>2. /\ x \in Int \X Int /\ w \in Int \X Int
      /\ r[1] \in Int \X Int /\ r[2] \in Dir /\ s \in Reads[job.ga][r[2]]
  BY <1>1, LocalPair, ReadsOf
<1>3. Global(m, Plus(w, s[1])) = Global(n, x)
  BY <1>1, <1>2, GlobalBack
<1>4. Owner(m, Plus(w, s[1])) = n
  BY <1>1, <1>3, OwnSite DEF Owner
<1> HIDE DEF s
<1>5. Entered(Owner(m, Plus(w, s[1]))) > Round(m)
  BY <1>2 DEF ReadyInv
<1> QED
  BY <1>4, <1>5

\* No staple reads a link that is being changed, but those of its own site.
LEMMA NonInterference ==
  ASSUME TypeInv, ReadyInv, NEW n \in Node, NEW m \in Node,
         NEW x \in LocalSite, NEW w \in LocalSite, NEW mu \in Dir,
         NEW r \in Reads[job.ga][mu], Global(m, w) = Global(n, Plus(x, r[1])),
         pc[n] = "sweep", x \in Active(n), pc[m] = "sweep", w \in Active(m)
  PROVE  m = n /\ w = x /\ Plus(x, r[1]) = x
<1>1. job \in Jobs
  BY DEF TypeInv
<1>2. x \in Int \X Int /\ Plus(x, r[1]) \in Int \X Int
  BY <1>1, LocalPair, ReadsOf
<1>3. Owner(n, Plus(x, r[1])) = m
  BY <1>1, <1>2, SameSite
<1>4. Entered(m) > Round(n)
  BY <1>3 DEF ReadyInv
<1>5. Entered(n) > Round(m)
  BY ReadsBack
<1>6. Entered(n) = Round(n) + 1 /\ Entered(m) = Round(m) + 1
  BY DEF Entered
<1>7. Round(n) = Round(m)
  BY <1>4, <1>5, <1>6, Counters
<1>8. Colour(x) = Colour(w)
  BY <1>7, Counters DEF Active
<1> QED
  BY <1>8, Apart

\* What a staple reads in a sweep is what the links are now.
LEMMA StapleNow ==
  ASSUME TypeInv, HaloInv, NEW n \in Node, NEW x \in LocalSite, NEW mu \in Dir,
         pc[n] = "sweep", x \in Active(n)
  PROVE  Staple(job.ga, mu, [r \in Reads[job.ga][mu] |->
                               GetLink(n, Plus(x, r[1]), r[2])])
           = GlobalStaple(job.ga, link, Global(n, x), mu)
<1>1. job \in Jobs
  BY DEF TypeInv
<1>2. ASSUME NEW r \in Reads[job.ga][mu]
      PROVE  GetLink(n, Plus(x, r[1]), r[2]) = link[<<Around(Global(n, x), r[1]), r[2]>>]
  <2> DEFINE o == <<Plus(x, r[1]), r[2]>>
  <2>1. Around(Global(n, x), r[1]) = Global(n, o[1])
    BY <1>1, LocalPair, ReadsOf, GlobalPlus
  <2>2. CASE OnNode(o[1])
    BY <2>1, <2>2 DEF GetLink
  <2>3. CASE ~OnNode(o[1])
    <3>1. o \in OffNode(x, mu)
      BY <2>3 DEF OffNode, StapleReads
    <3>2. halo[n][o] = link[Seen(n, o)]
      BY <3>1 DEF HaloInv
    <3> QED
      BY <2>1, <2>3, <3>2 DEF GetLink, Seen
  <2> QED
    BY <2>2, <2>3
<1>3. [r \in Reads[job.ga][mu] |-> GetLink(n, Plus(x, r[1]), r[2])]
        = [r \in Reads[job.ga][mu] |-> link[<<Around(Global(n, x), r[1]), r[2]>>]]
  BY <1>2
<1> QED
  BY <1>3 DEF GlobalStaple

\* Steps that leave alone what the parts of the invariant are about.
LEMMA QuietReady ==
  ASSUME TypeInv, ReadyInv, job' = job,
         \A m \in Node : Entered(m)' \in Int /\ Entered(m)' >= Entered(m),
         \A m \in Node : pc'[m] = "sweep" => pc[m] = "sweep" /\ loop'[m] = loop[m]
  PROVE  ReadyInv'
<1>1. ASSUME NEW n \in Node, NEW x \in LocalSite, NEW mu \in Dir,
             pc'[n] = "sweep", (x \in Active(n))', NEW r \in Reads[job.ga][mu]
      PROVE  Entered(Owner(n, Plus(x, r[1])))' > Round(n)'
  <2>4. PICK m \in Node : m = Owner(n, Plus(x, r[1]))
    BY LocalPair, ReadsOf, GlobalSite DEF TypeInv
  <2>1. pc[n] = "sweep" /\ loop'[n] = loop[n]
    BY <1>1
  <2>2. x \in Active(n) /\ Round(n)' = Round(n)
    BY <1>1, <2>1, SameJob DEF Active, Round, Iteration
  <2>3. Entered(m) > Round(n)
    BY <2>1, <2>2, <2>4 DEF ReadyInv
  <2>5. Owner(n, Plus(x, r[1]))' = m
    BY <2>4, SameJob
  <2>6. Entered(m)' > Round(n)
    BY <2>3, <2>4, Counters
  <2> QED
    BY <2>2, <2>5, <2>6
<1> QED
  BY <1>1, SameJob DEF ReadyInv

\* No link and no halo that is read changes.
LEMMA QuietHalo ==
  ASSUME TypeInv, HaloInv, job' = job, link' = link,
         \A m \in Node : pc'[m] = "sweep" =>
           pc[m] = "sweep" /\ loop'[m] = loop[m] /\ halo'[m] = halo[m]
  PROVE  HaloInv'
<1>1. ASSUME NEW n \in Node, NEW x \in LocalSite, NEW mu \in Dir,
             pc'[n] = "sweep", (x \in Active(n))', NEW o \in OffNode(x, mu)
      PROVE  halo'[n][o] = link'[Seen(n, o)]
  <2>1. pc[n] = "sweep" /\ loop'[n] = loop[n] /\ halo'[n] = halo[n]
    BY <1>1
  <2>2. x \in Active(n)
    BY <1>1, <2>1, SameJob DEF Active
  <2> QED
    BY <2>1, <2>2 DEF HaloInv
<1> QED
  BY <1>1, SameJob DEF HaloInv

\* Nothing is sent.
LEMMA QuietSent ==
  ASSUME TypeInv, SentInv, job' = job, sent' = sent,
         \A m \in Node : Entered(m)' \in Int /\ Entered(m)' >= Entered(m)
  PROVE  SentInv'
<1>1. ASSUME NEW n \in Node, NEW k \in 0..1
      PROVE  sent[n][k].round < Entered(n)'
  <2> DEFINE z == sent[n][k].round
  <2>1. z \in Int /\ z < Entered(n)
    BY DEF TypeInv, SentInv
  <2> HIDE DEF z
  <2>2. z < Entered(n)'
    BY <2>1, Counters
  <2> QED
    BY <2>2 DEF z
<1> QED
  BY <1>1, SameJob DEF SentInv

\* No link that is on the wire changes.
LEMMA QuietWire ==
  ASSUME TypeInv, WireInv, job' = job, link' = link, sent' = sent,
         \A n \in Node : \A r \in Int : Awaits(n, r)' => Awaits(n, r)
  PROVE  WireInv'
<1>1. ASSUME NEW m \in Node, NEW k \in 0..1, NEW n \in Node, NEW x \in LocalSite,
             NEW mu \in Dir, sent[m][k].round >= 0, Awaits(n, sent[m][k].round)',
             Colour(x) = sent[m][k].round % NColour, NEW o \in OffNode(x, mu),
             Owner(n, o[1]) = m, o \in sent[m][k].offsets
      PROVE  sent[m][k].links[Home(o)] = link[Seen(n, o)]
  <2>1. Awaits(n, sent[m][k].round)
    BY <1>1 DEF TypeInv
  <2> QED
    BY <1>1, <2>1 DEF WireInv
<1> QED
  BY <1>1, SameJob DEF WireInv

\* No link, generator or thread changes.
LEMMA QuietThread ==
  ASSUME TypeInv, ThreadInv, job' = job, link' = link, ugran_4d' = ugran_4d,
         swept' = swept, updating' = updating,
         \A u \in updating : pc'[u.node] = "sweep" /\ loop'[u.node] = loop[u.node]
  PROVE  ThreadInv'
<1>1. \A u \in updating : /\ Active(u.node)' = Active(u.node)
                          /\ ToDo(u.node, u.x)' = ToDo(u.node, u.x)
  BY SameJob DEF Active, ToDo, Iteration
<1> QED
  BY <1>1, SameJob DEF ThreadInv

\* A link of a node is a link of the lattice.
LEMMA LinkOf ==
  ASSUME job \in Jobs, NEW n \in Node, NEW x \in LocalSite, NEW mu \in Dir
  PROVE  <<Global(n, x), mu>> \in Link
BY LocalPair, GlobalSite DEF Link

\* The invariant holds at the start.
LEMMA InitStep ==
  ASSUME Init
  PROVE  IInv
<1>1. job \in Jobs
  BY DEF Init
<1>2. [run |-> 0, i |-> 0, colour |-> 0] \in LoopType
  BY DEF LoopType, NColour
<1>3. TypeInv
  <2>1. /\ link = [l \in Link |-> link[l]] /\ ugran_4d = [q \in Cube |-> ugran_4d[q]]
        /\ halo = [n \in Node |-> halo[n]] /\ swept \in [Link -> Nat]
    BY DEF Init, U0, G0
  <2>2. /\ pc \in [Node -> {"refresh", "fetch", "sweep", "ran"}]
        /\ loop \in [Node -> LoopType]
        /\ record_offset \in [Node -> BOOLEAN]
        /\ offsets_list_initialized \in [Node -> BOOLEAN]
    BY <1>2 DEF Init
  <2>3. /\ recorded_offsets \in [Node -> SUBSET Offset]
        /\ offsets_list \in [Node -> [0..(NColour - 1) -> SUBSET Offset]]
    BY DEF Init
  <2>4. /\ sent = [n \in Node |-> [k \in 0..1 |-> sent[n][k]]]
        /\ \A n \in Node, k \in 0..1 : sent[n][k].round \in Int
    BY DEF Init
  <2>5. updating = {}
    BY DEF Init
  <2> QED
    BY <1>1, <2>1, <2>2, <2>3, <2>4, <2>5 DEF TypeInv
<1>4. \A n \in Node : /\ pc[n] = "refresh" /\ loop[n].colour = 0 /\ loop[n].i = 0
                      /\ loop[n].run = 0 /\ ~offsets_list_initialized[n]
  BY DEF Init
<1>5. \A n \in Node : Iteration(n) = 0
  BY <1>1, <1>4, HeatBathAssumption DEF Iteration
<1>6. LoopInv
  BY <1>1, <1>4, HeatBathAssumption DEF LoopInv
<1>7. SweptInv
  <2>1. \A n \in Node, x \in LocalSite, mu \in Dir : swept[<<Global(n, x), mu>>] = 0
    BY <1>1, LinkOf DEF Init
  <2> QED
    BY <1>1, <1>4, <1>5, <2>1, ColourRange DEF SweptInv
<1>8. SentInv /\ WireInv
  <2>1. \A n \in Node, k \in 0..1 : sent[n][k].round = -1
    BY DEF Init
  <2> QED
    BY <1>3, <2>1, Counters DEF SentInv, WireInv
<1>9. ReadyInv /\ HaloInv
  BY <1>4 DEF ReadyInv, HaloInv
<1>10. ListInv
  BY <1>1, <1>4, ColourRange DEF ListInv
<1>11. ThreadInv
  BY DEF Init, ThreadInv
<1> QED
  BY <1>3, <1>6, <1>7, <1>8, <1>9, <1>10, <1>11 DEF IInv

\* Refreshes and sweeps of one node, seen by all.
LEMMA SameLoop ==
  ASSUME TypeInv, job' = job, loop' = loop, NEW n \in Node, NEW s,
         s \in {"refresh", "fetch", "sweep", "ran"}, pc' = [pc EXCEPT ![n] = s]
  PROVE  /\ pc' \in [Node -> {"refresh", "fetch", "sweep", "ran"}]
         /\ pc'[n] = s /\ \A m \in Node : m # n => pc'[m] = pc[m]
         /\ \A m \in Node : Round(m)' = Round(m) /\ Iteration(m)' = Iteration(m)
         /\ \A m \in Node : Active(m)' = Active(m)
<1>1. pc \in [Node -> {"refresh", "fetch", "sweep", "ran"}]
  BY DEF TypeInv
<1>2. \A m \in Node : Round(m)' = Round(m) /\ Iteration(m)' = Iteration(m)
  BY DEF Round, Iteration
<1>3. \A m \in Node : Active(m)' = Active(m)
  BY SameJob DEF Active
<1> QED
  BY <1>1, <1>2, <1>3

\* A node copies out links that are then current.
LEMMA SendLinksStep ==
  ASSUME IInv, NEW n \in Node, SendLinks(n)
  PROVE  IInv'
<1> USE DEF IInv
<1>1. /\ job' = job /\ link' = link /\ halo' = halo /\ ugran_4d' = ugran_4d
      /\ swept' = swept /\ updating' = updating /\ loop' = loop
      /\ offsets_list' = offsets_list
      /\ offsets_list_initialized' = offsets_list_initialized
  BY DEF SendLinks, offsets
<1>2. /\ pc[n] = "refresh" /\ pc' = [pc EXCEPT ![n] = "fetch"]
      /\ record_offset' = [record_offset EXCEPT ![n] = FALSE]
      /\ recorded_offsets' = [recorded_offsets EXCEPT ![n] = {}]
  BY DEF SendLinks
<1>3. /\ pc' \in [Node -> {"refresh", "fetch", "sweep", "ran"}]
      /\ pc'[n] = "fetch" /\ \A m \in Node : m # n => pc'[m] = pc[m]
      /\ \A m \in Node : Round(m)' = Round(m) /\ Iteration(m)' = Iteration(m)
      /\ \A m \in Node : Active(m)' = Active(m)
  BY <1>1, <1>2, SameLoop
<1>4. Node' = Node /\ LocalSite' = LocalSite
  BY <1>1, SameJob
<1> DEFINE slot == Round(n) % 2
           need == Requested(n)
           loff == {Home(o) : o \in need}
           msg  == [round |-> Round(n), offsets |-> need,
                    links |-> [l \in loff |-> GetLink(n, l[1], l[2])]]
<1>5. sent' = [sent EXCEPT ![n][slot] = msg]
  BY DEF SendLinks, Home, HomeSite
<1>6. slot \in 0..1
  <2> DEFINE z == Round(n)
  <2>1. z \in Nat
    BY Counters
  <2> HIDE DEF z
  <2>2. z % 2 \in 0..1
    BY <2>1
  <2> QED
    BY <2>2 DEF z
<1>7. msg.round = Round(n) /\ msg.offsets = need
  OBVIOUS
<1>8. \A l \in loff : msg.links[l] = GetLink(n, l[1], l[2])
  OBVIOUS
<1> HIDE DEF slot, need, msg
<1>9. /\ sent' = [m \in Node |-> [k \in 0..1 |-> sent'[m][k]]]
      /\ sent'[n][slot] = msg
      /\ \A m \in Node, k \in 0..1 : <<m, k>> # <<n, slot>> => sent'[m][k] = sent[m][k]
  <2>1. sent = [m \in Node |-> [k \in 0..1 |-> sent[m][k]]]
    BY DEF TypeInv
  <2> QED
    BY <1>5, <1>6, <2>1
<1>10. TypeInv'
  <2>1. /\ record_offset' \in [Node -> BOOLEAN]
        /\ recorded_offsets' \in [Node -> SUBSET Offset]
    BY <1>2 DEF TypeInv
  <2>2. \A m \in Node, k \in 0..1 : sent'[m][k].round \in Int
    <3>1. ASSUME NEW m \in Node, NEW k \in 0..1
          PROVE  sent'[m][k].round \in Int
      <4>1. CASE m = n /\ k = slot
        BY <1>7, <1>9, <4>1, Counters
      <4>2. CASE ~(m = n /\ k = slot)
        BY <1>9, <4>2 DEF TypeInv
      <4> QED
        BY <4>1, <4>2
    <3> QED
      BY <3>1
  <2> QED
    BY <1>1, <1>3, <1>4, <1>9, <2>1, <2>2, SameJob DEF TypeInv
<1>11. \A m \in Node : Entered(m)' \in Int /\ Entered(m)' >= Entered(m)
  <2>1. ASSUME NEW m \in Node
        PROVE  Entered(m)' \in Int /\ Entered(m)' >= Entered(m)
    <3>1. Round(m) \in Nat
      BY Counters
    <3>2. Round(m)' = Round(m) /\ (pc[m] # "refresh" => pc'[m] # "refresh")
      BY <1>2, <1>3
    <3> QED
      BY <3>1, <3>2 DEF Entered
  <2> QED
    BY <2>1
<1>12. LoopInv'
  BY <1>1, <1>2, <1>3, <1>4 DEF LoopInv
<1>13. SweptInv'
  BY <1>1, <1>2, <1>3, <1>4, SameJob DEF SweptInv
<1>14. SentInv'
  <2>1. ASSUME NEW m \in Node, NEW k \in 0..1
        PROVE  sent'[m][k].round < Entered(m)'
    <3>1. CASE m = n /\ k = slot
      <4>1. Entered(n)' = Round(n) + 1
        BY <1>3 DEF Entered
      <4>2. sent'[m][k].round = Round(n)
        BY <1>7, <1>9, <3>1
      <4> QED
        BY <3>1, <4>1, <4>2, Counters
    <3>2. CASE ~(m = n /\ k = slot)
      <4> DEFINE z == sent[m][k].round
      <4>1. sent'[m][k].round = z
        BY <1>9, <3>2
      <4>2. z \in Int /\ z < Entered(m)
        BY DEF TypeInv, SentInv
      <4> HIDE DEF z
      <4>3. z < Entered(m)'
        BY <1>11, <4>2, Counters
      <4> QED
        BY <4>1, <4>3
    <3> QED
      BY <3>1, <3>2
  <2> QED
    BY <1>4, <2>1 DEF SentInv
<1>15. \A m \in Node : \A r \in Int : Awaits(m, r)' => Awaits(m, r)
  BY <1>2, <1>3 DEF Awaits
<1>16. WireInv'
  <2>1. ASSUME NEW m \in Node, NEW k \in 0..1, NEW p \in Node, NEW x \in LocalSite,
               NEW mu \in Dir, sent'[m][k].round >= 0, Awaits(p, sent[m][k].round)',
               Colour(x) = sent'[m][k].round % NColour, NEW o \in OffNode(x, mu),
               Owner(p, o[1]) = m, o \in sent'[m][k].offsets
        PROVE  sent'[m][k].links[Home(o)] = link[Seen(p, o)]
    <3>1. CASE m = n /\ k = slot
      <4>1. sent'[m][k] = msg
        BY <1>9, <3>1
      <4>2. o \in need /\ Home(o) \in loff
        BY <1>7, <2>1, <4>1
      <4>3. msg.links[Home(o)] = GetLink(n, HomeSite(o[1]), o[2])
        BY <1>8, <4>2 DEF Home
      <4>4. o[1] \in Int \X Int
        BY OffNodeOf DEF TypeInv
      <4>5. /\ HomeSite(o[1]) \in LocalSite
            /\ Global(n, HomeSite(o[1])) = Global(p, o[1])
        BY <2>1, <3>1, <4>4, HomeOf DEF TypeInv
      <4>6. OnNode(HomeSite(o[1]))
        BY <4>5, LocalPair DEF TypeInv
      <4> QED
        BY <4>1, <4>3, <4>5, <4>6 DEF GetLink, Seen
    <3>2. CASE ~(m = n /\ k = slot)
      <4>1. sent'[m][k] = sent[m][k]
        BY <1>9, <3>2
      <4>2. PICK r \in Int : r = sent'[m][k].round
        BY <1>10, <1>4 DEF TypeInv
      <4>3. Awaits(p, r)
        BY <1>15, <2>1, <4>2
      <4> QED
        BY <2>1, <4>1, <4>2, <4>3 DEF WireInv
    <3> QED
      BY <3>1, <3>2
  <2> QED
    BY <1>1, <1>4, <2>1, SameJob DEF WireInv
<1>17. \A m \in Node : pc'[m] = "sweep" => pc[m] = "sweep" /\ m # n
  BY <1>3
<1>18. ReadyInv'
  BY <1>1, <1>11, <1>17, QuietReady
<1>19. HaloInv'
  BY <1>1, <1>17, QuietHalo
<1>20. ListInv'
  <2>1. \A m \in Node : m # n => /\ record_offset'[m] = record_offset[m]
                                 /\ recorded_offsets'[m] = recorded_offsets[m]
    BY <1>2 DEF TypeInv
  <2>2. \A m \in Node : \A x : ToDo(m, x)' = ToDo(m, x)
    BY <1>1, <1>3, SameJob DEF ToDo
  <2> QED
    BY <1>1, <1>3, <1>4, <1>17, <2>1, <2>2, SameJob DEF ListInv
<1>21. ThreadInv'
  <2>1. \A u \in updating : pc'[u.node] = "sweep" /\ loop'[u.node] = loop[u.node]
    BY <1>1, <1>2, <1>3 DEF ThreadInv, TypeInv
  <2> QED
    BY <1>1, <2>1, QuietThread
<1> QED
  BY <1>10, <1>12, <1>13, <1>14, <1>16, <1>18, <1>19, <1>20, <1>21

\* What a node requests before a colour is all its staples read in it.
LEMMA RequestedEnough ==
  ASSUME TypeInv, ListInv, NEW n \in Node, NEW x \in Active(n), NEW mu \in Dir
  PROVE  OffNode(x, mu) \subseteq Requested(n)
<1>1. x \in LocalSite /\ Colour(x) = loop[n].colour /\ job \in Jobs
  BY DEF Active, TypeInv
<1>2. CASE offsets_list_initialized[n]
  BY <1>1, <1>2 DEF ListInv, Requested
<1>3. CASE ~offsets_list_initialized[n]
  BY <1>1, <1>3, OffNodeOf DEF Requested
<1> QED
  BY <1>2, <1>3

\* A node owns the sites that are on it.
LEMMA OnNodeOwner ==
  ASSUME job \in Jobs, NEW n \in Node, NEW y \in Int \X Int, OnNode(y)
  PROVE  Owner(n, y) = n
<1>1. y \in LocalSite
  BY DEF OnNode, LocalSite, Dir
<1> QED
  BY <1>1, OwnSite

\* What is fetched is current, and all that will be read.
LEMMA FetchLinksStep ==
  ASSUME IInv, NEW n \in Node, FetchLinks(n)
  PROVE  IInv'
<1> USE DEF IInv
<1>1. /\ job' = job /\ link' = link /\ ugran_4d' = ugran_4d /\ swept' = swept
      /\ updating' = updating /\ loop' = loop /\ sent' = sent
      /\ recorded_offsets' = recorded_offsets /\ offsets_list' = offsets_list
      /\ offsets_list_initialized' = offsets_list_initialized
  BY DEF FetchLinks, offsets
<1>2. /\ pc[n] = "fetch" /\ pc' = [pc EXCEPT ![n] = "sweep"]
      /\ record_offset' = [record_offset EXCEPT ![n] = ~offsets_list_initialized[n]]
  BY DEF FetchLinks
<1>3. /\ pc' \in [Node -> {"refresh", "fetch", "sweep", "ran"}]
      /\ pc'[n] = "sweep" /\ \A m \in Node : m # n => pc'[m] = pc[m]
      /\ \A m \in Node : Round(m)' = Round(m) /\ Iteration(m)' = Iteration(m)
      /\ \A m \in Node : Active(m)' = Active(m)
  BY <1>1, <1>2, SameLoop
<1>4. Node' = Node /\ LocalSite' = LocalSite
  BY <1>1, SameJob
<1> DEFINE slot == Round(n) % 2
           Message(o) == sent[Owner(n, o[1])][slot]
           got == [o \in HaloLink |-> IF o \in Requested(n) THEN Message(o).links[Home(o)]
                                      ELSE halo[n][o]]
<1>5. \A o \in Requested(n) : Message(o).round = Round(n) /\ Message(o).offsets = Requested(n)
  BY DEF FetchLinks
<1>6. halo' = [halo EXCEPT ![n] = got]
  BY DEF FetchLinks, Home, HomeSite
<1>7. \A o \in HaloLink : o \in Requested(n) => got[o] = Message(o).links[Home(o)]
  OBVIOUS
<1> HIDE DEF got
<1>8. /\ halo' = [m \in Node |-> halo'[m]] /\ halo'[n] = got
      /\ \A m \in Node : m # n => halo'[m] = halo[m]
  BY <1>6 DEF TypeInv
<1>9. TypeInv'
  <2>1. record_offset' \in [Node -> BOOLEAN]
    BY <1>2 DEF TypeInv
  <2> QED
    BY <1>1, <1>3, <1>4, <1>8, <2>1, SameJob DEF TypeInv
<1>10. \A m \in Node : Entered(m)' \in Int /\ Entered(m)' >= Entered(m)
  <2>1. ASSUME NEW m \in Node
        PROVE  Entered(m)' \in Int /\ Entered(m)' >= Entered(m)
    <3>1. Round(m) \in Nat
      BY Counters
    <3>2. Round(m)' = Round(m) /\ (pc[m] # "refresh" => pc'[m] # "refresh")
      BY <1>2, <1>3
    <3> QED
      BY <3>1, <3>2 DEF Entered
  <2> QED
    BY <2>1
<1>11. LoopInv'
  BY <1>1, <1>3, <1>4 DEF LoopInv
<1>12. SweptInv'
  BY <1>1, <1>2, <1>3, <1>4, SameJob DEF SweptInv
<1>13. SentInv'
  BY <1>1, <1>10, QuietSent
<1>14. \A m \in Node : \A r \in Int : Awaits(m, r)' => Awaits(m, r)
  BY <1>2, <1>3 DEF Awaits
<1>15. WireInv'
  BY <1>1, <1>14, QuietWire
<1>16. \A m \in Node : m # n /\ pc'[m] = "sweep" => pc[m] = "sweep"
  BY <1>3
<1>17. slot \in 0..1
  <2> DEFINE z == Round(n)
  <2>1. z \in Nat
    BY Counters
  <2> HIDE DEF z
  <2>2. z % 2 \in 0..1
    BY <2>1
  <2> QED
    BY <2>2 DEF z
<1> HIDE DEF slot
<1>18. ReadyInv'
  <2>1. ASSUME NEW m \in Node, NEW x \in LocalSite, NEW mu \in Dir,
               pc'[m] = "sweep", x \in Active(m), NEW r \in Reads[job.ga][mu]
        PROVE  Entered(Owner(m, Plus(x, r[1])))' > Round(m)'
    <3>1. PICK p \in Node : p = Owner(m, Plus(x, r[1]))
      BY LocalPair, ReadsOf, GlobalSite DEF TypeInv
    <3>2. Owner(m, Plus(x, r[1]))' = p
      BY <1>1, <3>1, SameJob
    <3>3. Entered(p)' > Round(m)
      <4>1. CASE m # n
        <5>1. Entered(p) > Round(m)
          BY <1>16, <2>1, <3>1, <4>1 DEF ReadyInv
        <5> QED
          BY <1>10, <5>1, Counters
      <4>2. CASE m = n /\ OnNode(Plus(x, r[1]))
        <5>1. p = n
          BY <3>1, <4>2, LocalPair, ReadsOf, OnNodeOwner DEF TypeInv
        <5>2. Entered(n)' = Round(n) + 1
          BY <1>3 DEF Entered
        <5> QED
          BY <4>2, <5>1, <5>2, Counters
      <4>3. CASE m = n /\ ~OnNode(Plus(x, r[1]))
        <5> DEFINE o == <<Plus(x, r[1]), r[2]>>
        <5>1. o \in OffNode(x, mu)
          BY <4>3 DEF OffNode, StapleReads
        <5>2. o \in Requested(n)
          BY <2>1, <4>3, <5>1, RequestedEnough
        <5>3. Message(o).round = Round(n) /\ Message(o) = sent[p][slot]
          BY <1>5, <3>1, <4>3, <5>2
        <5>4. sent[p][slot].round < Entered(p)
          BY <1>17 DEF SentInv
        <5> QED
          BY <1>10, <4>3, <5>3, <5>4, Counters
      <4> QED
        BY <4>1, <4>2, <4>3
    <3> QED
      BY <1>3, <3>2, <3>3
  <2> QED
    BY <1>1, <1>3, <1>4, <2>1, SameJob DEF ReadyInv
<1>19. HaloInv'
  <2>1. ASSUME NEW m \in Node, NEW x \in LocalSite, NEW mu \in Dir,
               pc'[m] = "sweep", x \in Active(m), NEW o \in OffNode(x, mu)
        PROVE  halo'[m][o] = link[Seen(m, o)]
    <3>1. CASE m # n
      BY <1>8, <1>16, <2>1, <3>1 DEF HaloInv
    <3>2. CASE m = n
      <4>1. o \in Requested(n) /\ o \in HaloLink /\ o[1] \in Int \X Int
        BY <2>1, <3>2, RequestedEnough, OffNodeOf DEF TypeInv
      <4>2. PICK p \in Node : p = Owner(n, o[1])
        BY <4>1, GlobalSite DEF TypeInv
      <4>3. /\ sent[p][slot].round = Round(n)
            /\ sent[p][slot].offsets = Requested(n)
            /\ got[o] = sent[p][slot].links[Home(o)]
        BY <1>5, <1>7, <4>1, <4>2
      <4>4. Awaits(n, Round(n))
        BY <1>2 DEF Awaits
      <4>5. Round(n) >= 0 /\ Colour(x) = Round(n) % NColour
        BY <2>1, <3>2, Counters DEF Active
      <4>6. sent[p][slot].links[Home(o)] = link[Seen(n, o)]
        BY <1>17, <2>1, <4>1, <4>2, <4>3, <4>4, <4>5 DEF WireInv
      <4> QED
        BY <1>8, <3>2, <4>3, <4>6
    <3> QED
      BY <3>1, <3>2
  <2> QED
    BY <1>1, <1>3, <1>4, <2>1, SameJob DEF HaloInv
<1>20. ListInv'
  <2>1. \A m \in Node : m # n => record_offset'[m] = record_offset[m]
    BY <1>2 DEF TypeInv
  <2>2. record_offset'[n] = ~offsets_list_initialized[n]
    BY <1>2 DEF TypeInv
  <2>3. \A m \in Node : \A x : ToDo(m, x)' = ToDo(m, x)
    BY <1>1, <1>3, SameJob DEF ToDo
  <2>4. \A x \in Active(n), mu \in Dir : mu \in ToDo(n, x)
    <3>1. ASSUME NEW x \in Active(n), NEW mu \in Dir
          PROVE  mu \in ToDo(n, x)
      <4>1. swept[<<Global(n, x), mu>>] = Iteration(n)
        BY <1>2 DEF SweptInv, Active
      <4> QED
        BY <4>1, Counters DEF ToDo
    <3> QED
      BY <3>1
  <2>5. \A u \in updating : u.node # n
    BY <1>2 DEF ThreadInv
  <2>6. \A m \in Node, x \in LocalSite, mu \in Dir :
          offsets_list_initialized[m] \/ Colour(x) < loop[m].colour =>
            OffNode(x, mu) \subseteq offsets_list[m][Colour(x)]
    BY DEF ListInv
  <2>7. ASSUME NEW m \in Node, pc'[m] = "sweep", ~offsets_list_initialized[m]
        PROVE  /\ record_offset'[m]
               /\ \A x \in Active(m), mu \in Dir :
                    \/ mu \notin ToDo(m, x)
                    \/ \E u \in updating : u.node = m /\ u.x = x /\ u.mu = mu
                    => OffNode(x, mu) \subseteq recorded_offsets[m]
    <3>1. CASE m = n
      BY <2>2, <2>4, <2>5, <2>7, <3>1
    <3>2. CASE m # n
      BY <1>16, <2>1, <2>7, <3>2 DEF ListInv
    <3> QED
      BY <3>1, <3>2
  <2> QED
    BY <1>1, <1>3, <1>4, <2>3, <2>6, <2>7, SameJob DEF ListInv
<1>21. ThreadInv'
  <2>1. \A u \in updating : pc'[u.node] = "sweep" /\ loop'[u.node] = loop[u.node]
    BY <1>1, <1>3 DEF ThreadInv, TypeInv
  <2> QED
    BY <1>1, <2>1, QuietThread
<1> QED
  BY <1>9, <1>11, <1>12, <1>13, <1>15, <1>18, <1>19, <1>20, <1>21

\* A staple is computed from current links.
LEMMA GetStapleStep ==
  ASSUME IInv, NEW n \in Node, NEW x \in LocalSite, GetStaple(n, x)
  PROVE  IInv'
<1> USE DEF IInv
<1>1. /\ job' = job /\ link' = link /\ halo' = halo /\ ugran_4d' = ugran_4d
      /\ swept' = swept /\ pc' = pc /\ loop' = loop /\ sent' = sent
      /\ record_offset' = record_offset /\ offsets_list' = offsets_list
      /\ offsets_list_initialized' = offsets_list_initialized
  BY DEF GetStaple, offsets
<1>2. /\ pc[n] = "sweep" /\ x \in Active(n) /\ ToDo(n, x) # {}
      /\ \A u \in updating : <<u.node, u.x>> # <<n, x>>
  BY DEF GetStaple
<1> DEFINE least == CHOOSE m \in ToDo(n, x) : \A k \in ToDo(n, x) : m <= k
           now(mu) == [node |-> n, x |-> x, mu |-> mu,
                       staple |-> Staple(job.ga, mu, [r \in Reads[job.ga][mu] |->
                                                        GetLink(n, Plus(x, r[1]), r[2])]),
                       seed |-> ugran_4d[GeneratorPos(Global(n, x))]]
<1>3. /\ updating' = updating \cup {now(least)}
      /\ recorded_offsets' = [recorded_offsets EXCEPT ![n] =
           IF record_offset[n] THEN @ \cup {l \in StapleReads(job.ga, x, least) : ~OnNode(l[1])}
           ELSE @]
  BY DEF GetStaple
<1>4. least \in ToDo(n, x)
  <2>1. ToDo(n, x) \subseteq {1, 2}
    BY DEF ToDo, Dir
  <2>2. \E m \in ToDo(n, x) : \A k \in ToDo(n, x) : m <= k
    BY <1>2, <2>1
  <2> QED
    BY <2>2
<1>5. PICK mu \in ToDo(n, x) : mu = least
  BY <1>4
<1>6. mu \in Dir
  BY DEF ToDo
<1> HIDE DEF least
<1>7. PICK w : w = now(mu)
  OBVIOUS
<1>8. /\ updating' = updating \cup {w}
      /\ recorded_offsets' = [recorded_offsets EXCEPT ![n] =
           IF record_offset[n] THEN @ \cup OffNode(x, mu) ELSE @]
  BY <1>3, <1>5, <1>7 DEF OffNode
<1>9. /\ w.node = n /\ w.x = x /\ w.mu = mu
      /\ w.seed = ugran_4d[GeneratorPos(Global(n, x))]
      /\ w.staple = GlobalStaple(job.ga, link, Global(n, x), mu)
  BY <1>2, <1>6, <1>7, StapleNow
<1> HIDE DEF now
<1>10. /\ \A m \in Node : Round(m)' = Round(m) /\ Iteration(m)' = Iteration(m)
       /\ \A m \in Node : Active(m)' = Active(m)
       /\ \A m \in Node : \A y : ToDo(m, y)' = ToDo(m, y)
       /\ \A m \in Node : Entered(m)' = Entered(m)
       /\ Node' = Node /\ LocalSite' = LocalSite
  <2>1. \A m \in Node : Round(m)' = Round(m) /\ Iteration(m)' = Iteration(m)
    BY <1>1 DEF Round, Iteration
  <2> QED
    BY <1>1, <2>1, SameJob DEF Active, ToDo, Entered
<1>11. /\ recorded_offsets' \in [Node -> SUBSET Offset]
       /\ recorded_offsets'[n] = IF record_offset[n]
                                 THEN recorded_offsets[n] \cup OffNode(x, mu)
                                 ELSE recorded_offsets[n]
       /\ \A m \in Node : m # n => recorded_offsets'[m] = recorded_offsets[m]
  <2>1. OffNode(x, mu) \subseteq Offset
    BY <1>6, OffNodeOf DEF TypeInv
  <2> QED
    BY <1>8, <2>1 DEF TypeInv
<1>12. TypeInv'
  BY <1>1, <1>6, <1>8, <1>9, <1>10, <1>11, SameJob DEF TypeInv
<1>13. LoopInv' /\ SweptInv'
  BY <1>1, <1>10, SameJob DEF LoopInv, SweptInv
<1>14. \A m \in Node : Entered(m)' \in Int /\ Entered(m)' >= Entered(m)
  BY <1>10, Counters
<1>15. SentInv'
  BY <1>1, <1>14, QuietSent
<1>16. \A m \in Node : \A r \in Int : Awaits(m, r)' => Awaits(m, r)
  BY <1>1, <1>10 DEF Awaits
<1>17. WireInv' /\ ReadyInv' /\ HaloInv'
  BY <1>1, <1>14, <1>16, QuietWire, QuietReady, QuietHalo
<1>18. ListInv'
  <2>1. \A m \in Node, y \in LocalSite, nu \in Dir :
          offsets_list_initialized[m] \/ Colour(y) < loop[m].colour =>
            OffNode(y, nu) \subseteq offsets_list[m][Colour(y)]
    BY DEF ListInv
  <2>2. ASSUME NEW m \in Node, pc[m] = "sweep", ~offsets_list_initialized[m],
               NEW y \in Active(m), NEW nu \in Dir,
               \/ nu \notin ToDo(m, y)
               \/ \E u \in updating' : u.node = m /\ u.x = y /\ u.mu = nu
        PROVE  OffNode(y, nu) \subseteq recorded_offsets'[m]
    <3>1. record_offset[m]
      BY <2>2 DEF ListInv
    <3>2. CASE m = n /\ y = x /\ nu = mu
      BY <1>11, <3>1, <3>2
    <3>3. CASE ~(m = n /\ y = x /\ nu = mu)
      <4>1. \/ nu \notin ToDo(m, y)
            \/ \E u \in updating : u.node = m /\ u.x = y /\ u.mu = nu
        BY <1>8, <1>9, <2>2, <3>3
      <4>2. OffNode(y, nu) \subseteq recorded_offsets[m]
        BY <2>2, <4>1 DEF ListInv
      <4> QED
        BY <1>11, <4>2
    <3> QED
      BY <3>2, <3>3
  <2>3. \A m \in Node : pc[m] = "sweep" /\ ~offsets_list_initialized[m] => record_offset[m]
    BY DEF ListInv
  <2> QED
    BY <1>1, <1>10, <2>1, <2>2, <2>3, SameJob DEF ListInv
<1>19. ThreadInv'
  <2>1. ASSUME NEW u \in updating'
        PROVE  /\ pc[u.node] = "sweep" /\ u.x \in Active(u.node)
               /\ u.mu \in ToDo(u.node, u.x) /\ u.node \in Node
               /\ u.staple = GlobalStaple(job.ga, link, Global(u.node, u.x), u.mu)
               /\ u.seed = ugran_4d[GeneratorPos(Global(u.node, u.x))]
    <3>1. CASE u = w
      BY <1>2, <1>5, <1>9, <3>1
    <3>2. CASE u \in updating
      BY <3>2 DEF ThreadInv, TypeInv
    <3> QED
      BY <1>8, <3>1, <3>2
  <2>2. ASSUME NEW u \in updating', NEW v \in updating', v.node = u.node, v.x = u.x
        PROVE  v = u
    <3>1. CASE u \in updating /\ v \in updating
      BY <2>2, <3>1 DEF ThreadInv
    <3>2. CASE u = w \/ v = w
      BY <1>2, <1>8, <1>9, <2>2, <3>2
    <3> QED
      BY <1>8, <3>1, <3>2
  <2> QED
    BY <1>1, <1>10, <2>1, <2>2, SameJob DEF ThreadInv
<1> QED
  BY <1>12, <1>13, <1>15, <1>17, <1>18, <1>19

\* A node's own link is counted by nobody else.
LEMMA OneLink ==
  ASSUME job \in Jobs, NEW n \in Node, NEW x \in LocalSite, NEW mu,
         NEW m \in Node, NEW w \in LocalSite, NEW nu,
         <<Global(m, w), nu>> = <<Global(n, x), mu>>
  PROVE  m = n /\ w = x /\ nu = mu
BY LocalPair, SameSite

\* Nobody else reads a link, or draws from a generator, that is updated.
LEMMA UpdateLinkStep ==
  ASSUME IInv, NEW u \in updating, UpdateLink(u)
  PROVE  IInv'
<1> USE DEF IInv
<1>0. PICK n \in Node, x \in LocalSite, mu \in Dir : n = u.node /\ x = u.x /\ mu = u.mu
  BY DEF TypeInv
<1> DEFINE g == Global(n, x)  l == <<g, mu>>
<1>1. /\ job' = job /\ halo' = halo /\ pc' = pc /\ loop' = loop /\ sent' = sent
      /\ recorded_offsets' = recorded_offsets /\ record_offset' = record_offset
      /\ offsets_list' = offsets_list
      /\ offsets_list_initialized' = offsets_list_initialized
  BY DEF UpdateLink, offsets, recording
<1>2. /\ link' = [link EXCEPT ![l] = NewLink(@, u.staple, u.seed)]
      /\ ugran_4d' = [ugran_4d EXCEPT ![GeneratorPos(g)] = Draw(u.seed)]
      /\ swept' = [swept EXCEPT ![l] = @ + 1]
      /\ updating' = updating \ {u}
  BY <1>0 DEF UpdateLink
<1>3. /\ pc[n] = "sweep" /\ x \in Active(n) /\ mu \in ToDo(n, x)
      /\ \A v \in updating : v.node = n /\ v.x = x => v = u
  BY <1>0 DEF ThreadInv
<1>4. l \in Link /\ job \in Jobs
  BY LinkOf DEF TypeInv
<1>5. swept[l] = Iteration(n)
  BY <1>3, Counters DEF ToDo, SweptInv
<1>6. /\ link' = [k \in Link |-> link'[k]]
      /\ ugran_4d' = [q \in Cube |-> ugran_4d'[q]]
      /\ swept' \in [Link -> Nat] /\ swept'[l] = Iteration(n) + 1
      /\ \A k : k # l => link'[k] = link[k] /\ (k \in Link => swept'[k] = swept[k])
      /\ \A q : q # GeneratorPos(g) => ugran_4d'[q] = ugran_4d[q]
  <2>1. /\ link = [k \in Link |-> link[k]] /\ ugran_4d = [q \in Cube |-> ugran_4d[q]]
        /\ swept \in [Link -> Nat]
    BY DEF TypeInv
  <2> HIDE DEF l
  <2> QED
    BY <1>2, <1>4, <1>5, <2>1, Counters
<1>7. /\ \A m \in Node : Round(m)' = Round(m) /\ Iteration(m)' = Iteration(m)
      /\ \A m \in Node : Active(m)' = Active(m)
      /\ \A m \in Node : Entered(m)' = Entered(m)
      /\ Node' = Node /\ LocalSite' = LocalSite
  <2>1. \A m \in Node : Round(m)' = Round(m) /\ Iteration(m)' = Iteration(m)
    BY <1>1 DEF Round, Iteration
  <2> QED
    BY <1>1, <2>1, SameJob DEF Active, Entered
<1>8. TypeInv'
  BY <1>1, <1>2, <1>6, <1>7, SameJob DEF TypeInv
<1>9. LoopInv'
  BY <1>1, <1>7 DEF LoopInv
<1>10. \A m \in Node, w \in LocalSite, nu \in Dir :
         ~(m = n /\ w = x /\ nu = mu) =>
           swept'[<<Global(m, w), nu>>] = swept[<<Global(m, w), nu>>]
  BY <1>4, <1>6, OneLink, LinkOf
<1>11. SweptInv'
  <2>1. ASSUME NEW m \in Node, NEW w \in LocalSite, NEW nu \in Dir,
               NEW s, s = swept'[<<Global(m, w), nu>>]
        PROVE  /\ s = Iteration(m) \/ s = Iteration(m) + 1
               /\ pc[m] = "ran" \/ Colour(w) < loop[m].colour => s = Iteration(m) + 1
               /\ pc[m] # "ran" /\ Colour(w) > loop[m].colour => s = Iteration(m)
               /\ pc[m] \in {"refresh", "fetch"} /\ Colour(w) = loop[m].colour
                    => s = Iteration(m)
    <3>1. CASE m = n /\ w = x /\ nu = mu
      <4>1. s = Iteration(m) + 1
        BY <1>6, <2>1, <3>1
      <4>2. pc[m] = "sweep" /\ Colour(w) = loop[m].colour
        BY <1>3, <3>1 DEF Active
      <4>3. loop[m].colour \in Nat
        BY Counters DEF NColour
      <4> QED
        BY <4>1, <4>2, <4>3
    <3>2. CASE ~(m = n /\ w = x /\ nu = mu)
      BY <1>10, <2>1, <3>2 DEF SweptInv
    <3> QED
      BY <3>1, <3>2
  <2> QED
    BY <1>1, <1>7, <2>1, SameJob DEF SweptInv
<1>12. \A m \in Node : Entered(m)' \in Int /\ Entered(m)' >= Entered(m)
  BY <1>7, Counters
<1>13. SentInv' /\ ReadyInv'
  BY <1>1, <1>12, QuietSent, QuietReady
<1>14. WireInv'
  <2>1. ASSUME NEW m \in Node, NEW k \in 0..1, NEW p \in Node, NEW y \in LocalSite,
               NEW nu \in Dir, NEW r \in Int, r = sent[m][k].round, r >= 0,
               Awaits(p, r), Colour(y) = r % NColour, NEW o \in OffNode(y, nu),
               Owner(p, o[1]) = m, o \in sent[m][k].offsets
        PROVE  link'[Seen(p, o)] = link[Seen(p, o)]
    <3>1. SUFFICES ASSUME Seen(p, o) = l
                   PROVE  FALSE
      BY <1>6
    <3>2. PICK s \in Reads[job.ga][nu] : o = <<Plus(y, s[1]), s[2]>>
      BY <1>4, OffNodeOf
    <3>3. o[1] \in Int \X Int /\ ~OnNode(o[1])
      BY <1>4, OffNodeOf
    <3>4. Global(n, x) = Global(p, Plus(y, s[1]))
      BY <3>1, <3>2 DEF Seen
    <3>5. m = n
      BY <1>4, <2>1, <3>2, <3>3, <3>4, SameSite
    <3>6. r < Entered(n)
      BY <2>1, <3>5 DEF SentInv
    <3>7. Entered(n) = Round(n) + 1
      BY <1>3 DEF Entered
    <3>8. Entered(p) > Round(n)
      BY <1>3, <3>4, ReadsBack
    <3>9. Round(n) = r
      <4>1. CASE Round(p) < r
        BY <3>6, <3>7, <3>8, <4>1, Counters DEF Entered
      <4>2. CASE Round(p) = r /\ pc[p] \in {"refresh", "fetch"}
        <5>1. Entered(p) <= Round(p) + 1
          BY Counters DEF Entered
        <5> QED
          BY <3>6, <3>7, <3>8, <4>2, <5>1, Counters
      <4> QED
        BY <2>1, <4>1, <4>2 DEF Awaits
    <3>10. Colour(y) = Colour(x)
      BY <1>3, <2>1, <3>9, Counters DEF Active
    <3>11. Plus(y, s[1]) = y
      BY <3>4, <3>10, Apart
    <3> QED
      BY <1>4, <3>2, <3>3, <3>11, LocalPair
  <2>2. ASSUME NEW m \in Node, NEW k \in 0..1, NEW p \in Node, NEW y \in LocalSite,
               NEW nu \in Dir, sent[m][k].round >= 0, Awaits(p, sent[m][k].round),
               Colour(y) = sent[m][k].round % NColour, NEW o \in OffNode(y, nu),
               Owner(p, o[1]) = m, o \in sent[m][k].offsets
        PROVE  sent[m][k].links[Home(o)] = link'[Seen(p, o)]
    <3>1. sent[m][k].links[Home(o)] = link[Seen(p, o)]
      BY <2>2 DEF WireInv
    <3>2. sent[m][k].round \in Int
      BY DEF TypeInv
    <3> QED
      BY <2>1, <2>2, <3>1, <3>2
  <2>3. \A p \in Node : \A r : Awaits(p, r)' <=> Awaits(p, r)
    BY <1>1, <1>7 DEF Awaits
  <2>4. ASSUME NEW m \in Node, NEW k \in 0..1, NEW p \in Node, NEW y \in LocalSite,
               NEW nu \in Dir, sent[m][k].round >= 0, Awaits(p, sent[m][k].round)',
               Colour(y) = sent[m][k].round % NColour, NEW o \in OffNode(y, nu),
               Owner(p, o[1]) = m, o \in sent[m][k].offsets
        PROVE  sent[m][k].links[Home(o)] = link'[Seen(p, o)]
    <3>1. PICK r : r = sent[m][k].round
      OBVIOUS
    <3>2. Awaits(p, r)'
      BY <1>1, <2>4, <3>1
    <3>3. Awaits(p, r)
      BY <2>3, <3>2
    <3> QED
      BY <2>2, <2>4, <3>1, <3>3
  <2> QED
    BY <1>1, <1>7, <2>4, SameJob DEF WireInv
<1>15. HaloInv'
  <2>1. ASSUME NEW m \in Node, NEW y \in LocalSite, NEW nu \in Dir,
               pc[m] = "sweep", y \in Active(m), NEW o \in OffNode(y, nu)
        PROVE  halo[m][o] = link'[Seen(m, o)]
    <3>1. halo[m][o] = link[Seen(m, o)]
      BY <2>1 DEF HaloInv
    <3>2. PICK s \in Reads[job.ga][nu] : o = <<Plus(y, s[1]), s[2]>>
      BY <1>4, OffNodeOf
    <3>3. ~OnNode(o[1])
      BY <1>4, OffNodeOf
    <3>4. Seen(m, o) # l
      <4>1. SUFFICES ASSUME Seen(m, o) = l
                     PROVE  FALSE
        OBVIOUS
      <4>2. Global(n, x) = Global(m, Plus(y, s[1]))
        BY <3>2, <4>1 DEF Seen
      <4>3. Plus(y, s[1]) = y
        BY <1>3, <2>1, <4>2, NonInterference
      <4> QED
        BY <1>4, <3>2, <3>3, <4>3, LocalPair
    <3> QED
      BY <1>6, <3>1, <3>4
  <2> QED
    BY <1>1, <1>7, <2>1, SameJob DEF HaloInv
<1>16. ListInv'
  <2>1. \A m \in Node, y \in LocalSite, nu \in Dir :
          offsets_list_initialized[m] \/ Colour(y) < loop[m].colour =>
            OffNode(y, nu) \subseteq offsets_list[m][Colour(y)]
    BY DEF ListInv
  <2>2. \A m \in Node : pc[m] = "sweep" /\ ~offsets_list_initialized[m] => record_offset[m]
    BY DEF ListInv
  <2>3. ASSUME NEW m \in Node, pc[m] = "sweep", ~offsets_list_initialized[m],
               NEW y \in Active(m), NEW nu \in Dir,
               \/ nu \notin ToDo(m, y)'
               \/ \E v \in updating' : v.node = m /\ v.x = y /\ v.mu = nu
        PROVE  OffNode(y, nu) \subseteq recorded_offsets[m]
    <3>1. y \in LocalSite
      BY DEF Active
    <3>2. CASE m = n /\ y = x /\ nu = mu
      BY <1>0, <2>3, <3>2 DEF ListInv
    <3>3. CASE ~(m = n /\ y = x /\ nu = mu)
      <4>1. nu \in ToDo(m, y)' <=> nu \in ToDo(m, y)
        BY <1>1, <1>7, <1>10, <3>1, <3>3, SameJob DEF ToDo
      <4>2. \/ nu \notin ToDo(m, y)
            \/ \E v \in updating : v.node = m /\ v.x = y /\ v.mu = nu
        BY <1>2, <2>3, <4>1
      <4> QED
        BY <2>3, <4>2 DEF ListInv
    <3> QED
      BY <3>2, <3>3
  <2> QED
    BY <1>1, <1>7, <2>1, <2>2, <2>3, SameJob DEF ListInv
<1>17. ThreadInv'
  <2>1. ASSUME NEW v \in updating'
        PROVE  /\ pc[v.node] = "sweep" /\ v.x \in Active(v.node) /\ v.node \in Node
               /\ v.mu \in ToDo(v.node, v.x)'
               /\ v.staple = GlobalStaple(job.ga, link', Global(v.node, v.x), v.mu)
               /\ v.seed = ugran_4d'[GeneratorPos(Global(v.node, v.x))]
    <3>0. v \in updating /\ v # u
      BY <1>2
    <3>1. PICK m \in Node, w \in LocalSite, nu \in Dir :
            m = v.node /\ w = v.x /\ nu = v.mu
      BY <3>0 DEF TypeInv
    <3>2. ~(m = n /\ w = x)
      BY <1>3, <3>0, <3>1
    <3>3. /\ pc[m] = "sweep" /\ w \in Active(m) /\ nu \in ToDo(m, w)
          /\ v.staple = GlobalStaple(job.ga, link, Global(m, w), nu)
          /\ v.seed = ugran_4d[GeneratorPos(Global(m, w))]
      BY <3>0, <3>1 DEF ThreadInv
    <3>4. nu \in ToDo(m, w)'
      BY <1>1, <1>7, <1>10, <3>2, <3>3, SameJob DEF ToDo
    <3>5. ASSUME NEW s \in Reads[job.ga][nu]
          PROVE  link'[<<Around(Global(m, w), s[1]), s[2]>>]
                   = link[<<Around(Global(m, w), s[1]), s[2]>>]
      <4>1. Around(Global(m, w), s[1]) = Global(m, Plus(w, s[1]))
        BY <1>4, LocalPair, ReadsOf, GlobalPlus
      <4>2. Global(m, Plus(w, s[1])) # Global(n, x)
        BY <1>3, <3>2, <3>3, NonInterference
      <4> QED
        BY <1>6, <4>1, <4>2
    <3>6. GlobalStaple(job.ga, link', Global(m, w), nu)
            = GlobalStaple(job.ga, link, Global(m, w), nu)
      <4>1. [s \in Reads[job.ga][nu] |-> link'[<<Around(Global(m, w), s[1]), s[2]>>]]
              = [s \in Reads[job.ga][nu] |-> link[<<Around(Global(m, w), s[1]), s[2]>>]]
        BY <3>5
      <4> QED
        BY <4>1 DEF GlobalStaple
    <3>7. GeneratorPos(Global(m, w)) # GeneratorPos(g)
      <4>1. SUFFICES ASSUME GeneratorPos(Global(m, w)) = GeneratorPos(g)
                     PROVE  FALSE
        OBVIOUS
      <4>2. m = n
        BY <1>4, <4>1, SameCubeNode
      <4>3. Colour(w) = Colour(x)
        BY <1>3, <3>3, <4>2 DEF Active
      <4> QED
        BY <1>4, <3>2, <4>1, <4>2, <4>3, SameCube
    <3>8. ugran_4d'[GeneratorPos(Global(m, w))] = ugran_4d[GeneratorPos(Global(m, w))]
      BY <1>6, <3>7
    <3>9. (nu \in ToDo(m, w))' <=> (nu \in ToDo(m, w)')
      OBVIOUS
    <3> QED
      BY <3>1, <3>3, <3>4, <3>6, <3>8
  <2>2. \A v, w \in updating' : w.node = v.node /\ w.x = v.x => w = v
    BY <1>2 DEF ThreadInv
  <2> QED
    BY <1>1, <1>7, <2>1, <2>2, SameJob DEF ThreadInv
<1> QED
  BY <1>8, <1>9, <1>11, <1>13, <1>14, <1>15, <1>16, <1>17

\* The end of a colour: all its links are updated, and the list is complete.
LEMMA EndColourStep ==
  ASSUME IInv, NEW n \in Node, EndColour(n)
  PROVE  IInv'
<1> USE DEF IInv
<1> DEFINE c == loop[n].colour
           last == c = NColour - 1
           done == last /\ loop[n].i = job.num_iter - 1
<1>1. /\ job' = job /\ link' = link /\ halo' = halo /\ ugran_4d' = ugran_4d
      /\ swept' = swept /\ updating' = updating /\ sent' = sent
  BY DEF EndColour
<1>2. pc[n] = "sweep" /\ \A x \in Active(n) : ToDo(n, x) = {}
  BY DEF EndColour
<1>3. /\ offsets_list' = [offsets_list EXCEPT ![n][c] =
           IF offsets_list_initialized[n] THEN @ ELSE recorded_offsets[n]]
      /\ record_offset' = [record_offset EXCEPT ![n] = FALSE]
      /\ recorded_offsets' = [recorded_offsets EXCEPT ![n] = {}]
      /\ offsets_list_initialized' = [offsets_list_initialized EXCEPT ![n] = @ \/ last]
      /\ loop' = [loop EXCEPT ![n] =
           IF done THEN @
           ELSE IF last THEN [@ EXCEPT !.i = loop[n].i + 1, !.colour = 0]
           ELSE [@ EXCEPT !.colour = loop[n].colour + 1]]
      /\ pc' = [pc EXCEPT ![n] = IF done THEN "ran" ELSE "refresh"]
  BY DEF EndColour
<1>4. /\ job \in Jobs /\ c \in 0..7 /\ loop[n].i \in Nat /\ loop[n].run \in Nat
      /\ job.num_iter \in Nat \ {0} /\ loop[n].i < job.num_iter
      /\ Iteration(n) \in Nat
      /\ loop[n] = [run |-> loop[n].run, i |-> loop[n].i, colour |-> c]
  BY Counters, HeatBathAssumption DEF TypeInv, LoopInv, LoopType, NColour
<1>5. /\ pc' \in [Node -> {"refresh", "fetch", "sweep", "ran"}]
      /\ pc'[n] = IF done THEN "ran" ELSE "refresh"
      /\ \A m \in Node : m # n => pc'[m] = pc[m] /\ loop'[m] = loop[m]
  BY <1>3 DEF TypeInv
<1>6. /\ done => loop'[n] = loop[n]
      /\ last /\ ~done => loop'[n] = [run |-> loop[n].run, i |-> loop[n].i + 1, colour |-> 0]
      /\ ~last => loop'[n] = [run |-> loop[n].run, i |-> loop[n].i, colour |-> c + 1]
  <2> DEFINE r == loop[n]
             after == IF done THEN r
                      ELSE IF last THEN [r EXCEPT !.i = @ + 1, !.colour = 0]
                      ELSE [r EXCEPT !.colour = @ + 1]
  <2> HIDE DEF done, last, c
  <2>1. loop \in [Node -> LoopType]
    BY DEF TypeInv
  <2>2. loop'[n] = after
    BY <1>3, <2>1
  <2> HIDE DEF after
  <2>3. r = [run |-> r.run, i |-> r.i, colour |-> c]
    BY <1>4
  <2>4. done => after = r
    BY DEF after
  <2>5. ~done /\ last => after = [run |-> r.run, i |-> r.i + 1, colour |-> 0]
    BY <2>3 DEF after
  <2>6. ~done /\ ~last => after = [run |-> r.run, i |-> r.i, colour |-> c + 1]
    BY <2>3 DEF after
  <2>7. done => last
    BY DEF done
  <2> QED
    BY <2>2, <2>4, <2>5, <2>6, <2>7
<1> HIDE DEF done
<1>7. loop' \in [Node -> LoopType]
  <2>1. loop'[n] \in LoopType
    <3>1. CASE done
      BY <1>6, <3>1 DEF TypeInv
    <3>2. CASE last /\ ~done
      BY <1>4, <1>6, <3>2 DEF LoopType, NColour
    <3>3. CASE ~last
      BY <1>4, <1>6, <3>3 DEF LoopType, NColour
    <3> QED
      BY <3>1, <3>2, <3>3
  <2> QED
    BY <1>3, <1>5, <2>1 DEF TypeInv
<1>8. /\ Node' = Node /\ LocalSite' = LocalSite
      /\ \A m \in Node : m # n => /\ Iteration(m)' = Iteration(m) /\ Round(m)' = Round(m)
                                  /\ Active(m)' = Active(m)
                                  /\ \A x : ToDo(m, x)' = ToDo(m, x)
  <2>1. \A m \in Node : m # n => Iteration(m)' = Iteration(m) /\ Round(m)' = Round(m)
    BY <1>1, <1>5 DEF Iteration, Round
  <2> QED
    BY <1>1, <1>5, <2>1, SameJob DEF Active, ToDo
<1>9. /\ done => Iteration(n)' = Iteration(n) /\ Round(n)' = Round(n)
      /\ last /\ ~done => Iteration(n)' = Iteration(n) + 1 /\ Round(n)' = Round(n) + 1
      /\ ~last => Iteration(n)' = Iteration(n) /\ Round(n)' = Round(n) + 1
  <2> DEFINE k == loop[n].run * job.num_iter
  <2>1. k \in Nat
    BY <1>4, MulNat
  <2>2. Iteration(n) = k + loop[n].i /\ Round(n) = Iteration(n) * 8 + c
    BY DEF Iteration, Round, NColour
  <2>3. /\ Iteration(n)' = loop'[n].run * job.num_iter + loop'[n].i
        /\ Round(n)' = Iteration(n)' * 8 + loop'[n].colour
    BY <1>1 DEF Iteration, Round, NColour
  <2>4. CASE done
    BY <1>6, <2>2, <2>3, <2>4 DEF done
  <2>5. CASE last /\ ~done
    <3>1. /\ loop'[n].run = loop[n].run /\ loop'[n].i = loop[n].i + 1
          /\ loop'[n].colour = 0
      BY <1>6, <2>5
    <3>2. Iteration(n)' = k + (loop[n].i + 1)
      BY <2>3, <3>1
    <3>3. Iteration(n)' = Iteration(n) + 1
      <4> HIDE DEF k
      <4> QED
        BY <1>4, <2>1, <2>2, <3>2
    <3>4. Round(n) = Iteration(n) * 8 + 7 /\ Round(n)' = (Iteration(n) + 1) * 8 + 0
      BY <2>2, <2>3, <2>5, <3>1, <3>3 DEF NColour
    <3> QED
      BY <1>4, <2>5, <3>3, <3>4 DEF done
  <2>6. CASE ~last
    <3>1. /\ loop'[n].run = loop[n].run /\ loop'[n].i = loop[n].i
          /\ loop'[n].colour = c + 1
      BY <1>6, <2>6
    <3>2. Iteration(n)' = Iteration(n)
      BY <2>2, <2>3, <3>1
    <3>3. Round(n)' = Iteration(n) * 8 + (c + 1)
      BY <2>3, <3>1, <3>2
    <3> QED
      BY <1>4, <2>2, <2>6, <3>2, <3>3 DEF done
  <2> QED
    BY <2>4, <2>5, <2>6
<1>10. loop'[n].colour = IF done THEN c ELSE IF last THEN 0 ELSE c + 1
  BY <1>6 DEF done
<1>11. TypeInv'
  <2>1. /\ record_offset' \in [Node -> BOOLEAN]
        /\ recorded_offsets' \in [Node -> SUBSET Offset]
        /\ offsets_list_initialized' \in [Node -> BOOLEAN]
    BY <1>3 DEF TypeInv
  <2>2. offsets_list' \in [Node -> [0..(NColour - 1) -> SUBSET Offset]]
    <3>1. offsets_list[n] \in [0..(NColour - 1) -> SUBSET Offset]
      BY DEF TypeInv
    <3>2. recorded_offsets[n] \in SUBSET Offset
      BY DEF TypeInv
    <3> QED
      BY <1>3, <3>1, <3>2 DEF TypeInv
  <2> QED
    BY <1>1, <1>5, <1>7, <1>8, <2>1, <2>2, SameJob DEF TypeInv
<1>12. \A m \in Node : Entered(m)' = Entered(m)
  <2>1. Entered(n)' = Entered(n)
    <3>1. Entered(n) = Round(n) + 1
      BY <1>2 DEF Entered
    <3>2. CASE done
      BY <1>5, <1>9, <3>1, <3>2 DEF Entered
    <3>3. CASE ~done
      <4>1. Round(n)' = Round(n) + 1
        BY <1>9, <3>3
      <4>2. Round(n)' \in Int
        BY <4>1, Counters
      <4> QED
        BY <1>5, <3>1, <3>3, <4>1, <4>2 DEF Entered
    <3> QED
      BY <3>2, <3>3
  <2>2. \A m \in Node : m # n => Entered(m)' = Entered(m)
    BY <1>5, <1>8 DEF Entered
  <2> QED
    BY <2>1, <2>2
<1>13. \A m \in Node : Entered(m)' \in Int /\ Entered(m)' >= Entered(m)
  BY <1>12, Counters
<1>14. \A m \in Node : \A r \in Int : Awaits(m, r)' => Awaits(m, r)
  <2>1. ASSUME NEW r \in Int, Awaits(n, r)'
        PROVE  Awaits(n, r)
    <3>1. CASE done
      BY <1>5, <1>9, <2>1, <3>1 DEF Awaits
    <3>2. CASE ~done
      <4>1. Round(n)' = Round(n) + 1 /\ Round(n)' <= r
        BY <1>9, <2>1, <3>2, Counters DEF Awaits
      <4>2. Round(n) < r
        BY <4>1, Counters
      <4> QED
        BY <4>2 DEF Awaits
    <3> QED
      BY <3>1, <3>2
  <2> QED
    BY <1>5, <1>8, <2>1 DEF Awaits
<1>15. SentInv' /\ WireInv'
  BY <1>1, <1>13, <1>14, QuietSent, QuietWire
<1>16. \A m \in Node : pc'[m] = "sweep" => pc[m] = "sweep" /\ m # n /\ loop'[m] = loop[m]
  BY <1>5
<1>17. ReadyInv' /\ HaloInv'
  BY <1>1, <1>13, <1>16, QuietReady, QuietHalo
<1>18. LoopInv'
  <2>1. offsets_list_initialized'[n] <=> (offsets_list_initialized[n] \/ last)
    BY <1>3 DEF TypeInv
  <2>2. \A m \in Node : m # n => offsets_list_initialized'[m] = offsets_list_initialized[m]
    BY <1>3 DEF TypeInv
  <2>3. /\ loop'[n].i < job.num_iter
        /\ pc'[n] = "ran" => /\ loop'[n].i = job.num_iter - 1
                             /\ loop'[n].colour = NColour - 1
                             /\ offsets_list_initialized'[n]
    <3>1. CASE done
      BY <1>4, <1>6, <2>1, <3>1 DEF done
    <3>2. CASE last /\ ~done
      BY <1>4, <1>5, <1>6, <3>2 DEF done
    <3>3. CASE ~last
      BY <1>4, <1>5, <1>6, <3>3 DEF done
    <3> QED
      BY <3>1, <3>2, <3>3
  <2> QED
    BY <1>1, <1>5, <1>8, <2>2, <2>3 DEF LoopInv
<1>19. \A x \in LocalSite, mu \in Dir :
         /\ Colour(x) <= c => swept[<<Global(n, x), mu>>] = Iteration(n) + 1
         /\ Colour(x) > c => swept[<<Global(n, x), mu>>] = Iteration(n)
  <2>1. ASSUME NEW x \in LocalSite, NEW mu \in Dir
        PROVE  /\ Colour(x) <= c => swept[<<Global(n, x), mu>>] = Iteration(n) + 1
               /\ Colour(x) > c => swept[<<Global(n, x), mu>>] = Iteration(n)
    <3>1. Colour(x) \in 0..7
      BY <1>4, ColourRange DEF NColour
    <3>2. CASE Colour(x) # c
      BY <1>2, <1>4, <3>1, <3>2 DEF SweptInv
    <3>3. CASE Colour(x) = c
      <4>1. mu \notin ToDo(n, x)
        BY <1>2, <3>3 DEF Active
      <4>2. ~(swept[<<Global(n, x), mu>>] <= Iteration(n))
        BY <4>1 DEF ToDo
      <4>3. \/ swept[<<Global(n, x), mu>>] = Iteration(n)
            \/ swept[<<Global(n, x), mu>>] = Iteration(n) + 1
        BY DEF SweptInv
      <4> QED
        BY <1>4, <3>3, <4>2, <4>3
    <3> QED
      BY <3>2, <3>3
  <2> QED
    BY <2>1
<1>20. SweptInv'
  <2>1. ASSUME NEW x \in LocalSite, NEW mu \in Dir,
               NEW s, s = swept[<<Global(n, x), mu>>]
        PROVE  /\ s = Iteration(n)' \/ s = Iteration(n)' + 1
               /\ pc'[n] = "ran" \/ Colour(x) < loop'[n].colour => s = Iteration(n)' + 1
               /\ pc'[n] # "ran" /\ Colour(x) > loop'[n].colour => s = Iteration(n)'
               /\ pc'[n] \in {"refresh", "fetch"} /\ Colour(x) = loop'[n].colour
                    => s = Iteration(n)'
    <3>1. Colour(x) \in 0..7
      BY <1>4, ColourRange DEF NColour
    <3>2. CASE done
      <4>1. c = 7 /\ pc'[n] = "ran" /\ Iteration(n)' = Iteration(n)
        BY <1>5, <1>9, <3>2 DEF done, NColour
      <4> QED
        BY <1>4, <1>19, <2>1, <3>1, <4>1
    <3>3. CASE last /\ ~done
      <4>1. /\ c = 7 /\ pc'[n] = "refresh" /\ Iteration(n)' = Iteration(n) + 1
            /\ loop'[n].colour = 0
        BY <1>5, <1>9, <1>10, <3>3 DEF NColour
      <4> QED
        BY <1>4, <1>19, <2>1, <3>1, <4>1
    <3>4. CASE ~last
      <4>1. /\ pc'[n] = "refresh" /\ Iteration(n)' = Iteration(n)
            /\ loop'[n].colour = c + 1
        BY <1>5, <1>9, <1>10, <3>4 DEF done
      <4> QED
        BY <1>4, <1>19, <2>1, <3>1, <4>1
    <3> QED
      BY <3>2, <3>3, <3>4
  <2>2. ASSUME NEW m \in Node, m # n, NEW x \in LocalSite, NEW mu \in Dir,
               NEW s, s = swept[<<Global(m, x), mu>>]
        PROVE  /\ s = Iteration(m)' \/ s = Iteration(m)' + 1
               /\ pc'[m] = "ran" \/ Colour(x) < loop'[m].colour => s = Iteration(m)' + 1
               /\ pc'[m] # "ran" /\ Colour(x) > loop'[m].colour => s = Iteration(m)'
               /\ pc'[m] \in {"refresh", "fetch"} /\ Colour(x) = loop'[m].colour
                    => s = Iteration(m)'
    BY <1>5, <1>8, <2>2 DEF SweptInv
  <2> QED
    BY <1>1, <1>8, <2>1, <2>2, SameJob DEF SweptInv
<1>21. ListInv'
  <2>1. /\ offsets_list_initialized'[n] <=> (offsets_list_initialized[n] \/ last)
        /\ \A m \in Node : m # n =>
             /\ offsets_list_initialized'[m] = offsets_list_initialized[m]
             /\ offsets_list'[m] = offsets_list[m]
             /\ record_offset'[m] = record_offset[m]
             /\ recorded_offsets'[m] = recorded_offsets[m]
    BY <1>3 DEF TypeInv
  <2>2. /\ offsets_list'[n][c] = IF offsets_list_initialized[n] THEN offsets_list[n][c]
                                 ELSE recorded_offsets[n]
        /\ \A e \in 0..7 : e # c => offsets_list'[n][e] = offsets_list[n][e]
    <3>1. offsets_list[n] \in [0..7 -> SUBSET Offset]
      BY DEF TypeInv, NColour
    <3>2. offsets_list'[n] = [offsets_list[n] EXCEPT ![c] =
            IF offsets_list_initialized[n] THEN @ ELSE recorded_offsets[n]]
      BY <1>3 DEF TypeInv
    <3> QED
      BY <1>4, <3>1, <3>2
  <2>3. ASSUME NEW x \in LocalSite, NEW mu \in Dir,
               offsets_list_initialized'[n] \/ Colour(x) < loop'[n].colour
        PROVE  OffNode(x, mu) \subseteq offsets_list'[n][Colour(x)]
    <3>1. Colour(x) \in 0..7
      BY <1>4, ColourRange DEF NColour
    <3>2. CASE offsets_list_initialized[n]
      BY <2>2, <3>1, <3>2 DEF ListInv
    <3>3. CASE ~offsets_list_initialized[n]
      <4>1. Colour(x) <= c
        BY <1>4, <1>10, <2>1, <2>3, <3>1, <3>3 DEF done, NColour
      <4>2. CASE Colour(x) = c
        <5>1. mu \notin ToDo(n, x) /\ x \in Active(n)
          BY <1>2, <4>2 DEF Active
        <5>2. OffNode(x, mu) \subseteq recorded_offsets[n]
          BY <1>2, <3>3, <5>1 DEF ListInv
        <5> QED
          BY <2>2, <3>3, <4>2, <5>2
      <4>3. CASE Colour(x) # c
        <5>1. Colour(x) < c
          BY <1>4, <3>1, <4>1, <4>3
        <5>2. OffNode(x, mu) \subseteq offsets_list[n][Colour(x)]
          BY <5>1 DEF ListInv
        <5> QED
          BY <2>2, <3>1, <4>3, <5>2
      <4> QED
        BY <4>2, <4>3
    <3> QED
      BY <3>2, <3>3
  <2>4. ASSUME NEW m \in Node, m # n, NEW x \in LocalSite, NEW mu \in Dir,
               offsets_list_initialized'[m] \/ Colour(x) < loop'[m].colour
        PROVE  OffNode(x, mu) \subseteq offsets_list'[m][Colour(x)]
    BY <1>5, <2>1, <2>4 DEF ListInv
  <2>5. ASSUME NEW m \in Node, pc'[m] = "sweep", ~offsets_list_initialized'[m]
        PROVE  /\ record_offset'[m]
               /\ \A x \in Active(m)', mu \in Dir :
                    \/ mu \notin ToDo(m, x)'
                    \/ \E u \in updating : u.node = m /\ u.x = x /\ u.mu = mu
                    => OffNode(x, mu) \subseteq recorded_offsets'[m]
    <3>1. m # n /\ pc[m] = "sweep" /\ ~offsets_list_initialized[m]
      BY <1>16, <2>1, <2>5
    <3> QED
      BY <1>8, <2>1, <3>1 DEF ListInv
  <2> QED
    BY <1>1, <1>8, <2>3, <2>4, <2>5, SameJob DEF ListInv
<1>22. ThreadInv'
  <2>1. \A u \in updating : pc'[u.node] = "sweep" /\ loop'[u.node] = loop[u.node]
    <3>1. ASSUME NEW u \in updating
          PROVE  pc'[u.node] = "sweep" /\ loop'[u.node] = loop[u.node]
      <4>1. u.node \in Node /\ pc[u.node] = "sweep" /\ u.mu \in ToDo(u.node, u.x)
            /\ u.x \in Active(u.node)
        BY DEF ThreadInv, TypeInv
      <4>2. u.node # n
        BY <1>2, <4>1
      <4> QED
        BY <1>5, <4>1, <4>2
    <3> QED
      BY <3>1
  <2> QED
    BY <1>1, <2>1, QuietThread
<1> QED
  BY <1>11, <1>15, <1>17, <1>18, <1>20, <1>21, <1>22

\* A new run starts like the first, with the lists of the last.
LEMMA NewRunStep ==
  ASSUME IInv, NEW n \in Node, NewRun(n)
  PROVE  IInv'
<1> USE DEF IInv
<1>1. /\ job' = job /\ link' = link /\ ugran_4d' = ugran_4d /\ swept' = swept
      /\ updating' = updating /\ sent' = sent /\ offsets_list' = offsets_list
      /\ offsets_list_initialized' = offsets_list_initialized
  BY DEF NewRun, offsets
<1>2. /\ pc[n] = "ran"
      /\ halo' = [halo EXCEPT ![n] = [o \in HaloLink |-> Unset]]
      /\ record_offset' = [record_offset EXCEPT ![n] = FALSE]
      /\ recorded_offsets' = [recorded_offsets EXCEPT ![n] = {}]
      /\ loop' = [loop EXCEPT ![n] = [run |-> @.run + 1, i |-> 0, colour |-> 0]]
      /\ pc' = [pc EXCEPT ![n] = "refresh"]
  BY DEF NewRun
<1>3. /\ job \in Jobs /\ loop[n].run \in Nat /\ job.num_iter \in Nat \ {0}
      /\ loop[n].i = job.num_iter - 1 /\ loop[n].colour = 7
      /\ offsets_list_initialized[n] /\ Iteration(n) \in Nat /\ Round(n) \in Nat
  BY <1>2, Counters, HeatBathAssumption DEF TypeInv, LoopInv, LoopType, NColour
<1>4. /\ loop'[n] = [run |-> loop[n].run + 1, i |-> 0, colour |-> 0]
      /\ pc' \in [Node -> {"refresh", "fetch", "sweep", "ran"}] /\ pc'[n] = "refresh"
      /\ \A m \in Node : m # n => /\ pc'[m] = pc[m] /\ loop'[m] = loop[m]
                                  /\ halo'[m] = halo[m]
                                  /\ record_offset'[m] = record_offset[m]
                                  /\ recorded_offsets'[m] = recorded_offsets[m]
  BY <1>2 DEF TypeInv
<1>5. loop' \in [Node -> LoopType]
  <2>1. [run |-> loop[n].run + 1, i |-> 0, colour |-> 0] \in LoopType
    BY <1>3 DEF LoopType, NColour
  <2> QED
    BY <1>2, <2>1 DEF TypeInv
<1>6. /\ Node' = Node /\ LocalSite' = LocalSite
      /\ \A m \in Node : m # n => /\ Iteration(m)' = Iteration(m) /\ Round(m)' = Round(m)
                                  /\ Active(m)' = Active(m)
                                  /\ \A x : ToDo(m, x)' = ToDo(m, x)
  <2>1. \A m \in Node : m # n => Iteration(m)' = Iteration(m) /\ Round(m)' = Round(m)
    BY <1>1, <1>4 DEF Iteration, Round
  <2> QED
    BY <1>1, <1>4, <2>1, SameJob DEF Active, ToDo
<1>7. Iteration(n)' = Iteration(n) + 1 /\ Round(n)' = Round(n) + 1
  <2> DEFINE a == loop[n].run  b == job.num_iter
  <2>1. Iteration(n) = a * b + (b - 1)
    BY <1>3 DEF Iteration
  <2>2. Iteration(n)' = (a + 1) * b + 0
    BY <1>1, <1>4 DEF Iteration
  <2>3. (a + 1) * b = a * b + b
    <3>1. a \in Nat /\ b \in Nat
      BY <1>3
    <3> HIDE DEF a, b
    <3> QED
      BY <3>1
  <2>4. a * b \in Nat /\ b \in Nat
    BY <1>3, MulNat
  <2> DEFINE c == a * b
  <2>5. Iteration(n) = c + (b - 1) /\ Iteration(n)' = (c + b) + 0 /\ c \in Nat /\ b \in Nat
    BY <2>1, <2>2, <2>3, <2>4
  <2> HIDE DEF a, b, c
  <2>6. Iteration(n)' = Iteration(n) + 1
    BY <2>5
  <2>7. Round(n) = Iteration(n) * 8 + 7
    BY <1>3 DEF Round, NColour
  <2>8. Round(n)' = Iteration(n)' * 8 + 0
    BY <1>4 DEF Round, NColour
  <2> QED
    BY <1>3, <2>6, <2>7, <2>8
<1>8. TypeInv'
  <2>1. /\ record_offset' \in [Node -> BOOLEAN]
        /\ recorded_offsets' \in [Node -> SUBSET Offset]
        /\ halo' = [m \in Node |-> halo'[m]]
    BY <1>2 DEF TypeInv
  <2> QED
    BY <1>1, <1>4, <1>5, <1>6, <2>1, SameJob DEF TypeInv
<1>9. \A m \in Node : Entered(m)' = Entered(m)
  <2>1. Entered(n)' = Entered(n)
    <3>1. Entered(n) = Round(n) + 1
      BY <1>2 DEF Entered
    <3>2. Entered(n)' = Round(n)' + 0
      BY <1>4 DEF Entered
    <3> QED
      BY <1>3, <1>7, <3>1, <3>2
  <2>2. \A m \in Node : m # n => Entered(m)' = Entered(m)
    BY <1>4, <1>6 DEF Entered
  <2> QED
    BY <2>1, <2>2
<1>10. \A m \in Node : Entered(m)' \in Int /\ Entered(m)' >= Entered(m)
  BY <1>9, Counters
<1>11. \A m \in Node : \A r \in Int : Awaits(m, r)' => Awaits(m, r)
  <2>1. ASSUME NEW r \in Int, Awaits(n, r)'
        PROVE  Awaits(n, r)
    <3>1. Round(n)' = Round(n) + 1 /\ Round(n)' <= r
      BY <1>3, <1>7, <2>1 DEF Awaits
    <3>2. Round(n) < r
      BY <1>3, <3>1
    <3> QED
      BY <3>2 DEF Awaits
  <2> QED
    BY <1>4, <1>6, <2>1 DEF Awaits
<1>12. SentInv' /\ WireInv'
  BY <1>1, <1>10, <1>11, QuietSent, QuietWire
<1>13. \A m \in Node : pc'[m] = "sweep" =>
         pc[m] = "sweep" /\ m # n /\ loop'[m] = loop[m] /\ halo'[m] = halo[m]
  BY <1>4
<1>14. ReadyInv' /\ HaloInv'
  BY <1>1, <1>10, <1>13, QuietReady, QuietHalo
<1>15. LoopInv'
  BY <1>1, <1>3, <1>4, <1>6 DEF LoopInv
<1>16. SweptInv'
  <2>1. \A x \in LocalSite, mu \in Dir :
          /\ swept[<<Global(n, x), mu>>] = Iteration(n)'
          /\ ~(Colour(x) < loop'[n].colour)
    BY <1>2, <1>3, <1>4, <1>7, ColourRange DEF SweptInv, NColour
  <2>2. \A m \in Node : m # n => pc'[m] = pc[m] /\ loop'[m] = loop[m]
    BY <1>4
  <2> QED
    BY <1>1, <1>4, <1>6, <2>1, <2>2, SameJob DEF SweptInv
<1>17. ListInv'
  <2>1. ASSUME NEW m \in Node, NEW x \in LocalSite, NEW mu \in Dir,
               offsets_list_initialized[m] \/ Colour(x) < loop'[m].colour
        PROVE  OffNode(x, mu) \subseteq offsets_list[m][Colour(x)]
    BY <1>3, <1>4, <2>1 DEF ListInv
  <2>2. ASSUME NEW m \in Node, pc'[m] = "sweep", ~offsets_list_initialized[m]
        PROVE  /\ record_offset'[m]
               /\ \A x \in Active(m)', mu \in Dir :
                    \/ mu \notin ToDo(m, x)'
                    \/ \E u \in updating : u.node = m /\ u.x = x /\ u.mu = mu
                    => OffNode(x, mu) \subseteq recorded_offsets'[m]
    <3>1. m # n /\ pc[m] = "sweep"
      BY <1>13, <2>2
    <3> QED
      BY <1>4, <1>6, <2>2, <3>1 DEF ListInv
  <2> QED
    BY <1>1, <1>6, <2>1, <2>2, SameJob DEF ListInv
<1>18. ThreadInv'
  <2>1. \A u \in updating : pc'[u.node] = "sweep" /\ loop'[u.node] = loop[u.node]
    BY <1>2, <1>4 DEF ThreadInv, TypeInv
  <2> QED
    BY <1>1, <2>1, QuietThread
<1> QED
  BY <1>8, <1>12, <1>14, <1>15, <1>16, <1>17, <1>18

\* Every link belongs to a node.
LEMMA SiteOwned ==
  ASSUME job \in Jobs, NEW g \in Site
  PROVE  \E m \in Node, w \in LocalSite : Global(m, w) = g
<1> DEFINE o == <<0, 0>>
<1>1. o \in Node
  BY HeatBathAssumption DEF Node, Dir
<1>2. g \in Int \X Int /\ \A i \in Dir : g[i] \in 0..(L[i] - 1)
  BY HeatBathAssumption DEF Site, Dir
<1>3. \A i \in Dir : Global(o, g)[i] = g[i]
  <2>1. ASSUME NEW i \in Dir
        PROVE  Global(o, g)[i] = g[i]
    <3> DEFINE s == NodeSites(i)  a == g[i]  c == L[i]
    <3>1. s \in Nat /\ c \in Nat \ {0} /\ a \in 0..(c - 1)
      BY <1>2, Sizes
    <3>2. Global(o, g)[i] = (o[i] * s + a) % c /\ o[i] = 0
      BY DEF Global, Dir
    <3> HIDE DEF o, s, a, c
    <3>3. Global(o, g)[i] = (0 * s + a) % c
      BY <3>2
    <3>4. 0 * s + a = a /\ a % c = a
      BY <3>1
    <3> QED
      BY <3>3, <3>4 DEF a
  <2> QED
    BY <2>1
<1>4. Global(o, g) \in Site
  BY <1>1, <1>2, GlobalSite
<1> HIDE DEF o
<1>5. Global(o, g) = g
  BY <1>2, <1>3, <1>4 DEF Site, Dir
<1>6. /\ Owner(o, g) \in Node /\ HomeSite(g) \in LocalSite
      /\ Global(Owner(o, g), HomeSite(g)) = g
  BY <1>1, <1>2, <1>5, GlobalSite, HomeOf
<1> QED
  BY <1>6

\* A link is not updated again before those its staple reads, and those that
\* share its generator, had their turn.
LEMMA Turns ==
  ASSUME IInv, NEW n \in Node, NEW x \in LocalSite, NEW mu \in Dir,
         pc[n] = "sweep", x \in Active(n), mu \in ToDo(n, x),
         NEW k \in NearLink(job.ga, <<Global(n, x), mu>>)
  PROVE  swept[<<Global(n, x), mu>>] <= swept[k]
<1> USE DEF IInv
<1> DEFINE l == <<Global(n, x), mu>>
<1>1. swept[l] = Iteration(n) /\ Iteration(n) \in Nat /\ job \in Jobs
  BY Counters DEF ToDo, SweptInv, TypeInv
<1>2. \A p \in Node, h \in LocalSite, nu \in Dir :
        swept[<<Global(p, h), nu>>] \in Int /\ swept[<<Global(p, h), nu>>] >= Iteration(p)
  BY Counters DEF SweptInv
<1>3. CASE \E r \in Reads[job.ga][mu] : k = <<Around(Global(n, x), r[1]), r[2]>>
  <2>1. PICK r \in Reads[job.ga][mu] : k = <<Around(Global(n, x), r[1]), r[2]>>
    BY <1>3
  <2>2. /\ x \in Int \X Int /\ r[1] \in Int \X Int /\ r[2] \in Dir
        /\ Plus(x, r[1]) \in Int \X Int
    BY <1>1, LocalPair, ReadsOf
  <2>3. k = <<Global(n, Plus(x, r[1])), r[2]>>
    BY <1>1, <2>1, <2>2, GlobalPlus
  <2>4. PICK p \in Node : p = Owner(n, Plus(x, r[1]))
    BY <1>1, <2>2, GlobalSite
  <2>5. PICK h \in LocalSite : Global(p, h) = Global(n, Plus(x, r[1]))
    BY <1>1, <2>2, <2>4, HomeOf
  <2>6. Entered(p) > Round(n)
    BY <2>4 DEF ReadyInv
  <2>7. Round(p) >= Round(n)
    BY <2>6, Counters DEF Entered
  <2>8. Iteration(p) >= Iteration(n)
    <3> DEFINE a == Iteration(p)  b == Iteration(n)
               c == loop[p].colour  d == loop[n].colour
    <3>1. /\ a \in Nat /\ b \in Nat /\ c \in 0..7 /\ d \in 0..7
          /\ Round(p) = a * 8 + c /\ Round(n) = b * 8 + d
      BY Counters DEF NColour
    <3> HIDE DEF a, b, c, d
    <3>2. a * 8 + c >= b * 8 + d
      BY <2>7, <3>1
    <3>3. a >= b
      BY <3>1, <3>2
    <3> QED
      BY <3>3 DEF a, b
  <2> QED
    BY <1>1, <1>2, <2>2, <2>3, <2>5, <2>8, Counters
<1>4. CASE k \in Link /\ GeneratorPos(k[1]) = GeneratorPos(Global(n, x))
  <2>1. k[1] \in Site /\ k[2] \in Dir /\ k = <<k[1], k[2]>>
    BY <1>4 DEF Link
  <2>2. PICK p \in Node, h \in LocalSite : Global(p, h) = k[1]
    BY <1>1, <2>1, SiteOwned
  <2>3. p = n
    BY <1>1, <1>4, <2>2, SameCubeNode
  <2> QED
    BY <1>1, <1>2, <2>1, <2>2, <2>3
<1> QED
  BY <1>3, <1>4 DEF NearLink

\* The state the abstract sweep is about.
swept_vars == <<job.ga, link, ugran_4d, swept>>

\* An update of a link is one of the abstract sweep.
LEMMA UpdateIsUpdate ==
  ASSUME IInv, NEW u \in updating, UpdateLink(u)
  PROVE  Sweeps!Next
<1> USE DEF IInv
<1>0. PICK n \in Node, x \in LocalSite, mu \in Dir : n = u.node /\ x = u.x /\ mu = u.mu
  BY DEF TypeInv
<1> DEFINE g == Global(n, x)  q == GeneratorPos(g)
<1>1. PICK l : l = <<g, mu>>
  OBVIOUS
<1>2. l \in Link /\ l[1] = g /\ l[2] = mu /\ job \in Jobs
  BY <1>1, LinkOf DEF TypeInv
<1>3. /\ job' = job
      /\ link' = [link EXCEPT ![l] = NewLink(link[l], u.staple, u.seed)]
      /\ ugran_4d' = [ugran_4d EXCEPT ![q] = Draw(u.seed)]
      /\ swept' = [swept EXCEPT ![l] = swept[l] + 1]
  BY <1>0, <1>1 DEF UpdateLink
<1>4. /\ pc[n] = "sweep" /\ x \in Active(n) /\ mu \in ToDo(n, x)
      /\ u.staple = GlobalStaple(job.ga, link, g, mu) /\ u.seed = ugran_4d[q]
  BY <1>0 DEF ThreadInv
<1>5. \A k \in NearLink(job.ga, l) : swept[l] <= swept[k]
  BY <1>1, <1>4, Turns
<1>6. swept'[l] # swept[l]
  <2>1. swept[l] \in Nat
    BY <1>2 DEF TypeInv
  <2>2. swept'[l] = swept[l] + 1
    BY <1>2, <1>3 DEF TypeInv
  <2> QED
    BY <2>1, <2>2
<1>7. [k \in Link |-> GeneratorPos(k[1])][l] = q
  BY <1>2
<1>8. link' = [link EXCEPT ![l] = HeatBathOfLink(job.ga, link, ugran_4d[q], l)]
  BY <1>2, <1>3, <1>4 DEF HeatBathOfLink
<1>9. ugran_4d' = [ugran_4d EXCEPT ![q] = Draw(ugran_4d[q])]
  BY <1>3, <1>4
<1>10. Sweeps!Update(l)
  BY <1>3, <1>5, <1>6, <1>7, <1>8, <1>9 DEF Sweeps!Update
<1> QED
  BY <1>2, <1>10 DEF Sweeps!Next

\* One step: the invariant stays, and the sweep takes a step or none.
LEMMA NextStep ==
  ASSUME IInv, [Next]_vars
  PROVE  IInv' /\ [Sweeps!Next]_(Sweeps!vars)
<1>1. ASSUME NEW n \in Node, SendLinks(n) \/ FetchLinks(n) \/ EndColour(n) \/ NewRun(n)
      PROVE  IInv' /\ UNCHANGED Sweeps!vars
  <2>1. UNCHANGED swept_vars
    BY <1>1 DEF SendLinks, FetchLinks, EndColour, NewRun, swept_vars
  <2> QED
    BY <1>1, <2>1, SendLinksStep, FetchLinksStep, EndColourStep, NewRunStep
       DEF swept_vars, Sweeps!vars
<1>2. ASSUME NEW n \in Node, NEW x \in LocalSite, GetStaple(n, x)
      PROVE  IInv' /\ UNCHANGED Sweeps!vars
  BY <1>2, GetStapleStep DEF GetStaple, Sweeps!vars
<1>3. ASSUME NEW u \in updating, UpdateLink(u)
      PROVE  IInv' /\ Sweeps!Next
  BY <1>3, UpdateLinkStep, UpdateIsUpdate
<1>4. CASE UNCHANGED vars
  <2>1. /\ job' = job /\ link' = link /\ halo' = halo /\ ugran_4d' = ugran_4d
        /\ swept' = swept /\ updating' = updating /\ pc' = pc /\ loop' = loop
        /\ recorded_offsets' = recorded_offsets /\ record_offset' = record_offset
        /\ offsets_list' = offsets_list
        /\ offsets_list_initialized' = offsets_list_initialized /\ sent' = sent
    BY <1>4 DEF vars
  <2>2. /\ \A n : Iteration(n)' = Iteration(n) /\ Round(n)' = Round(n)
        /\ \A n : Entered(n)' = Entered(n) /\ Active(n)' = Active(n)
        /\ \A n, x : ToDo(n, x)' = ToDo(n, x)
        /\ \A n, r : Awaits(n, r)' <=> Awaits(n, r)
    <3>1. \A n : Iteration(n)' = Iteration(n) /\ Round(n)' = Round(n)
      BY <2>1 DEF Iteration, Round
    <3> QED
      BY <2>1, <3>1, SameJob DEF Entered, Active, ToDo, Awaits
  <2>3. \A n \in Node : Entered(n)' \in Int /\ Entered(n)' >= Entered(n)
    BY <2>2, Counters DEF IInv
  <2>4. TypeInv' /\ LoopInv' /\ SweptInv'
    BY <2>1, <2>2, SameJob DEF IInv, TypeInv, LoopInv, SweptInv
  <2>5. SentInv' /\ WireInv' /\ ReadyInv' /\ HaloInv'
    BY <2>1, <2>2, <2>3, QuietSent, QuietWire, QuietReady, QuietHalo DEF IInv
  <2>6. ListInv'
    BY <2>1, <2>2, SameJob DEF IInv, ListInv
  <2>7. ThreadInv'
    BY <2>1, QuietThread DEF IInv, ThreadInv
  <2> QED
    BY <2>1, <2>4, <2>5, <2>6, <2>7 DEF IInv, Sweeps!vars
<1> QED
  BY <1>1, <1>2, <1>3, <1>4 DEF Next

\* Halo, offset lists, threads and generators in order, in every reachable
\* state of every job on every machine.
THEOREM SweepInvariant == Spec => []IInv
<1>1. Init => IInv
  BY InitStep
<1>2. IInv /\ [Next]_vars => IInv'
  BY NextStep
<1> QED
  BY <1>1, <1>2, PTL DEF Spec

\* Whatever the number of nodes and threads and however they interleave, the
\* heat bath updates the links one after the other, each from the links and
\* the generator as they are then, sweep by sweep (ghb.C: GheatBath::run with
\* fetch_links, record_offset and the parallel loop over a colour).
THEOREM SweepImplemented == Spec => ImplementsSweep
<1>1. Init => Sweeps!Init
  BY DEF Init, Sweeps!Init
<1>2. IInv /\ [Next]_vars => [Sweeps!Next]_(Sweeps!vars)
  BY NextStep
<1> QED
  BY <1>1, <1>2, SweepInvariant, PTL DEF Spec, ImplementsSweep, Sweeps!Spec
=============================================================================
