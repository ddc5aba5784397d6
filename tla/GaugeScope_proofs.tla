-------------------------- MODULE GaugeScope_proofs --------------------------
(***************************************************************************)
(* Whatever the lattice, the boundary and the order in which objects come  *)
(* and go, every object finds the gauge field as it needs it.  The proof   *)
(* has three parts: that each storage order keeps every link at a place of *)
(* its own, so that a conversion loses nothing; what BondCond, MltFloat    *)
(* and Convert do to the field as the program sees it; and what is known   *)
(* about the field and the static variables while given objects exist.     *)
(***************************************************************************)
EXTENDS GaugeScope, SequenceTheorems, TLAPS

-----------------------------------------------------------------------------
(* Arithmetic of offsets *)

\* A number to base N has one last digit.
LEMMA Digits ==
  ASSUME NEW N \in Nat, N > 0,
         NEW a \in 0..(N - 1), NEW b \in 0..(N - 1),
         NEW c \in Int, NEW d \in Int, a + N * c = b + N * d
  PROVE  a = b /\ c = d
<1>1. N * (d - c) = a - b
  OBVIOUS
<1>2. CASE c < d
  <2>1. d - c >= 1
    BY <1>2
  <2>2. N * (d - c) >= N
    BY <2>1
  <2> QED
    BY <1>1, <2>2
<1>3. CASE d < c
  <2>1. c - d >= 1
    BY <1>3
  <2>2. N * (c - d) >= N
    BY <2>1
  <2>3. N * (c - d) = b - a
    BY <1>1
  <2> QED
    BY <2>2, <2>3
<1>4. CASE c = d
  BY <1>4
<1> QED
  BY <1>2, <1>3, <1>4

\* Two digits make a number below the product of the bases.
LEMMA TwoDigits ==
  ASSUME NEW N \in Nat, NEW M \in Nat,
         NEW a \in 0..(N - 1), NEW c \in 0..(M - 1)
  PROVE  a + N * c \in 0..(N * M - 1)
<1>1. N * c <= N * (M - 1)
  OBVIOUS
<1>2. N * (M - 1) = N * M - N
  OBVIOUS
<1>3. N * c >= 0
  OBVIOUS
<1> QED
  BY <1>1, <1>2, <1>3

\* The number of a site in a box with first sides a, b and c.
Box(a, b, c, w, x, y, z) == w + a * (x + b * (y + c * z))

InBox(a, b, c, d, w, x, y, z) ==
  /\ a \in Nat /\ b \in Nat /\ c \in Nat /\ d \in Nat
  /\ w \in 0..(a - 1) /\ x \in 0..(b - 1)
  /\ y \in 0..(c - 1) /\ z \in 0..(d - 1)

\* The number is in the box, and tells the site.
LEMMA BoxRange ==
  ASSUME NEW a \in Nat, NEW b \in Nat, NEW c \in Nat, NEW d \in Nat,
         NEW w \in 0..(a - 1), NEW x \in 0..(b - 1),
         NEW y \in 0..(c - 1), NEW z \in 0..(d - 1)
  PROVE  /\ w + a * (x + b * (y + c * z)) \in 0..(a * b * c * d - 1)
         /\ x + b * (y + c * z) \in 0..(b * c * d - 1)
<1>1. y + c * z \in 0..(c * d - 1)
  BY TwoDigits
<1>2. x + b * (y + c * z) \in 0..(b * (c * d) - 1)
  BY <1>1, TwoDigits
<1>3. w + a * (x + b * (y + c * z)) \in 0..(a * (b * (c * d)) - 1)
  BY <1>2, TwoDigits
<1>4. b * (c * d) = b * c * d /\ a * (b * (c * d)) = a * b * c * d
  OBVIOUS
<1> QED
  BY <1>2, <1>3, <1>4

LEMMA BoxInjective ==
  ASSUME NEW a, NEW b, NEW c, NEW d,
         NEW w, NEW x, NEW y, NEW z, InBox(a, b, c, d, w, x, y, z),
         NEW ww, NEW xx, NEW yy, NEW zz, InBox(a, b, c, d, ww, xx, yy, zz),
         Box(a, b, c, w, x, y, z) = Box(a, b, c, ww, xx, yy, zz)
  PROVE  w = ww /\ x = xx /\ y = yy /\ z = zz
<1>0. /\ a \in Nat /\ b \in Nat /\ c \in Nat /\ d \in Nat
      /\ w \in 0..(a - 1) /\ x \in 0..(b - 1)
      /\ y \in 0..(c - 1) /\ z \in 0..(d - 1)
      /\ ww \in 0..(a - 1) /\ xx \in 0..(b - 1)
      /\ yy \in 0..(c - 1) /\ zz \in 0..(d - 1)
  BY DEF InBox
<1>1. w = ww /\ x + b * (y + c * z) = xx + b * (yy + c * zz)
  BY <1>0, Digits DEF Box
<1>2. x = xx /\ y + c * z = yy + c * zz
  BY <1>0, <1>1, Digits
<1>3. y = yy /\ z = zz
  BY <1>0, <1>2, Digits
<1> QED
  BY <1>1, <1>2, <1>3

\* Half the number of a site in a box whose first side is 2 * a.
LEMMA HalfNumber ==
  ASSUME NEW a \in Nat, NEW w \in 0..(2 * a - 1), NEW r \in Nat
  PROVE  /\ (w + 2 * a * r) \div 2 = (w \div 2) + a * r
         /\ w \div 2 \in 0..(a - 1)
<1>1. PICK q \in Nat, t \in {0, 1} : w = 2 * q + t
  <2>1. w = 2 * (w \div 2) + (w % 2)
    OBVIOUS
  <2>2. w \div 2 \in Nat /\ w % 2 \in {0, 1}
    OBVIOUS
  <2> QED
    BY <2>1, <2>2
<1>2. w \div 2 = q
  BY <1>1
<1>3. a * r \in Int /\ 2 * a * r = 2 * (a * r)
  OBVIOUS
<1> DEFINE s == a * r
<1> HIDE DEF s
<1>4. s \in Int /\ 2 * a * r = 2 * s
  BY <1>3 DEF s
<1>5. w + 2 * a * r = 2 * (q + s) + t
  BY <1>1, <1>4
<1>6. (2 * (q + s) + t) \div 2 = q + s
  BY <1>1, <1>4
<1> QED
  BY <1>1, <1>2, <1>5, <1>6 DEF s

\* The checkerboard: even sites in the first half of the lattice, odd sites in
\* the second, two neighbours along the first side, 2 * a, in one place of
\* either.
Board(a, b, c, d, w, x, y, z) ==
  (w + 2 * a * (x + b * (y + c * z))) \div 2
    + ((w + x + y + z) % 2) * (a * b * c * d)

LEMMA Checkerboard ==
  ASSUME NEW a \in Nat, NEW b, NEW c, NEW d,
         NEW w, NEW x, NEW y, NEW z, InBox(2 * a, b, c, d, w, x, y, z),
         NEW ww, NEW xx, NEW yy, NEW zz, InBox(2 * a, b, c, d, ww, xx, yy, zz)
  PROVE  /\ Board(a, b, c, d, w, x, y, z) \in 0..(2 * (a * b * c * d) - 1)
         /\ Board(a, b, c, d, w, x, y, z) = Board(a, b, c, d, ww, xx, yy, zz)
              => w = ww /\ x = xx /\ y = yy /\ z = zz
<1> DEFINE p == (w + x + y + z) % 2
           q == (ww + xx + yy + zz) % 2
           r == x + b * (y + c * z)
           s == xx + b * (yy + c * zz)
           k == (w + 2 * a * r) \div 2
           l == (ww + 2 * a * s) \div 2
           h == a * b * c * d
<1>0. /\ b \in Nat /\ c \in Nat /\ d \in Nat
      /\ w \in 0..(2 * a - 1) /\ x \in 0..(b - 1)
      /\ y \in 0..(c - 1) /\ z \in 0..(d - 1)
      /\ ww \in 0..(2 * a - 1) /\ xx \in 0..(b - 1)
      /\ yy \in 0..(c - 1) /\ zz \in 0..(d - 1)
  BY DEF InBox
<1>1. r \in 0..(b * c * d - 1) /\ s \in 0..(b * c * d - 1)
  BY <1>0, BoxRange
<1>2. b * c * d \in Nat /\ h \in Nat /\ h = a * (b * c * d)
  BY <1>0
<1>3. p \in 0..1 /\ q \in 0..1 /\ h \in Nat
  BY <1>0, <1>2
<1>4. /\ k = (w \div 2) + a * r /\ w \div 2 \in 0..(a - 1)
      /\ l = (ww \div 2) + a * s /\ ww \div 2 \in 0..(a - 1)
  BY <1>0, <1>1, <1>2, HalfNumber
<1>5. k \in 0..(h - 1) /\ l \in 0..(h - 1)
  <2> HIDE DEF k, l, h, r, s
  <2>1. (w \div 2) + a * r \in 0..(a * (b * c * d) - 1)
    BY <1>1, <1>2, <1>4, TwoDigits
  <2>2. (ww \div 2) + a * s \in 0..(a * (b * c * d) - 1)
    BY <1>1, <1>2, <1>4, TwoDigits
  <2> QED
    BY <1>2, <1>4, <2>1, <2>2
<1>6. k + p * h \in 0..(2 * h - 1)
  <2> HIDE DEF k, h, p
  <2>1. k + h * p \in 0..(h * 2 - 1)
    BY <1>3, <1>5, TwoDigits
  <2> QED
    BY <1>3, <1>5, <2>1
<1>7. ASSUME k + p * h = l + q * h
      PROVE  w = ww /\ x = xx /\ y = yy /\ z = zz
  <2>1. k = l /\ p = q
    <3> HIDE DEF k, l, h, p, q
    <3>1. k + h * p = l + h * q
      BY <1>3, <1>5, <1>7
    <3>2. h > 0
      BY <1>3, <1>5
    <3> QED
      BY <1>3, <1>5, <3>1, <3>2, Digits
  <2>2. w \div 2 = ww \div 2 /\ r = s
    <3> HIDE DEF k, l, r, s
    <3>1. (w \div 2) + a * r = (ww \div 2) + a * s
      BY <1>4, <2>1
    <3> QED
      BY <1>1, <1>2, <1>4, <3>1, Digits
  <2>3. x = xx /\ y = yy /\ z = zz
    <3>1. x = xx /\ y + c * z = yy + c * zz
      BY <1>0, <2>2, Digits
    <3> QED
      BY <1>0, <3>1, Digits
  <2>4. w % 2 = ww % 2
    <3>1. (w + (x + y + z)) % 2 = (ww + (x + y + z)) % 2
      BY <1>0, <2>1, <2>3
    <3> QED
      BY <1>0, <3>1
  <2> QED
    BY <1>0, <2>2, <2>3, <2>4
<1> QED
  BY <1>6, <1>7 DEF Board

-----------------------------------------------------------------------------
(* Storage orders *)

\* The sizes as numbers of their own: half of each side, and of the volume.
LEMMA Sizes ==
  /\ \A mu \in Dir : NX[mu] \in Nat /\ NX[mu] = 2 * (NX[mu] \div 2)
                     /\ NX[mu] \div 2 \in Nat
  /\ Vol \in Nat
  /\ Vol = 2 * (Vol \div 2)
  /\ Vol \div 2 = (NX[0] \div 2) * NX[1] * NX[2] * NX[3]
  /\ Vol \div 2 = (NX[3] \div 2) * NX[0] * NX[1] * NX[2]
<1>1. ASSUME NEW mu \in Dir
      PROVE  NX[mu] \in Nat /\ NX[mu] = 2 * (NX[mu] \div 2)
             /\ NX[mu] \div 2 \in Nat
  <2>1. NX[mu] \in Nat /\ NX[mu] % 2 = 0
    BY NXAssumption
  <2> QED
    BY <2>1
<1> DEFINE a == NX[0] \div 2  d == NX[3] \div 2
           h == a * NX[1] * NX[2] * NX[3]
<1>2. 0 \in Dir /\ 1 \in Dir /\ 2 \in Dir /\ 3 \in Dir
  BY DEF Dir
<1>3. /\ NX[0] \in Nat /\ NX[1] \in Nat /\ NX[2] \in Nat /\ NX[3] \in Nat
      /\ a \in Nat /\ NX[0] = 2 * a /\ d \in Nat /\ NX[3] = 2 * d
  BY <1>1, <1>2
<1> HIDE DEF a, d
<1>4. h \in Nat
  BY <1>3
<1>5. Vol = 2 * h
  BY <1>3 DEF Vol
<1>6. h = d * NX[0] * NX[1] * NX[2]
  BY <1>3
<1> HIDE DEF h
<1>7. Vol \in Nat /\ Vol \div 2 = h
  BY <1>4, <1>5
<1> QED
  BY <1>1, <1>3, <1>4, <1>5, <1>6, <1>7 DEF a, d, h

\* A site is its coordinates.
LEMMA SiteCoordinates ==
  /\ \A x \in Site : \A mu \in Dir : x[mu] \in 0..(NX[mu] - 1)
  /\ \A x, y \in Site :
       x[0] = y[0] /\ x[1] = y[1] /\ x[2] = y[2] /\ x[3] = y[3] => x = y
<1>1. ASSUME NEW x \in Site, NEW mu \in Dir
      PROVE  x[mu] \in 0..(NX[mu] - 1)
  <2>1. x[mu] \in UNION {0..(NX[nu] - 1) : nu \in Dir} /\ x[mu] < NX[mu]
    BY DEF Site
  <2>2. PICK nu \in Dir : x[mu] \in 0..(NX[nu] - 1)
    BY <2>1
  <2>3. NX[nu] \in Nat /\ NX[mu] \in Nat
    BY Sizes
  <2> QED
    BY <2>1, <2>2, <2>3
<1>2. ASSUME NEW x \in Site, NEW y \in Site,
             x[0] = y[0], x[1] = y[1], x[2] = y[2], x[3] = y[3]
      PROVE  x = y
  <2>1. x = [mu \in Dir |-> x[mu]] /\ y = [mu \in Dir |-> y[mu]]
    BY DEF Site
  <2>2. \A mu \in Dir : x[mu] = y[mu]
    BY <1>2 DEF Dir
  <2> QED
    BY <2>1, <2>2
<1> QED
  BY <1>1, <1>2

\* The facts about sites offsets are made of: the place of a site in an order
\* with all sites and in one with even and odd sites apart.
LEMMA Places ==
  ASSUME NEW x \in Site, NEW y \in Site
  PROVE  /\ Canon(x) \in 0..(Vol - 1)
         /\ Canon(x) = Canon(y) => x = y
         /\ Canon(x) \div 2 + Odd(x) * (Vol \div 2) \in 0..(Vol - 1)
         /\ TFirst(x) \div 2 + Odd(x) * (Vol \div 2) \in 0..(Vol - 1)
         /\ Canon(x) \div 2 + Odd(x) * (Vol \div 2)
              = Canon(y) \div 2 + Odd(y) * (Vol \div 2) => x = y
         /\ TFirst(x) \div 2 + Odd(x) * (Vol \div 2)
              = TFirst(y) \div 2 + Odd(y) * (Vol \div 2) => x = y
<1> DEFINE a == NX[0] \div 2  d == NX[3] \div 2
<1>1. 0 \in Dir /\ 1 \in Dir /\ 2 \in Dir /\ 3 \in Dir
  BY DEF Dir
<1>0. /\ NX[0] \in Nat /\ NX[1] \in Nat /\ NX[2] \in Nat /\ NX[3] \in Nat
      /\ a \in Nat /\ d \in Nat
  BY <1>1, Sizes
<1>2. /\ NX[0] = 2 * a /\ NX[3] = 2 * d
      /\ Vol \in Nat /\ Vol = 2 * (Vol \div 2)
      /\ Vol \div 2 = a * NX[1] * NX[2] * NX[3]
      /\ Vol \div 2 = d * NX[0] * NX[1] * NX[2]
  BY <1>1, Sizes
<1>3. /\ x[0] \in 0..(NX[0] - 1) /\ x[1] \in 0..(NX[1] - 1)
      /\ x[2] \in 0..(NX[2] - 1) /\ x[3] \in 0..(NX[3] - 1)
      /\ y[0] \in 0..(NX[0] - 1) /\ y[1] \in 0..(NX[1] - 1)
      /\ y[2] \in 0..(NX[2] - 1) /\ y[3] \in 0..(NX[3] - 1)
  BY <1>1, SiteCoordinates
<1> HIDE DEF a, d
<1>4. Canon(x) \in 0..(Vol - 1)
  BY <1>0, <1>3, BoxRange DEF Canon, Vol
<1>5. Canon(x) = Canon(y) => x = y
  <2> SUFFICES ASSUME Canon(x) = Canon(y)  PROVE x = y
    OBVIOUS
  <2>0. /\ InBox(NX[0], NX[1], NX[2], NX[3], x[0], x[1], x[2], x[3])
        /\ InBox(NX[0], NX[1], NX[2], NX[3], y[0], y[1], y[2], y[3])
    BY <1>0, <1>3 DEF InBox
  <2>1. Box(NX[0], NX[1], NX[2], x[0], x[1], x[2], x[3])
          = Box(NX[0], NX[1], NX[2], y[0], y[1], y[2], y[3])
    BY DEF Canon, Box
  <2>2. x[0] = y[0] /\ x[1] = y[1] /\ x[2] = y[2] /\ x[3] = y[3]
    BY <2>0, <2>1, BoxInjective
  <2> QED
    BY <2>2, SiteCoordinates
<1>6. /\ InBox(2 * a, NX[1], NX[2], NX[3], x[0], x[1], x[2], x[3])
      /\ InBox(2 * a, NX[1], NX[2], NX[3], y[0], y[1], y[2], y[3])
      /\ InBox(2 * d, NX[0], NX[1], NX[2], x[3], x[0], x[1], x[2])
      /\ InBox(2 * d, NX[0], NX[1], NX[2], y[3], y[0], y[1], y[2])
  BY <1>0, <1>2, <1>3 DEF InBox
<1>7. /\ Canon(x) \div 2 + Odd(x) * (Vol \div 2) \in 0..(Vol - 1)
      /\ Canon(x) \div 2 + Odd(x) * (Vol \div 2)
           = Canon(y) \div 2 + Odd(y) * (Vol \div 2) =>
         x[0] = y[0] /\ x[1] = y[1] /\ x[2] = y[2] /\ x[3] = y[3]
  <2>1. /\ Canon(x) \div 2 + Odd(x) * (Vol \div 2)
             = Board(a, NX[1], NX[2], NX[3], x[0], x[1], x[2], x[3])
        /\ Canon(y) \div 2 + Odd(y) * (Vol \div 2)
             = Board(a, NX[1], NX[2], NX[3], y[0], y[1], y[2], y[3])
    BY <1>2 DEF Canon, Odd, Board
  <2>2. Board(a, NX[1], NX[2], NX[3], x[0], x[1], x[2], x[3])
          \in 0..(2 * (a * NX[1] * NX[2] * NX[3]) - 1)
    BY <1>0, <1>6, Checkerboard
  <2>3. Board(a, NX[1], NX[2], NX[3], x[0], x[1], x[2], x[3])
          = Board(a, NX[1], NX[2], NX[3], y[0], y[1], y[2], y[3]) =>
        x[0] = y[0] /\ x[1] = y[1] /\ x[2] = y[2] /\ x[3] = y[3]
    BY <1>0, <1>6, Checkerboard
  <2> QED
    BY <1>2, <2>1, <2>2, <2>3
<1>8. /\ TFirst(x) \div 2 + Odd(x) * (Vol \div 2) \in 0..(Vol - 1)
      /\ TFirst(x) \div 2 + Odd(x) * (Vol \div 2)
           = TFirst(y) \div 2 + Odd(y) * (Vol \div 2) =>
         x[0] = y[0] /\ x[1] = y[1] /\ x[2] = y[2] /\ x[3] = y[3]
  <2>1. /\ Odd(x) = (x[3] + x[0] + x[1] + x[2]) % 2
        /\ Odd(y) = (y[3] + y[0] + y[1] + y[2]) % 2
    BY <1>3 DEF Odd
  <2>2. /\ TFirst(x) \div 2 + Odd(x) * (Vol \div 2)
             = Board(d, NX[0], NX[1], NX[2], x[3], x[0], x[1], x[2])
        /\ TFirst(y) \div 2 + Odd(y) * (Vol \div 2)
             = Board(d, NX[0], NX[1], NX[2], y[3], y[0], y[1], y[2])
    BY <1>2, <2>1 DEF TFirst, Board
  <2>3. Board(d, NX[0], NX[1], NX[2], x[3], x[0], x[1], x[2])
          \in 0..(2 * (d * NX[0] * NX[1] * NX[2]) - 1)
    BY <1>0, <1>6, Checkerboard
  <2>4. Board(d, NX[0], NX[1], NX[2], x[3], x[0], x[1], x[2])
          = Board(d, NX[0], NX[1], NX[2], y[3], y[0], y[1], y[2]) =>
        x[0] = y[0] /\ x[1] = y[1] /\ x[2] = y[2] /\ x[3] = y[3]
    BY <1>0, <1>6, Checkerboard
  <2> QED
    BY <1>2, <2>2, <2>3, <2>4
<1> QED
  BY <1>4, <1>5, <1>7, <1>8, SiteCoordinates

\* Each order keeps every link inside the field and at a place of its own.
LEMMA OffsetOfLink ==
  /\ StrOrd = {"CANONICAL", "STAG", "WILSON", "STAG_BLOCK"}
  /\ \A l \in Link :
       /\ Offset["CANONICAL"][l] = 4 * Canon(l[1]) + l[2]
       /\ Offset["STAG"][l] = 4 * Canon(l[1]) + l[2]
       /\ Offset["WILSON"][l] =
            4 * (Canon(l[1]) \div 2 + Odd(l[1]) * (Vol \div 2)) + l[2]
       /\ Offset["STAG_BLOCK"][l] =
            Vol * l[2] + (TFirst(l[1]) \div 2 + Odd(l[1]) * (Vol \div 2))
<1>1. StrOrd = {"CANONICAL", "STAG", "WILSON", "STAG_BLOCK"}
  BY DEF StrOrd, Offset
<1>2. ASSUME NEW l \in Link
      PROVE  /\ Offset["CANONICAL"][l] = 4 * Canon(l[1]) + l[2]
             /\ Offset["STAG"][l] = 4 * Canon(l[1]) + l[2]
             /\ Offset["WILSON"][l] =
                  4 * (Canon(l[1]) \div 2 + Odd(l[1]) * (Vol \div 2)) + l[2]
             /\ Offset["STAG_BLOCK"][l] = Vol * l[2] + TFirst(l[1]) \div 2
                                            + Odd(l[1]) * (Vol \div 2)
  BY DEF Offset
<1>3. ASSUME NEW l \in Link
      PROVE  Vol * l[2] + TFirst(l[1]) \div 2 + Odd(l[1]) * (Vol \div 2)
               = Vol * l[2] + (TFirst(l[1]) \div 2 + Odd(l[1]) * (Vol \div 2))
  <2>1. l[1] \in Site /\ l[2] \in Int
    BY DEF Link, Dir
  <2>2. \A mu \in Dir : l[1][mu] \in Int /\ NX[mu] \in Int
    BY <2>1, SiteCoordinates, Sizes
  <2>3. /\ l[1][0] \in Int /\ l[1][1] \in Int /\ l[1][2] \in Int
        /\ l[1][3] \in Int /\ NX[0] \in Int /\ NX[1] \in Int /\ NX[2] \in Int
        /\ NX[3] \in Int
    BY <2>2 DEF Dir
  <2>4. TFirst(l[1]) \in Int /\ Odd(l[1]) \in Int /\ Vol \in Int
    BY <2>3 DEF TFirst, Odd, Vol
  <2>5. /\ Vol * l[2] \in Int /\ TFirst(l[1]) \div 2 \in Int
        /\ Odd(l[1]) * (Vol \div 2) \in Int
    BY <2>1, <2>4
  <2> QED
    BY <2>5
<1> QED
  BY <1>1, <1>2, <1>3

LEMMA OffsetInjective ==
  ASSUME NEW o \in StrOrd, NEW l \in Link, NEW m \in Link
  PROVE  /\ Offset[o][l] \in Index
         /\ Offset[o][l] = Offset[o][m] => l = m
<1> DEFINE lw == Canon(l[1]) \div 2 + Odd(l[1]) * (Vol \div 2)
           mw == Canon(m[1]) \div 2 + Odd(m[1]) * (Vol \div 2)
           lb == TFirst(l[1]) \div 2 + Odd(l[1]) * (Vol \div 2)
           mb == TFirst(m[1]) \div 2 + Odd(m[1]) * (Vol \div 2)
           lc == Canon(l[1])
           mc == Canon(m[1])
<1>1. /\ l[1] \in Site /\ l[2] \in 0..3 /\ l = <<l[1], l[2]>>
      /\ m[1] \in Site /\ m[2] \in 0..3 /\ m = <<m[1], m[2]>>
  BY DEF Link, Dir
<1>2. /\ lc \in 0..(Vol - 1) /\ lw \in 0..(Vol - 1) /\ lb \in 0..(Vol - 1)
      /\ mc \in 0..(Vol - 1) /\ mw \in 0..(Vol - 1) /\ mb \in 0..(Vol - 1)
      /\ lc = mc => l[1] = m[1]
      /\ lw = mw => l[1] = m[1]
      /\ lb = mb => l[1] = m[1]
  BY <1>1, Places
<1>3. /\ Offset["CANONICAL"][l] = 4 * lc + l[2]
      /\ Offset["CANONICAL"][m] = 4 * mc + m[2]
      /\ Offset["STAG"][l] = 4 * lc + l[2]
      /\ Offset["STAG"][m] = 4 * mc + m[2]
      /\ Offset["WILSON"][l] = 4 * lw + l[2]
      /\ Offset["WILSON"][m] = 4 * mw + m[2]
      /\ Offset["STAG_BLOCK"][l] = Vol * l[2] + lb
      /\ Offset["STAG_BLOCK"][m] = Vol * m[2] + mb
  BY OffsetOfLink
<1> HIDE DEF lw, mw, lb, mb, lc, mc
<1>4. Vol \in Nat
  BY Sizes
<1>5. Index = 0..(4 * Vol - 1)
  BY DEF Index
<1>6. l[1] = m[1] /\ l[2] = m[2] => l = m
  BY <1>1
<1>7. CASE o = "CANONICAL" \/ o = "STAG"
  <2>1. 4 * lc + l[2] \in 0..(4 * Vol - 1)
    BY <1>1, <1>2, <1>4
  <2>2. 4 * lc + l[2] = 4 * mc + m[2] => lc = mc /\ l[2] = m[2]
    BY <1>1, <1>2, <1>4
  <2> QED
    BY <1>2, <1>3, <1>5, <1>6, <1>7, <2>1, <2>2
<1>8. CASE o = "WILSON"
  <2>1. 4 * lw + l[2] \in 0..(4 * Vol - 1)
    BY <1>1, <1>2, <1>4
  <2>2. 4 * lw + l[2] = 4 * mw + m[2] => lw = mw /\ l[2] = m[2]
    <3>1. /\ lw \in Int /\ mw \in Int
          /\ l[2] \in 0..3 /\ m[2] \in 0..3
      BY <1>1, <1>2
    <3> QED
      BY <3>1
  <2> QED
    BY <1>2, <1>3, <1>5, <1>6, <1>8, <2>1, <2>2
<1>9. CASE o = "STAG_BLOCK"
  <2>1. lb + Vol * l[2] \in 0..(Vol * 4 - 1)
    <3> DEFINE d == l[2]
    <3>1. Vol \in Nat /\ lb \in 0..(Vol - 1) /\ d \in 0..(4 - 1) /\ 4 \in Nat
      BY <1>1, <1>2, <1>4
    <3> HIDE DEF d, lb
    <3>2. lb + Vol * d \in 0..(Vol * 4 - 1)
      BY <3>1, TwoDigits
    <3> QED
      BY <3>2 DEF d
  <2>2. lb + Vol * l[2] = Vol * l[2] + lb /\ mb + Vol * m[2] = Vol * m[2] + mb
    BY <1>1, <1>2, <1>4
  <2>3. Vol > 0
    BY <1>2, <1>4
  <2>4. lb + Vol * l[2] = mb + Vol * m[2] => lb = mb /\ l[2] = m[2]
    BY <1>1, <1>2, <1>4, <2>3, Digits
  <2>5. Vol * 4 = 4 * Vol
    BY <1>4
  <2> QED
    BY <1>2, <1>3, <1>5, <1>6, <1>9, <2>1, <2>2, <2>4, <2>5
<1> QED
  BY <1>7, <1>8, <1>9, OffsetOfLink

\* So LinkAt finds the link again.
LEMMA LinkAtOffset ==
  ASSUME NEW o \in StrOrd, NEW l \in Link
  PROVE  LinkAt[o][Offset[o][l]] = l
<1>1. Offset[o][l] \in Index
  BY OffsetInjective
<1>2. LinkAt[o][Offset[o][l]] = CHOOSE m \in Link : Offset[o][m] = Offset[o][l]
  BY <1>1 DEF LinkAt
<1>3. \A m \in Link : Offset[o][m] = Offset[o][l] => m = l
  BY OffsetInjective
<1> QED
  BY <1>2, <1>3

\* In three of the orders the four links of a site are next to each other,
\* which is what MltFloat relies on.
LEMMA DirectionOfIndex ==
  ASSUME NEW o \in {"CANONICAL", "STAG", "WILSON"}, NEW l \in Link
  PROVE  Offset[o][l] % 4 = l[2]
<1>1. l[1] \in Site /\ l[2] \in 0..3
  BY DEF Link, Dir
<1> DEFINE lw == Canon(l[1]) \div 2 + Odd(l[1]) * (Vol \div 2)
           lc == Canon(l[1])
<1>2. lc \in 0..(Vol - 1) /\ lw \in 0..(Vol - 1)
  BY <1>1, Places
<1>3. /\ Offset["CANONICAL"][l] = 4 * lc + l[2]
      /\ Offset["STAG"][l] = 4 * lc + l[2]
      /\ Offset["WILSON"][l] = 4 * lw + l[2]
  BY OffsetOfLink
<1> HIDE DEF lw, lc
<1>4. (4 * lc + l[2]) % 4 = l[2] /\ (4 * lw + l[2]) % 4 = l[2]
  <2>1. lc \in Int /\ lw \in Int
    BY <1>2
  <2> QED
    BY <1>1, <2>1
<1> QED
  BY <1>3, <1>4

-----------------------------------------------------------------------------
(* The field as the program sees it *)

LinkVal == [neg : BOOLEAN, bare : Int, ratio : Int]

IsField(g) ==
  DOMAIN g = {"u", "str_ord", "updates", "diracLock", "parLock", "oldStag",
              "oldCb", "oldGauge", "smeared", "fields", "fieldsOf"}

\* The boundary condition is applied if n holds, and the anisotropic direction
\* scaled with XiBare^b * (XiVXi/XiV)^r.
Looks(g, n, b, r) ==
  \A l \in Link :
    /\ Logical(g)[l] \in LinkVal
    /\ Logical(g)[l].neg <=> n /\ AtBoundary(l[1], l[2])
    /\ Logical(g)[l].bare = (IF l[2] = xiDir THEN b ELSE 0)
    /\ Logical(g)[l].ratio = (IF l[2] = xiDir THEN r ELSE 0)

\* The field in order o, with the locks d and p and what they stand for.
Field(g, o, d, p, n, b, r) ==
  /\ IsField(g) /\ o \in StrOrd /\ g.str_ord = o
  /\ g.diracLock = d /\ g.parLock = p
  /\ n \in BOOLEAN /\ b \in Int /\ r \in Int
  /\ Looks(g, n, b, r)

\* What conversions, boundary conditions and factors leave alone.
Notes(g) == <<g.updates, g.oldStag, g.oldCb, g.oldGauge, g.smeared, g.fields,
              g.fieldsOf>>

\* A conversion changes nothing but the order.
LEMMA ConvertField ==
  ASSUME NEW g, NEW o, NEW d, NEW p, NEW n, NEW b, NEW r,
         Field(g, o, d, p, n, b, r), NEW to \in StrOrd
  PROVE  /\ Field(Convert(g, to), to, d, p, n, b, r)
         /\ Notes(Convert(g, to)) = Notes(g)
         /\ Logical(Convert(g, to)) = Logical(g)
<1> DEFINE h == Convert(g, to)
           u == [i \in Index |-> g.u[Offset[g.str_ord][LinkAt[to][i]]]]
<1>1. IsField(g) /\ g.str_ord \in StrOrd
  BY DEF Field
<1>2. h = [g EXCEPT !.str_ord = to, !.u = u]
  BY DEF Convert
<1> HIDE DEF u
<1>3. /\ IsField(h) /\ h.str_ord = to /\ h.u = u
      /\ h.diracLock = g.diracLock /\ h.parLock = g.parLock
      /\ Notes(h) = Notes(g)
  BY <1>1, <1>2 DEF IsField, Notes
<1> HIDE DEF h
<1>4. ASSUME NEW l \in Link
      PROVE  h.u[Offset[to][l]] = g.u[Offset[g.str_ord][l]]
  <2>1. Offset[to][l] \in Index /\ LinkAt[to][Offset[to][l]] = l
    BY OffsetInjective, LinkAtOffset
  <2>2. u[Offset[to][l]] = g.u[Offset[g.str_ord][LinkAt[to][Offset[to][l]]]]
    BY <2>1 DEF u
  <2> QED
    BY <1>3, <2>1, <2>2
<1>5. Logical(h) = Logical(g)
  BY <1>3, <1>4 DEF Logical
<1>6. Looks(h, n, b, r)
  BY <1>5 DEF Field, Looks
<1>7. Field(h, to, d, p, n, b, r)
  BY <1>3, <1>6 DEF Field
<1> QED
  BY <1>3, <1>5, <1>7 DEF h

\* BondCond turns the boundary condition on or off, in the orders that keep
\* links where canonical order does.
LEMMA BondCondField ==
  ASSUME NEW g, NEW o \in {"CANONICAL", "STAG"}, NEW d, NEW p,
         NEW n, NEW b, NEW r, Field(g, o, d, p, n, b, r)
  PROVE  /\ Field(BondCond(g), o, d, p, ~n, b, r)
         /\ Notes(BondCond(g)) = Notes(g)
<1> DEFINE h == BondCond(g)
           u == [i \in Index |->
                  LET l == LinkAt["CANONICAL"][i] IN
                  IF AtBoundary(l[1], l[2]) THEN [g.u[i] EXCEPT !.neg = ~@]
                  ELSE g.u[i]]
<1>1. IsField(g) /\ g.str_ord = o /\ o \in StrOrd /\ "CANONICAL" \in StrOrd
  BY OffsetOfLink DEF Field
<1>2. h = [g EXCEPT !.u = u]
  BY DEF BondCond
<1> HIDE DEF u
<1>3. /\ IsField(h) /\ h.str_ord = o /\ h.u = u
      /\ h.diracLock = g.diracLock /\ h.parLock = g.parLock
      /\ Notes(h) = Notes(g)
  BY <1>1, <1>2 DEF IsField, Notes
<1> HIDE DEF h
<1>4. ASSUME NEW l \in Link
      PROVE  /\ Logical(h)[l] \in LinkVal
             /\ Logical(h)[l].neg <=> ~n /\ AtBoundary(l[1], l[2])
             /\ Logical(h)[l].bare = (IF l[2] = xiDir THEN b ELSE 0)
             /\ Logical(h)[l].ratio = (IF l[2] = xiDir THEN r ELSE 0)
  <2> DEFINE i == Offset[o][l]
             v == Logical(g)[l]
  <2>1. i = Offset["CANONICAL"][l]
    BY OffsetOfLink
  <2>2. i \in Index /\ LinkAt["CANONICAL"][i] = l
    BY <1>1, <2>1, OffsetInjective, LinkAtOffset
  <2>3. v = g.u[i] /\ Logical(h)[l] = h.u[i]
    BY <1>1, <1>3 DEF Logical
  <2>4. h.u[i] = IF AtBoundary(l[1], l[2]) THEN [g.u[i] EXCEPT !.neg = ~@]
                 ELSE g.u[i]
    BY <1>3, <2>2 DEF u
  <2>5. /\ v \in LinkVal
        /\ v.neg <=> n /\ AtBoundary(l[1], l[2])
        /\ v.bare = (IF l[2] = xiDir THEN b ELSE 0)
        /\ v.ratio = (IF l[2] = xiDir THEN r ELSE 0)
    BY DEF Field, Looks
  <2> HIDE DEF i, v
  <2>6. CASE AtBoundary(l[1], l[2])
    <3>1. Logical(h)[l] = [v EXCEPT !.neg = ~@]
      BY <2>3, <2>4, <2>6
    <3>2. /\ Logical(h)[l] \in LinkVal
          /\ Logical(h)[l].neg <=> ~v.neg
          /\ Logical(h)[l].bare = v.bare
          /\ Logical(h)[l].ratio = v.ratio
      BY <2>5, <3>1 DEF LinkVal
    <3> QED
      BY <2>5, <2>6, <3>2
  <2>7. CASE ~AtBoundary(l[1], l[2])
    BY <2>3, <2>4, <2>5, <2>7
  <2> QED
    BY <2>6, <2>7
<1>5. Field(h, o, d, p, ~n, b, r)
  BY <1>1, <1>3, <1>4 DEF Field, Looks
<1> QED
  BY <1>3, <1>5 DEF h

\* MltFloat multiplies the links of the anisotropic direction, in the orders
\* that keep the directions of a site together.
LEMMA MltFloatField ==
  ASSUME NEW g, NEW o \in {"CANONICAL", "STAG", "WILSON"}, NEW d, NEW p,
         NEW n, NEW b, NEW r, Field(g, o, d, p, n, b, r),
         NEW bb \in Int, NEW rr \in Int
  PROVE  /\ Field(MltFloat(g, bb, rr), o, d, p, n, b + bb, r + rr)
         /\ Notes(MltFloat(g, bb, rr)) = Notes(g)
<1> DEFINE h == MltFloat(g, bb, rr)
           u == [i \in Index |->
                  IF i % 4 = xiDir
                    THEN [g.u[i] EXCEPT !.bare = @ + bb, !.ratio = @ + rr]
                    ELSE g.u[i]]
<1>1. IsField(g) /\ g.str_ord = o /\ o \in StrOrd /\ b \in Int /\ r \in Int
  BY DEF Field
<1>2. h = [g EXCEPT !.u = u]
  BY DEF MltFloat
<1> HIDE DEF u
<1>3. /\ IsField(h) /\ h.str_ord = o /\ h.u = u
      /\ h.diracLock = g.diracLock /\ h.parLock = g.parLock
      /\ Notes(h) = Notes(g)
  BY <1>1, <1>2 DEF IsField, Notes
<1> HIDE DEF h
<1>4. ASSUME NEW l \in Link
      PROVE  /\ Logical(h)[l] \in LinkVal
             /\ Logical(h)[l].neg <=> n /\ AtBoundary(l[1], l[2])
             /\ Logical(h)[l].bare = (IF l[2] = xiDir THEN b + bb ELSE 0)
             /\ Logical(h)[l].ratio = (IF l[2] = xiDir THEN r + rr ELSE 0)
  <2> DEFINE i == Offset[o][l]
             v == Logical(g)[l]
  <2>1. i % 4 = l[2] /\ i \in Index
    BY <1>1, DirectionOfIndex, OffsetInjective
  <2>2. v = g.u[i] /\ Logical(h)[l] = h.u[i]
    BY <1>1, <1>3 DEF Logical
  <2>3. h.u[i] = IF l[2] = xiDir
                   THEN [g.u[i] EXCEPT !.bare = @ + bb, !.ratio = @ + rr]
                   ELSE g.u[i]
    BY <1>3, <2>1 DEF u
  <2>4. /\ v \in LinkVal
        /\ v.neg <=> n /\ AtBoundary(l[1], l[2])
        /\ v.bare = (IF l[2] = xiDir THEN b ELSE 0)
        /\ v.ratio = (IF l[2] = xiDir THEN r ELSE 0)
    BY DEF Field, Looks
  <2> HIDE DEF i, v
  <2>5. CASE l[2] = xiDir
    <3>1. Logical(h)[l] = [v EXCEPT !.bare = @ + bb, !.ratio = @ + rr]
      BY <2>2, <2>3, <2>5
    <3>2. v.bare + bb \in Int /\ v.ratio + rr \in Int
      BY <2>4 DEF LinkVal
    <3>3. /\ Logical(h)[l].neg = v.neg
          /\ Logical(h)[l].bare = v.bare + bb
          /\ Logical(h)[l].ratio = v.ratio + rr
      BY <2>4, <3>1 DEF LinkVal
    <3>4. Logical(h)[l] \in LinkVal
      BY <2>4, <3>1, <3>2 DEF LinkVal
    <3> QED
      BY <2>4, <2>5, <3>3, <3>4
  <2>6. CASE l[2] # xiDir
    BY <2>2, <2>3, <2>4, <2>6
  <2> QED
    BY <2>5, <2>6
<1>5. Looks(h, n, b + bb, r + rr)
  BY <1>4 DEF Looks
<1>6. Field(h, o, d, p, n, b + bb, r + rr)
  BY <1>1, <1>3, <1>5 DEF Field
<1> QED
  BY <1>3, <1>6 DEF h

LEMMA FactorField ==
  ASSUME NEW g, NEW o \in {"CANONICAL", "STAG", "WILSON"}, NEW d, NEW p,
         NEW n, NEW b, NEW r, Field(g, o, d, p, n, b, r)
  PROVE  /\ Field(MltFloat(g, 0, 1), o, d, p, n, b, r + 1)
         /\ Notes(MltFloat(g, 0, 1)) = Notes(g)
         /\ Field(MltFloat(g, 0, -1), o, d, p, n, b, r - 1)
         /\ Notes(MltFloat(g, 0, -1)) = Notes(g)
         /\ Field(MltFloat(g, 1, 0), o, d, p, n, b + 1, r)
         /\ Notes(MltFloat(g, 1, 0)) = Notes(g)
         /\ Field(MltFloat(g, -1, 0), o, d, p, n, b - 1, r)
         /\ Notes(MltFloat(g, -1, 0)) = Notes(g)
<1>1. b \in Int /\ r \in Int
  BY DEF Field
<1>2. \A bb, rr \in Int :
        /\ Field(MltFloat(g, bb, rr), o, d, p, n, b + bb, r + rr)
        /\ Notes(MltFloat(g, bb, rr)) = Notes(g)
  BY MltFloatField
<1>3. b + 0 = b /\ r + (-1) = r - 1 /\ r + 0 = r /\ b + (-1) = b - 1
  BY <1>1
<1> QED
  BY <1>2, <1>3

-----------------------------------------------------------------------------
(* Constructors and destructors *)

\* Setting static variables does nothing to the field.
LEMMA StaticField ==
  ASSUME NEW g, NEW o, NEW d, NEW p, NEW n, NEW b, NEW r,
         Field(g, o, d, p, n, b, r),
         NEW h, IsField(h), h.u = g.u, h.str_ord = g.str_ord
  PROVE  Field(h, o, h.diracLock, h.parLock, n, b, r)
<1>1. Logical(h) = Logical(g)
  BY DEF Logical
<1> QED
  BY <1>1 DEF Field, Looks

LEMMA SetLock ==
  ASSUME NEW g, NEW o, NEW d, NEW p, NEW n, NEW b, NEW r,
         Field(g, o, d, p, n, b, r), NEW x
  PROVE  /\ Field([g EXCEPT !.diracLock = x], o, x, p, n, b, r)
         /\ Field([g EXCEPT !.parLock = x], o, d, x, n, b, r)
         /\ Notes([g EXCEPT !.diracLock = x]) = Notes(g)
         /\ Notes([g EXCEPT !.parLock = x]) = Notes(g)
<1>1. IsField(g) /\ g.diracLock = d /\ g.parLock = p
  BY DEF Field
<1> DEFINE h == [g EXCEPT !.diracLock = x]
           k == [g EXCEPT !.parLock = x]
<1>2. /\ IsField(h) /\ h.u = g.u /\ h.str_ord = g.str_ord
      /\ h.diracLock = x /\ h.parLock = p /\ Notes(h) = Notes(g)
  BY <1>1 DEF IsField, Notes
<1>3. /\ IsField(k) /\ k.u = g.u /\ k.str_ord = g.str_ord
      /\ k.diracLock = d /\ k.parLock = x /\ Notes(k) = Notes(g)
  BY <1>1 DEF IsField, Notes
<1> HIDE DEF h, k
<1>4. Field(h, o, x, p, n, b, r) /\ Field(k, o, d, x, n, b, r)
  BY <1>2, <1>3, StaticField
<1> QED
  BY <1>2, <1>3, <1>4 DEF h, k

\* The locks that are held, and with any of them the boundary condition.
Held(g, o, who, b, r) ==
  CASE who = "none" -> Field(g, o, FALSE, FALSE, FALSE, b, r)
    [] who = "dirac" -> Field(g, o, TRUE, FALSE, TRUE, b, r)
    [] who = "transport" -> Field(g, o, FALSE, TRUE, TRUE, b, r)
    [] who = "both" -> Field(g, o, TRUE, TRUE, TRUE, b, r)

Whos == {"none", "dirac", "transport", "both"}

LEMMA HeldFacts ==
  ASSUME NEW g, NEW o, NEW who \in Whos, NEW b, NEW r, Held(g, o, who, b, r)
  PROVE  /\ IsField(g) /\ g.str_ord = o /\ o \in StrOrd
         /\ b \in Int /\ r \in Int
         /\ \A l \in Link :
              /\ Logical(g)[l] \in LinkVal
              /\ Logical(g)[l].neg <=> who # "none" /\ AtBoundary(l[1], l[2])
              /\ Logical(g)[l].bare = (IF l[2] = xiDir THEN b ELSE 0)
              /\ Logical(g)[l].ratio = (IF l[2] = xiDir THEN r ELSE 0)
<1>1. CASE who = "none"
  BY <1>1 DEF Held, Field, Looks
<1>2. CASE who = "dirac"
  BY <1>2 DEF Held, Field, Looks
<1>3. CASE who = "transport"
  BY <1>3 DEF Held, Field, Looks
<1>4. CASE who = "both"
  BY <1>4 DEF Held, Field, Looks
<1> QED
  BY <1>1, <1>2, <1>3, <1>4 DEF Whos

LEMMA ConvertHeld ==
  ASSUME NEW g, NEW o, NEW who \in Whos, NEW b, NEW r,
         Held(g, o, who, b, r), NEW to \in StrOrd
  PROVE  /\ Held(Convert(g, to), to, who, b, r)
         /\ Notes(Convert(g, to)) = Notes(g)
<1>1. CASE who = "none"
  BY <1>1, ConvertField DEF Held
<1>2. CASE who = "dirac"
  BY <1>2, ConvertField DEF Held
<1>3. CASE who = "transport"
  BY <1>3, ConvertField DEF Held
<1>4. CASE who = "both"
  BY <1>4, ConvertField DEF Held
<1> QED
  BY <1>1, <1>2, <1>3, <1>4 DEF Whos

LEMMA NotedHeld ==
  ASSUME NEW g, NEW o, NEW who \in Whos, NEW b, NEW r,
         Held(g, o, who, b, r),
         NEW h, IsField(h), h.u = g.u, h.str_ord = g.str_ord,
         h.diracLock = g.diracLock, h.parLock = g.parLock
  PROVE  Held(h, o, who, b, r)
<1>1. CASE who = "none"
  BY <1>1, StaticField DEF Held, Field
<1>2. CASE who = "dirac"
  BY <1>2, StaticField DEF Held, Field
<1>3. CASE who = "transport"
  BY <1>3, StaticField DEF Held, Field
<1>4. CASE who = "both"
  BY <1>4, StaticField DEF Held, Field
<1> QED
  BY <1>1, <1>2, <1>3, <1>4 DEF Whos

\* A DiracOp is built and destroyed when nobody else holds a lock.
LEMMA DiracOpHeld ==
  ASSUME NEW g, NEW b, NEW r
  PROVE  /\ Held(g, "CANONICAL", "none", b, r) =>
              /\ Held(DiracOp(g), "CANONICAL", "dirac", b, r + 1)
              /\ Notes(DiracOp(g)) = Notes(g)
         /\ Held(g, "CANONICAL", "dirac", b, r) =>
              /\ Held(DiracOpEnd(g), "CANONICAL", "none", b, r - 1)
              /\ Notes(DiracOpEnd(g)) = Notes(g)
<1> DEFINE c == BondCond(g)
<1>1. ASSUME Held(g, "CANONICAL", "none", b, r)
      PROVE  /\ Held(DiracOp(g), "CANONICAL", "dirac", b, r + 1)
             /\ Notes(DiracOp(g)) = Notes(g)
  <2> DEFINE h == [c EXCEPT !.diracLock = TRUE]
  <2>1. Field(g, "CANONICAL", FALSE, FALSE, FALSE, b, r)
    BY <1>1 DEF Held
  <2>2. Field(c, "CANONICAL", FALSE, FALSE, TRUE, b, r) /\ Notes(c) = Notes(g)
    BY <2>1, BondCondField
  <2>3. DiracOp(g) = MltFloat(h, 0, 1)
    BY <2>1 DEF DiracOp, Field
  <2> HIDE DEF c
  <2>4. Field(h, "CANONICAL", TRUE, FALSE, TRUE, b, r) /\ Notes(h) = Notes(c)
    BY <2>2, SetLock
  <2> HIDE DEF h
  <2> QED
    BY <2>2, <2>3, <2>4, FactorField DEF Held
<1>2. ASSUME Held(g, "CANONICAL", "dirac", b, r)
      PROVE  /\ Held(DiracOpEnd(g), "CANONICAL", "none", b, r - 1)
             /\ Notes(DiracOpEnd(g)) = Notes(g)
  <2> DEFINE h == [c EXCEPT !.diracLock = FALSE]
  <2>1. Field(g, "CANONICAL", TRUE, FALSE, TRUE, b, r)
    BY <1>2 DEF Held
  <2>2. Field(c, "CANONICAL", TRUE, FALSE, FALSE, b, r) /\ Notes(c) = Notes(g)
    BY <2>1, BondCondField
  <2>3. DiracOpEnd(g) = MltFloat(h, 0, -1)
    BY <2>1 DEF DiracOpEnd, Field
  <2> HIDE DEF c
  <2>4. Field(h, "CANONICAL", FALSE, FALSE, FALSE, b, r) /\ Notes(h) = Notes(c)
    BY <2>2, SetLock
  <2> HIDE DEF h
  <2> QED
    BY <2>2, <2>3, <2>4, FactorField DEF Held
<1> QED
  BY <1>1, <1>2

\* Who holds locks when a ParTrans has come or gone.
With(who) == IF who = "none" THEN "transport" ELSE "both"
Without(who) == IF who = "transport" THEN "none" ELSE "dirac"

\* A ParTrans applies the boundary condition unless a DiracOp has done so, and
\* undoes what it has applied.
LEMMA ParTransHeld ==
  ASSUME NEW g, NEW o \in {"CANONICAL", "STAG", "WILSON"},
         NEW who \in {"none", "dirac"}, who = "dirac" \/ o # "WILSON",
         NEW b, NEW r, Held(g, o, who, b, r)
  PROVE  /\ Held(ParTrans(g), o, With(who), b, r + 1)
         /\ Notes(ParTrans(g)) = Notes(g)
<1> DEFINE c == IF g.diracLock THEN g ELSE BondCond(g)
           h == [c EXCEPT !.parLock = TRUE]
<1>1. ParTrans(g) = MltFloat(h, 0, 1)
  BY DEF ParTrans
<1>2. CASE who = "none"
  <2>1. Field(g, o, FALSE, FALSE, FALSE, b, r)
    BY <1>2 DEF Held
  <2>2. c = BondCond(g)
    BY <2>1 DEF Field
  <2>3. Field(c, o, FALSE, FALSE, TRUE, b, r) /\ Notes(c) = Notes(g)
    <3>1. o \in {"CANONICAL", "STAG"}
      BY <1>2
    <3>2. /\ Field(BondCond(g), o, FALSE, FALSE, ~FALSE, b, r)
          /\ Notes(BondCond(g)) = Notes(g)
      BY <2>1, <3>1, BondCondField
    <3>3. ~FALSE = TRUE
      OBVIOUS
    <3> QED
      BY <2>2, <3>2, <3>3
  <2> HIDE DEF c
  <2>4. Field(h, o, FALSE, TRUE, TRUE, b, r) /\ Notes(h) = Notes(c)
    BY <2>3, SetLock
  <2> HIDE DEF h
  <2> QED
    BY <1>1, <1>2, <2>3, <2>4, FactorField DEF Held, With
<1>3. CASE who = "dirac"
  <2>1. Field(g, o, TRUE, FALSE, TRUE, b, r)
    BY <1>3 DEF Held
  <2>2. c = g
    BY <2>1 DEF Field
  <2> HIDE DEF c
  <2>3. Field(h, o, TRUE, TRUE, TRUE, b, r) /\ Notes(h) = Notes(g)
    BY <2>1, <2>2, SetLock
  <2> HIDE DEF h
  <2> QED
    BY <1>1, <1>3, <2>3, FactorField DEF Held, With
<1> QED
  BY <1>2, <1>3

LEMMA ParTransEndHeld ==
  ASSUME NEW g, NEW o \in {"CANONICAL", "STAG", "WILSON"},
         NEW who \in {"transport", "both"}, who = "both" \/ o # "WILSON",
         NEW b, NEW r, Held(g, o, who, b, r)
  PROVE  /\ Held(ParTransEnd(g), o, Without(who), b, r - 1)
         /\ Notes(ParTransEnd(g)) = Notes(g)
<1> DEFINE c == IF g.diracLock THEN g ELSE BondCond(g)
           h == [c EXCEPT !.parLock = FALSE]
<1>1. ParTransEnd(g) = MltFloat(h, 0, -1)
  BY DEF ParTransEnd
<1>2. CASE who = "transport"
  <2>1. Field(g, o, FALSE, TRUE, TRUE, b, r)
    BY <1>2 DEF Held
  <2>2. c = BondCond(g)
    BY <2>1 DEF Field
  <2>3. Field(c, o, FALSE, TRUE, FALSE, b, r) /\ Notes(c) = Notes(g)
    <3>1. o \in {"CANONICAL", "STAG"}
      BY <1>2
    <3> QED
      BY <2>1, <2>2, <3>1, BondCondField
  <2> HIDE DEF c
  <2>4. Field(h, o, FALSE, FALSE, FALSE, b, r) /\ Notes(h) = Notes(c)
    BY <2>3, SetLock
  <2> HIDE DEF h
  <2> QED
    BY <1>1, <1>2, <2>3, <2>4, FactorField DEF Held, Without
<1>3. CASE who = "both"
  <2>1. Field(g, o, TRUE, TRUE, TRUE, b, r)
    BY <1>3 DEF Held
  <2>2. c = g
    BY <2>1 DEF Field
  <2> HIDE DEF c
  <2>3. Field(h, o, TRUE, FALSE, TRUE, b, r) /\ Notes(h) = Notes(g)
    BY <2>1, <2>2, SetLock
  <2> HIDE DEF h
  <2> QED
    BY <1>1, <1>3, <2>3, FactorField DEF Held, Without
<1> QED
  BY <1>2, <1>3

LEMMA WhoFacts ==
  ASSUME NEW who \in {"none", "dirac"}
  PROVE  /\ With(who) \in {"transport", "both"} /\ With(who) \in Whos
         /\ Without(With(who)) = who /\ who \in Whos
         /\ who = "dirac" => With(who) = "both"
BY DEF With, Without, Whos

\* Staggered transporters come and go in STAG order, and leave the order they
\* found.
LEMMA StagTypesHeld ==
  ASSUME NEW g, NEW o \in {"CANONICAL", "STAG"}, NEW who \in {"none", "dirac"},
         NEW b, NEW r, Held(g, o, who, b, r)
  PROVE  /\ Held(StagTypes(g), "STAG", With(who), b, r + 1)
         /\ Notes(StagTypes(g)) = <<g.updates, o, g.oldCb, g.oldGauge,
                                    g.smeared, g.fields, g.fieldsOf>>
<1> DEFINE q == ParTrans(g)
           h == [q EXCEPT !.oldStag = q.str_ord]
<1>1. With(who) \in Whos
  BY WhoFacts
<1>2. Held(q, o, With(who), b, r + 1) /\ Notes(q) = Notes(g)
  <2>1. o \in {"CANONICAL", "STAG", "WILSON"} /\ o # "WILSON"
    OBVIOUS
  <2> QED
    BY <2>1, ParTransHeld
<1>3. StagTypes(g) = Convert(h, "STAG")
  BY DEF StagTypes
<1> HIDE DEF q
<1>4. IsField(q) /\ q.str_ord = o
  BY <1>1, <1>2, HeldFacts
<1>5. /\ IsField(h) /\ h.u = q.u /\ h.str_ord = q.str_ord
      /\ h.diracLock = q.diracLock /\ h.parLock = q.parLock
      /\ Notes(h) = <<q.updates, o, q.oldCb, q.oldGauge, q.smeared,
                      q.fields, q.fieldsOf>>
  BY <1>4 DEF IsField, Notes
<1> HIDE DEF h
<1>6. Held(h, o, With(who), b, r + 1)
  BY <1>1, <1>2, <1>5, NotedHeld
<1>7. "STAG" \in StrOrd
  BY OffsetOfLink
<1>8. /\ Held(Convert(h, "STAG"), "STAG", With(who), b, r + 1)
      /\ Notes(Convert(h, "STAG")) = Notes(h)
  BY <1>1, <1>6, <1>7, ConvertHeld
<1>9. Notes(h) = <<g.updates, o, g.oldCb, g.oldGauge, g.smeared, g.fields,
                   g.fieldsOf>>
  BY <1>2, <1>5 DEF Notes
<1> QED
  BY <1>3, <1>8, <1>9

LEMMA StagTypesEndHeld ==
  ASSUME NEW g, NEW o \in {"CANONICAL", "STAG"},
         NEW who \in {"transport", "both"}, NEW b, NEW r,
         Held(g, o, who, b, r), g.oldStag \in {"CANONICAL", "STAG"}
  PROVE  /\ g.oldStag = "CANONICAL" \/ o = "STAG" =>
              Held(StagTypesEnd(g), g.oldStag, Without(who), b, r - 1)
         /\ g.oldStag = "STAG" =>
              Held(StagTypesEnd(g), o, Without(who), b, r - 1)
         /\ Notes(StagTypesEnd(g)) = Notes(g)
<1> DEFINE h == IF g.oldStag # "STAG" THEN Convert(g, g.oldStag) ELSE g
           to == IF g.oldStag = "STAG" THEN o ELSE g.oldStag
<1>1. StagTypesEnd(g) = ParTransEnd(h)
  BY DEF StagTypesEnd
<1>2. "CANONICAL" \in StrOrd /\ who \in Whos
  BY OffsetOfLink DEF Whos
<1>3. Held(h, to, who, b, r) /\ Notes(h) = Notes(g)
  <2>1. CASE g.oldStag = "CANONICAL"
    BY <1>2, <2>1, ConvertHeld
  <2>2. CASE g.oldStag = "STAG"
    BY <2>2
  <2> QED
    BY <2>1, <2>2
<1> HIDE DEF h
<1>4. to \in {"CANONICAL", "STAG", "WILSON"} /\ to # "WILSON"
  OBVIOUS
<1>5. /\ g.oldStag = "CANONICAL" \/ o = "STAG" => to = g.oldStag
      /\ g.oldStag = "STAG" => to = o
  OBVIOUS
<1> HIDE DEF to
<1>6. /\ Held(ParTransEnd(h), to, Without(who), b, r - 1)
      /\ Notes(ParTransEnd(h)) = Notes(h)
  BY <1>3, <1>4, ParTransEndHeld
<1> QED
  BY <1>1, <1>3, <1>5, <1>6

\* The links Smear makes are those of the present field, with the boundary
\* condition; all else is left as it was when its transporter was made.
SmearedFields(g) ==
  /\ g.fieldsOf = g.updates
  /\ \A l \in Link : g.fields[l].neg = AtBoundary(l[1], l[2])

LEMMA SmearDoneHeld ==
  ASSUME NEW q, NEW who \in {"transport", "both"}, NEW b, NEW r,
         Held(q, "STAG", who, b, r), q.oldStag \in {"CANONICAL", "STAG"}
  PROVE  /\ Held(SmearDone(q), q.oldStag, Without(who), b, r - 1)
         /\ SmearDone(q).smeared = TRUE /\ SmearedFields(SmearDone(q))
         /\ SmearDone(q).updates = q.updates
         /\ SmearDone(q).oldGauge = q.oldGauge
<1> DEFINE h == [q EXCEPT !.fields = Logical(q), !.fieldsOf = q.updates,
                          !.smeared = TRUE]
<1>1. who \in Whos /\ who # "none"
  BY DEF Whos
<1>2. SmearDone(q) = StagTypesEnd(h)
  BY DEF SmearDone
<1>3. IsField(q) /\ \A l \in Link : Logical(q)[l].neg = AtBoundary(l[1], l[2])
  <2>1. /\ IsField(q)
        /\ \A l \in Link :
             /\ Logical(q)[l] \in LinkVal
             /\ Logical(q)[l].neg <=> who # "none" /\ AtBoundary(l[1], l[2])
    BY <1>1, HeldFacts
  <2>2. ASSUME NEW l \in Link
        PROVE  Logical(q)[l].neg = AtBoundary(l[1], l[2])
    <3>1. Logical(q)[l].neg \in BOOLEAN
      <4> DEFINE v == Logical(q)[l]
      <4>1. v \in LinkVal
        BY <2>1
      <4> HIDE DEF v
      <4>2. v.neg \in BOOLEAN
        BY <4>1 DEF LinkVal
      <4> QED
        BY <4>2 DEF v
    <3>2. AtBoundary(l[1], l[2]) \in BOOLEAN
      BY Zenon DEF AtBoundary
    <3>3. Logical(q)[l].neg <=> AtBoundary(l[1], l[2])
      BY <1>1, <2>1
    <3> QED
      BY <3>1, <3>2, <3>3, Zenon
  <2> QED
    BY <2>1, <2>2
<1>4. /\ IsField(h) /\ h.u = q.u /\ h.str_ord = q.str_ord
      /\ h.diracLock = q.diracLock /\ h.parLock = q.parLock
      /\ Notes(h) = <<q.updates, q.oldStag, q.oldCb, q.oldGauge, TRUE,
                      Logical(q), q.updates>>
  BY <1>3 DEF IsField, Notes
<1> HIDE DEF h
<1>5. Held(h, "STAG", who, b, r)
  BY <1>1, <1>4, NotedHeld
<1>6. h.oldStag = q.oldStag
  BY <1>4 DEF Notes
<1>7. /\ Held(StagTypesEnd(h), q.oldStag, Without(who), b, r - 1)
      /\ Notes(StagTypesEnd(h)) = Notes(h)
  BY <1>5, <1>6, StagTypesEndHeld
<1>8. /\ SmearDone(q).smeared = TRUE
      /\ SmearDone(q).fields = Logical(q)
      /\ SmearDone(q).fieldsOf = q.updates
      /\ SmearDone(q).updates = q.updates
      /\ SmearDone(q).oldGauge = q.oldGauge
  BY <1>2, <1>4, <1>7 DEF Notes
<1> QED
  BY <1>2, <1>3, <1>7, <1>8 DEF SmearedFields

\* Inside an operator Smear makes the links once for each field.
LEMMA SmearHeld ==
  ASSUME NEW g, NEW b, NEW r, Held(g, "STAG", "dirac", b, r),
         g.smeared \in BOOLEAN, g.smeared => SmearedFields(g)
  PROVE  /\ Held(Smear(g), "STAG", "dirac", b, r)
         /\ Smear(g).smeared = TRUE /\ SmearedFields(Smear(g))
         /\ Smear(g).updates = g.updates /\ Smear(g).oldGauge = g.oldGauge
<1>1. CASE g.smeared
  BY <1>1 DEF Smear
<1>2. CASE ~g.smeared
  <2> DEFINE q == StagTypes(g)
  <2>0. r \in Int
    <3>1. "dirac" \in Whos
      BY DEF Whos
    <3> QED
      BY <3>1, HeldFacts
  <2>1. (r + 1) - 1 = r
    BY <2>0
  <2>2. /\ Held(q, "STAG", "both", b, r + 1)
        /\ Notes(q) = <<g.updates, "STAG", g.oldCb, g.oldGauge, g.smeared,
                        g.fields, g.fieldsOf>>
    BY StagTypesHeld DEF With
  <2>3. Smear(g) = SmearDone(q)
    BY <1>2 DEF Smear
  <2> HIDE DEF q
  <2>4. q.oldStag = "STAG" /\ q.updates = g.updates /\ q.oldGauge = g.oldGauge
    BY <2>2 DEF Notes
  <2>5. Without("both") = "dirac"
    BY DEF Without
  <2>6. Held(SmearDone(q), "STAG", "dirac", b, (r + 1) - 1)
    BY <2>2, <2>4, <2>5, SmearDoneHeld
  <2>7. /\ SmearDone(q).smeared = TRUE /\ SmearedFields(SmearDone(q))
        /\ SmearDone(q).updates = q.updates
        /\ SmearDone(q).oldGauge = q.oldGauge
    BY <2>2, <2>4, SmearDoneHeld
  <2> QED
    BY <2>1, <2>3, <2>4, <2>6, <2>7
<1> QED
  BY <1>1, <1>2

\* A transporter of gauge fields works in canonical order and, if its note is
\* its own, restores the order it found.
LEMMA PtGaugeHeld ==
  ASSUME NEW g, NEW b, NEW r
  PROVE  /\ Held(g, "CANONICAL", "none", b, r) =>
              /\ Held(PtGauge(g), "CANONICAL", "transport", b, r + 1)
              /\ Notes(PtGauge(g)) = Notes(g)
         /\ Held(g, "WILSON", "dirac", b, r) =>
              /\ Held(PtGauge(g), "CANONICAL", "both", b, r + 1)
              /\ Notes(PtGauge(g)) =
                   <<g.updates, g.oldStag, g.oldCb, "WILSON", g.smeared,
                     g.fields, g.fieldsOf>>
<1> DEFINE q == ParTrans(g)
           h == [q EXCEPT !.oldGauge = q.str_ord]
<1>1. PtGauge(g) = IF q.str_ord = "CANONICAL" THEN q ELSE Convert(h, "CANONICAL")
  BY DEF PtGauge
<1>2. /\ "transport" \in Whos /\ "both" \in Whos /\ "CANONICAL" \in StrOrd
  BY OffsetOfLink DEF Whos
<1>3. ASSUME Held(g, "CANONICAL", "none", b, r)
      PROVE  /\ Held(PtGauge(g), "CANONICAL", "transport", b, r + 1)
             /\ Notes(PtGauge(g)) = Notes(g)
  <2>1. Held(q, "CANONICAL", "transport", b, r + 1) /\ Notes(q) = Notes(g)
    BY <1>3, ParTransHeld DEF With
  <2> HIDE DEF q
  <2>2. q.str_ord = "CANONICAL"
    BY <1>2, <2>1, HeldFacts
  <2> QED
    BY <1>1, <2>1, <2>2
<1>4. ASSUME Held(g, "WILSON", "dirac", b, r)
      PROVE  /\ Held(PtGauge(g), "CANONICAL", "both", b, r + 1)
             /\ Notes(PtGauge(g)) = <<g.updates, g.oldStag, g.oldCb, "WILSON",
                                      g.smeared, g.fields, g.fieldsOf>>
  <2>1. Held(q, "WILSON", "both", b, r + 1) /\ Notes(q) = Notes(g)
    BY <1>4, ParTransHeld DEF With
  <2> HIDE DEF q
  <2>2. IsField(q) /\ q.str_ord = "WILSON"
    BY <1>2, <2>1, HeldFacts
  <2>3. /\ IsField(h) /\ h.u = q.u /\ h.str_ord = q.str_ord
        /\ h.diracLock = q.diracLock /\ h.parLock = q.parLock
        /\ Notes(h) = <<q.updates, q.oldStag, q.oldCb, "WILSON", q.smeared,
                        q.fields, q.fieldsOf>>
    BY <2>2 DEF IsField, Notes
  <2> HIDE DEF h
  <2>4. Held(h, "WILSON", "both", b, r + 1)
    BY <1>2, <2>1, <2>3, NotedHeld
  <2>5. /\ Held(Convert(h, "CANONICAL"), "CANONICAL", "both", b, r + 1)
        /\ Notes(Convert(h, "CANONICAL")) = Notes(h)
    BY <1>2, <2>4, ConvertHeld
  <2>6. Notes(h) = <<g.updates, g.oldStag, g.oldCb, "WILSON", g.smeared,
                     g.fields, g.fieldsOf>>
    BY <2>1, <2>3 DEF Notes
  <2> QED
    BY <1>1, <2>2, <2>5, <2>6
<1> QED
  BY <1>3, <1>4

LEMMA PtGaugeEndHeld ==
  ASSUME NEW g, NEW b, NEW r
  PROVE  /\ Held(g, "CANONICAL", "transport", b, r)
            /\ g.oldGauge = "CANONICAL" =>
              /\ Held(PtGaugeEnd(g), "CANONICAL", "none", b, r - 1)
              /\ Notes(PtGaugeEnd(g)) = Notes(g)
         /\ Held(g, "CANONICAL", "both", b, r) /\ g.oldGauge = "WILSON" =>
              /\ Held(PtGaugeEnd(g), "WILSON", "dirac", b, r - 1)
              /\ Notes(PtGaugeEnd(g)) = Notes(g)
<1>1. ASSUME Held(g, "CANONICAL", "transport", b, r), g.oldGauge = "CANONICAL"
      PROVE  /\ Held(PtGaugeEnd(g), "CANONICAL", "none", b, r - 1)
             /\ Notes(PtGaugeEnd(g)) = Notes(g)
  <2>1. PtGaugeEnd(g) = ParTransEnd(g)
    BY <1>1 DEF PtGaugeEnd
  <2> QED
    BY <1>1, <2>1, ParTransEndHeld DEF Without
<1>2. ASSUME Held(g, "CANONICAL", "both", b, r), g.oldGauge = "WILSON"
      PROVE  /\ Held(PtGaugeEnd(g), "WILSON", "dirac", b, r - 1)
             /\ Notes(PtGaugeEnd(g)) = Notes(g)
  <2> DEFINE h == Convert(g, "WILSON")
  <2>1. PtGaugeEnd(g) = ParTransEnd(h)
    BY <1>2 DEF PtGaugeEnd
  <2>2. "WILSON" \in StrOrd /\ "both" \in Whos
    BY OffsetOfLink DEF Whos
  <2>3. Held(h, "WILSON", "both", b, r) /\ Notes(h) = Notes(g)
    BY <1>2, <2>2, ConvertHeld
  <2> HIDE DEF h
  <2> QED
    BY <2>1, <2>3, ParTransEndHeld DEF Without
<1> QED
  BY <1>1, <1>2

\* The blocked transporter of DiracOpP4 puts the field into an order of its own
\* inside the STAG order of the operator.
LEMMA StaggeredCbHeld ==
  ASSUME NEW g, NEW b, NEW r
  PROVE  /\ Held(g, "STAG", "dirac", b, r) =>
              /\ Held(StaggeredCb(g), "STAG_BLOCK", "both", b, r + 1)
              /\ Notes(StaggeredCb(g)) =
                   <<g.updates, "STAG", "STAG", g.oldGauge, g.smeared,
                     g.fields, g.fieldsOf>>
         /\ Held(g, "STAG_BLOCK", "both", b, r)
            /\ g.oldCb = "STAG" /\ g.oldStag = "STAG" =>
              /\ Held(StaggeredCbEnd(g), "STAG", "dirac", b, r - 1)
              /\ Notes(StaggeredCbEnd(g)) = Notes(g)
<1>1. /\ "dirac" \in Whos /\ "both" \in Whos
      /\ "STAG" \in StrOrd /\ "STAG_BLOCK" \in StrOrd
  BY OffsetOfLink DEF Whos
<1>2. ASSUME Held(g, "STAG", "dirac", b, r)
      PROVE  /\ Held(StaggeredCb(g), "STAG_BLOCK", "both", b, r + 1)
             /\ Notes(StaggeredCb(g)) =
                  <<g.updates, "STAG", "STAG", g.oldGauge, g.smeared,
                    g.fields, g.fieldsOf>>
  <2> DEFINE q == StagTypes(g)
             h == [q EXCEPT !.oldCb = q.str_ord]
  <2>1. /\ Held(q, "STAG", "both", b, r + 1)
        /\ Notes(q) = <<g.updates, "STAG", g.oldCb, g.oldGauge, g.smeared,
                        g.fields, g.fieldsOf>>
    BY <1>2, StagTypesHeld DEF With
  <2>2. StaggeredCb(g) = Convert(h, "STAG_BLOCK")
    BY DEF StaggeredCb
  <2> HIDE DEF q
  <2>3. IsField(q) /\ q.str_ord = "STAG"
    BY <1>1, <2>1, HeldFacts
  <2>4. /\ IsField(h) /\ h.u = q.u /\ h.str_ord = q.str_ord
        /\ h.diracLock = q.diracLock /\ h.parLock = q.parLock
        /\ Notes(h) = <<q.updates, q.oldStag, "STAG", q.oldGauge, q.smeared,
                        q.fields, q.fieldsOf>>
    BY <2>3 DEF IsField, Notes
  <2> HIDE DEF h
  <2>5. Held(h, "STAG", "both", b, r + 1)
    BY <1>1, <2>1, <2>4, NotedHeld
  <2>6. /\ Held(Convert(h, "STAG_BLOCK"), "STAG_BLOCK", "both", b, r + 1)
        /\ Notes(Convert(h, "STAG_BLOCK")) = Notes(h)
    BY <1>1, <2>5, ConvertHeld
  <2>7. Notes(h) = <<g.updates, "STAG", "STAG", g.oldGauge, g.smeared,
                     g.fields, g.fieldsOf>>
    BY <2>1, <2>4 DEF Notes
  <2> QED
    BY <2>2, <2>6, <2>7
<1>3. ASSUME Held(g, "STAG_BLOCK", "both", b, r),
             g.oldCb = "STAG", g.oldStag = "STAG"
      PROVE  /\ Held(StaggeredCbEnd(g), "STAG", "dirac", b, r - 1)
             /\ Notes(StaggeredCbEnd(g)) = Notes(g)
  <2> DEFINE h == Convert(g, "STAG")
  <2>1. StaggeredCbEnd(g) = StagTypesEnd(h)
    BY <1>3 DEF StaggeredCbEnd
  <2>2. Held(h, "STAG", "both", b, r) /\ Notes(h) = Notes(g)
    BY <1>1, <1>3, ConvertHeld
  <2> HIDE DEF h
  <2>3. h.oldStag = "STAG"
    BY <1>3, <2>2 DEF Notes
  <2> QED
    BY <2>1, <2>2, <2>3, StagTypesEndHeld DEF Without
<1> QED
  BY <1>2, <1>3

\* A Lattice scales the field when it comes and when it goes, and unitarizing
\* the links makes the factors good again whatever they were.
LEMMA LatticeHeld ==
  ASSUME NEW g, NEW b, NEW r, Held(g, "CANONICAL", "none", b, r)
  PROVE  /\ Held(MltFloat(g, -1, 0), "CANONICAL", "none", b - 1, r)
         /\ Notes(MltFloat(g, -1, 0)) = Notes(g)
         /\ Held(Reunitarized(g), "CANONICAL", "none", 1, 0)
         /\ Notes(Reunitarized(g)) =
              <<g.updates, g.oldStag, g.oldCb, g.oldGauge, FALSE, g.fields,
                g.fieldsOf>>
<1>0. /\ b \in Int /\ r \in Int /\ "none" \in Whos
      /\ Field(g, "CANONICAL", FALSE, FALSE, FALSE, b, r)
  BY HeldFacts DEF Held, Whos
<1>1. /\ Held(MltFloat(g, -1, 0), "CANONICAL", "none", b - 1, r)
      /\ Notes(MltFloat(g, -1, 0)) = Notes(g)
  BY <1>0, FactorField DEF Held
<1> DEFINE u == [i \in Index |-> [g.u[i] EXCEPT !.bare = 0, !.ratio = 0]]
           h == [g EXCEPT !.u = u, !.smeared = FALSE]
<1>2. Reunitarized(g) = MltFloat(h, 1, 0)
  BY DEF Reunitarized
<1>3. IsField(g) /\ g.str_ord = "CANONICAL" /\ "CANONICAL" \in StrOrd
  BY <1>0 DEF Field
<1> HIDE DEF u
<1>4. /\ IsField(h) /\ h.u = u /\ h.str_ord = "CANONICAL"
      /\ h.diracLock = g.diracLock /\ h.parLock = g.parLock
      /\ Notes(h) = <<g.updates, g.oldStag, g.oldCb, g.oldGauge, FALSE,
                      g.fields, g.fieldsOf>>
  BY <1>3 DEF IsField, Notes
<1> HIDE DEF h
<1>5. ASSUME NEW l \in Link
      PROVE  /\ Logical(h)[l] \in LinkVal
             /\ Logical(h)[l].neg = FALSE
             /\ Logical(h)[l].bare = 0
             /\ Logical(h)[l].ratio = 0
  <2> DEFINE i == Offset["CANONICAL"][l]
             v == Logical(g)[l]
  <2>1. i \in Index
    BY <1>3, OffsetInjective
  <2>2. v = g.u[i] /\ Logical(h)[l] = h.u[i]
    BY <1>3, <1>4 DEF Logical
  <2>3. h.u[i] = [g.u[i] EXCEPT !.bare = 0, !.ratio = 0]
    BY <1>4, <2>1 DEF u
  <2>4. v \in LinkVal
    BY <1>0 DEF Field, Looks
  <2>5. v.neg = FALSE
    BY <1>0 DEF Field, Looks, LinkVal
  <2> HIDE DEF i, v
  <2>6. Logical(h)[l] = [v EXCEPT !.bare = 0, !.ratio = 0]
    BY <2>2, <2>3
  <2>7. /\ Logical(h)[l].neg = v.neg
        /\ Logical(h)[l].bare = 0
        /\ Logical(h)[l].ratio = 0
    BY <2>4, <2>6 DEF LinkVal
  <2>8. Logical(h)[l] = [neg |-> v.neg, bare |-> 0, ratio |-> 0]
    BY <2>4, <2>6 DEF LinkVal
  <2>9. Logical(h)[l] \in LinkVal
    BY <2>4, <2>8 DEF LinkVal
  <2> QED
    BY <2>5, <2>7, <2>9
<1>6. Field(h, "CANONICAL", FALSE, FALSE, FALSE, 0, 0)
  <2>1. Looks(h, FALSE, 0, 0)
    BY <1>5 DEF Looks
  <2>2. g.diracLock = FALSE /\ g.parLock = FALSE
    BY <1>0 DEF Field
  <2>3. h.diracLock = FALSE /\ h.parLock = FALSE
    BY <1>4, <2>2
  <2>4. IsField(h) /\ h.str_ord = "CANONICAL"
    BY <1>4
  <2>5. FALSE \in BOOLEAN /\ 0 \in Int
    OBVIOUS
  <2>6. Field(h, "CANONICAL", h.diracLock, h.parLock, FALSE, 0, 0)
    BY <1>3, <2>1, <2>4, <2>5 DEF Field
  <2> QED
    BY <2>3, <2>6
<1>7. /\ Field(MltFloat(h, 1, 0), "CANONICAL", FALSE, FALSE, FALSE, 1, 0)
      /\ Notes(MltFloat(h, 1, 0)) = Notes(h)
  <2>1. \A x : Field(h, "CANONICAL", FALSE, FALSE, FALSE, x, 0) =>
          /\ Field(MltFloat(h, 1, 0), "CANONICAL", FALSE, FALSE, FALSE,
                   x + 1, 0)
          /\ Notes(MltFloat(h, 1, 0)) = Notes(h)
    BY FactorField
  <2>2. 0 + 1 = 1
    OBVIOUS
  <2> QED
    BY <1>6, <2>1, <2>2
<1> QED
  BY <1>1, <1>2, <1>4, <1>7 DEF Held

-----------------------------------------------------------------------------
(* The inductive invariant *)

KindsOK ==
  /\ ptUse \in PtGaugeUses
  /\ f.smeared \in BOOLEAN
  /\ open # <<>> => kind # "none"

\* Marked links are those of the present field.  A note of ParTransGauge is
\* that of the object that ends next: this is where the use of ParTransGauge in
\* one place only is needed.
NotesOK ==
  /\ f.smeared => SmearedFields(f)
  /\ "inside" \notin ptUse => f.oldGauge = "CANONICAL"

Alone ==
  /\ open = <<>>
  /\ kind = "none" => Held(f, "CANONICAL", "none", 0, 0)
  /\ kind # "none" => Held(f, "CANONICAL", "none", 1, 0)

InWilson == open = <<"Wilson">> /\ Held(f, "WILSON", "dirac", 1, 1)

InStag == open = <<"Stag">> /\ Held(f, "STAG", "dirac", 1, 1)

InP4 ==
  /\ open = <<"P4">>
  /\ Held(f, "STAG_BLOCK", "both", 1, 2)
  /\ f.oldStag = "STAG" /\ f.oldCb = "STAG" /\ f.smeared

InAsqtad ==
  /\ open = <<"Asqtad">>
  /\ Held(f, "STAG", "transport", 1, 1)
  /\ f.oldStag = "STAG"

InSmear ==
  /\ open = <<"Smear">>
  /\ Held(f, "STAG", "transport", 1, 1)
  /\ f.oldStag = "CANONICAL"

InGauge ==
  /\ open = <<"Gauge">>
  /\ Held(f, "CANONICAL", "transport", 1, 1)
  /\ f.oldGauge = "CANONICAL"

InBoth ==
  /\ open = <<"Wilson", "Gauge">>
  /\ Held(f, "CANONICAL", "both", 1, 2)
  /\ f.oldGauge = "WILSON" /\ "inside" \in ptUse

IInv ==
  /\ KindsOK /\ NotesOK
  /\ \/ Alone \/ InWilson \/ InStag \/ InP4 \/ InAsqtad \/ InSmear \/ InGauge
     \/ InBoth

\* A program uses ParTransGauge in one place, or not at all.
OneGaugeUse == \A use \in PtGaugeUses : use # {"inside", "outside"}

-----------------------------------------------------------------------------
(* Stacks of at most two objects *)

LEMMA Stacks ==
  /\ \A s : /\ <<s>> # <<>> /\ Len(<<s>>) = 1 /\ <<s>>[1] = s
            /\ Append(<<>>, s) = <<s>>
            /\ SubSeq(<<s>>, 1, 0) = <<>>
  /\ \A s, t : /\ <<s, t>> # <<>> /\ Len(<<s, t>>) = 2
               /\ <<s, t>>[1] = s /\ <<s, t>>[2] = t
               /\ Append(<<s>>, t) = <<s, t>>
               /\ SubSeq(<<s, t>>, 1, 1) = <<s>>
<1>1. ASSUME NEW s
      PROVE  /\ <<s>> # <<>> /\ Len(<<s>>) = 1 /\ <<s>>[1] = s
             /\ Append(<<>>, s) = <<s>>
             /\ SubSeq(<<s>>, 1, 0) = <<>>
  OBVIOUS
<1>2. ASSUME NEW s, NEW t
      PROVE  /\ <<s, t>> # <<>> /\ Len(<<s, t>>) = 2
             /\ <<s, t>>[1] = s /\ <<s, t>>[2] = t
             /\ Append(<<s>>, t) = <<s, t>>
             /\ SubSeq(<<s, t>>, 1, 1) = <<s>>
  <2>1. <<s, t>> # <<>> /\ Len(<<s, t>>) = 2
    OBVIOUS
  <2>2. <<s, t>>[1] = s /\ <<s, t>>[2] = t
    OBVIOUS
  <2> DEFINE S == {s, t}
  <2>3. Append(<<s>>, t) = <<s, t>>
    <3> DEFINE a == Append(<<s>>, t)
    <3>1. <<s>> \in Seq(S) /\ t \in S /\ <<s, t>> \in Seq(S)
      OBVIOUS
    <3>2. a \in Seq(S) /\ Len(a) = 2 /\ a[1] = s /\ a[2] = t
      BY <3>1
    <3> HIDE DEF a, S
    <3>3. \A i \in 1..Len(a) : a[i] = <<s, t>>[i]
      BY <2>2, <3>2
    <3> QED
      BY <2>1, <3>1, <3>2, <3>3, SeqEqual DEF a
  <2>4. SubSeq(<<s, t>>, 1, 1) = <<s>>
    <3> DEFINE a == SubSeq(<<s, t>>, 1, 1)
    <3>1. <<s>> \in Seq(S) /\ \A i \in 1..1 : <<s, t>>[i] \in S
      BY <2>2
    <3>2. a \in Seq(S) /\ Len(a) = 1 /\ a[1] = s
      <4> HIDE DEF S
      <4>1. /\ a \in Seq(S) /\ Len(a) = IF 1 <= 1 THEN 1 - 1 + 1 ELSE 0
            /\ \A i \in 1..(1 - 1 + 1) : a[i] = <<s, t>>[1 + i - 1]
        BY <3>1, SubSeqProperties
      <4> QED
        BY <2>2, <4>1
    <3>3. Len(<<s>>) = 1 /\ <<s>>[1] = s
      OBVIOUS
    <3> HIDE DEF a, S
    <3>4. \A i \in 1..Len(a) : a[i] = <<s>>[i]
      BY <3>2, <3>3
    <3> QED
      BY <3>1, <3>2, <3>3, <3>4, SeqEqual DEF a
  <2> QED
    BY <2>1, <2>2, <2>3, <2>4
<1> QED
  BY <1>1, <1>2

\* Which phase an object of the given name ends in.
LEMMA Youngest ==
  ASSUME IInv, NEW name, open # <<>>, open[Len(open)] = name
  PROVE  /\ name = "Wilson" => InWilson
         /\ name = "Stag" => InStag
         /\ name = "P4" => InP4
         /\ name = "Asqtad" => InAsqtad
         /\ name = "Smear" => InSmear
         /\ name = "Gauge" => InGauge \/ InBoth
         /\ \A s : open = <<s>> => SubSeq(open, 1, Len(open) - 1) = <<>>
         /\ \A s, t : open = <<s, t>> => SubSeq(open, 1, Len(open) - 1) = <<s>>
<1>1. /\ \A s : open = <<s>> => name = s
                                /\ SubSeq(open, 1, Len(open) - 1) = <<>>
      /\ \A s, t : open = <<s, t>> => name = t
                                      /\ SubSeq(open, 1, Len(open) - 1) = <<s>>
  <2>1. ASSUME NEW s, open = <<s>>
        PROVE  name = s /\ SubSeq(open, 1, Len(open) - 1) = <<>>
    <3>1. Len(open) = 1 /\ Len(open) - 1 = 0
      BY <2>1, Stacks
    <3> QED
      BY <2>1, <3>1, Stacks
  <2>2. ASSUME NEW s, NEW t, open = <<s, t>>
        PROVE  name = t /\ SubSeq(open, 1, Len(open) - 1) = <<s>>
    <3>1. Len(open) = 2 /\ Len(open) - 1 = 1
      BY <2>2, Stacks
    <3> QED
      BY <2>2, <3>1, Stacks
  <2> QED
    BY <2>1, <2>2
<1>2. CASE InWilson
  BY <1>1, <1>2 DEF InWilson
<1>3. CASE InStag
  BY <1>1, <1>3 DEF InStag
<1>4. CASE InP4
  BY <1>1, <1>4 DEF InP4
<1>5. CASE InAsqtad
  BY <1>1, <1>5 DEF InAsqtad
<1>6. CASE InGauge
  BY <1>1, <1>6 DEF InGauge
<1>7. CASE InBoth
  BY <1>1, <1>7 DEF InBoth
<1>8. CASE InSmear
  BY <1>1, <1>8 DEF InSmear
<1> QED
  BY <1>1, <1>2, <1>3, <1>4, <1>5, <1>6, <1>7, <1>8 DEF IInv, Alone

\* What is known of the field before a step whose boundary and direction do not
\* change is known after it.
LEMMA HeldAfter ==
  ASSUME bc' = bc, xiDir' = xiDir,
         NEW o, NEW who, NEW b, NEW r, Held(f', o, who, b, r)
  PROVE  Held(f, o, who, b, r)'
BY DEF Held, Field, Looks, Logical, AtBoundary, IsField

LEMMA SmearedAfter ==
  ASSUME bc' = bc, SmearedFields(f')
  PROVE  SmearedFields(f)'
BY DEF SmearedFields, AtBoundary

-----------------------------------------------------------------------------
(* Every step keeps the invariant *)

LEMMA OldestKnown ==
  ASSUME IInv
  PROVE  /\ open = <<>> => Alone
         /\ open = <<"Wilson">> => InWilson
<1>1. /\ \A s : <<s>> # <<>> /\ Len(<<s>>) = 1
      /\ \A s, t : <<s, t>> # <<>> /\ Len(<<s, t>>) = 2
  BY Stacks
<1>2. \A s, t, w : <<s, t>> # <<w>>
  <2>1. ASSUME NEW s, NEW t, NEW w, <<s, t>> = <<w>> PROVE FALSE
    <3>1. Len(<<s, t>>) = 2 /\ Len(<<w>>) = 1
      BY <1>1
    <3> QED
      BY <2>1, <3>1
  <2> QED
    BY <2>1
<1>3. \A s, w : <<s>> = <<w>> => s = w
  BY Stacks
<1>4. open = <<>> => Alone
  BY <1>1 DEF IInv, InWilson, InStag, InP4, InAsqtad, InSmear, InGauge, InBoth
<1>5. open = <<"Wilson">> => InWilson
  BY <1>1, <1>2, <1>3
     DEF IInv, Alone, InStag, InP4, InAsqtad, InSmear, InGauge, InBoth
<1> QED
  BY <1>4, <1>5

\* What a step has to do for the parts that do not depend on the stack.
LEMMA NotesAfter ==
  ASSUME KindsOK, NotesOK, bc' = bc, ptUse' = ptUse,
         /\ f'.updates = f.updates /\ f'.fields = f.fields
         /\ f'.fieldsOf = f.fieldsOf /\ f'.smeared = f.smeared,
         f'.oldGauge = f.oldGauge \/ "inside" \in ptUse
  PROVE  NotesOK' /\ (f.smeared \in BOOLEAN)'
<1>1. f'.smeared \in BOOLEAN
  BY DEF KindsOK
<1>2. ASSUME f'.smeared PROVE SmearedFields(f)'
  <2>1. SmearedFields(f)
    BY <1>2 DEF NotesOK
  <2>2. SmearedFields(f')
    BY <2>1 DEF SmearedFields
  <2> QED
    BY <2>2, SmearedAfter
<1> QED
  BY <1>1, <1>2 DEF NotesOK

\* Objects that come and go and note nothing of their own.
LEMMA LatticeSteps ==
  ASSUME IInv,
         \/ \E k \in {"wilson", "stag", "p4"} : OpenLattice(k)
         \/ CloseLattice \/ EvolveGfield \/ Reunitarize
  PROVE  IInv'
<1>1. KindsOK /\ NotesOK
  BY DEF IInv
<1>2. ASSUME NEW k \in {"wilson", "stag", "p4"}, OpenLattice(k) PROVE IInv'
  <2>1. open = <<>> /\ kind = "none"
    BY <1>1, <1>2 DEF OpenLattice, KindsOK
  <2>2. Held(f, "CANONICAL", "none", 0, 0)
    BY <2>1, OldestKnown DEF Alone
  <2> DEFINE g == Convert(f, "CANONICAL")
  <2>3. "CANONICAL" \in StrOrd /\ "none" \in Whos
    BY OffsetOfLink DEF Whos
  <2>4. Held(g, "CANONICAL", "none", 0, 0) /\ Notes(g) = Notes(f)
    BY <2>2, <2>3, ConvertHeld
  <2>5. f' = Reunitarized(g)
    BY <1>2 DEF OpenLattice
  <2> HIDE DEF g
  <2>6. /\ Held(f', "CANONICAL", "none", 1, 0)
        /\ Notes(f') = <<g.updates, g.oldStag, g.oldCb, g.oldGauge, FALSE,
                         g.fields, g.fieldsOf>>
    BY <2>4, <2>5, LatticeHeld
  <2>7. f'.smeared = FALSE /\ f'.oldGauge = f.oldGauge
    BY <2>4, <2>6 DEF Notes
  <2>8. /\ bc' = bc /\ xiDir' = xiDir /\ ptUse' = ptUse /\ open' = <<>>
        /\ kind' # "none"
    BY <1>2, <2>1 DEF OpenLattice
  <2>9. Held(f, "CANONICAL", "none", 1, 0)'
    BY <2>6, <2>8, HeldAfter
  <2>10. Alone'
    BY <2>8, <2>9 DEF Alone
  <2>11. KindsOK' /\ NotesOK'
    BY <1>1, <2>7, <2>8 DEF KindsOK, NotesOK
  <2> QED
    BY <2>10, <2>11 DEF IInv
<1>3. ASSUME CloseLattice PROVE IInv'
  <2>1. open = <<>> /\ kind # "none"
    BY <1>3 DEF CloseLattice
  <2>2. Held(f, "CANONICAL", "none", 1, 0)
    BY <2>1, OldestKnown DEF Alone
  <2>3. f' = MltFloat(f, -1, 0)
    BY <1>3 DEF CloseLattice
  <2>4. Held(f', "CANONICAL", "none", 1 - 1, 0) /\ Notes(f') = Notes(f)
    BY <2>2, <2>3, LatticeHeld
  <2>5. /\ bc' = bc /\ xiDir' = xiDir /\ ptUse' = ptUse /\ open' = <<>>
        /\ kind' = "none"
    BY <1>3, <2>1 DEF CloseLattice
  <2>6. 1 - 1 = 0
    OBVIOUS
  <2>7. Held(f, "CANONICAL", "none", 0, 0)'
    BY <2>4, <2>5, <2>6, HeldAfter
  <2>8. Alone'
    BY <2>5, <2>7 DEF Alone
  <2>9. /\ f'.updates = f.updates /\ f'.fields = f.fields
        /\ f'.fieldsOf = f.fieldsOf /\ f'.smeared = f.smeared
        /\ f'.oldGauge = f.oldGauge
    BY <2>4 DEF Notes
  <2>10. KindsOK' /\ NotesOK'
    BY <1>1, <2>5, <2>9, NotesAfter DEF KindsOK
  <2> QED
    BY <2>8, <2>10 DEF IInv
<1>4. ASSUME EvolveGfield PROVE IInv'
  <2>1. open = <<>> /\ kind # "none"
    BY <1>4 DEF EvolveGfield
  <2>2. Held(f, "CANONICAL", "none", 1, 0) /\ "none" \in Whos
    BY <2>1, OldestKnown DEF Alone, Whos
  <2>3. f' = [f EXCEPT !.updates = @ + 1, !.smeared = FALSE]
    BY <1>4 DEF EvolveGfield, Evolved
  <2>4. IsField(f)
    BY <2>2, HeldFacts
  <2>5. /\ IsField(f') /\ f'.u = f.u /\ f'.str_ord = f.str_ord
        /\ f'.diracLock = f.diracLock /\ f'.parLock = f.parLock
        /\ f'.smeared = FALSE /\ f'.oldGauge = f.oldGauge
    BY <2>3, <2>4 DEF IsField
  <2>6. Held(f', "CANONICAL", "none", 1, 0)
    BY <2>2, <2>5, NotedHeld
  <2>7. /\ bc' = bc /\ xiDir' = xiDir /\ ptUse' = ptUse /\ open' = <<>>
        /\ kind' # "none"
    BY <1>4, <2>1 DEF EvolveGfield
  <2>8. Held(f, "CANONICAL", "none", 1, 0)'
    BY <2>6, <2>7, HeldAfter
  <2>9. Alone'
    BY <2>7, <2>8 DEF Alone
  <2>10. KindsOK' /\ NotesOK'
    BY <1>1, <2>5, <2>7 DEF KindsOK, NotesOK
  <2> QED
    BY <2>9, <2>10 DEF IInv
<1>5. ASSUME Reunitarize PROVE IInv'
  <2>1. open = <<>> /\ kind # "none"
    BY <1>5 DEF Reunitarize
  <2>2. Held(f, "CANONICAL", "none", 1, 0)
    BY <2>1, OldestKnown DEF Alone
  <2> DEFINE g == MltFloat(f, -1, 0)
  <2>3. Held(g, "CANONICAL", "none", 1 - 1, 0) /\ Notes(g) = Notes(f)
    BY <2>2, LatticeHeld
  <2>4. f' = Reunitarized(g)
    BY <1>5 DEF Reunitarize
  <2> HIDE DEF g
  <2>5. /\ Held(f', "CANONICAL", "none", 1, 0)
        /\ Notes(f') = <<g.updates, g.oldStag, g.oldCb, g.oldGauge, FALSE,
                         g.fields, g.fieldsOf>>
    BY <2>3, <2>4, LatticeHeld
  <2>6. f'.smeared = FALSE /\ f'.oldGauge = f.oldGauge
    BY <2>3, <2>5 DEF Notes
  <2>7. /\ bc' = bc /\ xiDir' = xiDir /\ ptUse' = ptUse /\ open' = <<>>
        /\ kind' # "none"
    BY <1>5, <2>1 DEF Reunitarize
  <2>8. Held(f, "CANONICAL", "none", 1, 0)'
    BY <2>5, <2>7, HeldAfter
  <2>9. Alone'
    BY <2>7, <2>8 DEF Alone
  <2>10. KindsOK' /\ NotesOK'
    BY <1>1, <2>6, <2>7 DEF KindsOK, NotesOK
  <2> QED
    BY <2>9, <2>10 DEF IInv
<1> QED
  BY <1>2, <1>3, <1>4, <1>5

LEMMA WilsonSteps ==
  ASSUME IInv, OpenWilson \/ CloseWilson
  PROVE  IInv'
<1>1. /\ KindsOK /\ NotesOK /\ "none" \in Whos /\ "dirac" \in Whos
      /\ "CANONICAL" \in StrOrd /\ "WILSON" \in StrOrd
  BY OffsetOfLink DEF IInv, Whos
<1>2. ASSUME OpenWilson PROVE IInv'
  <2>1. open = <<>> /\ kind # "none"
    BY <1>2 DEF OpenWilson
  <2>2. Held(f, "CANONICAL", "none", 1, 0)
    BY <2>1, OldestKnown DEF Alone
  <2> DEFINE g == DiracOp(f)
  <2>3. Held(g, "CANONICAL", "dirac", 1, 0 + 1) /\ Notes(g) = Notes(f)
    BY <2>2, DiracOpHeld
  <2>4. 0 + 1 = 1
    OBVIOUS
  <2>5. f' = Convert(g, "WILSON")
    BY <1>2 DEF OpenWilson, Opens
  <2> HIDE DEF g
  <2>6. Held(f', "WILSON", "dirac", 1, 1) /\ Notes(f') = Notes(g)
    BY <1>1, <2>3, <2>4, <2>5, ConvertHeld
  <2>7. /\ bc' = bc /\ xiDir' = xiDir /\ ptUse' = ptUse /\ kind' = kind
        /\ open' = <<"Wilson">>
    BY <1>2, <2>1, Stacks DEF OpenWilson, Opens
  <2>8. Held(f, "WILSON", "dirac", 1, 1)'
    BY <2>6, <2>7, HeldAfter
  <2>9. InWilson'
    BY <2>7, <2>8 DEF InWilson
  <2>10. /\ f'.updates = f.updates /\ f'.fields = f.fields
         /\ f'.fieldsOf = f.fieldsOf /\ f'.smeared = f.smeared
         /\ f'.oldGauge = f.oldGauge
    BY <2>3, <2>6 DEF Notes
  <2>11. KindsOK' /\ NotesOK'
    BY <1>1, <2>1, <2>7, <2>10, NotesAfter DEF KindsOK
  <2> QED
    BY <2>9, <2>11 DEF IInv
<1>3. ASSUME CloseWilson PROVE IInv'
  <2>1. open # <<>> /\ open[Len(open)] = "Wilson"
    BY <1>3 DEF CloseWilson, Closes
  <2>2. open = <<"Wilson">> /\ Held(f, "WILSON", "dirac", 1, 1)
    BY <2>1, Youngest DEF InWilson
  <2> DEFINE g == Convert(f, "CANONICAL")
  <2>3. Held(g, "CANONICAL", "dirac", 1, 1) /\ Notes(g) = Notes(f)
    BY <1>1, <2>2, ConvertHeld
  <2>4. f' = DiracOpEnd(g)
    BY <1>3 DEF CloseWilson, Closes
  <2> HIDE DEF g
  <2>5. Held(f', "CANONICAL", "none", 1, 1 - 1) /\ Notes(f') = Notes(g)
    BY <2>3, <2>4, DiracOpHeld
  <2>6. 1 - 1 = 0
    OBVIOUS
  <2>7. /\ bc' = bc /\ xiDir' = xiDir /\ ptUse' = ptUse /\ kind' = kind
        /\ open' = <<>>
    BY <1>3, <2>1, <2>2, Youngest DEF CloseWilson, Closes
  <2>8. Held(f, "CANONICAL", "none", 1, 0)'
    BY <2>5, <2>6, <2>7, HeldAfter
  <2>9. kind # "none"
    BY <1>1, <2>1 DEF KindsOK
  <2>10. Alone'
    BY <2>7, <2>8, <2>9 DEF Alone
  <2>11. /\ f'.updates = f.updates /\ f'.fields = f.fields
         /\ f'.fieldsOf = f.fieldsOf /\ f'.smeared = f.smeared
         /\ f'.oldGauge = f.oldGauge
    BY <2>3, <2>5 DEF Notes
  <2>12. KindsOK' /\ NotesOK'
    BY <1>1, <2>7, <2>11, NotesAfter DEF KindsOK
  <2> QED
    BY <2>10, <2>12 DEF IInv
<1> QED
  BY <1>2, <1>3

LEMMA StagSteps ==
  ASSUME IInv, OpenStag \/ CloseStag
  PROVE  IInv'
<1>1. /\ KindsOK /\ NotesOK /\ "none" \in Whos /\ "dirac" \in Whos
      /\ "CANONICAL" \in StrOrd /\ "STAG" \in StrOrd
  BY OffsetOfLink DEF IInv, Whos
<1>2. ASSUME OpenStag PROVE IInv'
  <2>1. open = <<>> /\ kind # "none"
    BY <1>2 DEF OpenStag
  <2>2. Held(f, "CANONICAL", "none", 1, 0)
    BY <2>1, OldestKnown DEF Alone
  <2> DEFINE g == DiracOp(f)
  <2>3. Held(g, "CANONICAL", "dirac", 1, 0 + 1) /\ Notes(g) = Notes(f)
    BY <2>2, DiracOpHeld
  <2>4. 0 + 1 = 1
    OBVIOUS
  <2>5. f' = Convert(g, "STAG")
    BY <1>2 DEF OpenStag, Opens
  <2> HIDE DEF g
  <2>6. Held(f', "STAG", "dirac", 1, 1) /\ Notes(f') = Notes(g)
    BY <1>1, <2>3, <2>4, <2>5, ConvertHeld
  <2>7. /\ bc' = bc /\ xiDir' = xiDir /\ ptUse' = ptUse /\ kind' = kind
        /\ open' = <<"Stag">>
    BY <1>2, <2>1, Stacks DEF OpenStag, Opens
  <2>8. Held(f, "STAG", "dirac", 1, 1)'
    BY <2>6, <2>7, HeldAfter
  <2>9. InStag'
    BY <2>7, <2>8 DEF InStag
  <2>10. /\ f'.updates = f.updates /\ f'.fields = f.fields
         /\ f'.fieldsOf = f.fieldsOf /\ f'.smeared = f.smeared
         /\ f'.oldGauge = f.oldGauge
    BY <2>3, <2>6 DEF Notes
  <2>11. KindsOK' /\ NotesOK'
    BY <1>1, <2>1, <2>7, <2>10, NotesAfter DEF KindsOK
  <2> QED
    BY <2>9, <2>11 DEF IInv
<1>3. ASSUME CloseStag PROVE IInv'
  <2>1. open # <<>> /\ open[Len(open)] = "Stag"
    BY <1>3 DEF CloseStag, Closes
  <2>2. open = <<"Stag">> /\ Held(f, "STAG", "dirac", 1, 1)
    BY <2>1, Youngest DEF InStag
  <2> DEFINE g == Convert(f, "CANONICAL")
  <2>3. Held(g, "CANONICAL", "dirac", 1, 1) /\ Notes(g) = Notes(f)
    BY <1>1, <2>2, ConvertHeld
  <2>4. f' = DiracOpEnd(g)
    BY <1>3 DEF CloseStag, Closes
  <2> HIDE DEF g
  <2>5. Held(f', "CANONICAL", "none", 1, 1 - 1) /\ Notes(f') = Notes(g)
    BY <2>3, <2>4, DiracOpHeld
  <2>6. 1 - 1 = 0
    OBVIOUS
  <2>7. /\ bc' = bc /\ xiDir' = xiDir /\ ptUse' = ptUse /\ kind' = kind
        /\ open' = <<>>
    BY <1>3, <2>1, <2>2, Youngest DEF CloseStag, Closes
  <2>8. Held(f, "CANONICAL", "none", 1, 0)'
    BY <2>5, <2>6, <2>7, HeldAfter
  <2>9. kind # "none"
    BY <1>1, <2>1 DEF KindsOK
  <2>10. Alone'
    BY <2>7, <2>8, <2>9 DEF Alone
  <2>11. /\ f'.updates = f.updates /\ f'.fields = f.fields
         /\ f'.fieldsOf = f.fieldsOf /\ f'.smeared = f.smeared
         /\ f'.oldGauge = f.oldGauge
    BY <2>3, <2>5 DEF Notes
  <2>12. KindsOK' /\ NotesOK'
    BY <1>1, <2>7, <2>11, NotesAfter DEF KindsOK
  <2> QED
    BY <2>10, <2>12 DEF IInv
<1> QED
  BY <1>2, <1>3

LEMMA P4Steps ==
  ASSUME IInv, OpenP4 \/ CloseP4
  PROVE  IInv'
<1>1. /\ KindsOK /\ NotesOK /\ "none" \in Whos /\ "dirac" \in Whos
      /\ "CANONICAL" \in StrOrd /\ "STAG" \in StrOrd
  BY OffsetOfLink DEF IInv, Whos
<1>2. ASSUME OpenP4 PROVE IInv'
  <2>1. open = <<>> /\ kind # "none"
    BY <1>2 DEF OpenP4
  <2>2. Held(f, "CANONICAL", "none", 1, 0)
    BY <2>1, OldestKnown DEF Alone
  <2> DEFINE g == DiracOp(f)
             h == Convert(g, "STAG")
             k == Smear(h)
  <2>3. 0 + 1 = 1 /\ 1 + 1 = 2
    OBVIOUS
  <2>4. Held(g, "CANONICAL", "dirac", 1, 0 + 1) /\ Notes(g) = Notes(f)
    BY <2>2, DiracOpHeld
  <2>5. f' = StaggeredCb(k)
    BY <1>2 DEF OpenP4, Opens
  <2> HIDE DEF g
  <2>6. Held(h, "STAG", "dirac", 1, 1) /\ Notes(h) = Notes(g)
    BY <1>1, <2>3, <2>4, ConvertHeld
  <2> HIDE DEF h
  <2>7. /\ h.updates = f.updates /\ h.fields = f.fields
        /\ h.fieldsOf = f.fieldsOf /\ h.smeared = f.smeared
        /\ h.oldGauge = f.oldGauge
    BY <2>4, <2>6 DEF Notes
  <2>8. h.smeared \in BOOLEAN /\ (h.smeared => SmearedFields(h))
    BY <1>1, <2>7 DEF KindsOK, NotesOK, SmearedFields
  <2>9. /\ Held(k, "STAG", "dirac", 1, 1)
        /\ k.smeared = TRUE /\ SmearedFields(k) /\ k.oldGauge = f.oldGauge
    BY <2>6, <2>7, <2>8, SmearHeld
  <2> HIDE DEF k
  <2>10. /\ Held(f', "STAG_BLOCK", "both", 1, 1 + 1)
         /\ Notes(f') = <<k.updates, "STAG", "STAG", k.oldGauge, k.smeared,
                          k.fields, k.fieldsOf>>
    BY <2>5, <2>9, StaggeredCbHeld
  <2>11. /\ bc' = bc /\ xiDir' = xiDir /\ ptUse' = ptUse /\ kind' = kind
         /\ open' = <<"P4">>
    BY <1>2, <2>1, Stacks DEF OpenP4, Opens
  <2>12. Held(f, "STAG_BLOCK", "both", 1, 2)'
    BY <2>3, <2>10, <2>11, HeldAfter
  <2>13. /\ f'.updates = k.updates /\ f'.fields = k.fields
         /\ f'.fieldsOf = k.fieldsOf /\ f'.smeared = k.smeared
         /\ f'.oldGauge = f.oldGauge
         /\ f'.oldStag = "STAG" /\ f'.oldCb = "STAG"
    BY <2>9, <2>10 DEF Notes
  <2>14. f'.smeared /\ SmearedFields(f')
    BY <2>9, <2>13 DEF SmearedFields
  <2>15. InP4'
    BY <2>11, <2>12, <2>13, <2>14 DEF InP4
  <2>16. f'.smeared \in BOOLEAN
    <3>1. f'.smeared = TRUE
      BY <2>9, <2>13
    <3> QED
      BY <3>1
  <2>17. KindsOK' /\ NotesOK'
    BY <1>1, <2>1, <2>11, <2>13, <2>14, <2>16, SmearedAfter
       DEF KindsOK, NotesOK
  <2> QED
    BY <2>15, <2>17 DEF IInv
<1>3. ASSUME CloseP4 PROVE IInv'
  <2>1. open # <<>> /\ open[Len(open)] = "P4"
    BY <1>3 DEF CloseP4, Closes
  <2>2. /\ open = <<"P4">> /\ Held(f, "STAG_BLOCK", "both", 1, 2)
        /\ f.oldStag = "STAG" /\ f.oldCb = "STAG"
    BY <2>1, Youngest DEF InP4
  <2> DEFINE g == StaggeredCbEnd(f)
             h == Convert(g, "CANONICAL")
  <2>3. 2 - 1 = 1 /\ 1 - 1 = 0
    OBVIOUS
  <2>4. Held(g, "STAG", "dirac", 1, 2 - 1) /\ Notes(g) = Notes(f)
    BY <2>2, StaggeredCbHeld
  <2>5. f' = DiracOpEnd(h)
    BY <1>3 DEF CloseP4, Closes
  <2> HIDE DEF g
  <2>6. Held(h, "CANONICAL", "dirac", 1, 1) /\ Notes(h) = Notes(g)
    BY <1>1, <2>3, <2>4, ConvertHeld
  <2> HIDE DEF h
  <2>7. Held(f', "CANONICAL", "none", 1, 1 - 1) /\ Notes(f') = Notes(h)
    BY <2>5, <2>6, DiracOpHeld
  <2>8. /\ bc' = bc /\ xiDir' = xiDir /\ ptUse' = ptUse /\ kind' = kind
        /\ open' = <<>>
    BY <1>3, <2>1, <2>2, Youngest DEF CloseP4, Closes
  <2>9. Held(f, "CANONICAL", "none", 1, 0)'
    BY <2>3, <2>7, <2>8, HeldAfter
  <2>10. kind # "none"
    BY <1>1, <2>1 DEF KindsOK
  <2>11. Alone'
    BY <2>8, <2>9, <2>10 DEF Alone
  <2>12. /\ f'.updates = f.updates /\ f'.fields = f.fields
         /\ f'.fieldsOf = f.fieldsOf /\ f'.smeared = f.smeared
         /\ f'.oldGauge = f.oldGauge
    BY <2>4, <2>6, <2>7 DEF Notes
  <2>13. KindsOK' /\ NotesOK'
    BY <1>1, <2>8, <2>12, NotesAfter DEF KindsOK
  <2> QED
    BY <2>11, <2>13 DEF IInv
<1> QED
  BY <1>2, <1>3

LEMMA AsqtadSteps ==
  ASSUME IInv, OpenAsqtad \/ CloseAsqtad
  PROVE  IInv'
<1>1. /\ KindsOK /\ NotesOK /\ "none" \in Whos /\ "transport" \in Whos
      /\ "CANONICAL" \in StrOrd /\ "STAG" \in StrOrd
  BY OffsetOfLink DEF IInv, Whos
<1>2. ASSUME OpenAsqtad PROVE IInv'
  <2>1. open = <<>> /\ kind # "none"
    BY <1>2 DEF OpenAsqtad
  <2>2. Held(f, "CANONICAL", "none", 1, 0)
    BY <2>1, OldestKnown DEF Alone
  <2> DEFINE g == Convert(f, "STAG")
  <2>3. f' = StagTypes(g)
    BY <1>2 DEF OpenAsqtad, Opens
  <2>4. Held(g, "STAG", "none", 1, 0) /\ Notes(g) = Notes(f)
    BY <1>1, <2>2, ConvertHeld
  <2> HIDE DEF g
  <2>5. /\ Held(f', "STAG", "transport", 1, 0 + 1)
        /\ Notes(f') = <<g.updates, "STAG", g.oldCb, g.oldGauge,
                         g.smeared, g.fields, g.fieldsOf>>
    BY <2>3, <2>4, StagTypesHeld DEF With
  <2>6. 0 + 1 = 1
    OBVIOUS
  <2>7. /\ bc' = bc /\ xiDir' = xiDir /\ ptUse' = ptUse /\ kind' = kind
        /\ open' = <<"Asqtad">>
    BY <1>2, <2>1, Stacks DEF OpenAsqtad, Opens
  <2>8. Held(f, "STAG", "transport", 1, 1)'
    BY <2>5, <2>6, <2>7, HeldAfter
  <2>9. /\ f'.updates = f.updates /\ f'.fields = f.fields
        /\ f'.fieldsOf = f.fieldsOf /\ f'.smeared = f.smeared
        /\ f'.oldGauge = f.oldGauge /\ f'.oldStag = "STAG"
    BY <2>4, <2>5 DEF Notes
  <2>10. InAsqtad'
    BY <2>7, <2>8, <2>9 DEF InAsqtad
  <2>11. KindsOK' /\ NotesOK'
    BY <1>1, <2>1, <2>7, <2>9, NotesAfter DEF KindsOK
  <2> QED
    BY <2>10, <2>11 DEF IInv
<1>3. ASSUME CloseAsqtad PROVE IInv'
  <2>1. open # <<>> /\ open[Len(open)] = "Asqtad"
    BY <1>3 DEF CloseAsqtad, Closes
  <2>2. /\ open = <<"Asqtad">> /\ Held(f, "STAG", "transport", 1, 1)
        /\ f.oldStag = "STAG"
    BY <2>1, Youngest DEF InAsqtad
  <2> DEFINE g == Convert(f, "CANONICAL")
  <2>3. f' = StagTypesEnd(g)
    BY <1>3 DEF CloseAsqtad, Closes
  <2>4. Held(g, "CANONICAL", "transport", 1, 1) /\ Notes(g) = Notes(f)
    BY <1>1, <2>2, ConvertHeld
  <2> HIDE DEF g
  <2>5. g.oldStag = "STAG"
    BY <2>2, <2>4 DEF Notes
  <2>6. Held(f', "CANONICAL", "none", 1, 1 - 1) /\ Notes(f') = Notes(g)
    BY <2>3, <2>4, <2>5, StagTypesEndHeld DEF Without
  <2>7. 1 - 1 = 0
    OBVIOUS
  <2>8. /\ bc' = bc /\ xiDir' = xiDir /\ ptUse' = ptUse /\ kind' = kind
        /\ open' = <<>>
    BY <1>3, <2>1, <2>2, Youngest DEF CloseAsqtad, Closes
  <2>9. Held(f, "CANONICAL", "none", 1, 0)'
    BY <2>6, <2>7, <2>8, HeldAfter
  <2>10. kind # "none"
    BY <1>1, <2>1 DEF KindsOK
  <2>11. Alone'
    BY <2>8, <2>9, <2>10 DEF Alone
  <2>12. /\ f'.updates = f.updates /\ f'.fields = f.fields
         /\ f'.fieldsOf = f.fieldsOf /\ f'.smeared = f.smeared
         /\ f'.oldGauge = f.oldGauge
    BY <2>4, <2>6 DEF Notes
  <2>13. KindsOK' /\ NotesOK'
    BY <1>1, <2>8, <2>12, NotesAfter DEF KindsOK
  <2> QED
    BY <2>11, <2>13 DEF IInv
<1> QED
  BY <1>2, <1>3

LEMMA SmearSteps ==
  ASSUME IInv, OpenSmear \/ CloseSmear
  PROVE  IInv'
<1>1. KindsOK /\ NotesOK
  BY DEF IInv
<1>2. ASSUME OpenSmear PROVE IInv'
  <2>1. open = <<>> /\ kind # "none"
    BY <1>2 DEF OpenSmear
  <2>2. Held(f, "CANONICAL", "none", 1, 0)
    BY <2>1, OldestKnown DEF Alone
  <2>3. f' = StagTypes(f)
    BY <1>2 DEF OpenSmear, Opens
  <2>4. /\ Held(f', "STAG", "transport", 1, 0 + 1)
        /\ Notes(f') = <<f.updates, "CANONICAL", f.oldCb, f.oldGauge,
                         f.smeared, f.fields, f.fieldsOf>>
    BY <2>2, <2>3, StagTypesHeld DEF With
  <2>5. 0 + 1 = 1
    OBVIOUS
  <2>6. /\ bc' = bc /\ xiDir' = xiDir /\ ptUse' = ptUse /\ kind' = kind
        /\ open' = <<"Smear">>
    BY <1>2, <2>1, Stacks DEF OpenSmear, Opens
  <2>7. Held(f, "STAG", "transport", 1, 1)'
    BY <2>4, <2>5, <2>6, HeldAfter
  <2>8. /\ f'.updates = f.updates /\ f'.fields = f.fields
        /\ f'.fieldsOf = f.fieldsOf /\ f'.smeared = f.smeared
        /\ f'.oldGauge = f.oldGauge /\ f'.oldStag = "CANONICAL"
    BY <2>4 DEF Notes
  <2>9. InSmear'
    BY <2>6, <2>7, <2>8 DEF InSmear
  <2>10. KindsOK' /\ NotesOK'
    BY <1>1, <2>1, <2>6, <2>8, NotesAfter DEF KindsOK
  <2> QED
    BY <2>9, <2>10 DEF IInv
<1>3. ASSUME CloseSmear PROVE IInv'
  <2>1. open # <<>> /\ open[Len(open)] = "Smear"
    BY <1>3 DEF CloseSmear, Closes
  <2>2. /\ open = <<"Smear">> /\ Held(f, "STAG", "transport", 1, 1)
        /\ f.oldStag = "CANONICAL"
    BY <2>1, Youngest DEF InSmear
  <2>3. f' = SmearDone(f)
    BY <1>3 DEF CloseSmear, Closes
  <2>4. /\ Held(f', "CANONICAL", "none", 1, 1 - 1)
        /\ f'.smeared = TRUE /\ SmearedFields(f')
        /\ f'.oldGauge = f.oldGauge
    BY <2>2, <2>3, SmearDoneHeld DEF Without
  <2>5. 1 - 1 = 0
    OBVIOUS
  <2>6. /\ bc' = bc /\ xiDir' = xiDir /\ ptUse' = ptUse /\ kind' = kind
        /\ open' = <<>>
    BY <1>3, <2>1, <2>2, Youngest DEF CloseSmear, Closes
  <2>7. Held(f, "CANONICAL", "none", 1, 0)'
    BY <2>4, <2>5, <2>6, HeldAfter
  <2>8. kind # "none"
    BY <1>1, <2>1 DEF KindsOK
  <2>9. Alone'
    BY <2>6, <2>7, <2>8 DEF Alone
  <2>10. KindsOK' /\ NotesOK'
    BY <1>1, <2>4, <2>6, SmearedAfter DEF KindsOK, NotesOK
  <2> QED
    BY <2>9, <2>10 DEF IInv
<1> QED
  BY <1>2, <1>3

LEMMA GaugeSteps ==
  ASSUME OneGaugeUse, IInv, OpenGauge \/ CloseGauge
  PROVE  IInv'
<1>1. KindsOK /\ NotesOK
  BY DEF IInv
<1>2. ASSUME OpenGauge PROVE IInv'
  <2>1. /\ bc' = bc /\ xiDir' = xiDir /\ ptUse' = ptUse /\ kind' = kind
        /\ open' = Append(open, "Gauge") /\ kind # "none"
        /\ f' = PtGauge(f)
    BY <1>2 DEF OpenGauge, Opens
  <2>2. CASE open = <<>> /\ "outside" \in ptUse
    <3>1. Held(f, "CANONICAL", "none", 1, 0)
      BY <2>1, <2>2, OldestKnown DEF Alone
    <3>2. Held(f', "CANONICAL", "transport", 1, 0 + 1) /\ Notes(f') = Notes(f)
      BY <2>1, <3>1, PtGaugeHeld
    <3>3. 0 + 1 = 1
      OBVIOUS
    <3>4. Held(f, "CANONICAL", "transport", 1, 1)'
      BY <2>1, <3>2, <3>3, HeldAfter
    <3>5. f.oldGauge = "CANONICAL"
      <4>1. ptUse \in PtGaugeUses /\ ptUse \subseteq {"inside", "outside"}
        BY <1>1, NXAssumption DEF KindsOK
      <4>2. "inside" \notin ptUse
        BY <2>2, <4>1 DEF OneGaugeUse
      <4> QED
        BY <1>1, <4>2 DEF NotesOK
    <3>6. /\ f'.updates = f.updates /\ f'.fields = f.fields
          /\ f'.fieldsOf = f.fieldsOf /\ f'.smeared = f.smeared
          /\ f'.oldGauge = f.oldGauge
      BY <3>2 DEF Notes
    <3>7. open' = <<"Gauge">>
      BY <2>1, <2>2, Stacks
    <3>8. InGauge'
      BY <3>4, <3>5, <3>6, <3>7 DEF InGauge
    <3>9. KindsOK' /\ NotesOK'
      BY <1>1, <2>1, <3>6, NotesAfter DEF KindsOK
    <3> QED
      BY <3>8, <3>9 DEF IInv
  <2>3. CASE open = <<"Wilson">> /\ "inside" \in ptUse
    <3>1. Held(f, "WILSON", "dirac", 1, 1)
      BY <2>3, OldestKnown DEF InWilson
    <3>2. /\ Held(f', "CANONICAL", "both", 1, 1 + 1)
          /\ Notes(f') = <<f.updates, f.oldStag, f.oldCb, "WILSON", f.smeared,
                           f.fields, f.fieldsOf>>
      BY <2>1, <3>1, PtGaugeHeld
    <3>3. 1 + 1 = 2
      OBVIOUS
    <3>4. Held(f, "CANONICAL", "both", 1, 2)'
      BY <2>1, <3>2, <3>3, HeldAfter
    <3>5. /\ f'.updates = f.updates /\ f'.fields = f.fields
          /\ f'.fieldsOf = f.fieldsOf /\ f'.smeared = f.smeared
          /\ f'.oldGauge = "WILSON"
      BY <3>2 DEF Notes
    <3>6. open' = <<"Wilson", "Gauge">>
      BY <2>1, <2>3, Stacks
    <3>7. InBoth'
      BY <2>1, <2>3, <3>4, <3>5, <3>6 DEF InBoth
    <3>8. KindsOK' /\ NotesOK'
      BY <1>1, <2>1, <2>3, <3>5, NotesAfter DEF KindsOK
    <3> QED
      BY <3>7, <3>8 DEF IInv
  <2> QED
    BY <1>2, <2>2, <2>3 DEF OpenGauge
<1>3. ASSUME CloseGauge PROVE IInv'
  <2>1. /\ bc' = bc /\ xiDir' = xiDir /\ ptUse' = ptUse /\ kind' = kind
        /\ open' = SubSeq(open, 1, Len(open) - 1)
        /\ open # <<>> /\ open[Len(open)] = "Gauge"
        /\ f' = PtGaugeEnd(f)
    BY <1>3 DEF CloseGauge, Closes
  <2>2. kind # "none"
    BY <1>1, <2>1 DEF KindsOK
  <2>3. InGauge \/ InBoth
    BY <2>1, Youngest
  <2>4. CASE InGauge
    <3>1. /\ open = <<"Gauge">> /\ Held(f, "CANONICAL", "transport", 1, 1)
          /\ f.oldGauge = "CANONICAL"
      BY <2>4 DEF InGauge
    <3>2. Held(f', "CANONICAL", "none", 1, 1 - 1) /\ Notes(f') = Notes(f)
      BY <2>1, <3>1, PtGaugeEndHeld
    <3>3. 1 - 1 = 0
      OBVIOUS
    <3>4. Held(f, "CANONICAL", "none", 1, 0)'
      BY <2>1, <3>2, <3>3, HeldAfter
    <3>5. open' = <<>>
      BY <2>1, <3>1, Youngest
    <3>6. Alone'
      BY <2>1, <2>2, <3>4, <3>5 DEF Alone
    <3>7. /\ f'.updates = f.updates /\ f'.fields = f.fields
          /\ f'.fieldsOf = f.fieldsOf /\ f'.smeared = f.smeared
          /\ f'.oldGauge = f.oldGauge
      BY <3>2 DEF Notes
    <3>8. KindsOK' /\ NotesOK'
      BY <1>1, <2>1, <3>5, <3>7, NotesAfter DEF KindsOK
    <3> QED
      BY <3>6, <3>8 DEF IInv
  <2>5. CASE InBoth
    <3>1. /\ open = <<"Wilson", "Gauge">> /\ Held(f, "CANONICAL", "both", 1, 2)
          /\ f.oldGauge = "WILSON"
      BY <2>5 DEF InBoth
    <3>2. Held(f', "WILSON", "dirac", 1, 2 - 1) /\ Notes(f') = Notes(f)
      BY <2>1, <3>1, PtGaugeEndHeld
    <3>3. 2 - 1 = 1
      OBVIOUS
    <3>4. Held(f, "WILSON", "dirac", 1, 1)'
      BY <2>1, <3>2, <3>3, HeldAfter
    <3>5. open' = <<"Wilson">>
      BY <2>1, <3>1, Youngest
    <3>6. InWilson'
      BY <3>4, <3>5 DEF InWilson
    <3>7. /\ f'.updates = f.updates /\ f'.fields = f.fields
          /\ f'.fieldsOf = f.fieldsOf /\ f'.smeared = f.smeared
          /\ f'.oldGauge = f.oldGauge
      BY <3>2 DEF Notes
    <3>8. KindsOK' /\ NotesOK'
      BY <1>1, <2>1, <2>2, <3>7, NotesAfter DEF KindsOK
    <3> QED
      BY <3>6, <3>8 DEF IInv
  <2> QED
    BY <2>3, <2>4, <2>5
<1> QED
  BY <1>2, <1>3

LEMMA InitHolds ==
  ASSUME Init
  PROVE  IInv
<1>1. IsField(f) /\ f.str_ord = "CANONICAL" /\ "CANONICAL" \in StrOrd
  BY OffsetOfLink DEF Init, IsField
<1>2. ASSUME NEW l \in Link
      PROVE  Logical(f)[l] = Plain
  <2>1. Offset["CANONICAL"][l] \in Index
    BY <1>1, OffsetInjective
  <2>2. f.u = [i \in Index |-> Plain]
    BY DEF Init
  <2> QED
    BY <1>1, <2>1, <2>2 DEF Logical
<1>3. /\ Plain \in LinkVal /\ Plain.neg = FALSE
      /\ Plain.bare = 0 /\ Plain.ratio = 0
  BY DEF Plain, LinkVal
<1>4. Looks(f, FALSE, 0, 0)
  BY <1>2, <1>3 DEF Looks
<1>5. f.diracLock = FALSE /\ f.parLock = FALSE
  BY DEF Init
<1>6. Field(f, "CANONICAL", FALSE, FALSE, FALSE, 0, 0)
  <2>1. FALSE \in BOOLEAN /\ 0 \in Int
    OBVIOUS
  <2>2. Field(f, "CANONICAL", f.diracLock, f.parLock, FALSE, 0, 0)
    BY <1>1, <1>4, <2>1 DEF Field
  <2> QED
    BY <1>5, <2>2
<1>7. Alone
  BY <1>6 DEF Init, Alone, Held
<1>8. f.smeared = FALSE /\ f.oldGauge = "CANONICAL"
  BY DEF Init
<1>9. KindsOK /\ NotesOK
  BY <1>8 DEF Init, KindsOK, NotesOK
<1> QED
  BY <1>7, <1>9 DEF IInv

LEMMA Inductive ==
  ASSUME OneGaugeUse, IInv, [Next]_vars
  PROVE  IInv'
<1>1. CASE UNCHANGED vars
  BY <1>1 DEF vars, IInv, KindsOK, NotesOK, Alone, InWilson, InStag, InP4,
     InAsqtad, InSmear, InGauge, InBoth, Held, Field, Looks, Logical, AtBoundary,
     IsField, SmearedFields
<1>2. CASE Next
  BY <1>2, LatticeSteps, WilsonSteps, StagSteps, P4Steps, AsqtadSteps,
     SmearSteps, GaugeSteps DEF Next
<1> QED
  BY <1>1, <1>2

-----------------------------------------------------------------------------
(* The results *)

\* In a program that uses ParTransGauge in one place only, the field, the locks
\* and the static variables are at every moment what the objects that exist
\* have made of them: Lattice, DiracOp, ParTrans and their subclasses.
THEOREM Invariance ==
  ASSUME OneGaugeUse
  PROVE  Spec => []IInv
<1>1. Init => IInv
  BY InitHolds
<1>2. IInv /\ [Next]_vars => IInv'
  BY Inductive
<1> QED
  BY <1>1, <1>2, PTL DEF Spec

\* What each phase says about the field.
LEMMA FieldNow ==
  ASSUME IInv
  PROVE  /\ open = <<>> =>
              \/ Held(f, "CANONICAL", "none", 0, 0) /\ kind = "none"
              \/ Held(f, "CANONICAL", "none", 1, 0) /\ kind # "none"
         /\ open # <<>> =>
              \E who \in Whos \ {"none"}, r \in Int :
                Held(f, Needs[open[Len(open)]], who, 1, r)
<1>1. /\ "dirac" \in Whos \ {"none"} /\ "transport" \in Whos \ {"none"}
      /\ "both" \in Whos \ {"none"} /\ 1 \in Int /\ 2 \in Int
  BY DEF Whos
<1>2. open = <<>> => Alone
  BY OldestKnown
<1>3. /\ Needs["Wilson"] = "WILSON" /\ Needs["Stag"] = "STAG"
      /\ Needs["P4"] = "STAG_BLOCK" /\ Needs["Asqtad"] = "STAG"
      /\ Needs["Smear"] = "STAG"
      /\ Needs["Gauge"] = "CANONICAL"
  BY DEF Needs
<1>4. /\ \A s : open = <<s>> => open[Len(open)] = s
      /\ \A s, t : open = <<s, t>> => open[Len(open)] = t
  BY Stacks
<1>5. CASE open = <<>>
  BY <1>2, <1>5 DEF Alone
<1>6. CASE open # <<>>
  <2>1. CASE InWilson
    BY <1>1, <1>3, <1>4, <1>6, <2>1 DEF InWilson
  <2>2. CASE InStag
    BY <1>1, <1>3, <1>4, <1>6, <2>2 DEF InStag
  <2>3. CASE InP4
    BY <1>1, <1>3, <1>4, <1>6, <2>3 DEF InP4
  <2>4. CASE InAsqtad
    BY <1>1, <1>3, <1>4, <1>6, <2>4 DEF InAsqtad
  <2>5. CASE InGauge
    BY <1>1, <1>3, <1>4, <1>6, <2>5 DEF InGauge
  <2>6. CASE InBoth
    BY <1>1, <1>3, <1>4, <1>6, <2>6 DEF InBoth
  <2>7. CASE InSmear
    BY <1>1, <1>3, <1>4, <1>6, <2>7 DEF InSmear
  <2> QED
    BY <1>6, <2>1, <2>2, <2>3, <2>4, <2>5, <2>6, <2>7 DEF IInv, Alone
<1> QED
  BY <1>5, <1>6

\* On every lattice and at every boundary, exactly the links across it have
\* changed their sign, once, while a DiracOp or a ParTrans exists, however
\* their constructors and destructors are nested.
THEOREM BoundaryAppliedOnce ==
  ASSUME OneGaugeUse
  PROVE  Spec => []BoundaryWhileInUse
<1>1. IInv => BoundaryWhileInUse
  <2> SUFFICES ASSUME IInv, NEW l \in Link
               PROVE  Logical(f)[l].neg
                        = (open # <<>> /\ AtBoundary(l[1], l[2]))
    BY DEF BoundaryWhileInUse
  <2>1. CASE open = <<>>
    <3>1. PICK b \in Int : Held(f, "CANONICAL", "none", b, 0)
      BY <2>1, FieldNow
    <3>2. /\ Logical(f)[l] \in LinkVal
          /\ Logical(f)[l].neg <=> "none" # "none" /\ AtBoundary(l[1], l[2])
      BY <3>1, HeldFacts DEF Whos
    <3> QED
      BY <2>1, <3>2 DEF LinkVal
  <2>2. CASE open # <<>>
    <3>1. PICK who \in Whos \ {"none"}, r \in Int :
            Held(f, Needs[open[Len(open)]], who, 1, r)
      BY <2>2, FieldNow
    <3>2. /\ Logical(f)[l] \in LinkVal
          /\ Logical(f)[l].neg <=> who # "none" /\ AtBoundary(l[1], l[2])
      BY <3>1, HeldFacts
    <3> QED
      BY <2>2, <3>2 DEF LinkVal
  <2> QED
    BY <2>1, <2>2
<1> QED
  BY <1>1, Invariance, PTL

\* When the last object is gone the field is in canonical order again, and
\* scaled as the Lattice that is left, or none, wants it.
THEOREM ScopesRestore ==
  ASSUME OneGaugeUse
  PROVE  Spec => []FieldRestored
<1>1. IInv => FieldRestored
  <2> SUFFICES ASSUME IInv, open = <<>>
               PROVE  /\ f.str_ord = "CANONICAL"
                      /\ \A l \in Link :
                           /\ Logical(f)[l].ratio = 0
                           /\ Logical(f)[l].bare =
                                IF kind # "none" /\ l[2] = xiDir THEN 1 ELSE 0
    BY DEF FieldRestored
  <2>1. "none" \in Whos
    BY DEF Whos
  <2>2. CASE Held(f, "CANONICAL", "none", 0, 0) /\ kind = "none"
    <3>1. Held(f, "CANONICAL", "none", 0, 0)
      BY <2>2
    <3>2. /\ f.str_ord = "CANONICAL"
          /\ \A l \in Link :
               /\ Logical(f)[l].bare = (IF l[2] = xiDir THEN 0 ELSE 0)
               /\ Logical(f)[l].ratio = (IF l[2] = xiDir THEN 0 ELSE 0)
      BY <2>1, <3>1, HeldFacts
    <3> QED
      BY <2>2, <3>2
  <2>3. CASE Held(f, "CANONICAL", "none", 1, 0) /\ kind # "none"
    <3>1. Held(f, "CANONICAL", "none", 1, 0)
      BY <2>3
    <3>2. /\ f.str_ord = "CANONICAL"
          /\ \A l \in Link :
               /\ Logical(f)[l].bare = (IF l[2] = xiDir THEN 1 ELSE 0)
               /\ Logical(f)[l].ratio = (IF l[2] = xiDir THEN 0 ELSE 0)
      BY <2>1, <3>1, HeldFacts
    <3> QED
      BY <2>3, <3>2
  <2> QED
    BY <2>2, <2>3, FieldNow
<1> QED
  BY <1>1, Invariance, PTL

\* Every object finds the field in the order its kernels were written for, as
\* long as it is the youngest.
THEOREM OrderAsNeeded ==
  ASSUME OneGaugeUse
  PROVE  Spec => []OrderInUse
<1>1. IInv => OrderInUse
  <2> SUFFICES ASSUME IInv, open # <<>>
               PROVE  f.str_ord = Needs[open[Len(open)]]
    BY DEF OrderInUse
  <2>1. PICK who \in Whos \ {"none"}, r \in Int :
          Held(f, Needs[open[Len(open)]], who, 1, r)
    BY FieldNow
  <2> QED
    BY <2>1, HeldFacts
<1> QED
  BY <1>1, Invariance, PTL

\* DiracOpP4 never works with smeared links of an older field, nor with links
\* smeared without the boundary condition.
THEOREM SmearedLinksCurrent ==
  ASSUME OneGaugeUse
  PROVE  Spec => []SmearedCurrent
<1>1. IInv => SmearedCurrent
  <2> SUFFICES ASSUME IInv, open # <<>>, open[1] = "P4"
               PROVE  /\ f.fieldsOf = f.updates
                      /\ \A l \in Link :
                           f.fields[l].neg = AtBoundary(l[1], l[2])
    BY DEF SmearedCurrent
  <2>1. InP4
    BY Stacks
       DEF IInv, Alone, InWilson, InStag, InAsqtad, InSmear, InGauge, InBoth
  <2>2. SmearedFields(f)
    BY <2>1 DEF IInv, NotesOK, InP4
  <2> QED
    BY <2>2 DEF SmearedFields
<1> QED
  BY <1>1, Invariance, PTL
=============================================================================
