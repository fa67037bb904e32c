---------------------------- MODULE MatchProofs ----------------------------
(***************************************************************************)
(* Proofs about Match: for any geometries, with integers of any size for   *)
(* coordinates, and for circles wherever geoutilDistance is exact. They    *)
(* have no induction in them; they are about the geometry of segments and  *)
(* triangles, and how the code computes it.                                *)
(***************************************************************************)
EXTENDS Match, SequenceLemmas

-----------------------------------------------------------------------------
(***************************************************************************)
(* Products, by the signs of their factors, which is what the proofs use   *)
(* of them: a weight is on one side of zero, on the other or none.         *)
(***************************************************************************)
\* What the signs of two factors say of the product.
LEMMA Signs ==
    ASSUME NEW m \in Int, NEW n \in Int
    PROVE  /\ m * n \in Int
           /\ m >= 0 /\ n >= 0 => m * n >= 0
           /\ m <= 0 /\ n <= 0 => m * n >= 0
           /\ m >= 0 /\ n <= 0 => m * n <= 0
           /\ m <= 0 /\ n >= 0 => m * n <= 0
           /\ m > 0 /\ n > 0 => m * n > 0
           /\ m < 0 /\ n < 0 => m * n > 0
           /\ m > 0 /\ n < 0 => m * n < 0
           /\ m < 0 /\ n > 0 => m * n < 0
           /\ m = 0 \/ n = 0 => m * n = 0
  OBVIOUS

\* The sign of a product, from the signs of its factors.
SignOf(m, n, product) ==
    /\ product \in Int
    /\ m > 0 /\ n > 0 => product > 0
    /\ m > 0 /\ n < 0 => product < 0
    /\ m < 0 /\ n > 0 => product < 0
    /\ m < 0 /\ n < 0 => product > 0
    /\ m = 0 \/ n = 0 => product = 0

\* Every product has that sign.
LEMMA SignOfProduct == \A m, n \in Int : SignOf(m, n, m * n)
  BY Signs DEF SignOf

\* Two numbers are on different sides of zero, or one of them is zero.
Opposed(m, n) == (m <= 0 /\ n >= 0) \/ (m >= 0 /\ n <= 0)

\* The product of two numbers is at most 0 where they are opposed: SegmentsMeet in products.
LEMMA OpposedProduct ==
    ASSUME NEW m \in Int, NEW n \in Int
    PROVE  m * n <= 0 <=> Opposed(m, n)
  <1>1. CASE m > 0 /\ n > 0
    BY <1>1, Signs DEF Opposed
  <1>2. CASE m < 0 /\ n < 0
    BY <1>2, Signs DEF Opposed
  <1>3. CASE Opposed(m, n)
    BY <1>3, Signs DEF Opposed
  <1> QED BY <1>1, <1>2, <1>3 DEF Opposed

\* Numbers that are not negative, or not positive.
SameSign(k, m, n) == (k >= 0 /\ m >= 0 /\ n >= 0) \/ (k <= 0 /\ m <= 0 /\ n <= 0)

\* SameSign does not depend on where the three begin.
LEMMA SameSignRotated ==
    ASSUME NEW k, NEW m, NEW n
    PROVE  (SameSign(k, m, n) <=> SameSign(m, n, k)) /\ (SameSign(k, m, n) <=> SameSign(n, k, m))
  BY DEF SameSign

\* Weights of different signs balance nothing that is on different sides.
LEMMA UnevenBalance ==
    ASSUME NEW m \in Int, NEW n \in Int, NEW M \in Int, NEW N \in Int,
           m * M + n * N = 0, Opposed(M, N), (m > 0 /\ n < 0) \/ (m < 0 /\ n > 0)
    PROVE  M = 0 /\ N = 0
  <1> DEFINE mM == m * M
             nN == n * N
  <1>1. mM + nN = 0 /\ SignOf(m, M, mM) /\ SignOf(n, N, nN)
    BY SignOfProduct
  <1> HIDE DEF mM, nN
  <1> QED BY <1>1 DEF Opposed, SignOf

\* Weights of the same sign balance what is on different sides.
LEMMA EvenBalance ==
    ASSUME NEW m \in Int, NEW n \in Int, NEW M \in Int, NEW N \in Int,
           m * M + n * N = 0, (m >= 0 /\ n >= 0) \/ (m <= 0 /\ n <= 0), m + n # 0
    PROVE  Opposed(M, N)
  <1> DEFINE mM == m * M
             nN == n * N
  <1>1. mM + nN = 0 /\ SignOf(m, M, mM) /\ SignOf(n, N, nN)
    BY SignOfProduct
  <1> HIDE DEF mM, nN
  <1> QED BY <1>1 DEF Opposed, SignOf

\* Weights of the same sign balance numbers that are neither all positive nor all negative, and
\* none of them zero, numbers that are not all of the same sign.
LEMMA Surrounded ==
    ASSUME NEW k \in Int, NEW m \in Int, NEW n \in Int, NEW K \in Int, NEW M \in Int, NEW N \in Int,
           k * K + m * M + n * N = 0, SameSign(k, m, n), k + m + n # 0
    PROVE  /\ (K <= 0 \/ M <= 0 \/ N <= 0) /\ (0 <= K \/ 0 <= M \/ 0 <= N)
           /\ k # 0 /\ m # 0 /\ n # 0 /\ SameSign(K, M, N) => K = 0 /\ M = 0 /\ N = 0
  <1> DEFINE kK == k * K
             mM == m * M
             nN == n * N
  <1>1. kK + mM + nN = 0 /\ SignOf(k, K, kK) /\ SignOf(m, M, mM) /\ SignOf(n, N, nN)
    BY SignOfProduct
  <1> HIDE DEF kK, mM, nN
  <1>2. (K <= 0 \/ M <= 0 \/ N <= 0) /\ (0 <= K \/ 0 <= M \/ 0 <= N)
    BY <1>1 DEF SameSign, SignOf
  <1>3. k # 0 /\ m # 0 /\ n # 0 /\ SameSign(K, M, N) => K = 0 /\ M = 0 /\ N = 0
    BY <1>1 DEF SameSign, SignOf
  <1> QED BY <1>2, <1>3

\* Where two numbers are on one side of zero and the third one is on the other, and two weights
\* have the same sign, the third has it.
LEMMA ThirdWeight ==
    ASSUME NEW k \in Int, NEW m \in Int, NEW n \in Int, NEW K \in Int, NEW M \in Int, NEW N \in Int,
           k * K + m * M + n * N = 0
    PROVE  /\ K <= 0 /\ M <= 0 /\ N > 0 /\ k >= 0 /\ m >= 0 => n >= 0
           /\ K <= 0 /\ M <= 0 /\ N > 0 /\ k <= 0 /\ m <= 0 => n <= 0
           /\ K > 0 /\ M > 0 /\ N <= 0 /\ k >= 0 /\ m >= 0 /\ (k > 0 \/ m > 0) => n >= 0
           /\ K > 0 /\ M > 0 /\ N <= 0 /\ k <= 0 /\ m <= 0 /\ (k < 0 \/ m < 0) => n <= 0
  <1> DEFINE kK == k * K
             mM == m * M
             nN == n * N
  <1>1. kK + mM + nN = 0 /\ SignOf(k, K, kK) /\ SignOf(m, M, mM) /\ SignOf(n, N, nN)
    BY SignOfProduct
  <1> HIDE DEF kK, mM, nN
  <1>2. /\ K <= 0 /\ M <= 0 /\ N > 0 /\ k >= 0 /\ m >= 0 => n >= 0
        /\ K <= 0 /\ M <= 0 /\ N > 0 /\ k <= 0 /\ m <= 0 => n <= 0
    BY <1>1 DEF SignOf
  <1>3. /\ K > 0 /\ M > 0 /\ N <= 0 /\ k >= 0 /\ m >= 0 /\ (k > 0 \/ m > 0) => n >= 0
        /\ K > 0 /\ M > 0 /\ N <= 0 /\ k <= 0 /\ m <= 0 /\ (k < 0 \/ m < 0) => n <= 0
    BY <1>1 DEF SignOf
  <1> QED BY <1>2, <1>3

\* With v between 0 and u, in either direction, the sides that u and v weigh are opposed.
LEMMA BetweenOpposed ==
    ASSUME NEW u \in Int, NEW v \in Int, NEW w \in Int, NEW m \in Int, NEW n \in Int,
           u * m = -(v * w), u * n = (u - v) * w,
           (0 <= v /\ v <= u /\ 0 < u) \/ (u <= v /\ v <= 0 /\ u < 0)
    PROVE  Opposed(m, n)
  <1> DEFINE um == u * m
             un == u * n
             vw == v * w
             rw == (u - v) * w
  <1>1. u - v \in Int /\ um \in Int /\ un \in Int /\ vw \in Int /\ rw \in Int /\ um = -vw /\ un = rw
    OBVIOUS
  <1>2. /\ m > 0 /\ u > 0 => um > 0
        /\ m < 0 /\ u > 0 => um < 0
        /\ m > 0 /\ u < 0 => um < 0
        /\ m < 0 /\ u < 0 => um > 0
    BY Signs
  <1>3. /\ n > 0 /\ u > 0 => un > 0
        /\ n < 0 /\ u > 0 => un < 0
        /\ n > 0 /\ u < 0 => un < 0
        /\ n < 0 /\ u < 0 => un > 0
    BY Signs
  <1>4. /\ v >= 0 /\ w >= 0 => vw >= 0
        /\ v >= 0 /\ w <= 0 => vw <= 0
        /\ v <= 0 /\ w >= 0 => vw <= 0
        /\ v <= 0 /\ w <= 0 => vw >= 0
    BY Signs
  <1>5. /\ u - v >= 0 /\ w >= 0 => rw >= 0
        /\ u - v >= 0 /\ w <= 0 => rw <= 0
        /\ u - v <= 0 /\ w >= 0 => rw <= 0
        /\ u - v <= 0 /\ w <= 0 => rw >= 0
    BY <1>1, Signs
  <1> HIDE DEF um, un, vw, rw
  <1>6. CASE 0 <= v /\ v <= u /\ 0 < u
    <2>1. u - v >= 0
      BY <1>6
    <2> QED BY <2>1, <1>1, <1>2, <1>3, <1>4, <1>5, <1>6 DEF Opposed
  <1>7. CASE u <= v /\ v <= 0 /\ u < 0
    <2>1. u - v <= 0
      BY <1>7
    <2> QED BY <2>1, <1>1, <1>2, <1>3, <1>4, <1>5, <1>7 DEF Opposed
  <1> QED BY <1>6, <1>7

\* A point at v, on the line from 0 to a point at u, cuts the sides of a line in the direction e
\* in the proportion of v to u.
LEMMA Proportion ==
    ASSUME NEW ex \in Int, NEW ey \in Int, NEW ux \in Int, NEW uy \in Int, NEW vx \in Int, NEW vy \in Int,
           ux * vy = uy * vx
    PROVE  LET w == ex * uy - ey * ux
               m == ey * vx - ex * vy
               n == ex * (uy - vy) - ey * (ux - vx)
           IN  /\ w \in Int /\ m \in Int /\ n \in Int
               /\ ux * m = -(vx * w) /\ ux * n = (ux - vx) * w
               /\ uy * m = -(vy * w) /\ uy * n = (uy - vy) * w
  <1> DEFINE w == ex * uy - ey * ux
             m == ey * vx - ex * vy
             n == ex * (uy - vy) - ey * (ux - vx)
             s == ux * vy
             t == uy * vx
  <1>1. w \in Int /\ m \in Int /\ n \in Int /\ s \in Int /\ t \in Int /\ s = t
    OBVIOUS
  <1>2. ux * m = ey * (ux * vx) - ex * s /\ vx * w = ex * t - ey * (ux * vx)
    OBVIOUS
  <1>3. uy * m = ey * t - ex * (uy * vy) /\ vy * w = ex * (uy * vy) - ey * s
    OBVIOUS
  <1>4. n = w + m
    OBVIOUS
  <1>5. ux * vx \in Int /\ uy * vy \in Int /\ ux * w \in Int /\ uy * w \in Int
    OBVIOUS
  <1>6. /\ ux * (w + m) = ux * w + ux * m /\ (ux - vx) * w = ux * w - vx * w
        /\ uy * (w + m) = uy * w + uy * m /\ (uy - vy) * w = uy * w - vy * w
    BY <1>1
  <1>7. ux * m = -(vx * w) /\ uy * m = -(vy * w)
    <2>1. ex * s = ex * t /\ ey * s = ey * t
      BY <1>1
    <2>2. ex * t \in Int /\ ey * t \in Int /\ ey * (ux * vx) \in Int /\ ex * (uy * vy) \in Int
      BY <1>1, <1>5
    <2> HIDE DEF w, m, n, s, t
    <2> QED BY <1>2, <1>3, <2>1, <2>2
  <1>8. vx * w \in Int /\ vy * w \in Int /\ ux * m \in Int /\ uy * m \in Int
    BY <1>1
  <1> HIDE DEF w, m, n, s, t
  <1>9. ux * n = (ux - vx) * w /\ uy * n = (uy - vy) * w
    BY <1>4, <1>5, <1>6, <1>7, <1>8
  <1> QED BY <1>1, <1>7, <1>9 DEF w, m, n

-----------------------------------------------------------------------------
(***************************************************************************)
(* Points, the rings of points, and the rectangles around them.            *)
(***************************************************************************)
\* A point is its coordinates.
LEMMA Coordinates ==
    /\ \A p \in geomCoord : p.x \in Int /\ p.y \in Int /\ p = Point(p.x, p.y)
    /\ \A p, q \in geomCoord : p.x = q.x /\ p.y = q.y => p = q
    /\ \A n, m \in Int : Point(n, m) \in geomCoord /\ Point(n, m).x = n /\ Point(n, m).y = m
  BY DEF geomCoord, Point

\* The points of a ring.
LEMMA RingPoints ==
    ASSUME NEW ring \in Seq(geomCoord)
    PROVE  /\ Len(ring) \in Nat /\ DOMAIN ring = 1 .. Len(ring)
           /\ \A n \in DOMAIN ring : ring[n] \in geomCoord /\ ring[n].x \in Int /\ ring[n].y \in Int
  <1>1. \A n \in DOMAIN ring : ring[n] \in geomCoord
    OBVIOUS
  <1> QED BY <1>1, Coordinates, LenProperties

\* The rectangle of a ring has its points, and each of its sides has one of them.
LEMMA RectAround ==
    ASSUME NEW ring \in Seq(geomCoord), ring # <<>>
    PROVE  LET r == polyPolygonRect(ring)
           IN  /\ r.min \in geomCoord /\ r.max \in geomCoord
               /\ \A n \in DOMAIN ring :
                     /\ r.min.x <= ring[n].x /\ ring[n].x <= r.max.x
                     /\ r.min.y <= ring[n].y /\ ring[n].y <= r.max.y
               /\ \E n \in DOMAIN ring : ring[n].x = r.min.x
               /\ \E n \in DOMAIN ring : ring[n].x = r.max.x
               /\ \E n \in DOMAIN ring : ring[n].y = r.min.y
               /\ \E n \in DOMAIN ring : ring[n].y = r.max.y
  <1> DEFINE xs == {p.x : p \in Range(ring)}
             ys == {p.y : p \in Range(ring)}
  <1>1. DOMAIN ring = 1 .. Len(ring) /\ Len(ring) \in Nat /\ 1 \in DOMAIN ring
    BY EmptySeq, LenProperties
  <1>2. \A n \in DOMAIN ring : ring[n] \in geomCoord /\ ring[n].x \in Int /\ ring[n].y \in Int
    BY RingPoints
  <1>3. xs = {ring[n].x : n \in DOMAIN ring} /\ ys = {ring[n].y : n \in DOMAIN ring}
    BY DEF Range
  <1>4. IsFiniteSet(xs) /\ IsFiniteSet(ys)
    <2> DEFINE fx == [n \in DOMAIN ring |-> ring[n].x]
               fy == [n \in DOMAIN ring |-> ring[n].y]
    <2>1. fx \in Surjection(DOMAIN ring, xs) /\ fy \in Surjection(DOMAIN ring, ys)
      BY <1>3 DEF Surjection
    <2>2. IsFiniteSet(DOMAIN ring)
      BY <1>1, FS_Interval
    <2> QED BY <2>1, <2>2, FS_Surjection
  <1>5. xs \in SUBSET Int /\ ys \in SUBSET Int
    BY <1>2, <1>3
  <1>d. xs # {} /\ ys # {}
    <2>1. ring[1].x \in xs /\ ring[1].y \in ys
      BY <1>1, <1>3
    <2> QED BY <2>1
  <1>6. polyPolygonRect(ring) = [min |-> [x |-> Min(xs), y |-> Min(ys)], max |-> [x |-> Max(xs), y |-> Max(ys)]]
    BY DEF polyPolygonRect, Point
  <1>7. \A n \in DOMAIN ring : ring[n].x \in xs /\ ring[n].y \in ys
    BY <1>3
  <1>8. \A k \in xs : \E n \in DOMAIN ring : ring[n].x = k
    BY <1>3
  <1>9. \A k \in ys : \E n \in DOMAIN ring : ring[n].y = k
    BY <1>3
  <1> HIDE DEF xs, ys
  <1>a. /\ Min(xs) \in xs /\ \A n \in xs : Min(xs) <= n
        /\ Max(xs) \in xs /\ \A n \in xs : n <= Max(xs)
    BY <1>4, <1>5, <1>d, LeastAndGreatest
  <1>b. /\ Min(ys) \in ys /\ \A n \in ys : Min(ys) <= n
        /\ Max(ys) \in ys /\ \A n \in ys : n <= Max(ys)
    BY <1>4, <1>5, <1>d, LeastAndGreatest
  <1>c. Min(xs) \in Int /\ Max(xs) \in Int /\ Min(ys) \in Int /\ Max(ys) \in Int
    BY <1>5, <1>a, <1>b
  <1> DEFINE r == polyPolygonRect(ring)
  <1>e. r.min.x = Min(xs) /\ r.min.y = Min(ys) /\ r.max.x = Max(xs) /\ r.max.y = Max(ys)
    BY <1>6
  <1>f. r.min \in geomCoord /\ r.max \in geomCoord
    BY <1>6, <1>c DEF geomCoord
  <1> HIDE DEF r
  <1> QED BY <1>e, <1>f, <1>7, <1>8, <1>9, <1>a, <1>b DEF r

\* The rectangle of one point has that point for both corners.
LEMMA RectOfPoint ==
    ASSUME NEW p \in geomCoord
    PROVE  polyPolygonRect(<<p>>).min = p /\ polyPolygonRect(<<p>>).max = p
  <1>1. <<p>> \in Seq(geomCoord) /\ <<p>> # <<>> /\ DOMAIN <<p>> = {1} /\ <<p>>[1] = p
    OBVIOUS
  <1> DEFINE ring == <<p>>
             r == polyPolygonRect(ring)
  <1> HIDE DEF ring
  <1>2. /\ r.min \in geomCoord /\ r.max \in geomCoord
        /\ \E n \in DOMAIN ring : ring[n].x = r.min.x
        /\ \E n \in DOMAIN ring : ring[n].x = r.max.x
        /\ \E n \in DOMAIN ring : ring[n].y = r.min.y
        /\ \E n \in DOMAIN ring : ring[n].y = r.max.y
    BY <1>1, RectAround DEF ring
  <1>3. p.x = r.min.x /\ p.x = r.max.x /\ p.y = r.min.y /\ p.y = r.max.y
    BY <1>1, <1>2 DEF ring
  <1> HIDE DEF r
  <1>4. r.min = p /\ r.max = p
    BY <1>2, <1>3, Coordinates
  <1> QED BY <1>4 DEF r, ring

\* At most is transitive.
LEMMA Chain ==
    ASSUME NEW k \in Int, NEW l \in Int, NEW m \in Int, NEW n \in Int, k <= l, l <= m, m <= n
    PROVE  k <= n
  OBVIOUS

\* The rectangles of two rings meet if there are points of the rings in order, from either side
\* of the other, in x and in y.
LEMMA RectsMeet ==
    ASSUME NEW a \in Seq(geomCoord), a # <<>>, NEW b \in Seq(geomCoord), b # <<>>,
           \E n \in DOMAIN a, m \in DOMAIN b : a[n].x <= b[m].x,
           \E n \in DOMAIN a, m \in DOMAIN b : b[m].x <= a[n].x,
           \E n \in DOMAIN a, m \in DOMAIN b : a[n].y <= b[m].y,
           \E n \in DOMAIN a, m \in DOMAIN b : b[m].y <= a[n].y
    PROVE  polyRectIntersectsRect(polyPolygonRect(a), polyPolygonRect(b))
  <1> DEFINE ra == polyPolygonRect(a)
             rb == polyPolygonRect(b)
  <1>1. /\ ra.min \in geomCoord /\ ra.max \in geomCoord
        /\ \A n \in DOMAIN a :
              /\ ra.min.x <= a[n].x /\ a[n].x <= ra.max.x
              /\ ra.min.y <= a[n].y /\ a[n].y <= ra.max.y
    BY RectAround
  <1>2. /\ rb.min \in geomCoord /\ rb.max \in geomCoord
        /\ \A n \in DOMAIN b :
              /\ rb.min.x <= b[n].x /\ b[n].x <= rb.max.x
              /\ rb.min.y <= b[n].y /\ b[n].y <= rb.max.y
    BY RectAround
  <1>3. /\ \A n \in DOMAIN a : a[n].x \in Int /\ a[n].y \in Int
        /\ \A n \in DOMAIN b : b[n].x \in Int /\ b[n].y \in Int
    BY RingPoints
  <1>4. /\ ra.min.x \in Int /\ ra.min.y \in Int /\ ra.max.x \in Int /\ ra.max.y \in Int
        /\ rb.min.x \in Int /\ rb.min.y \in Int /\ rb.max.x \in Int /\ rb.max.y \in Int
    BY <1>1, <1>2, Coordinates
  <1> HIDE DEF ra, rb
  <1>5. ra.min.x <= rb.max.x
    <2>1. PICK i \in DOMAIN a, j \in DOMAIN b : a[i].x <= b[j].x
      OBVIOUS
    <2>2. ra.min.x <= a[i].x /\ b[j].x <= rb.max.x /\ a[i].x \in Int /\ b[j].x \in Int
      BY <1>1, <1>2, <1>3
    <2>3. ra.min.x \in Int /\ rb.max.x \in Int
      BY <1>4
    <2> QED BY <2>1, <2>2, <2>3, Chain
  <1>6. rb.min.x <= ra.max.x
    <2>1. PICK i \in DOMAIN a, j \in DOMAIN b : b[j].x <= a[i].x
      OBVIOUS
    <2>2. rb.min.x <= b[j].x /\ a[i].x <= ra.max.x /\ b[j].x \in Int /\ a[i].x \in Int
      BY <1>1, <1>2, <1>3
    <2> QED BY <2>1, <2>2, <1>4, Chain
  <1>7. ra.min.y <= rb.max.y
    <2>1. PICK i \in DOMAIN a, j \in DOMAIN b : a[i].y <= b[j].y
      OBVIOUS
    <2>2. ra.min.y <= a[i].y /\ b[j].y <= rb.max.y /\ a[i].y \in Int /\ b[j].y \in Int
      BY <1>1, <1>2, <1>3
    <2> QED BY <2>1, <2>2, <1>4, Chain
  <1>8. rb.min.y <= ra.max.y
    <2>1. PICK i \in DOMAIN a, j \in DOMAIN b : b[j].y <= a[i].y
      OBVIOUS
    <2>2. rb.min.y <= b[j].y /\ a[i].y <= ra.max.y /\ b[j].y \in Int /\ a[i].y \in Int
      BY <1>1, <1>2, <1>3
    <2> QED BY <2>1, <2>2, <1>4, Chain
  <1>9. polyRectIntersectsRect(ra, rb)
    BY <1>4, <1>5, <1>6, <1>7, <1>8 DEF polyRectIntersectsRect
  <1> QED BY <1>9 DEF ra, rb

-----------------------------------------------------------------------------
(***************************************************************************)
(* Sides: the cross products of lineintersects are what SegmentsMeet asks  *)
(* for, on which sides of one segment the ends of the other are.           *)
(***************************************************************************)
\* A side is a number.
LEMMA SideType ==
    ASSUME NEW a \in geomCoord, NEW b \in geomCoord, NEW c \in geomCoord
    PROVE  Side(a, b, c) \in Int
  <1>1. /\ a.x \in Int /\ a.y \in Int /\ b.x \in Int /\ b.y \in Int /\ c.x \in Int /\ c.y \in Int
    BY Coordinates
  <1> QED BY <1>1 DEF Side

\* Seen from the other end of a segment, what is on its left is on its right.
LEMMA SidesReversed ==
    ASSUME NEW a \in geomCoord, NEW b \in geomCoord, NEW c \in geomCoord
    PROVE  Side(a, b, c) \in Int /\ Side(b, a, c) = -Side(a, b, c)
  <1>1. /\ a.x \in Int /\ a.y \in Int /\ b.x \in Int /\ b.y \in Int /\ c.x \in Int /\ c.y \in Int
    BY Coordinates
  <1> QED BY <1>1 DEF Side

\* The cross products of lineintersects, and that they are sides of one segment or the other.
Crossed(p, q, r, s) == (q.x - p.x) * (s.y - r.y) - (q.y - p.y) * (s.x - r.x)

LEMMA CrossedSides ==
    ASSUME NEW a \in geomCoord, NEW b \in geomCoord, NEW c \in geomCoord, NEW d \in geomCoord
    PROVE  /\ Crossed(a, b, c, d) \in Int
           /\ Side(a, b, c) \in Int /\ Side(c, d, a) \in Int
           /\ Crossed(a, c, a, b) = -Side(a, b, c)
           /\ Crossed(a, c, c, d) = Side(c, d, a)
           /\ Side(a, b, d) = Side(a, b, c) + Crossed(a, b, c, d)
           /\ Side(c, d, b) = Side(c, d, a) - Crossed(a, b, c, d)
  <1>1. /\ a.x \in Int /\ a.y \in Int /\ b.x \in Int /\ b.y \in Int
        /\ c.x \in Int /\ c.y \in Int /\ d.x \in Int /\ d.y \in Int
    BY Coordinates
  <1>2. Crossed(a, b, c, d) \in Int /\ Side(a, b, c) \in Int /\ Side(c, d, a) \in Int
    BY <1>1 DEF Side, Crossed
  <1>3. Crossed(a, c, a, b) = -Side(a, b, c)
    BY <1>1 DEF Side, Crossed
  <1>4. Crossed(a, c, c, d) = Side(c, d, a)
    BY <1>1 DEF Side, Crossed
  <1>5. Side(a, b, d) = Side(a, b, c) + Crossed(a, b, c, d)
    BY <1>1 DEF Side, Crossed
  <1>6. Side(c, d, b) = Side(c, d, a) - Crossed(a, b, c, d)
    BY <1>1 DEF Side, Crossed
  <1> QED BY <1>2, <1>3, <1>4, <1>5, <1>6

\* Boxes that do not meet are apart in x or in y.
LEMMA BoxesApart ==
    ASSUME NEW a \in geomCoord, NEW b \in geomCoord, NEW c \in geomCoord, NEW d \in geomCoord
    PROVE  BoxesMeet(a, b, c, d) <=> ~Apart(a.y, b.y, c.y, d.y) /\ ~Apart(a.x, b.x, c.x, d.x)
  <1>1. /\ a.x \in Int /\ a.y \in Int /\ b.x \in Int /\ b.y \in Int
        /\ c.x \in Int /\ c.y \in Int /\ d.x \in Int /\ d.y \in Int
    BY Coordinates
  <1>2. (\E p, q \in {a, b}, r, s \in {c, d} : p.x <= r.x /\ q.x >= s.x) <=>
            /\ a.x <= c.x \/ a.x <= d.x \/ b.x <= c.x \/ b.x <= d.x
            /\ a.x >= c.x \/ a.x >= d.x \/ b.x >= c.x \/ b.x >= d.x
    OBVIOUS
  <1>3. (\E p, q \in {a, b}, r, s \in {c, d} : p.y <= r.y /\ q.y >= s.y) <=>
            /\ a.y <= c.y \/ a.y <= d.y \/ b.y <= c.y \/ b.y <= d.y
            /\ a.y >= c.y \/ a.y >= d.y \/ b.y >= c.y \/ b.y >= d.y
    OBVIOUS
  <1>4. BoxesMeet(a, b, c, d) <=>
            /\ a.x <= c.x \/ a.x <= d.x \/ b.x <= c.x \/ b.x <= d.x
            /\ a.x >= c.x \/ a.x >= d.x \/ b.x >= c.x \/ b.x >= d.x
            /\ a.y <= c.y \/ a.y <= d.y \/ b.y <= c.y \/ b.y <= d.y
            /\ a.y >= c.y \/ a.y >= d.y \/ b.y >= c.y \/ b.y >= d.y
    BY <1>2, <1>3 DEF BoxesMeet
  <1> QED BY <1>1, <1>4 DEF Apart

\* lineintersects, by the sides that its cross products are.
LEMMA lineintersectsSides ==
    ASSUME NEW a \in geomCoord, NEW b \in geomCoord, NEW c \in geomCoord, NEW d \in geomCoord
    PROVE  lineintersects(a, b, c, d) <=>
               LET rxs == Crossed(a, b, c, d)
               IN  /\ BoxesMeet(a, b, c, d)
                   /\ IF Side(a, b, c) = 0
                      THEN (c.x <= a.x) # (c.x <= b.x) \/ (c.y <= a.y) # (c.y <= b.y)
                      ELSE rxs # 0 /\ Fraction(Side(c, d, a), rxs) /\ Fraction(-Side(a, b, c), rxs)
  <1>1. lineintersects(a, b, c, d) <=>
               LET rxs == Crossed(a, b, c, d)
               IN  /\ BoxesMeet(a, b, c, d)
                   /\ IF Crossed(a, c, a, b) = 0
                      THEN (c.x <= a.x) # (c.x <= b.x) \/ (c.y <= a.y) # (c.y <= b.y)
                      ELSE rxs # 0 /\ Fraction(Crossed(a, c, c, d), rxs) /\ Fraction(Crossed(a, c, a, b), rxs)
    BY BoxesApart DEF lineintersects, Crossed
  <1>2. /\ Crossed(a, c, a, b) = -Side(a, b, c) /\ Crossed(a, c, c, d) = Side(c, d, a)
        /\ Side(a, b, c) \in Int
    BY CrossedSides
  <1>3. Crossed(a, c, a, b) = 0 <=> Side(a, b, c) = 0
    BY <1>2
  <1> QED BY <1>1, <1>2, <1>3

\* SegmentsMeet, without its products.
LEMMA SegmentsMeetSides ==
    ASSUME NEW a \in geomCoord, NEW b \in geomCoord, NEW c \in geomCoord, NEW d \in geomCoord
    PROVE  SegmentsMeet(a, b, c, d) <=>
               /\ BoxesMeet(a, b, c, d)
               /\ Opposed(Side(a, b, c), Side(a, b, d))
               /\ Opposed(Side(c, d, a), Side(c, d, b))
  <1>1. /\ Side(a, b, c) \in Int /\ Side(a, b, d) \in Int
        /\ Side(c, d, a) \in Int /\ Side(c, d, b) \in Int
    BY CrossedSides
  <1>2. /\ Side(a, b, c) * Side(a, b, d) <= 0 <=> Opposed(Side(a, b, c), Side(a, b, d))
        /\ Side(c, d, a) * Side(c, d, b) <= 0 <=> Opposed(Side(c, d, a), Side(c, d, b))
    BY <1>1, OpposedProduct
  <1>3. \A p, q, r : PlaneSide(p, q, r) = Side(p, q, r)
    BY DEF PlaneSide, Side
  <1> QED BY <1>2, <1>3 DEF SegmentsMeet

\* Two segments meet from either end.
LEMMA SegmentsReversed ==
    ASSUME NEW a \in geomCoord, NEW b \in geomCoord, NEW c \in geomCoord, NEW d \in geomCoord
    PROVE  SegmentsMeet(b, a, d, c) <=> SegmentsMeet(a, b, c, d)
  <1>1. /\ Side(a, b, c) \in Int /\ Side(a, b, d) \in Int /\ Side(c, d, a) \in Int /\ Side(c, d, b) \in Int
        /\ Side(b, a, c) = -Side(a, b, c) /\ Side(b, a, d) = -Side(a, b, d)
        /\ Side(d, c, a) = -Side(c, d, a) /\ Side(d, c, b) = -Side(c, d, b)
    BY SidesReversed
  <1>2. {b, a} = {a, b} /\ {d, c} = {c, d}
    OBVIOUS
  <1>3. BoxesMeet(b, a, d, c) <=> BoxesMeet(a, b, c, d)
    BY <1>2, Zenon DEF BoxesMeet
  <1>4. Opposed(Side(b, a, d), Side(b, a, c)) <=> Opposed(Side(a, b, c), Side(a, b, d))
    BY <1>1 DEF Opposed
  <1>5. Opposed(Side(d, c, b), Side(d, c, a)) <=> Opposed(Side(c, d, a), Side(c, d, b))
    BY <1>1 DEF Opposed
  <1> QED BY <1>3, <1>4, <1>5, SegmentsMeetSides

\* Not in line with the last point, lineintersects is exact.
LEMMA CrossingExact ==
    ASSUME NEW a \in geomCoord, NEW b \in geomCoord, NEW c \in geomCoord, NEW d \in geomCoord,
           Side(a, b, c) # 0
    PROVE  lineintersects(a, b, c, d) <=> SegmentsMeet(a, b, c, d)
  <1> DEFINE abc == Side(a, b, c)
             cda == Side(c, d, a)
             rxs == Crossed(a, b, c, d)
  <1>1. /\ abc \in Int /\ cda \in Int /\ rxs \in Int
        /\ Side(a, b, d) = abc + rxs
        /\ Side(c, d, b) = cda - rxs
    BY CrossedSides
  <1>2. SegmentsMeet(a, b, c, d) <=>
            BoxesMeet(a, b, c, d) /\ Opposed(abc, abc + rxs) /\ Opposed(cda, cda - rxs)
    BY <1>1, SegmentsMeetSides
  <1>3. lineintersects(a, b, c, d) <=>
            BoxesMeet(a, b, c, d) /\ rxs # 0 /\ Fraction(cda, rxs) /\ Fraction(-abc, rxs)
    BY lineintersectsSides
  <1>4. abc # 0
    OBVIOUS
  <1> HIDE DEF abc, cda, rxs
  <1>5. rxs = 0 => ~Opposed(abc, abc + rxs)
    BY <1>1, <1>4 DEF Opposed
  <1>6. rxs # 0 => (Fraction(-abc, rxs) <=> Opposed(abc, abc + rxs))
    BY <1>1 DEF Fraction, Opposed
  <1>7. rxs # 0 => (Fraction(cda, rxs) <=> Opposed(cda, cda - rxs))
    BY <1>1 DEF Fraction, Opposed
  <1> QED BY <1>2, <1>3, <1>5, <1>6, <1>7

\* In line with it, lineintersects finds only segments that meet: the point is between the ends.
LEMMA InLineSound ==
    ASSUME NEW a \in geomCoord, NEW b \in geomCoord, NEW c \in geomCoord, NEW d \in geomCoord,
           Side(a, b, c) = 0, lineintersects(a, b, c, d)
    PROVE  SegmentsMeet(a, b, c, d)
  <1> DEFINE ex == d.x - c.x
             ey == d.y - c.y
             ux == b.x - a.x
             uy == b.y - a.y
             vx == c.x - a.x
             vy == c.y - a.y
             w == ex * uy - ey * ux
             m == ey * vx - ex * vy
             n == ex * (uy - vy) - ey * (ux - vx)
  <1>1. /\ a.x \in Int /\ a.y \in Int /\ b.x \in Int /\ b.y \in Int
        /\ c.x \in Int /\ c.y \in Int /\ d.x \in Int /\ d.y \in Int
    BY Coordinates
  <1>2. BoxesMeet(a, b, c, d) /\ ((c.x <= a.x) # (c.x <= b.x) \/ (c.y <= a.y) # (c.y <= b.y))
    BY lineintersectsSides
  <1>3. ex \in Int /\ ey \in Int /\ ux \in Int /\ uy \in Int /\ vx \in Int /\ vy \in Int
    BY <1>1
  <1>4. ux * vy = uy * vx
    BY <1>1 DEF Side
  <1>5. Side(c, d, a) = m /\ Side(c, d, b) = n
    <2>1. a.y - c.y = -vy /\ a.x - c.x = -vx /\ b.y - c.y = uy - vy /\ b.x - c.x = ux - vx
      BY <1>1
    <2>2. Side(c, d, a) = ex * (-vy) - ey * (-vx) /\ Side(c, d, b) = ex * (uy - vy) - ey * (ux - vx)
      BY <2>1 DEF Side
    <2> HIDE DEF ex, ey, ux, uy, vx, vy
    <2> QED BY <2>2, <1>3
  <1>6. (c.x <= a.x) # (c.x <= b.x) => (0 <= vx /\ vx <= ux /\ 0 < ux) \/ (ux <= vx /\ vx <= 0 /\ ux < 0)
    BY <1>1
  <1>7. (c.y <= a.y) # (c.y <= b.y) => (0 <= vy /\ vy <= uy /\ 0 < uy) \/ (uy <= vy /\ vy <= 0 /\ uy < 0)
    BY <1>1
  <1> HIDE DEF ex, ey, ux, uy, vx, vy
  <1>8. /\ w \in Int /\ m \in Int /\ n \in Int
        /\ ux * m = -(vx * w) /\ ux * n = (ux - vx) * w
        /\ uy * m = -(vy * w) /\ uy * n = (uy - vy) * w
    BY <1>3, <1>4, Proportion
  <1> HIDE DEF w, m, n
  <1>9. Opposed(m, n)
    BY <1>2, <1>3, <1>6, <1>7, <1>8, BetweenOpposed
  <1>10. Opposed(Side(a, b, c), Side(a, b, d))
    BY CrossedSides DEF Opposed
  <1> QED BY <1>2, <1>5, <1>9, <1>10, SegmentsMeetSides

\* A point on a segment is in line with it.
LEMMA OnIsInLine ==
    ASSUME NEW p \in geomCoord, NEW a \in geomCoord, NEW b \in geomCoord, On(p, a, b)
    PROVE  Side(a, b, p) = 0
  <1>1. /\ a.x \in Int /\ a.y \in Int /\ b.x \in Int /\ b.y \in Int /\ p.x \in Int /\ p.y \in Int
    BY Coordinates
  <1>2. CASE a = b
    BY <1>1, <1>2 DEF Side
  <1>3. CASE a # b
    BY <1>3 DEF On, polyRaycast
  <1> QED BY <1>2, <1>3

-----------------------------------------------------------------------------
(***************************************************************************)
(* Triangles.  The three sides of a point are its weights, of which the    *)
(* corners, seen from the point, add up to nothing: with weights of the    *)
(* same sign some corners are above it and some are below, or all are      *)
(* level, and the ray to its left crosses one edge of the two that cross   *)
(* its horizontal.                                                         *)
(***************************************************************************)
\* The three sides of a point to a triangle are its weights.
LEMMA Barycentric ==
    ASSUME NEW a \in geomCoord, NEW b \in geomCoord, NEW c \in geomCoord, NEW p \in geomCoord
    PROVE  /\ Side(a, b, p) + Side(b, c, p) + Side(c, a, p) = Side(a, b, c)
           /\ Side(b, c, p) * (a.x - p.x) + Side(c, a, p) * (b.x - p.x) + Side(a, b, p) * (c.x - p.x) = 0
           /\ Side(b, c, p) * (a.y - p.y) + Side(c, a, p) * (b.y - p.y) + Side(a, b, p) * (c.y - p.y) = 0
  <1>1. /\ a.x \in Int /\ a.y \in Int /\ b.x \in Int /\ b.y \in Int
        /\ c.x \in Int /\ c.y \in Int /\ p.x \in Int /\ p.y \in Int
    BY Coordinates
  <1>2. Side(a, b, p) + Side(b, c, p) + Side(c, a, p) = Side(a, b, c)
    BY <1>1 DEF Side
  <1>3. Side(b, c, p) * (a.x - p.x) + Side(c, a, p) * (b.x - p.x) + Side(a, b, p) * (c.x - p.x) = 0
    BY <1>1 DEF Side
  <1>4. Side(b, c, p) * (a.y - p.y) + Side(c, a, p) * (b.y - p.y) + Side(a, b, p) * (c.y - p.y) = 0
    BY <1>1 DEF Side
  <1> QED BY <1>2, <1>3, <1>4

\* On the left of a segment's crossing with the horizontal of a point.
LeftOf(p, a, b) == Crosses(p, a, b) /\ IF a.y < b.y THEN Side(a, b, p) > 0 ELSE Side(a, b, p) < 0

\* polyRaycast, for a segment of two points.
LEMMA Raycast ==
    ASSUME NEW p \in geomCoord, NEW a \in geomCoord, NEW b \in geomCoord, a # b
    PROVE  /\ On(p, a, b) <=> Between(p.x, a.x, b.x) /\ Between(p.y, a.y, b.y) /\ Side(a, b, p) = 0
           /\ polyRaycast(p, a, b) = "left" <=> ~On(p, a, b) /\ LeftOf(p, a, b)
  BY DEF On, polyRaycast, LeftOf

\* A number is between two others where these are on different sides of it.
LEMMA BetweenOpposes ==
    ASSUME NEW n \in Int, NEW m \in Int, NEW k \in Int
    PROVE  Between(n, m, k) <=> Opposed(m - n, k - n)
  BY DEF Between, Opposed

\* Every corner of a triangle is on the same side of the edge opposite.
LEMMA Rotated ==
    ASSUME NEW a \in geomCoord, NEW b \in geomCoord, NEW c \in geomCoord
    PROVE  Side(b, c, a) = Side(a, b, c) /\ Side(c, a, b) = Side(a, b, c)
  <1>1. /\ a.x \in Int /\ a.y \in Int /\ b.x \in Int /\ b.y \in Int /\ c.x \in Int /\ c.y \in Int
    BY Coordinates
  <1> QED BY <1>1 DEF Side

\* The corners of a triangle are three.
LEMMA CornersDiffer ==
    ASSUME NEW a \in geomCoord, NEW b \in geomCoord, NEW c \in geomCoord, Side(a, b, c) # 0
    PROVE  a # b /\ b # c /\ c # a
  <1>1. /\ a.x \in Int /\ a.y \in Int /\ b.x \in Int /\ b.y \in Int /\ c.x \in Int /\ c.y \in Int
    BY Coordinates
  <1>2. (a = b => Side(a, b, c) = 0) /\ (b = c => Side(a, b, c) = 0) /\ (c = a => Side(a, b, c) = 0)
    BY <1>1 DEF Side
  <1> QED BY <1>2

\* A triangle is not level.
LEMMA NotLevel ==
    ASSUME NEW a \in geomCoord, NEW b \in geomCoord, NEW c \in geomCoord, Side(a, b, c) # 0
    PROVE  ~(a.y = b.y /\ b.y = c.y)
  <1>1. /\ a.x \in Int /\ a.y \in Int /\ b.x \in Int /\ b.y \in Int /\ c.x \in Int /\ c.y \in Int
    BY Coordinates
  <1> QED BY <1>1 DEF Side

\* A point on an edge of a triangle is on the same side of the other two; one that is on the
\* same side of all, and in line with an edge, is on it.
LEMMA EdgeInside ==
    ASSUME NEW a \in geomCoord, NEW b \in geomCoord, NEW c \in geomCoord, NEW p \in geomCoord,
           Side(a, b, c) # 0, Side(a, b, p) = 0
    PROVE  On(p, a, b) <=> SameSign(Side(a, b, p), Side(b, c, p), Side(c, a, p))
  <1> DEFINE m == Side(b, c, p)
             n == Side(c, a, p)
             ax == a.x - p.x
             bx == b.x - p.x
             ay == a.y - p.y
             by == b.y - p.y
  <1>1. /\ a.x \in Int /\ a.y \in Int /\ b.x \in Int /\ b.y \in Int
        /\ c.x \in Int /\ c.y \in Int /\ p.x \in Int /\ p.y \in Int
    BY Coordinates
  <1>2. m \in Int /\ n \in Int /\ ax \in Int /\ bx \in Int /\ ay \in Int /\ by \in Int
    BY <1>1, SideType
  <1>3. 0 * (c.x - p.x) = 0 /\ 0 * (c.y - p.y) = 0 /\ m * ax \in Int /\ n * bx \in Int /\ m * ay \in Int /\ n * by \in Int
    BY <1>1, <1>2, Signs
  <1>4. m + n # 0
    <2>1. 0 + m + n = Side(a, b, c)
      BY Barycentric
    <2> QED BY <2>1, <1>2
  <1>5. m * ax + n * bx = 0 /\ m * ay + n * by = 0
    <2>1. m * ax + n * bx + 0 * (c.x - p.x) = 0 /\ m * ay + n * by + 0 * (c.y - p.y) = 0
      BY Barycentric
    <2> HIDE DEF m, n, ax, bx, ay, by
    <2> QED BY <2>1, <1>3
  <1>6. On(p, a, b) <=> Opposed(ax, bx) /\ Opposed(ay, by)
    BY <1>1, Raycast, CornersDiffer, BetweenOpposes
  <1>7. ~(ax = 0 /\ bx = 0 /\ ay = 0 /\ by = 0)
    <2>1. a # b
      BY CornersDiffer
    <2>2. a.x # b.x \/ a.y # b.y
      BY <2>1, Coordinates
    <2> QED BY <2>2, <1>1
  <1> HIDE DEF m, n, ax, bx, ay, by
  <1>8. ASSUME Opposed(ax, bx), Opposed(ay, by) PROVE SameSign(0, m, n)
    <2>1. ~(m > 0 /\ n < 0) /\ ~(m < 0 /\ n > 0)
      <3>1. SUFFICES ASSUME (m > 0 /\ n < 0) \/ (m < 0 /\ n > 0) PROVE FALSE
        OBVIOUS
      <3>2. ax = 0 /\ bx = 0
        BY <1>2, <1>5, <1>8, <3>1, UnevenBalance, Zenon
      <3>3. ay = 0 /\ by = 0
        BY <1>2, <1>5, <1>8, <3>1, UnevenBalance, Zenon
      <3> QED BY <3>2, <3>3, <1>7
    <2>2. (m >= 0 /\ n >= 0) \/ (m <= 0 /\ n <= 0)
      BY <2>1, <1>2
    <2> QED BY <2>2 DEF SameSign
  <1>9. ASSUME SameSign(0, m, n) PROVE Opposed(ax, bx) /\ Opposed(ay, by)
    <2>1. (m >= 0 /\ n >= 0) \/ (m <= 0 /\ n <= 0)
      BY <1>9 DEF SameSign
    <2> QED BY <2>1, <1>2, <1>4, <1>5, EvenBalance
  <1>10. On(p, a, b) <=> SameSign(0, m, n)
    BY <1>6, <1>8, <1>9
  <1> QED BY <1>10 DEF m, n

\* The corner b of a triangle on one side of the horizontal of p and the others on the other side,
\* the ray crosses one of the edges at b and not the other: p is on the same side of all edges.
LEMMA ApexCrossed ==
    ASSUME NEW a \in geomCoord, NEW b \in geomCoord, NEW c \in geomCoord, NEW p \in geomCoord,
           (a.y > p.y) # (b.y > p.y), (c.y > p.y) # (b.y > p.y),
           (LeftOf(p, a, b) /\ ~LeftOf(p, b, c)) \/ (~LeftOf(p, a, b) /\ LeftOf(p, b, c))
    PROVE  SameSign(Side(a, b, p), Side(b, c, p), Side(c, a, p))
  <1> DEFINE k == Side(b, c, p)
             m == Side(a, b, p)
             n == Side(c, a, p)
             ay == a.y - p.y
             by == b.y - p.y
             cy == c.y - p.y
  <1>1. a.y \in Int /\ b.y \in Int /\ c.y \in Int /\ p.y \in Int
    BY Coordinates
  <1>2. k \in Int /\ m \in Int /\ n \in Int /\ ay \in Int /\ by \in Int /\ cy \in Int
    BY <1>1, SideType
  <1>3. k * ay + m * cy + n * by = 0
    <2>1. k * ay + n * by + m * cy = 0
      BY Barycentric
    <2>2. k * ay \in Int /\ n * by \in Int /\ m * cy \in Int
      BY <1>2
    <2> HIDE DEF k, m, n, ay, by, cy
    <2> QED BY <2>1, <2>2
  <1>4. /\ LeftOf(p, a, b) <=> IF b.y > p.y THEN m > 0 ELSE m < 0
        /\ LeftOf(p, b, c) <=> IF b.y > p.y THEN k < 0 ELSE k > 0
    BY <1>1 DEF LeftOf, Crosses
  <1>5. /\ (b.y > p.y <=> by > 0) /\ (a.y > p.y <=> ay > 0) /\ (c.y > p.y <=> cy > 0)
    BY <1>1
  <1> HIDE DEF k, m, n, ay, by, cy
  <1>6. CASE by > 0
    <2>1. ay <= 0 /\ cy <= 0 /\ ((m > 0 /\ k >= 0) \/ (m <= 0 /\ k < 0))
      BY <1>2, <1>4, <1>5, <1>6
    <2>2. (k >= 0 /\ m >= 0 => n >= 0) /\ (k <= 0 /\ m <= 0 => n <= 0)
      BY <1>2, <1>3, <1>6, <2>1, ThirdWeight
    <2> QED BY <1>2, <2>1, <2>2 DEF SameSign, m, k, n
  <1>7. CASE by <= 0
    <2>1. ay > 0 /\ cy > 0 /\ ((m < 0 /\ k <= 0) \/ (m >= 0 /\ k > 0))
      BY <1>2, <1>4, <1>5, <1>7
    <2>2. /\ k >= 0 /\ m >= 0 /\ (k > 0 \/ m > 0) => n >= 0
          /\ k <= 0 /\ m <= 0 /\ (k < 0 \/ m < 0) => n <= 0
      BY <1>2, <1>3, <1>7, <2>1, ThirdWeight
    <2> QED BY <1>2, <2>1, <2>2 DEF SameSign, m, k, n
  <1> QED BY <1>2, <1>6, <1>7

\* One of three, or all of them.
Odd(x, y, z) == (x /\ y /\ z) \/ (x /\ ~y /\ ~z) \/ (~x /\ y /\ ~z) \/ (~x /\ ~y /\ z)

\* Around a point that is strictly on one side of all edges, the ray crosses one of them.
LEMMA StrictlyInside ==
    ASSUME NEW a \in geomCoord, NEW b \in geomCoord, NEW c \in geomCoord, NEW p \in geomCoord,
           Side(a, b, c) # 0,
           SameSign(Side(a, b, p), Side(b, c, p), Side(c, a, p)),
           Side(a, b, p) # 0, Side(b, c, p) # 0, Side(c, a, p) # 0
    PROVE  Odd(LeftOf(p, a, b), LeftOf(p, b, c), LeftOf(p, c, a))
  <1> DEFINE k == Side(b, c, p)
             m == Side(c, a, p)
             n == Side(a, b, p)
             ay == a.y - p.y
             by == b.y - p.y
             cy == c.y - p.y
             A == a.y > p.y
             B == b.y > p.y
             C == c.y > p.y
  <1>1. a.y \in Int /\ b.y \in Int /\ c.y \in Int /\ p.y \in Int
    BY Coordinates
  <1>2. k \in Int /\ m \in Int /\ n \in Int /\ ay \in Int /\ by \in Int /\ cy \in Int
    BY <1>1, SideType
  <1>3. k * ay + m * by + n * cy = 0
    BY Barycentric
  <1>4. (ay > 0 <=> A) /\ (by > 0 <=> B) /\ (cy > 0 <=> C)
    BY <1>1
  <1>5. ~(ay = 0 /\ by = 0 /\ cy = 0)
    BY <1>1, NotLevel
  <1>6. SameSign(k, m, n) /\ k # 0 /\ m # 0 /\ n # 0
    BY SameSignRotated
  <1>7. /\ LeftOf(p, a, b) <=> ((A /\ ~B) \/ (~A /\ B)) /\ IF B THEN n > 0 ELSE n < 0
        /\ LeftOf(p, b, c) <=> ((B /\ ~C) \/ (~B /\ C)) /\ IF C THEN k > 0 ELSE k < 0
        /\ LeftOf(p, c, a) <=> ((C /\ ~A) \/ (~C /\ A)) /\ IF A THEN m > 0 ELSE m < 0
    BY <1>1 DEF LeftOf, Crosses
  <1> HIDE DEF k, m, n, ay, by, cy
  <1>8. ~SameSign(ay, by, cy)
    <2>1. k + m + n # 0
      BY <1>2, <1>6 DEF SameSign
    <2> QED BY <1>2, <1>3, <1>5, <1>6, <2>1, Surrounded
  <1>9. ~(A /\ B /\ C) /\ ~(~A /\ ~B /\ ~C)
    BY <1>2, <1>4, <1>8 DEF SameSign
  <1> HIDE DEF A, B, C
  <1>10. CASE k > 0 /\ m > 0 /\ n > 0
    BY <1>2, <1>7, <1>9, <1>10 DEF Odd
  <1>11. CASE k < 0 /\ m < 0 /\ n < 0
    BY <1>2, <1>7, <1>9, <1>11 DEF Odd
  <1> QED BY <1>2, <1>6, <1>10, <1>11 DEF SameSign

\* Where the ray crosses one edge or all of them, the point is on the same side of all.
LEMMA OddlyCrossed ==
    ASSUME NEW a \in geomCoord, NEW b \in geomCoord, NEW c \in geomCoord, NEW p \in geomCoord,
           Odd(LeftOf(p, a, b), LeftOf(p, b, c), LeftOf(p, c, a))
    PROVE  SameSign(Side(a, b, p), Side(b, c, p), Side(c, a, p))
  <1> DEFINE A == a.y > p.y
             B == b.y > p.y
             C == c.y > p.y
             ab == LeftOf(p, a, b)
             bc == LeftOf(p, b, c)
             ca == LeftOf(p, c, a)
  <1>1. a.y \in Int /\ b.y \in Int /\ c.y \in Int /\ p.y \in Int
    BY Coordinates
  <1>2. (ab => A # B) /\ (bc => B # C) /\ (ca => C # A)
    BY DEF LeftOf, Crosses
  <1>3. A \in BOOLEAN /\ B \in BOOLEAN /\ C \in BOOLEAN
    BY <1>1
  <1>4. CASE A = C /\ A # B
    <2>1. (ab /\ ~bc) \/ (~ab /\ bc)
      <3> HIDE DEF A, B, C, ab, bc, ca
      <3>1. Odd(ab, bc, ca)
        BY DEF ab, bc, ca
      <3> QED BY <3>1, <1>2, <1>3, <1>4 DEF Odd
    <2>2. (a.y > p.y) # (b.y > p.y) /\ (c.y > p.y) # (b.y > p.y)
      BY <1>4
    <2> QED BY <2>1, <2>2, ApexCrossed
  <1>5. CASE A = B /\ B # C
    <2>1. (bc /\ ~ca) \/ (~bc /\ ca)
      <3> HIDE DEF A, B, C, ab, bc, ca
      <3>1. Odd(ab, bc, ca)
        BY DEF ab, bc, ca
      <3> QED BY <3>1, <1>2, <1>3, <1>5 DEF Odd
    <2>2. (b.y > p.y) # (c.y > p.y) /\ (a.y > p.y) # (c.y > p.y)
      BY <1>5
    <2>3. SameSign(Side(b, c, p), Side(c, a, p), Side(a, b, p))
      BY <2>1, <2>2, ApexCrossed
    <2> QED BY <2>3, SameSignRotated
  <1>6. CASE B = C /\ C # A
    <2>1. (ca /\ ~ab) \/ (~ca /\ ab)
      <3> HIDE DEF A, B, C, ab, bc, ca
      <3>1. Odd(ab, bc, ca)
        BY DEF ab, bc, ca
      <3> QED BY <3>1, <1>2, <1>3, <1>6 DEF Odd
    <2>2. (c.y > p.y) # (a.y > p.y) /\ (b.y > p.y) # (a.y > p.y)
      BY <1>6
    <2>3. SameSign(Side(c, a, p), Side(a, b, p), Side(b, c, p))
      BY <2>1, <2>2, ApexCrossed
    <2> QED BY <2>3, SameSignRotated
  <1>7. CASE A = B /\ B = C
    <2>1. ~ab /\ ~bc /\ ~ca
      <3> HIDE DEF A, B, C, ab, bc, ca
      <3> QED BY <1>2, <1>7
    <2> QED BY <2>1 DEF Odd
  <1>8. (A = C /\ A # B) \/ (A = B /\ B # C) \/ (B = C /\ C # A) \/ (A = B /\ B = C)
    <2> HIDE DEF A, B, C
    <2> QED BY <1>3
  <1> QED BY <1>4, <1>5, <1>6, <1>7, <1>8

\* The ray of a point tells whether it is in a triangle.
LEMMA TriangleRay ==
    ASSUME NEW a \in geomCoord, NEW b \in geomCoord, NEW c \in geomCoord, NEW p \in geomCoord,
           Side(a, b, c) # 0
    PROVE  LET ray(u, v) == polyRaycast(p, u, v)
           IN  SameSign(Side(a, b, p), Side(b, c, p), Side(c, a, p)) <=>
                   \/ ray(a, b) = "on" \/ ray(b, c) = "on" \/ ray(c, a) = "on"
                   \/ Odd(ray(a, b) = "left", ray(b, c) = "left", ray(c, a) = "left")
  <1> DEFINE inside == SameSign(Side(a, b, p), Side(b, c, p), Side(c, a, p))
  <1>1. a # b /\ b # c /\ c # a
    BY CornersDiffer
  <1>2. Side(b, c, a) # 0 /\ Side(c, a, b) # 0
    BY Rotated
  <1>3. /\ On(p, a, b) => Side(a, b, p) = 0
        /\ On(p, b, c) => Side(b, c, p) = 0
        /\ On(p, c, a) => Side(c, a, p) = 0
    BY <1>1, Raycast
  <1>4. Side(a, b, p) = 0 => (On(p, a, b) <=> inside)
    BY EdgeInside
  <1>5. Side(b, c, p) = 0 => (On(p, b, c) <=> inside)
    <2>1. Side(b, c, p) = 0 => (On(p, b, c) <=> SameSign(Side(b, c, p), Side(c, a, p), Side(a, b, p)))
      BY <1>2, EdgeInside
    <2> QED BY <2>1, SameSignRotated
  <1>6. Side(c, a, p) = 0 => (On(p, c, a) <=> inside)
    <2>1. Side(c, a, p) = 0 => (On(p, c, a) <=> SameSign(Side(c, a, p), Side(a, b, p), Side(b, c, p)))
      BY <1>2, EdgeInside
    <2> QED BY <2>1, SameSignRotated
  <1> DEFINE on == On(p, a, b) \/ On(p, b, c) \/ On(p, c, a)
  <1>7. on => inside
    BY <1>3, <1>4, <1>5, <1>6
  <1>8. /\ ~on => (polyRaycast(p, a, b) = "left" <=> LeftOf(p, a, b))
        /\ ~on => (polyRaycast(p, b, c) = "left" <=> LeftOf(p, b, c))
        /\ ~on => (polyRaycast(p, c, a) = "left" <=> LeftOf(p, c, a))
    BY <1>1, Raycast
  <1>9. ~on => (inside <=> Odd(LeftOf(p, a, b), LeftOf(p, b, c), LeftOf(p, c, a)))
    BY <1>4, <1>5, <1>6, StrictlyInside, OddlyCrossed
  <1>10. ~on => (inside <=> Odd(polyRaycast(p, a, b) = "left", polyRaycast(p, b, c) = "left", polyRaycast(p, c, a) = "left"))
    BY <1>8, <1>9 DEF Odd
  <1>11. on => (polyRaycast(p, a, b) = "on" \/ polyRaycast(p, b, c) = "on" \/ polyRaycast(p, c, a) = "on")
    BY DEF On
  <1>12. ~on => ~(polyRaycast(p, a, b) = "on" \/ polyRaycast(p, b, c) = "on" \/ polyRaycast(p, c, a) = "on")
    BY DEF On
  <1> HIDE DEF on, inside
  <1>13. inside <=>
             \/ polyRaycast(p, a, b) = "on" \/ polyRaycast(p, b, c) = "on" \/ polyRaycast(p, c, a) = "on"
             \/ Odd(polyRaycast(p, a, b) = "left", polyRaycast(p, b, c) = "left", polyRaycast(p, c, a) = "left")
    BY <1>7, <1>10, <1>11, <1>12
  <1> QED BY <1>13 DEF inside

\* One or three is an odd number of three.
LEMMA OddOfThree ==
    ASSUME NEW S \in SUBSET (1 .. 3)
    PROVE  Cardinality(S) % 2 = 1 <=> Odd(1 \in S, 2 \in S, 3 \in S)
  <1> DEFINE n(k) == IF k \in S THEN 1 ELSE 0
             S1 == {k \in {1} : k \in S}
             S2 == S1 \union {k \in {2} : k \in S}
  <1>1. IsFiniteSet({}) /\ Cardinality({}) = 0
    BY FS_EmptySet
  <1>2. IsFiniteSet(S1) /\ Cardinality(S1) = n(1)
    <2>1. CASE 1 \in S
      <3>1. S1 = {} \union {1}
        BY <2>1
      <3> QED BY <3>1, <2>1, <1>1, FS_AddElement
    <2>2. CASE 1 \notin S
      <3>1. S1 = {}
        BY <2>2
      <3> QED BY <3>1, <2>2, <1>1
    <2> QED BY <2>1, <2>2
  <1>3. IsFiniteSet(S2) /\ Cardinality(S2) = n(1) + n(2)
    <2>1. CASE 2 \in S
      <3>1. S2 = S1 \union {2} /\ 2 \notin S1
        BY <2>1
      <3> HIDE DEF S1, S2
      <3> QED BY <3>1, <2>1, <1>2, FS_AddElement
    <2>2. CASE 2 \notin S
      <3>1. S2 = S1
        BY <2>2
      <3> HIDE DEF S1, S2
      <3> QED BY <3>1, <2>2, <1>2
    <2> QED BY <2>1, <2>2
  <1>3a. \A k \in S : k = 1 \/ k = 2 \/ k = 3
    OBVIOUS
  <1>4. Cardinality(S) = n(1) + n(2) + n(3)
    <2>1. CASE 3 \in S
      <3>1. S = S2 \union {3} /\ 3 \notin S2
        <4>1. 3 \notin S1 /\ 3 \notin S2
          OBVIOUS
        <4>2. \A k : k \in S <=> k \in S2 \/ k = 3
          BY <1>3a, <2>1
        <4> HIDE DEF S1, S2
        <4> QED BY <4>1, <4>2
      <3> HIDE DEF S1, S2
      <3> QED BY <3>1, <2>1, <1>3, FS_AddElement
    <2>2. CASE 3 \notin S
      <3>1. S = S2
        BY <1>3a, <2>2
      <3> HIDE DEF S1, S2
      <3> QED BY <3>1, <2>2, <1>3
    <2> QED BY <2>1, <2>2
  <1>5. 0 % 2 = 0 /\ 1 % 2 = 1 /\ 2 % 2 = 0 /\ 3 % 2 = 1
    OBVIOUS
  <1> QED BY <1>4, <1>5 DEF Odd

\* A ring of three corners that are not on a line, written with its first point at the end or not.
TriangleRing(ring) ==
    /\ ring \in Seq(geomCoord)
    /\ Len(ring) = 3 \/ (Len(ring) = 4 /\ ring[4] = ring[1])
    /\ Side(ring[1], ring[2], ring[3]) # 0

\* The edges of such a ring; where it is closed in the ring there is one more, of no length.
LEMMA TriangleEdges ==
    ASSUME NEW ring, TriangleRing(ring)
    PROVE  /\ ring[1] \in geomCoord /\ ring[2] \in geomCoord /\ ring[3] \in geomCoord
           /\ Edge(ring, 1) = <<ring[1], ring[2]>> /\ Edge(ring, 2) = <<ring[2], ring[3]>>
           /\ Edge(ring, 3) = <<ring[3], ring[1]>>
           /\ 4 \in DOMAIN ring => Edge(ring, 4) = <<ring[1], ring[1]>>
           /\ DOMAIN ring = 1 .. 3 \/ DOMAIN ring = 1 .. 4
           /\ \A n \in DOMAIN ring : n = 1 \/ n = 2 \/ n = 3 \/ n = 4
           /\ 1 \in DOMAIN ring /\ 2 \in DOMAIN ring /\ 3 \in DOMAIN ring
  <1>1. ring \in Seq(geomCoord) /\ (Len(ring) = 3 \/ Len(ring) = 4) /\ DOMAIN ring = 1 .. Len(ring)
    BY RingPoints DEF TriangleRing
  <1>2. 1 \in DOMAIN ring /\ 2 \in DOMAIN ring /\ 3 \in DOMAIN ring
    BY <1>1
  <1>3. /\ 1 % 3 = 1 /\ 2 % 3 = 2 /\ 3 % 3 = 0
        /\ 1 % 4 = 1 /\ 2 % 4 = 2 /\ 3 % 4 = 3 /\ 4 % 4 = 0
    OBVIOUS
  <1>4. CASE Len(ring) = 3
    <2>1. Edge(ring, 1) = <<ring[1], ring[2]>> /\ Edge(ring, 2) = <<ring[2], ring[3]>>
      BY <1>4, <1>3 DEF Edge
    <2>2. Edge(ring, 3) = <<ring[3], ring[1]>>
      BY <1>4, <1>3 DEF Edge
    <2> QED BY <2>1, <2>2, <1>1, <1>2, <1>4, RingPoints
  <1>5. CASE Len(ring) = 4
    <2>1. ring[4] = ring[1]
      BY <1>5 DEF TriangleRing
    <2>2. Edge(ring, 1) = <<ring[1], ring[2]>> /\ Edge(ring, 2) = <<ring[2], ring[3]>>
      BY <1>5, <1>3 DEF Edge
    <2>3. Edge(ring, 3) = <<ring[3], ring[1]>> /\ Edge(ring, 4) = <<ring[1], ring[1]>>
      BY <1>5, <1>3, <2>1 DEF Edge
    <2> QED BY <2>2, <2>3, <1>1, <1>2, <1>5, RingPoints
  <1> QED BY <1>1, <1>4, <1>5

\* insideshpext is right about triangles, with their edges.
LEMMA TriangleInside ==
    ASSUME NEW ring, TriangleRing(ring), NEW p \in geomCoord
    PROVE  insideshpext(p, ring, TRUE) <=>
               SameSign(Side(ring[1], ring[2], p), Side(ring[2], ring[3], p), Side(ring[3], ring[1], p))
  <1> DEFINE a == ring[1]
             b == ring[2]
             c == ring[3]
             ray(n) == polyRaycast(p, Edge(ring, n)[1], Edge(ring, n)[2])
             left == {n \in DOMAIN ring : ray(n) = "left"}
             on == \E n \in DOMAIN ring : ray(n) = "on"
  <1>1. a \in geomCoord /\ b \in geomCoord /\ c \in geomCoord /\ Side(a, b, c) # 0
    BY TriangleEdges DEF TriangleRing
  <1>2. /\ ray(1) = polyRaycast(p, a, b) /\ ray(2) = polyRaycast(p, b, c) /\ ray(3) = polyRaycast(p, c, a)
        /\ 4 \in DOMAIN ring => ray(4) = IF p = a THEN "on" ELSE "out"
    <2>1. polyRaycast(p, a, a) = IF p = a THEN "on" ELSE "out"
      BY DEF polyRaycast
    <2> QED BY <2>1, TriangleEdges
  <1>3. p = a => polyRaycast(p, a, b) = "on"
    <2>1. ASSUME p = a PROVE On(p, a, b)
      <3>1. a.x \in Int /\ a.y \in Int /\ b.x \in Int /\ b.y \in Int
        BY <1>1, Coordinates
      <3>2. Side(a, b, a) = 0
        BY <3>1 DEF Side
      <3>3. Between(a.x, a.x, b.x) /\ Between(a.y, a.y, b.y)
        BY <3>1 DEF Between
      <3> QED BY <1>1, <2>1, <3>2, <3>3, CornersDiffer, Raycast
    <2> QED BY <2>1 DEF On
  <1>4. /\ \A n \in DOMAIN ring : n = 1 \/ n = 2 \/ n = 3 \/ n = 4
        /\ 1 \in DOMAIN ring /\ 2 \in DOMAIN ring /\ 3 \in DOMAIN ring
    BY TriangleEdges
  <1> HIDE DEF a, b, c, ray
  <1>5. on <=> polyRaycast(p, a, b) = "on" \/ polyRaycast(p, b, c) = "on" \/ polyRaycast(p, c, a) = "on"
    <2>1. on <=> ray(1) = "on" \/ ray(2) = "on" \/ ray(3) = "on" \/ (4 \in DOMAIN ring /\ ray(4) = "on")
      BY <1>4
    <2> QED BY <2>1, <1>2, <1>3
  <1>6. left \in SUBSET (1 .. 3)
    <2>1. 4 \notin left
      BY <1>2
    <2> QED BY <2>1, <1>4
  <1>7. /\ 1 \in left <=> polyRaycast(p, a, b) = "left"
        /\ 2 \in left <=> polyRaycast(p, b, c) = "left"
        /\ 3 \in left <=> polyRaycast(p, c, a) = "left"
    BY <1>2, <1>4
  <1>8. insideshpext(p, ring, TRUE) <=> on \/ Cardinality(left) % 2 = 1
    BY DEF insideshpext, ray
  <1> HIDE DEF on, left
  <1>9. Cardinality(left) % 2 = 1 <=>
            Odd(polyRaycast(p, a, b) = "left", polyRaycast(p, b, c) = "left", polyRaycast(p, c, a) = "left")
    BY <1>6, <1>7, OddOfThree DEF Odd
  <1>10. insideshpext(p, ring, TRUE) <=> SameSign(Side(a, b, p), Side(b, c, p), Side(c, a, p))
    BY <1>1, <1>5, <1>8, <1>9, TriangleRay
  <1> QED BY <1>10 DEF a, b, c

\* The rings of WithinExact and PointsExact with three corners are such rings.
LEMMA TriangleCorners ==
    ASSUME NEW ring \in Seq(geomCoord), Len(Corners(ring)) = 3,
           PlaneSide(Corners(ring)[1], Corners(ring)[2], Corners(ring)[3]) # 0
    PROVE  /\ TriangleRing(ring)
           /\ Corners(ring)[1] = ring[1] /\ Corners(ring)[2] = ring[2] /\ Corners(ring)[3] = ring[3]
  <1>1. \A p, q, r : PlaneSide(p, q, r) = Side(p, q, r)
    BY DEF PlaneSide, Side
  <1>2. CASE Len(ring) > 1 /\ Last(ring) = Head(ring)
    <2> DEFINE c == SubSeq(ring, 1, Len(ring) - 1)
    <2>1. Corners(ring) = c
      BY <1>2 DEF Corners, Front
    <2>2. Len(ring) \in Nat /\ Len(ring) - 1 \in Nat /\ 1 \in 1 .. Len(ring) + 1 /\ Len(ring) - 1 \in 0 .. Len(ring)
      BY <1>2, LenProperties
    <2>3. Len(c) = Len(ring) - 1 /\ \A n \in 1 .. Len(ring) - 1 : c[n] = ring[n]
      <3>1. /\ Len(c) = IF 1 <= Len(ring) - 1 THEN (Len(ring) - 1) - 1 + 1 ELSE 0
            /\ \A n \in 1 .. (Len(ring) - 1) - 1 + 1 : c[n] = ring[1 + n - 1]
        BY <2>2, SubSeqProperties
      <3> HIDE DEF c
      <3> QED BY <3>1, <2>2, <1>2
    <2> HIDE DEF c
    <2>4. Len(ring) = 4
      <3>1. Len(ring) - 1 = 3
        BY <2>1, <2>3
      <3> QED BY <3>1, <2>2
    <2>5. c[1] = ring[1] /\ c[2] = ring[2] /\ c[3] = ring[3]
      BY <2>3, <2>4
    <2>6. ring[4] = ring[1]
      BY <1>2, <2>4 DEF Last
    <2> QED BY <1>1, <2>1, <2>4, <2>5, <2>6 DEF TriangleRing
  <1>3. CASE ~(Len(ring) > 1 /\ Last(ring) = Head(ring))
    <2>1. Corners(ring) = ring
      BY <1>3 DEF Corners
    <2> QED BY <1>1, <2>1 DEF TriangleRing
  <1> QED BY <1>2, <1>3

\* Covers, by the sides of the three edges.
LEMMA TriangleCovers ==
    ASSUME NEW ring \in Seq(geomCoord), Len(Corners(ring)) = 3,
           PlaneSide(Corners(ring)[1], Corners(ring)[2], Corners(ring)[3]) # 0,
           NEW p \in geomCoord
    PROVE  Covers(ring, p) <=>
               SameSign(Side(ring[1], ring[2], p), Side(ring[2], ring[3], p), Side(ring[3], ring[1], p))
  <1> DEFINE c == Corners(ring)
  <1>1. c[1] = ring[1] /\ c[2] = ring[2] /\ c[3] = ring[3]
    BY TriangleCorners
  <1>2. \A q, r, u : PlaneSide(q, r, u) = Side(q, r, u)
    BY DEF PlaneSide, Side
  <1>3. Covers(ring, p) <=> InTriangle(p, c)
    BY DEF Covers, Pieces
  <1>4. InTriangle(p, c) <=> SameSign(Side(c[1], c[2], p), Side(c[2], c[3], p), Side(c[3], c[1], p))
    BY <1>2 DEF InTriangle, SameSign
  <1> HIDE DEF c
  <1> QED BY <1>1, <1>3, <1>4

\* A point in a triangle is in its rectangle.
LEMMA TriangleRect ==
    ASSUME NEW ring, TriangleRing(ring), NEW p \in geomCoord,
           SameSign(Side(ring[1], ring[2], p), Side(ring[2], ring[3], p), Side(ring[3], ring[1], p))
    PROVE  /\ \E n \in DOMAIN ring : ring[n].x <= p.x
           /\ \E n \in DOMAIN ring : p.x <= ring[n].x
           /\ \E n \in DOMAIN ring : ring[n].y <= p.y
           /\ \E n \in DOMAIN ring : p.y <= ring[n].y
  <1> DEFINE a == ring[1]
             b == ring[2]
             c == ring[3]
             k == Side(b, c, p)
             m == Side(c, a, p)
             n == Side(a, b, p)
             ax == a.x - p.x
             bx == b.x - p.x
             cx == c.x - p.x
             ay == a.y - p.y
             by == b.y - p.y
             cy == c.y - p.y
  <1>1. a \in geomCoord /\ b \in geomCoord /\ c \in geomCoord /\ Side(a, b, c) # 0
    BY TriangleEdges DEF TriangleRing
  <1>2. /\ a.x \in Int /\ a.y \in Int /\ b.x \in Int /\ b.y \in Int
        /\ c.x \in Int /\ c.y \in Int /\ p.x \in Int /\ p.y \in Int
    BY <1>1, Coordinates
  <1>3. k \in Int /\ m \in Int /\ n \in Int
    BY <1>1, SideType
  <1>4. n + k + m = Side(a, b, c)
    BY <1>1, Barycentric
  <1>4x. k * ax + m * bx + n * cx = 0
    BY <1>1, Barycentric
  <1>4y. k * ay + m * by + n * cy = 0
    BY <1>1, Barycentric
  <1>5. SameSign(k, m, n)
    BY SameSignRotated
  <1>6. 1 \in DOMAIN ring /\ 2 \in DOMAIN ring /\ 3 \in DOMAIN ring
    BY TriangleEdges
  <1>7. ax \in Int /\ bx \in Int /\ cx \in Int /\ ay \in Int /\ by \in Int /\ cy \in Int
    BY <1>2
  <1>8. k + m + n # 0
    <2> HIDE DEF k, m, n
    <2> QED BY <1>1, <1>3, <1>4
  <1>9. /\ (ax <= 0 => a.x <= p.x) /\ (bx <= 0 => b.x <= p.x) /\ (cx <= 0 => c.x <= p.x)
        /\ (0 <= ax => p.x <= a.x) /\ (0 <= bx => p.x <= b.x) /\ (0 <= cx => p.x <= c.x)
    BY <1>2
  <1>10. /\ (ay <= 0 => a.y <= p.y) /\ (by <= 0 => b.y <= p.y) /\ (cy <= 0 => c.y <= p.y)
         /\ (0 <= ay => p.y <= a.y) /\ (0 <= by => p.y <= b.y) /\ (0 <= cy => p.y <= c.y)
    BY <1>2
  <1> HIDE DEF k, m, n, ax, bx, cx, ay, by, cy
  <1>11. ASSUME NEW K \in Int, NEW M \in Int, NEW N \in Int, k * K + m * M + n * N = 0
         PROVE  (K <= 0 \/ M <= 0 \/ N <= 0) /\ (0 <= K \/ 0 <= M \/ 0 <= N)
    <2>1. SignOf(k, K, k * K) /\ SignOf(m, M, m * M) /\ SignOf(n, N, n * N)
      BY <1>3, <1>11, SignOfProduct
    <2> DEFINE kK == k * K
               mM == m * M
               nN == n * N
    <2>2. kK + mM + nN = 0 /\ SignOf(k, K, kK) /\ SignOf(m, M, mM) /\ SignOf(n, N, nN)
      BY <1>11, <2>1
    <2> HIDE DEF kK, mM, nN
    <2> QED BY <1>3, <1>5, <1>8, <1>11, <2>2 DEF SameSign, SignOf
  <1>12. /\ (ax <= 0 \/ bx <= 0 \/ cx <= 0) /\ (0 <= ax \/ 0 <= bx \/ 0 <= cx)
         /\ (ay <= 0 \/ by <= 0 \/ cy <= 0) /\ (0 <= ay \/ 0 <= by \/ 0 <= cy)
    BY <1>4x, <1>4y, <1>7, <1>11
  <1>13. (a.x <= p.x \/ b.x <= p.x \/ c.x <= p.x) /\ (p.x <= a.x \/ p.x <= b.x \/ p.x <= c.x)
    BY <1>9, <1>12
  <1>14. (a.y <= p.y \/ b.y <= p.y \/ c.y <= p.y) /\ (p.y <= a.y \/ p.y <= b.y \/ p.y <= c.y)
    BY <1>10, <1>12
  <1> QED BY <1>6, <1>13, <1>14

-----------------------------------------------------------------------------
(***************************************************************************)
(* Circles: the rectangle that a search walks the index with.              *)
(***************************************************************************)
\* Turn is the shorter way around.
LEMMA TurnOf ==
    ASSUME NEW a \in -360 .. 360
    PROVE /\ Turn(a) \in 0 .. 180
          /\ -180 <= a /\ a <= 180 => Turn(a) = abs(a)
          /\ a > 180 => Turn(a) = 360 - a
          /\ a < -180 => Turn(a) = 360 + a
BY DEF Turn, Normalised, abs

\* How far it is to the antimeridian, the shorter way.
LEMMA TurnToEdge ==
    ASSUME NEW x \in -180 .. 180
    PROVE Turn(180 - x) = IF x >= 0 THEN 180 - x ELSE 180 + x
<1>1. 180 - x \in -360 .. 360 /\ 180 - x \in Int
  OBVIOUS
<1>2. CASE x >= 0
  <2>1. -180 <= 180 - x /\ 180 - x <= 180
    BY <1>2
  <2>2. Turn(180 - x) = abs(180 - x)
    BY ZenonT(30), <2>1, <1>1, TurnOf
  <2> QED BY <2>2, <1>2 DEF abs
<1>3. CASE x < 0
  <2>1. 180 - x > 180
    BY <1>3
  <2>2. Turn(180 - x) = 360 - (180 - x)
    BY ZenonT(30), <2>1, <1>1, TurnOf
  <2> QED BY <2>2, <1>3
<1> QED BY <1>2, <1>3

\* The rectangle of a circle that does not reach the antimeridian, nor a pole.
LEMMA SidesNear ==
    ASSUME NEW x \in -180 .. 180, NEW m \in Nat, m < Turn(180 - x), m < 90
    PROVE /\ Normalised(x + m) = x + m /\ Normalised(x - m) = x - m
          /\ Folded(0 + m) = m /\ Folded(0 - m) = -m
          /\ x + m < 180 /\ x - m > -180
<1>1. m < 180 - x /\ m < 180 + x
  BY TurnToEdge
<1>2. x + m \in -180 .. 179 /\ x - m \in -180 .. 179
  BY <1>1
<1> QED BY <1>1, <1>2 DEF Normalised, Folded

\* The sides are numbers.
LEMMA SidesType ==
    ASSUME NEW x \in -180 .. 180, NEW m \in Nat
    PROVE  Normalised(x - m) \in Int /\ Normalised(x + m) \in Int /\ Folded(0 - m) \in Int /\ Folded(0 + m) \in Int
  BY DEF Normalised, Folded

\* A point that is near enough is in the rectangle.
LEMMA NearWithin ==
    ASSUME NEW p, NEW c, NEW m \in Nat, HasDistance(p, c), m < Turn(180 - c.x), m < 90, geoutilDistance(p, c) <= m
    PROVE  -m <= p.y /\ p.y <= m /\ c.x - m <= p.x /\ p.x <= c.x + m
<1> DEFINE px == p.x
           py == p.y
           x == c.x
           turn == Turn(px - x)
<1>0. px \in -180 .. 180 /\ py \in -90 .. 90 /\ x \in -180 .. 180
  BY DEF HasDistance, IsCoord
<1>5. geoutilDistance(p, c) =
        CASE turn = 0 -> abs(py)
          [] turn = 180 -> 180 - abs(py)
          [] py = 0 -> turn
          [] turn = 90 \/ abs(py) = 90 -> 90
          [] turn = 45 /\ abs(py) = 45 -> 60
          [] turn = 135 /\ abs(py) = 45 -> 120
  BY DEF geoutilDistance
<1>7. \/ py = 0 \/ abs(py) = 90 \/ turn \in {0, 90, 180} \/ (turn \in {45, 135} /\ abs(py) = 45)
  BY DEF HasDistance
<1>8. m < Turn(180 - x)
  OBVIOUS
<1> HIDE DEF px, py, x
<1>1. m < 180 - x /\ m < 180 + x
  BY <1>0, <1>8, TurnToEdge
<1>2. px - x \in -360 .. 360
  BY <1>0
<1>3. turn \in 0 .. 180
  BY <1>2, TurnOf
<1>4. turn <= m => x - m <= px /\ px <= x + m
  <2> SUFFICES ASSUME turn <= m PROVE x - m <= px /\ px <= x + m
    OBVIOUS
  <2>1. CASE px - x > 180
    <3>1. turn = 360 - (px - x)
      BY <1>2, <2>1, TurnOf
    <3> QED BY <3>1, <1>0, <1>1
  <2>2. CASE px - x < -180
    <3>1. turn = 360 + (px - x)
      BY ZenonT(30), <1>2, <2>2, TurnOf
    <3> QED BY <3>1, <1>0, <1>1
  <2>3. CASE -180 <= px - x /\ px - x <= 180
    <3>1. turn = abs(px - x)
      BY <1>2, <2>3, TurnOf
    <3> QED BY <3>1, <1>0 DEF abs
  <2>4. px - x \in Int
    BY <1>0
  <2> QED BY <2>1, <2>2, <2>3, <2>4
<1>6. abs(py) \in 0 .. 90
  BY <1>0 DEF abs
<1> HIDE DEF turn
<1>a. turn <= m /\ abs(py) <= m
  <2>1. CASE turn = 0
    <3>0. py = 0 => abs(py) = turn
      BY <2>1 DEF abs
    <3>1. geoutilDistance(p, c) = abs(py)
      BY <2>1, <3>0, <1>5
    <3> QED BY <3>1, <2>1, <1>6
  <2>2. CASE turn = 180
    <3>1. geoutilDistance(p, c) = 180 - abs(py)
      BY <2>2, <1>5
    <3>2. 90 <= 180 - abs(py)
      BY <1>6
    <3> QED BY <3>1, <3>2, <1>6
  <2>3. CASE turn \notin {0, 180} /\ py = 0
    <3>1. abs(py) = 0
      BY <2>3 DEF abs
    <3>2. geoutilDistance(p, c) = turn
      BY <2>3, <3>1, <1>5
    <3> QED BY <3>1, <3>2, <1>3
  <2>4. CASE turn \notin {0, 180} /\ py # 0 /\ (turn = 90 \/ abs(py) = 90)
    <3>1. geoutilDistance(p, c) = 90
      BY <2>4, <1>5
    <3> QED BY <3>1
  <2>5. CASE turn = 45 /\ abs(py) = 45
    <3>1. py # 0
      BY <2>5 DEF abs
    <3>2. geoutilDistance(p, c) = 60
      BY <2>5, <3>1, <1>5
    <3> QED BY <3>2, <2>5
  <2>6. CASE turn = 135 /\ abs(py) = 45
    <3>1. py # 0
      BY <2>6 DEF abs
    <3>2. geoutilDistance(p, c) = 120
      BY <2>6, <3>1, <1>5
    <3> QED BY <3>2
  <2> QED BY <1>7, <2>1, <2>2, <2>3, <2>4, <2>5, <2>6
<1>b. -m <= py /\ py <= m
  BY <1>0, <1>a DEF abs
<1> QED BY <1>a, <1>b, <1>4 DEF px, py, x

-----------------------------------------------------------------------------
(***************************************************************************)
(* The inductive invariant.  There is a single step; what the properties   *)
(* need of it is that the field and the target are one of the Cases.       *)
(***************************************************************************)
\* An answer is what the walk and the match say of the field.
Matched == answer # "none" => (answer = "hit" <=> Found /\ matchSearch(stored, search))

IInv ==
    /\ \E case \in Cases : stored = case[1] /\ target = case[2]
    /\ search \in Searches
    /\ answer \in {"none", "hit", "miss"}
    /\ Matched

\* The inductive invariant holds.
THEOREM Invariant == Spec => []IInv
<1>1. Init => IInv
  BY DEF Init, IInv, Matched
<1>2. IInv /\ [ExGisSearch]_vars => IInv'
  <2> SUFFICES ASSUME IInv, [ExGisSearch]_vars PROVE IInv'
    OBVIOUS
  <2>1. CASE ExGisSearch
    <3> DEFINE hit == Found /\ matchSearch(stored, search)
    <3>1. UNCHANGED <<stored, target, search>> /\ answer' = IF hit THEN "hit" ELSE "miss"
      BY <2>1 DEF ExGisSearch
    <3>2. hit' <=> hit
      BY <3>1 DEF Found, matchSearch, matchGeometry, bounds, IsRadius
    <3> HIDE DEF hit
    <3>3. answer' = "hit" <=> hit
      BY <3>1
    <3>4. Matched' <=> (answer' # "none" => (answer' = "hit" <=> hit'))
      BY DEF Matched, hit
    <3> QED BY <3>1, <3>2, <3>3, <3>4 DEF IInv
  <2>2. CASE UNCHANGED vars
    BY <2>2 DEF vars, IInv, Matched, Found, matchSearch, matchGeometry, bounds, IsRadius
  <2> QED BY <2>1, <2>2
<1> QED BY <1>1, <1>2, PTL DEF Spec

-----------------------------------------------------------------------------
(***************************************************************************)
(* What the invariant says of segments, triangles and circles.             *)
(***************************************************************************)
\* What GIS.INTERSECTS asks of two lines of two points: the only segment of each is the one back.
LEMMA LinesAsked ==
    ASSUME NEW g, NEW h, g.type = "LINESTRING", h.type = "LINESTRING",
           g.body \in Seq(geomCoord), Len(g.body) = 2, h.body \in Seq(geomCoord), Len(h.body) = 2
    PROVE  LET s == g.body
               t == h.body
           IN  matchGeometry(g, geomNewPolyMap(h), "INTERSECTS") <=>
                   /\ lineintersects(s[2], s[1], t[2], t[1])
                   /\ ~(/\ On(t[2], s[2], s[1]) /\ On(t[1], s[2], s[1])
                        /\ On(s[2], s[1], lineCenter(t[2], t[1])))
  <1> DEFINE s == g.body
             t == h.body
             p == LinePart(s)
             q == LinePart(t)
             along(c, d) == /\ On(c, s[2], s[1]) /\ On(d, s[2], s[1])
                            /\ On(s[2], s[1], lineCenter(c, d))
  <1>1. geomNewPolyMap(g) = <<p>> /\ geomNewPolyMap(h) = <<q>>
    BY DEF geomNewPolyMap, PlainParts
  <1>2. p.type = "LINESTRING" /\ p.ring = s /\ q.type = "LINESTRING" /\ q.ring = t
    BY DEF LinePart, Part
  <1> HIDE DEF p, q
  <1>3. Reached(<<p>>, Surfaces) = {p} /\ Reached(<<q>>, Surfaces) = {q}
    BY <1>2 DEF Reached, Surfaces
  <1>4. Legs(s) = {<<s[2], s[1]>>} /\ Legs(t) = {<<t[2], t[1]>>}
    <2>1. 2 .. 2 = {2} /\ (2 % 2) + 1 = 1
      OBVIOUS
    <2> QED BY <2>1 DEF Legs, Edge
  <1> HIDE DEF s, t
  <1>5. geomPolyMapExIntersects(<<p>>, <<q>>) <=> lineExIntersects(s[2], s[1], <<q>>)
    <2>1. geomPolyMapExIntersects(<<p>>, <<q>>) <=>
              \/ p.type = "POINT" /\ pointWithin(p.ring[1], <<q>>)
              \/ p.type = "LINESTRING" /\ \E leg \in Legs(p.ring) : lineExIntersects(leg[1], leg[2], <<q>>)
              \/ p.type = "POLYGON" /\ polygonExIntersects(p.ring, p.holes, <<q>>)
      BY <1>3, Zenon DEF geomPolyMapExIntersects
    <2>2. (\E leg \in Legs(s) : lineExIntersects(leg[1], leg[2], <<q>>)) <=> lineExIntersects(s[2], s[1], <<q>>)
      BY <1>4
    <2> QED BY <1>2, <2>1, <2>2
  <1>6. lineExIntersects(s[2], s[1], <<q>>) <=>
            lineintersects(s[2], s[1], t[2], t[1]) /\ ~along(t[2], t[1])
    <2>1. lineExIntersects(s[2], s[1], <<q>>) <=>
              \/ q.type = "POINT" /\ On(q.ring[1], s[2], s[1])
              \/ /\ q.type = "LINESTRING"
                 /\ \E leg \in Legs(q.ring) :
                       lineintersects(s[2], s[1], leg[1], leg[2]) /\ ~along(leg[1], leg[2])
              \/ /\ q.type = "POLYGON"
                 /\ \E r \in {s[2], s[1]} : polyPointInside(r, q.ring, q.holes)
      BY <1>3, Zenon DEF lineExIntersects
    <2>2. (\E leg \in Legs(t) : lineintersects(s[2], s[1], leg[1], leg[2]) /\ ~along(leg[1], leg[2]))
              <=> lineintersects(s[2], s[1], t[2], t[1]) /\ ~along(t[2], t[1])
      <3> HIDE DEF along
      <3> QED BY <1>4
    <2> QED BY <1>2, <2>1, <2>2
  <1> QED BY <1>1, <1>5, <1>6 DEF matchGeometry, s, t

\* Two segments: lineintersects, in line with the stored one or not, and the bounds.
LEMMA SegmentsFound ==
    ASSUME IInv
    PROVE  SegmentsExact
  <1> SUFFICES ASSUME IsSegment(stored), IsSegment(target), search = "INTERSECTS"
               PROVE  LET s == stored.body
                          t == target.body
                          meet == SegmentsMeet(s[1], s[2], t[1], t[2])
                      IN  /\ answer = "hit" => meet
                          /\ answer = "miss" /\ meet => PlaneSide(s[1], s[2], t[2]) = 0
    BY DEF SegmentsExact
  <1> DEFINE s == stored.body
             t == target.body
             meet == SegmentsMeet(s[1], s[2], t[1], t[2])
  <1>1. PICK case \in Cases : stored = case[1] /\ target = case[2]
    BY DEF IInv
  <1>2. stored.type = "LINESTRING" /\ target.type = "LINESTRING" /\ ~IsRadius /\ Len(s) = 2 /\ Len(t) = 2
    BY DEF IsSegment, IsRadius
  <1>3. IsGeometry(stored) /\ IsGeometry(target)
    BY <1>1, <1>2, CasesAssumption DEF IsRadius
  <1>4. s \in Seq(geomCoord) /\ t \in Seq(geomCoord)
    BY <1>2, <1>3 DEF IsGeometry, IsPlain
  <1>5. s[1] \in geomCoord /\ s[2] \in geomCoord /\ t[1] \in geomCoord /\ t[2] \in geomCoord
    BY <1>2, <1>4, RingPoints
  <1>6. matchSearch(stored, search) <=>
            /\ lineintersects(s[2], s[1], t[2], t[1])
            /\ ~(/\ On(t[2], s[2], s[1]) /\ On(t[1], s[2], s[1])
                 /\ On(s[2], s[1], lineCenter(t[2], t[1])))
    BY <1>2, <1>4, LinesAsked DEF matchSearch
  <1>7. meet <=> SegmentsMeet(s[2], s[1], t[2], t[1])
    BY <1>5, SegmentsReversed
  <1>8. Side(s[2], s[1], t[2]) = -Side(s[1], s[2], t[2]) /\ Side(s[1], s[2], t[2]) \in Int
    BY <1>5, SidesReversed
  <1>9. PlaneSide(s[1], s[2], t[2]) = Side(s[1], s[2], t[2])
    BY DEF PlaneSide, Side
  <1>10. answer # "none" => (answer = "hit" <=> Found /\ matchSearch(stored, search))
    BY DEF IInv, Matched
  <1>11. ASSUME answer = "hit" PROVE meet
    <2>1. lineintersects(s[2], s[1], t[2], t[1])
      BY <1>6, <1>10, <1>11
    <2>2. CASE Side(s[2], s[1], t[2]) = 0
      BY <1>5, <1>7, <2>1, <2>2, InLineSound
    <2>3. CASE Side(s[2], s[1], t[2]) # 0
      BY <1>5, <1>7, <2>1, <2>3, CrossingExact
    <2> QED BY <2>2, <2>3
  <1>12. ASSUME answer = "miss", meet, Side(s[1], s[2], t[2]) # 0 PROVE FALSE
    <2>1. Side(s[2], s[1], t[2]) # 0
      BY <1>8, <1>12
    <2>2. lineintersects(s[2], s[1], t[2], t[1])
      BY <1>5, <1>7, <1>12, <2>1, CrossingExact
    <2>3. ~On(t[2], s[2], s[1])
      BY <1>5, <2>1, OnIsInLine
    <2>4. Found
      <3>1. BoxesMeet(s[1], s[2], t[1], t[2])
        BY <1>12 DEF SegmentsMeet
      <3>2. s # <<>> /\ t # <<>> /\ DOMAIN s = 1 .. 2 /\ DOMAIN t = 1 .. 2
        <4> HIDE DEF s, t
        <4>1. Len(s) = 2 /\ Len(t) = 2 /\ s \in Seq(geomCoord) /\ t \in Seq(geomCoord)
          BY <1>2, <1>4
        <4>2. DOMAIN s = 1 .. Len(s) /\ DOMAIN t = 1 .. Len(t)
          BY <4>1, RingPoints
        <4>3. 1 \in DOMAIN s /\ 1 \in DOMAIN t
          BY <4>1, <4>2
        <4> QED BY <4>1, <4>2, <4>3
      <3>3. /\ s[1].x \in Int /\ s[1].y \in Int /\ s[2].x \in Int /\ s[2].y \in Int
            /\ t[1].x \in Int /\ t[1].y \in Int /\ t[2].x \in Int /\ t[2].y \in Int
        BY <1>5, Coordinates
      <3>4. geomBounds(stored) = polyPolygonRect(s) /\ bounds = polyPolygonRect(t)
        BY <1>2 DEF geomBounds, PlainBounds, bounds
      <3> HIDE DEF s, t
      <3>5. \A n \in 1 .. 2 : n = 1 \/ n = 2
        OBVIOUS
      <3>6. \A p \in {s[1], s[2]} : \E n \in DOMAIN s : s[n] = p
        BY <3>2
      <3>7. \A p \in {t[1], t[2]} : \E n \in DOMAIN t : t[n] = p
        BY <3>2
      <3>8. \A p \in {s[1], s[2]}, q \in {t[1], t[2]} : p.x \in Int /\ p.y \in Int /\ q.x \in Int /\ q.y \in Int
        BY <3>3
      <3>9. /\ \E n \in DOMAIN s, m \in DOMAIN t : s[n].x <= t[m].x
            /\ \E n \in DOMAIN s, m \in DOMAIN t : t[m].x <= s[n].x
        <4>1. PICK p, q \in {s[1], s[2]}, r, u \in {t[1], t[2]} : p.x <= r.x /\ q.x >= u.x
          BY <3>1 DEF BoxesMeet
        <4>2. u.x <= q.x
          BY <3>8, <4>1
        <4> QED BY <3>6, <3>7, <4>1, <4>2
      <3>10. /\ \E n \in DOMAIN s, m \in DOMAIN t : s[n].y <= t[m].y
             /\ \E n \in DOMAIN s, m \in DOMAIN t : t[m].y <= s[n].y
        <4>1. PICK p, q \in {s[1], s[2]}, r, u \in {t[1], t[2]} : p.y <= r.y /\ q.y >= u.y
          BY <3>1 DEF BoxesMeet
        <4>2. u.y <= q.y
          BY <3>8, <4>1
        <4> QED BY <3>6, <3>7, <4>1, <4>2
      <3>11. s \in Seq(geomCoord) /\ t \in Seq(geomCoord)
        BY <1>4
      <3>12. polyRectIntersectsRect(polyPolygonRect(s), polyPolygonRect(t))
        BY <3>2, <3>9, <3>10, <3>11, RectsMeet
      <3> QED BY <3>4, <3>12 DEF Found
    <2> QED BY <1>6, <1>10, <1>12, <2>2, <2>3, <2>4
  <1>13. meet \in BOOLEAN
    BY DEF SegmentsMeet
  <1> QED BY <1>8, <1>9, <1>11, <1>12, <1>13

\* A sequence of one member is not empty.
LEMMA OfOne ==
    ASSUME NEW s, Len(s) = 1
    PROVE  s # <<>>
  OBVIOUS

\* What GIS.WITHIN asks of two polygons without holes.
LEMMA RingsAsked ==
    ASSUME NEW g, NEW h, g.type = "POLYGON", h.type = "POLYGON",
           g.body \in Seq(Seq(geomCoord)), Len(g.body) = 1, h.body \in Seq(Seq(geomCoord)), Len(h.body) = 1
    PROVE  matchGeometry(g, geomNewPolyMap(h), "WITHIN") <=>
               \A k \in DOMAIN Head(g.body) : insideshpext(Head(g.body)[k], Head(h.body), TRUE)
  <1> DEFINE p == PolygonPart(g.body)
             q == PolygonPart(h.body)
  <1>1. geomNewPolyMap(g) = <<p>> /\ geomNewPolyMap(h) = <<q>>
    BY DEF geomNewPolyMap, PlainParts
  <1>2. g.body # <<>> /\ h.body # <<>> /\ Tail(h.body) = <<>>
    <2> DEFINE body == h.body
    <2> HIDE DEF body
    <2>1. body \in Seq(Seq(geomCoord)) /\ Len(body) = 1
      BY DEF body
    <2>2. body # <<>> /\ g.body # <<>>
      BY OfOne DEF body
    <2>3. Tail(body) \in Seq(Seq(geomCoord)) /\ Len(Tail(body)) = 0
      BY <2>1, <2>2, HeadTailProperties
    <2>4. Tail(body) = <<>>
      BY <2>3, EmptySeq
    <2> QED BY <2>2, <2>4 DEF body
  <1>3. p.ring = Head(g.body) /\ q.type = "POLYGON" /\ q.ring = Head(h.body) /\ q.holes = <<>>
    BY <1>2 DEF PolygonPart, Part
  <1> HIDE DEF p, q
  <1>4. Reached(<<q>>, Surfaces) = {q}
    BY <1>3 DEF Reached, Surfaces
  <1>5. \A a : pointWithin(a, <<q>>) <=> insideshpext(a, q.ring, TRUE)
    <2> SUFFICES ASSUME NEW a PROVE pointWithin(a, <<q>>) <=> insideshpext(a, q.ring, TRUE)
      OBVIOUS
    <2>1. pointWithin(a, <<q>>) <=> polyPointInside(a, q.ring, q.holes)
      BY <1>3, <1>4, Zenon DEF pointWithin
    <2>2. DOMAIN q.holes = {}
      BY <1>3
    <2> QED BY <2>1, <2>2 DEF polyPointInside
  <1>6. geomPolyMapWithin(<<p>>, <<q>>) <=> \A k \in DOMAIN p.ring : pointWithin(p.ring[k], <<q>>)
    <2> DEFINE m == <<p>>
    <2>1. m # <<>> /\ DOMAIN m = {1} /\ m[1] = p
      OBVIOUS
    <2> HIDE DEF m
    <2>2. geomPolyMapWithin(m, <<q>>) <=> \A k \in DOMAIN p.ring : pointWithin(p.ring[k], <<q>>)
      BY <2>1 DEF geomPolyMapWithin
    <2> QED BY <2>2 DEF m
  <1> QED BY <1>1, <1>3, <1>5, <1>6 DEF matchGeometry

\* What is known of a triangle that is stored or searched with.
LEMMA TriangleWithin ==
    ASSUME NEW g, IsTriangle(g), IsGeometry(g)
    PROVE  /\ g.body \in Seq(Seq(geomCoord)) /\ Len(g.body) = 1
           /\ Head(g.body) \in Seq(geomCoord) /\ Head(g.body) # <<>>
           /\ TriangleRing(Head(g.body))
           /\ geomBounds(g) = polyPolygonRect(Head(g.body))
           /\ \A p \in geomCoord : insideshpext(p, Head(g.body), TRUE) <=> Covers(Head(g.body), p)
  <1> DEFINE ring == Head(g.body)
  <1>1. g.type = "POLYGON" /\ Len(g.body) = 1
    BY DEF IsTriangle
  <1>2. g.body \in Seq(Seq(geomCoord))
    BY <1>1 DEF IsGeometry, IsPlain
  <1>3. g.body # <<>> /\ ring \in Seq(geomCoord)
    BY <1>1, <1>2
  <1>4. geomBounds(g) = polyPolygonRect(ring)
    BY <1>1, <1>3 DEF geomBounds, PlainBounds, PolygonBounds
  <1>5. Len(Corners(ring)) = 3 /\ PlaneSide(Corners(ring)[1], Corners(ring)[2], Corners(ring)[3]) # 0
    BY DEF IsTriangle
  <1> HIDE DEF ring
  <1>6. TriangleRing(ring)
    BY <1>3, <1>5, TriangleCorners
  <1>7. ring # <<>>
    BY <1>6 DEF TriangleRing
  <1>8. \A p \in geomCoord : insideshpext(p, ring, TRUE) <=> Covers(ring, p)
    BY <1>3, <1>5, <1>6, TriangleInside, TriangleCovers
  <1> QED BY <1>1, <1>2, <1>3, <1>4, <1>6, <1>7, <1>8 DEF ring

\* Two triangles: each corner is inside, and then the bounds meet.
LEMMA WithinFound ==
    ASSUME IInv
    PROVE  WithinExact
  <1> SUFFICES ASSUME IsTriangle(stored), IsTriangle(target), search = "WITHIN", answer # "none"
               PROVE  answer = "hit" <=> \A p \in Range(Head(stored.body)) : Covers(Head(target.body), p)
    BY DEF WithinExact, Answered
  <1> DEFINE s == Head(stored.body)
             t == Head(target.body)
  <1>1. PICK case \in Cases : stored = case[1] /\ target = case[2]
    BY DEF IInv
  <1>2. stored.type = "POLYGON" /\ target.type = "POLYGON" /\ ~IsRadius
    BY DEF IsTriangle, IsRadius
  <1>3. IsGeometry(stored) /\ IsGeometry(target)
    BY <1>1, <1>2, CasesAssumption DEF IsRadius
  <1>4. /\ stored.body \in Seq(Seq(geomCoord)) /\ Len(stored.body) = 1
        /\ s \in Seq(geomCoord) /\ s # <<>> /\ TriangleRing(s) /\ geomBounds(stored) = polyPolygonRect(s)
    BY <1>3, TriangleWithin
  <1>5. /\ target.body \in Seq(Seq(geomCoord)) /\ Len(target.body) = 1
        /\ t \in Seq(geomCoord) /\ t # <<>> /\ TriangleRing(t) /\ geomBounds(target) = polyPolygonRect(t)
        /\ \A p \in geomCoord : insideshpext(p, t, TRUE) <=> Covers(t, p)
    BY <1>3, TriangleWithin
  <1>6. bounds = polyPolygonRect(t)
    BY <1>2, <1>5 DEF bounds
  <1>7. matchSearch(stored, search) <=> \A k \in DOMAIN s : insideshpext(s[k], t, TRUE)
    BY <1>2, <1>4, <1>5, RingsAsked DEF matchSearch
  <1>8. answer = "hit" <=> Found /\ matchSearch(stored, search)
    BY DEF IInv, Matched
  <1> HIDE DEF s, t
  <1>9. \A k \in DOMAIN s : s[k] \in geomCoord
    BY <1>4, RingPoints
  <1>10. matchSearch(stored, search) <=> \A p \in Range(s) : Covers(t, p)
    <2>1. Range(s) = {s[k] : k \in DOMAIN s}
      BY DEF Range
    <2> QED BY <1>5, <1>7, <1>9, <2>1
  <1>11. ASSUME matchSearch(stored, search) PROVE Found
    <2>1. 1 \in DOMAIN s /\ insideshpext(s[1], t, TRUE)
      BY <1>4, <1>7, <1>11, TriangleEdges
    <2>2. SameSign(Side(t[1], t[2], s[1]), Side(t[2], t[3], s[1]), Side(t[3], t[1], s[1]))
      BY <1>5, <1>9, <2>1, TriangleInside
    <2>3. /\ \E n \in DOMAIN t : t[n].x <= s[1].x
          /\ \E n \in DOMAIN t : s[1].x <= t[n].x
          /\ \E n \in DOMAIN t : t[n].y <= s[1].y
          /\ \E n \in DOMAIN t : s[1].y <= t[n].y
      BY <1>5, <1>9, <2>1, <2>2, TriangleRect
    <2>4. polyRectIntersectsRect(polyPolygonRect(s), polyPolygonRect(t))
      BY <1>4, <1>5, <2>1, <2>3, RectsMeet
    <2> QED BY <1>4, <1>6, <2>4 DEF Found
  <1>12. answer = "hit" <=> \A p \in Range(s) : Covers(t, p)
    BY <1>8, <1>10, <1>11
  <1> QED BY <1>12 DEF s, t

\* A circle: it is found by its rectangle and then by its distance.
LEMMA CirclesFound ==
    ASSUME IInv
    PROVE  RadiusExact
  <1> SUFFICES ASSUME IsRadius PROVE
        LET near == geoutilDistance(stored.body, target.center) <= target.meters
        IN  /\ answer = "hit" => near
            /\ target.meters < ToAntimeridian /\ target.meters < 90 => Answered(near)
    BY DEF RadiusExact
  <1> DEFINE p == stored.body
             c == target.center
             m == target.meters
             near == geoutilDistance(p, c) <= m
  <1>1. PICK case \in Cases : stored = case[1] /\ target = case[2]
    BY DEF IInv
  <1>2. stored.type = "POINT" /\ IsGeometry(stored) /\ HasDistance(p, c) /\ m \in Nat
    BY <1>1, CasesAssumption DEF IsRadius
  <1>3. p \in geomCoord
    BY <1>2 DEF IsGeometry, IsPlain
  <1>4. p.x \in -180 .. 180 /\ p.y \in -90 .. 90 /\ c.x \in -180 .. 180 /\ c.y = 0
    BY <1>2 DEF HasDistance, IsCoord
  <1>5. geomBounds(stored) = polyPolygonRect(<<p>>)
    BY <1>2 DEF geomBounds, PlainBounds
  <1> DEFINE w == Normalised(c.x - m)
             e == Normalised(c.x + m)
             s == Folded(0 - m)
             n == Folded(0 + m)
  <1>6. bounds.min.x = w /\ bounds.max.x = e /\ bounds.min.y = s /\ bounds.max.y = n
    BY <1>4 DEF bounds, IsRadius, geoutilBoundsFromLatLon, geoutilDestinationLatLon
  <1>7. Found <=> p.y <= n /\ p.y >= s /\ p.x <= e /\ p.x >= w
    BY <1>3, <1>5, <1>6, RectOfPoint DEF Found, polyRectIntersectsRect
  <1>8. matchSearch(stored, search) <=> near
    BY DEF matchSearch, IsRadius, geomCoordWithinRadius
  <1>9. answer # "none" => (answer = "hit" <=> Found /\ near)
    BY <1>8 DEF IInv, Matched
  <1>10. w \in Int /\ e \in Int /\ s \in Int /\ n \in Int
    <2>1. c.x \in -180 .. 180 /\ m \in Nat
      BY <1>2, <1>4
    <2> HIDE DEF c, m
    <2> QED BY <2>1, SidesType
  <1>11. ASSUME m < ToAntimeridian, m < 90, near PROVE Found
    <2>1. m < Turn(180 - c.x)
      BY <1>11 DEF ToAntimeridian
    <2>2. -m <= p.y /\ p.y <= m /\ c.x - m <= p.x /\ p.x <= c.x + m
      BY <1>2, <1>11, <2>1, NearWithin
    <2>3. e = c.x + m /\ w = c.x - m /\ n = m /\ s = -m
      <3>1. c.x \in -180 .. 180 /\ m \in Nat
        BY <1>2, <1>4
      <3> HIDE DEF c, m
      <3> QED BY ZenonT(30), <3>1, <1>11, <2>1, SidesNear
    <2> HIDE DEF w, e, s, n, p
    <2> QED BY <1>2, <1>4, <1>7, <2>2, <2>3
  <1> HIDE DEF near, m
  <1>12. /\ answer = "hit" => near
         /\ m < ToAntimeridian /\ m < 90 => (answer # "none" => (answer = "hit" <=> near))
    BY <1>9, <1>11
  <1> QED BY <1>12 DEF near, m, Answered

-----------------------------------------------------------------------------
(***************************************************************************)
(* The properties.                                                         *)
(***************************************************************************)
\* GIS.INTERSECTS finds no two segments that have no point in common, and of those that have one
\* all but the ones whose last point is in line with the stored segment: lineintersects.
THEOREM SegmentsAnswered == Spec => []SegmentsExact
  <1> QED BY Invariant, SegmentsFound, PTL

\* GIS.WITHIN finds the triangles that are all inside of the target, whatever the direction of the
\* rings, and whether they are closed or not: insideshpext, with its ray through vertices and
\* along edges.
THEOREM TrianglesAnswered == Spec => []WithinExact
  <1> QED BY Invariant, WithinFound, PTL

\* A search in a circle finds nothing that is out of it, and all that is in it, unless it is
\* wider than a hemisphere or reaches the antimeridian: the four sides that
\* geoutilBoundsFromLatLon computes one by one leave out nothing that is near enough.
THEOREM CirclesAnswered == Spec => []RadiusExact
  <1> QED BY Invariant, CirclesFound, PTL

=============================================================================
