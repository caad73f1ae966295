-------------------------- MODULE AvoidanceProofs --------------------------
(***************************************************************************)
(* Theorems about the obstacle avoidance, for every table of rectangles    *)
(* along the axes: the search ends within the rounds the model gives it,   *)
(* the route it leaves in parent[] leads along edges from the start to the *)
(* finish, and no edge, so no leg that is driven, meets the inside of an   *)
(* obstacle.                                                               *)
(***************************************************************************)
EXTENDS Avoidance, TLAPS, WellFoundedInduction, FiniteSetTheorems

-----------------------------------------------------------------------------
(* A segment and a rectangle                                               *)

\* On opposite sides of zero.
Opposite(m, n) == (m < 0 /\ 0 < n) \/ (n < 0 /\ 0 < m)

\* Side, by coordinates: <<x, y>> against the line from <<p, q>> to <<r, s>>.
Turn(p, q, r, s, x, y) == (r - p) * (y - q) - (s - q) * (x - p)

\* The tests of collide: no side of the rectangle is crossed by the segment,
\* and no corner of it is strictly between its ends.
Missed(p, q, r, s, x0, y0, x1, y1) ==
    LET T(x, y) == Turn(p, q, r, s, x, y)
    IN  /\ ~ (Opposite(T(x0, y0), T(x1, y0)) /\ Opposite(q - y0, s - y0))
        /\ ~ (Opposite(T(x1, y0), T(x1, y1)) /\ Opposite(p - x1, r - x1))
        /\ ~ (Opposite(T(x1, y1), T(x0, y1)) /\ Opposite(q - y1, s - y1))
        /\ ~ (Opposite(T(x0, y1), T(x0, y0)) /\ Opposite(p - x0, r - x0))
        /\ ~ (T(x0, y0) = 0 /\ Opposite(p - x0, r - x0) /\ Opposite(q - y0, s - y0))
        /\ ~ (T(x1, y0) = 0 /\ Opposite(p - x1, r - x1) /\ Opposite(q - y0, s - y0))
        /\ ~ (T(x1, y1) = 0 /\ Opposite(p - x1, r - x1) /\ Opposite(q - y1, s - y1))
        /\ ~ (T(x0, y1) = 0 /\ Opposite(p - x0, r - x0) /\ Opposite(q - y1, s - y1))

\* Cuts: no side has both ends outside of it or on it, and the line of the
\* segment has corners on both sides.
Splits(p, q, r, s, x0, y0, x1, y1) ==
    LET T(x, y) == Turn(p, q, r, s, x, y)
    IN  /\ q > y0 \/ s > y0
        /\ q < y1 \/ s < y1
        /\ p > x0 \/ r > x0
        /\ p < x1 \/ r < x1
        /\ T(x0, y0) > 0 \/ T(x1, y0) > 0 \/ T(x1, y1) > 0 \/ T(x0, y1) > 0
        /\ T(x0, y0) < 0 \/ T(x1, y0) < 0 \/ T(x1, y1) < 0 \/ T(x0, y1) < 0

LEMMA Signs ==
  ASSUME NEW m \in Int, NEW n \in Int
  PROVE  /\ m > 0 /\ n > 0 => m * n > 0
         /\ m > 0 /\ n < 0 => m * n < 0
         /\ m < 0 /\ n > 0 => m * n < 0
         /\ m < 0 /\ n < 0 => m * n > 0
         /\ m = 0 => m * n = 0
         /\ n = 0 => m * n = 0
OBVIOUS

\* A segment that cuts the rectangle and starts left of it comes in through a
\* side or a corner.
LEMMA FromLeft ==
  ASSUME NEW p \in Int, NEW q \in Int, NEW r \in Int, NEW s \in Int,
         NEW x0 \in Int, NEW y0 \in Int, NEW x1 \in Int, NEW y1 \in Int,
         x0 < x1, y0 < y1, p < x0,
         Missed(p, q, r, s, x0, y0, x1, y1), Splits(p, q, r, s, x0, y0, x1, y1)
  PROVE  FALSE
<1> DEFINE T(x, y) == Turn(p, q, r, s, x, y)
           D == r - p
           E == s - q
<1>1. D \in Int /\ E \in Int /\ r > x0 /\ D > 0
  BY DEF Splits
<1>2. /\ T(x0, y0) \in Int /\ T(x0, y1) \in Int
      /\ T(x1, y0) \in Int /\ T(x1, y1) \in Int
  BY DEF Turn
<1>3. T(x0, y0) < T(x0, y1) /\ T(x1, y0) < T(x1, y1)
  <2>1. D * (y1 - y0) > 0
    BY <1>1, Signs
  <2>2. T(x0, y1) - T(x0, y0) = D * (y1 - y0) /\ T(x1, y1) - T(x1, y0) = D * (y1 - y0)
    BY DEF Turn
  <2> HIDE DEF T, D
  <2> QED
    BY <1>2, <2>1, <2>2
<1>4. /\ E > 0 => T(x1, y0) < T(x0, y0) /\ T(x1, y1) < T(x0, y1)
      /\ E < 0 => T(x1, y0) > T(x0, y0) /\ T(x1, y1) > T(x0, y1)
      /\ E = 0 => T(x1, y0) = T(x0, y0) /\ T(x1, y1) = T(x0, y1)
  <2>1. E > 0 => E * (x1 - x0) > 0
    BY <1>1, Signs
  <2>2. E < 0 => E * (x1 - x0) < 0
    BY <1>1, Signs
  <2>3. E = 0 => E * (x1 - x0) = 0
    BY <1>1, Signs
  <2>4. /\ T(x0, y0) - T(x1, y0) = E * (x1 - x0)
        /\ T(x0, y1) - T(x1, y1) = E * (x1 - x0)
    BY DEF Turn
  <2> DEFINE W == E * (x1 - x0)
  <2>5. W \in Int
    BY <1>1
  <2> HIDE DEF T, E, W
  <2>6. /\ W > 0 => T(x1, y0) < T(x0, y0) /\ T(x1, y1) < T(x0, y1)
        /\ W < 0 => T(x1, y0) > T(x0, y0) /\ T(x1, y1) > T(x0, y1)
        /\ W = 0 => T(x1, y0) = T(x0, y0) /\ T(x1, y1) = T(x0, y1)
    BY <1>2, <2>4, <2>5 DEF W
  <2> QED
    BY <2>1, <2>2, <2>3, <2>6 DEF W
\* The line is above the left side.
<1>5. ASSUME E >= 0, T(x0, y0) >= 0 PROVE y0 > q \/ (E = 0 /\ y0 >= q)
  <2>1. T(x0, y0) = D * (y0 - q) - E * (x0 - p)
    BY DEF Turn
  <2>2. E > 0 => E * (x0 - p) > 0
    BY <1>1, Signs
  <2>3. E = 0 => E * (x0 - p) = 0
    BY <1>1, Signs
  <2>4. y0 - q < 0 => D * (y0 - q) < 0
    BY <1>1, Signs
  <2>5. y0 - q = 0 => D * (y0 - q) = 0
    BY <1>1, Signs
  <2>6. D * (y0 - q) \in Int /\ E * (x0 - p) \in Int
    BY <1>1
  <2> HIDE DEF T, D, E
  <2> QED
    BY <1>1, <1>5, <2>1, <2>2, <2>3, <2>4, <2>5, <2>6
<1>6. ASSUME E <= 0, T(x0, y1) <= 0 PROVE y1 < q \/ (E = 0 /\ y1 <= q)
  <2>1. T(x0, y1) = D * (y1 - q) - E * (x0 - p)
    BY DEF Turn
  <2>2. E < 0 => E * (x0 - p) < 0
    BY <1>1, Signs
  <2>3. E = 0 => E * (x0 - p) = 0
    BY <1>1, Signs
  <2>4. y1 - q > 0 => D * (y1 - q) > 0
    BY <1>1, Signs
  <2>5. y1 - q = 0 => D * (y1 - q) = 0
    BY <1>1, Signs
  <2>6. D * (y1 - q) \in Int /\ E * (x0 - p) \in Int
    BY <1>1
  <2> HIDE DEF T, D, E
  <2> QED
    BY <1>1, <1>6, <2>1, <2>2, <2>3, <2>4, <2>5, <2>6
<1>7. CASE T(x0, y0) < 0 /\ 0 < T(x0, y1)
  <2> HIDE DEF T, D, E
  <2> QED
    BY <1>1, <1>7 DEF Missed, T, Opposite
<1>8. CASE T(x0, y0) >= 0
  <2> HIDE DEF T, E
  <2> QED
    BY <1>1, <1>2, <1>3, <1>4, <1>5, <1>8 DEF Missed, Splits, T, Opposite
<1>9. CASE T(x0, y1) <= 0
  <2> HIDE DEF T, E
  <2> QED
    BY <1>1, <1>2, <1>3, <1>4, <1>6, <1>9 DEF Missed, Splits, T, Opposite
<1> QED
  <2> HIDE DEF T
  <2> QED
    BY <1>2, <1>7, <1>8, <1>9

\* The other three sides follow by quarter turns.
LEMMA Rotated ==
  ASSUME NEW p \in Int, NEW q \in Int, NEW r \in Int, NEW s \in Int,
         NEW x0 \in Int, NEW y0 \in Int, NEW x1 \in Int, NEW y1 \in Int,
         Missed(p, q, r, s, x0, y0, x1, y1), Splits(p, q, r, s, x0, y0, x1, y1)
  PROVE  /\ Missed(-q, p, -s, r, -y1, x0, -y0, x1)
         /\ Splits(-q, p, -s, r, -y1, x0, -y0, x1)
<1>1. /\ Turn(-q, p, -s, r, -y1, x0) = Turn(p, q, r, s, x0, y1)
      /\ Turn(-q, p, -s, r, -y0, x0) = Turn(p, q, r, s, x0, y0)
      /\ Turn(-q, p, -s, r, -y1, x1) = Turn(p, q, r, s, x1, y1)
      /\ Turn(-q, p, -s, r, -y0, x1) = Turn(p, q, r, s, x1, y0)
  BY DEF Turn
<1>2. /\ Opposite(-q - (-y1), -s - (-y1)) <=> Opposite(q - y1, s - y1)
      /\ Opposite(-q - (-y0), -s - (-y0)) <=> Opposite(q - y0, s - y0)
  BY DEF Opposite
<1>3. /\ -q > -y1 <=> q < y1
      /\ -q < -y0 <=> q > y0
      /\ -s > -y1 <=> s < y1
      /\ -s < -y0 <=> s > y0
  OBVIOUS
<1>4. \A m, n : Opposite(m, n) <=> Opposite(n, m)
  BY DEF Opposite
<1>5. Missed(-q, p, -s, r, -y1, x0, -y0, x1)
  BY <1>1, <1>2, <1>4, Zenon DEF Missed
<1>6. Splits(-q, p, -s, r, -y1, x0, -y0, x1)
  BY <1>1, <1>3, Zenon DEF Splits
<1> QED
  BY <1>5, <1>6

\* The end of the segment is as good as its start.
LEMMA Swapped ==
  ASSUME NEW p \in Int, NEW q \in Int, NEW r \in Int, NEW s \in Int,
         NEW x0 \in Int, NEW y0 \in Int, NEW x1 \in Int, NEW y1 \in Int,
         Missed(p, q, r, s, x0, y0, x1, y1), Splits(p, q, r, s, x0, y0, x1, y1)
  PROVE  /\ Missed(r, s, p, q, x0, y0, x1, y1)
         /\ Splits(r, s, p, q, x0, y0, x1, y1)
<1> DEFINE T(x, y) == Turn(p, q, r, s, x, y)
           U(x, y) == Turn(r, s, p, q, x, y)
<1>1. /\ U(x0, y0) = -T(x0, y0) /\ U(x1, y0) = -T(x1, y0)
      /\ U(x1, y1) = -T(x1, y1) /\ U(x0, y1) = -T(x0, y1)
  BY DEF Turn
<1>2. /\ T(x0, y0) \in Int /\ T(x1, y0) \in Int /\ T(x1, y1) \in Int
      /\ T(x0, y1) \in Int
  BY DEF Turn
<1> HIDE DEF T, U
<1>3. Missed(r, s, p, q, x0, y0, x1, y1)
  BY <1>1, <1>2 DEF Missed, Opposite, T, U
<1>4. Splits(r, s, p, q, x0, y0, x1, y1)
  BY <1>1, <1>2 DEF Splits, T, U
<1> QED
  BY <1>3, <1>4

\* A segment that starts above, right of or below the rectangle.
LEMMA FromAbove ==
  ASSUME NEW p \in Int, NEW q \in Int, NEW r \in Int, NEW s \in Int,
         NEW x0 \in Int, NEW y0 \in Int, NEW x1 \in Int, NEW y1 \in Int,
         x0 < x1, y0 < y1, y1 < q,
         Missed(p, q, r, s, x0, y0, x1, y1), Splits(p, q, r, s, x0, y0, x1, y1)
  PROVE  FALSE
<1> DEFINE a == -q
           c == -s
           m == -y1
           n == -y0
<1>1. Missed(a, p, c, r, m, x0, n, x1) /\ Splits(a, p, c, r, m, x0, n, x1)
  BY Rotated
<1>2. a \in Int /\ c \in Int /\ m \in Int /\ n \in Int /\ m < n /\ a < m
  OBVIOUS
<1> HIDE DEF a, c, m, n
<1> QED
  BY <1>1, <1>2, FromLeft

LEMMA FromRight ==
  ASSUME NEW p \in Int, NEW q \in Int, NEW r \in Int, NEW s \in Int,
         NEW x0 \in Int, NEW y0 \in Int, NEW x1 \in Int, NEW y1 \in Int,
         x0 < x1, y0 < y1, x1 < p,
         Missed(p, q, r, s, x0, y0, x1, y1), Splits(p, q, r, s, x0, y0, x1, y1)
  PROVE  FALSE
<1> DEFINE a == -q
           c == -s
           m == -y1
           n == -y0
<1>1. Missed(a, p, c, r, m, x0, n, x1) /\ Splits(a, p, c, r, m, x0, n, x1)
  BY Rotated
<1>2. a \in Int /\ c \in Int /\ m \in Int /\ n \in Int /\ m < n
  OBVIOUS
<1> HIDE DEF a, c, m, n
<1> QED
  BY <1>1, <1>2, FromAbove

LEMMA FromBelow ==
  ASSUME NEW p \in Int, NEW q \in Int, NEW r \in Int, NEW s \in Int,
         NEW x0 \in Int, NEW y0 \in Int, NEW x1 \in Int, NEW y1 \in Int,
         x0 < x1, y0 < y1, q < y0,
         Missed(p, q, r, s, x0, y0, x1, y1), Splits(p, q, r, s, x0, y0, x1, y1)
  PROVE  FALSE
<1> DEFINE a == -q
           c == -s
           m == -y1
           n == -y0
<1>1. Missed(a, p, c, r, m, x0, n, x1) /\ Splits(a, p, c, r, m, x0, n, x1)
  BY Rotated
<1>2. a \in Int /\ c \in Int /\ m \in Int /\ n \in Int /\ m < n /\ n < a
  OBVIOUS
<1> HIDE DEF a, c, m, n
<1> QED
  BY <1>1, <1>2, FromRight

(* The corners of poly, in the order of Rectangle.                         *)
Box(poly, x0, y0, x1, y1) ==
    /\ x0 < x1 /\ y0 < y1 /\ DOMAIN poly = 1..4 /\ Len(poly) = 4
    /\ poly[1] = <<x0, y0>> /\ poly[2] = <<x1, y0>>
    /\ poly[3] = <<x1, y1>> /\ poly[4] = <<x0, y1>>

LEMMA Corners ==
  ASSUME NEW poly \in Seq(Int \X Int), Rectangle(poly)
  PROVE  \E x0, y0, x1, y1 \in Int : Box(poly, x0, y0, x1, y1)
<1> DEFINE x0 == poly[1][1]
           y0 == poly[1][2]
           x1 == poly[3][1]
           y1 == poly[3][2]
<1>1. /\ x0 < x1 /\ y0 < y1
      /\ poly = <<poly[1], <<x1, y0>>, poly[3], <<x0, y1>>>>
  BY DEF Rectangle
<1>2. Len(poly) = 4 /\ DOMAIN poly = 1..4
  BY <1>1
<1>3. poly[1] \in Int \X Int /\ poly[3] \in Int \X Int
  <2>1. \A n \in DOMAIN poly : poly[n] \in Int \X Int
    OBVIOUS
  <2> QED
    BY <1>2, <2>1
<1>4. /\ x0 \in Int /\ y0 \in Int /\ x1 \in Int /\ y1 \in Int
      /\ poly[1] = <<x0, y0>> /\ poly[3] = <<x1, y1>>
  BY <1>3
<1>5. poly[2] = <<x1, y0>> /\ poly[4] = <<x0, y1>>
  BY <1>1
<1> QED
  BY <1>1, <1>2, <1>4, <1>5 DEF Box

\* The sides of a rectangle, each through its corner and the next.
LEMMA SidesOfRectangle ==
  ASSUME NEW x0 \in Int, NEW y0 \in Int, NEW x1 \in Int, NEW y1 \in Int,
         x0 < x1, y0 < y1, NEW z \in Int \X Int
  PROVE  /\ Side(<<x0, y0>>, <<x1, y0>>, z) > 0 <=> z[2] > y0
         /\ Side(<<x1, y0>>, <<x1, y1>>, z) > 0 <=> z[1] < x1
         /\ Side(<<x1, y1>>, <<x0, y1>>, z) > 0 <=> z[2] < y1
         /\ Side(<<x0, y1>>, <<x0, y0>>, z) > 0 <=> z[1] > x0
         /\ Side(<<x0, y0>>, <<x1, y0>>, z) < 0 <=> z[2] < y0
         /\ Side(<<x1, y0>>, <<x1, y1>>, z) < 0 <=> z[1] > x1
         /\ Side(<<x1, y1>>, <<x0, y1>>, z) < 0 <=> z[2] > y1
         /\ Side(<<x0, y1>>, <<x0, y0>>, z) < 0 <=> z[1] < x0
<1> DEFINE w == x1 - x0
           h == y1 - y0
<1>1. w \in Int /\ h \in Int /\ w > 0 /\ h > 0 /\ z[1] \in Int /\ z[2] \in Int
  OBVIOUS
<1>2. /\ Side(<<x0, y0>>, <<x1, y0>>, z) = w * (z[2] - y0)
      /\ Side(<<x1, y0>>, <<x1, y1>>, z) = h * (x1 - z[1])
      /\ Side(<<x1, y1>>, <<x0, y1>>, z) = w * (y1 - z[2])
      /\ Side(<<x0, y1>>, <<x0, y0>>, z) = h * (z[1] - x0)
  BY <1>1 DEF Side
<1>3. ASSUME NEW m \in Int, m > 0, NEW n \in Int
      PROVE  (m * n > 0 <=> n > 0) /\ (m * n < 0 <=> n < 0)
  BY <1>3, Signs
<1> HIDE DEF w, h
<1>4. /\ w * (z[2] - y0) > 0 <=> z[2] > y0
      /\ w * (z[2] - y0) < 0 <=> z[2] < y0
  BY <1>1, <1>3
<1>5. /\ h * (x1 - z[1]) > 0 <=> z[1] < x1
      /\ h * (x1 - z[1]) < 0 <=> z[1] > x1
  BY <1>1, <1>3
<1>6. /\ w * (y1 - z[2]) > 0 <=> z[2] < y1
      /\ w * (y1 - z[2]) < 0 <=> z[2] > y1
  BY <1>1, <1>3
<1>7. /\ h * (z[1] - x0) > 0 <=> z[1] > x0
      /\ h * (z[1] - x0) < 0 <=> z[1] < x0
  BY <1>1, <1>3
<1> QED
  BY <1>2, <1>4, <1>5, <1>6, <1>7

LEMMA SideIsTurn ==
  ASSUME NEW a, NEW b, NEW z
  PROVE  Side(a, b, z) = Turn(a[1], a[2], b[1], b[2], z[1], z[2])
BY DEF Side, Turn

\* A segment whose ends are on opposite sides of a line.
LEMMA OppositeEnds ==
  ASSUME NEW m \in Int, NEW n \in Int, Opposite(m, n)
  PROVE  m * n < 0 /\ n * m < 0
BY Signs DEF Opposite

\* A vertex strictly between the ends of a segment, in both coordinates, is
\* seen on it.
LEMMA SeenOnSegment ==
  ASSUME NEW a \in Int \X Int, NEW b \in Int \X Int, NEW o \in Int \X Int,
         Side(a, b, o) = 0, Opposite(a[1] - o[1], b[1] - o[1]),
         Opposite(a[2] - o[2], b[2] - o[2])
  PROVE  is_point_on_segment(a, b, o)
<1>1. /\ a[1] \in Int /\ a[2] \in Int /\ b[1] \in Int /\ b[2] \in Int
      /\ o[1] \in Int /\ o[2] \in Int
  OBVIOUS
<1>2. b[2] - a[2] # 0 /\ b[2] - o[2] # 0
  BY <1>1 DEF Opposite
<1>3. (b[1] - a[1]) * (b[2] - o[2]) = (b[1] - o[1]) * (b[2] - a[2])
  BY <1>1 DEF Side
<1>4. IF a[1] < b[1] THEN a[1] < o[1] /\ o[1] < b[1]
                     ELSE b[1] < o[1] /\ o[1] < a[1]
  BY <1>1 DEF Opposite
<1> QED
  BY <1>2, <1>3, <1>4 DEF is_point_on_segment, SameQuotient

\* The code's index of a corner; the corners are four different points.
LEMMA IndexOfVertex ==
  ASSUME NEW poly, DOMAIN poly = 1..4,
         \A u, v \in 1..4 : poly[u] = poly[v] => u = v,
         NEW k \in 1..4
  PROVE  get_point_index_in_polygon(poly, poly[k]) = k
<1> DEFINE First(v) == v \in 1..4 /\ poly[v] = poly[k]
                       /\ \A u \in 1..(v - 1) : poly[u] # poly[k]
<1>1. First(k)
  OBVIOUS
<1>2. \A v : First(v) => v = k
  OBVIOUS
<1>3. get_point_index_in_polygon(poly, poly[k]) =
        CHOOSE v \in 1..4 : poly[v] = poly[k] /\ \A u \in 1..(v - 1) : poly[u] # poly[k]
  BY DEF get_point_index_in_polygon
<1>4. \E v \in 1..4 : poly[v] = poly[k] /\ \A u \in 1..(v - 1) : poly[u] # poly[k]
  BY <1>1
<1>5. First(get_point_index_in_polygon(poly, poly[k]))
  BY <1>3, <1>4
<1> QED
  BY <1>2, <1>5

\* The sides, as the loop over the vertices sees them.
LEMMA SidesOfBox ==
  ASSUME NEW poly, NEW x0 \in Int, NEW y0 \in Int, NEW x1 \in Int, NEW y1 \in Int,
         Box(poly, x0, y0, x1, y1), NEW z \in Int \X Int
  PROVE  /\ Side(poly[1], Following(poly, 1), z) > 0 <=> z[2] > y0
         /\ Side(poly[2], Following(poly, 2), z) > 0 <=> z[1] < x1
         /\ Side(poly[3], Following(poly, 3), z) > 0 <=> z[2] < y1
         /\ Side(poly[4], Following(poly, 4), z) > 0 <=> z[1] > x0
         /\ Side(poly[1], Following(poly, 1), z) < 0 <=> z[2] < y0
         /\ Side(poly[2], Following(poly, 2), z) < 0 <=> z[1] > x1
         /\ Side(poly[3], Following(poly, 3), z) < 0 <=> z[2] > y1
         /\ Side(poly[4], Following(poly, 4), z) < 0 <=> z[1] < x0
<1>1. /\ Following(poly, 1) = <<x1, y0>> /\ Following(poly, 2) = <<x1, y1>>
      /\ Following(poly, 3) = <<x0, y1>> /\ Following(poly, 4) = <<x0, y0>>
  BY DEF Following, Box
<1>2. /\ x0 < x1 /\ y0 < y1
      /\ poly[1] = <<x0, y0>> /\ poly[2] = <<x1, y0>>
      /\ poly[3] = <<x1, y1>> /\ poly[4] = <<x0, y1>>
  BY DEF Box
<1>3. /\ Side(poly[1], Following(poly, 1), z) = Side(<<x0, y0>>, <<x1, y0>>, z)
      /\ Side(poly[2], Following(poly, 2), z) = Side(<<x1, y0>>, <<x1, y1>>, z)
      /\ Side(poly[3], Following(poly, 3), z) = Side(<<x1, y1>>, <<x0, y1>>, z)
      /\ Side(poly[4], Following(poly, 4), z) = Side(<<x0, y1>>, <<x0, y0>>, z)
  BY <1>1, <1>2, Zenon
<1>4. /\ Side(<<x0, y0>>, <<x1, y0>>, z) > 0 <=> z[2] > y0
      /\ Side(<<x1, y0>>, <<x1, y1>>, z) > 0 <=> z[1] < x1
      /\ Side(<<x1, y1>>, <<x0, y1>>, z) > 0 <=> z[2] < y1
      /\ Side(<<x0, y1>>, <<x0, y0>>, z) > 0 <=> z[1] > x0
      /\ Side(<<x0, y0>>, <<x1, y0>>, z) < 0 <=> z[2] < y0
      /\ Side(<<x1, y0>>, <<x1, y1>>, z) < 0 <=> z[1] > x1
      /\ Side(<<x1, y1>>, <<x0, y1>>, z) < 0 <=> z[2] > y1
      /\ Side(<<x0, y1>>, <<x0, y0>>, z) < 0 <=> z[1] < x0
  BY <1>2, SidesOfRectangle
<1> QED
  BY <1>3, <1>4, Zenon

LEMMA CornersOfBox ==
  ASSUME NEW poly, NEW x0, NEW y0, NEW x1, NEW y1,
         Box(poly, x0, y0, x1, y1), NEW u \in 1..4
  PROVE  /\ u \in {1, 4} => poly[u][1] = x0
         /\ u \in {2, 3} => poly[u][1] = x1
         /\ u \in {1, 2} => poly[u][2] = y0
         /\ u \in {3, 4} => poly[u][2] = y1
BY DEF Box

LEMMA CornersDiffer ==
  ASSUME NEW poly, NEW x0 \in Int, NEW y0 \in Int, NEW x1 \in Int, NEW y1 \in Int,
         Box(poly, x0, y0, x1, y1), NEW u \in 1..4, NEW v \in 1..4,
         poly[u] = poly[v]
  PROVE  u = v
<1>1. x0 # x1 /\ y0 # y1
  BY DEF Box
<1> QED
  BY <1>1, CornersOfBox

\* Cuts, by coordinates.
LEMMA CutSplits ==
  ASSUME NEW poly, NEW x0 \in Int, NEW y0 \in Int, NEW x1 \in Int, NEW y1 \in Int,
         Box(poly, x0, y0, x1, y1), NEW a \in Int \X Int, NEW b \in Int \X Int,
         Cuts(a, b, poly)
  PROVE  Splits(a[1], a[2], b[1], b[2], x0, y0, x1, y1)
<1> DEFINE T(x, y) == Turn(a[1], a[2], b[1], b[2], x, y)
<1>1. /\ \/ Side(poly[1], Following(poly, 1), a) > 0
         \/ Side(poly[1], Following(poly, 1), b) > 0
      /\ \/ Side(poly[2], Following(poly, 2), a) > 0
         \/ Side(poly[2], Following(poly, 2), b) > 0
      /\ \/ Side(poly[3], Following(poly, 3), a) > 0
         \/ Side(poly[3], Following(poly, 3), b) > 0
      /\ \/ Side(poly[4], Following(poly, 4), a) > 0
         \/ Side(poly[4], Following(poly, 4), b) > 0
  BY DEF Cuts, Box
<1>2. /\ a[2] > y0 \/ b[2] > y0
      /\ a[2] < y1 \/ b[2] < y1
      /\ a[1] > x0 \/ b[1] > x0
      /\ a[1] < x1 \/ b[1] < x1
  BY <1>1, SidesOfBox
<1>3. /\ Side(a, b, poly[1]) = T(x0, y0) /\ Side(a, b, poly[2]) = T(x1, y0)
      /\ Side(a, b, poly[3]) = T(x1, y1) /\ Side(a, b, poly[4]) = T(x0, y1)
  BY SideIsTurn DEF Box
<1>4. /\ \E v \in {1, 2, 3, 4} : Side(a, b, poly[v]) > 0
      /\ \E v \in {1, 2, 3, 4} : Side(a, b, poly[v]) < 0
  BY DEF Cuts, Box
<1> HIDE DEF T
<1>5. /\ T(x0, y0) > 0 \/ T(x1, y0) > 0 \/ T(x1, y1) > 0 \/ T(x0, y1) > 0
      /\ T(x0, y0) < 0 \/ T(x1, y0) < 0 \/ T(x1, y1) < 0 \/ T(x0, y1) < 0
  BY <1>3, <1>4
<1> QED
  BY <1>2, <1>5 DEF Splits, T

(* Outside of the rectangle, and one of its corners.                       *)
Beyond(z, x0, y0, x1, y1) == z[1] < x0 \/ x1 < z[1] \/ z[2] < y0 \/ y1 < z[2]

Corner(z, poly) == \E v \in 1..4 : z = poly[v]

LEMMA BeyondOrCorner ==
  ASSUME NEW poly, NEW x0 \in Int, NEW y0 \in Int, NEW x1 \in Int, NEW y1 \in Int,
         Box(poly, x0, y0, x1, y1), NEW z \in Int \X Int,
         ~is_point_in_polygon(poly, z), OffSides(z, poly)
  PROVE  Beyond(z, x0, y0, x1, y1) \/ Corner(z, poly)
<1> USE DEF Beyond, Corner
<1>1. DOMAIN poly = {1, 2, 3, 4}
  BY DEF Box
<1>2. CASE \E v \in {1, 2, 3, 4} : Side(poly[v], Following(poly, v), z) < 0
  BY <1>2, SidesOfBox
<1>3. CASE \E v \in {1, 2, 3, 4} : z = poly[v]
  BY <1>3
<1> QED
  BY <1>1, <1>2, <1>3 DEF OffSides

\* What the code takes for an edge misses the sides and the corners.
LEMMA EdgeMisses ==
  ASSUME NEW poly, NEW x0 \in Int, NEW y0 \in Int, NEW x1 \in Int, NEW y1 \in Int,
         Box(poly, x0, y0, x1, y1), NEW a \in Int \X Int, NEW b \in Int \X Int,
         \A v \in 1..4 :
            /\ ~is_segment_crossing_segment(a, b, poly[v], Following(poly, v))
            /\ ~is_point_on_segment(a, b, poly[v])
  PROVE  Missed(a[1], a[2], b[1], b[2], x0, y0, x1, y1)
<1> DEFINE p == a[1]
           q == a[2]
           r == b[1]
           s == b[2]
           T(x, y) == Turn(p, q, r, s, x, y)
           S(v, z) == Side(poly[v], Following(poly, v), z)
<1>1. /\ Side(a, b, poly[1]) = T(x0, y0) /\ Side(a, b, poly[2]) = T(x1, y0)
      /\ Side(a, b, poly[3]) = T(x1, y1) /\ Side(a, b, poly[4]) = T(x0, y1)
  BY SideIsTurn DEF Box
<1>2. /\ Following(poly, 1) = poly[2] /\ Following(poly, 2) = poly[3]
      /\ Following(poly, 3) = poly[4] /\ Following(poly, 4) = poly[1]
  BY DEF Following, Box
<1>3. /\ p \in Int /\ q \in Int /\ r \in Int /\ s \in Int
      /\ poly[1] \in Int \X Int /\ poly[2] \in Int \X Int
      /\ poly[3] \in Int \X Int /\ poly[4] \in Int \X Int
  BY DEF Box
<1>4. \A x \in Int, y \in Int : T(x, y) \in Int
  <2> HIDE DEF p, q, r, s
  <2> QED
    BY <1>3 DEF Turn
<1>5. \A v \in {1, 2, 3, 4} : S(v, a) \in Int /\ S(v, b) \in Int
  BY <1>2, <1>3 DEF Side
<1>6. /\ Opposite(q - y0, s - y0) => Opposite(S(1, a), S(1, b))
      /\ Opposite(p - x1, r - x1) => Opposite(S(2, a), S(2, b))
      /\ Opposite(q - y1, s - y1) => Opposite(S(3, a), S(3, b))
      /\ Opposite(p - x0, r - x0) => Opposite(S(4, a), S(4, b))
  BY <1>3, SidesOfBox DEF Opposite
<1>7. ASSUME NEW v \in {1, 2, 3, 4}
      PROVE  ~(/\ Opposite(Side(a, b, poly[v]), Side(a, b, Following(poly, v)))
               /\ Opposite(S(v, a), S(v, b)))
  <2> DEFINE o == Side(a, b, poly[v])
             n == Side(a, b, Following(poly, v))
             c == S(v, a)
             d == S(v, b)
  <2>1. o \in Int /\ n \in Int /\ c \in Int /\ d \in Int
    <3>1. poly[v] \in Int \X Int /\ Following(poly, v) \in Int \X Int
      BY <1>2, <1>3
    <3> QED
      BY <1>5, <3>1 DEF Side
  <2>2. ~(n * o < 0 /\ d * c < 0)
    BY DEF is_segment_crossing_segment, is_segment_crossing_line
  <2> HIDE DEF o, n, c, d
  <2>3. ~(Opposite(o, n) /\ Opposite(c, d))
    BY <2>1, <2>2, OppositeEnds
  <2> QED
    BY <2>3 DEF o, n, c, d
<1>8. /\ p - x0 = a[1] - poly[1][1] /\ r - x0 = b[1] - poly[1][1]
      /\ q - y0 = a[2] - poly[1][2] /\ s - y0 = b[2] - poly[1][2]
      /\ p - x1 = a[1] - poly[3][1] /\ r - x1 = b[1] - poly[3][1]
      /\ q - y1 = a[2] - poly[3][2] /\ s - y1 = b[2] - poly[3][2]
      /\ poly[2][1] = poly[3][1] /\ poly[2][2] = poly[1][2]
      /\ poly[4][1] = poly[1][1] /\ poly[4][2] = poly[3][2]
  BY DEF Box
<1>9. ASSUME NEW v \in {1, 2, 3, 4}
      PROVE  ~(/\ Side(a, b, poly[v]) = 0
               /\ Opposite(a[1] - poly[v][1], b[1] - poly[v][1])
               /\ Opposite(a[2] - poly[v][2], b[2] - poly[v][2]))
  BY <1>3, SeenOnSegment
<1> HIDE DEF p, q, r, s, T, S
<1>10. /\ ~ (Opposite(T(x0, y0), T(x1, y0)) /\ Opposite(q - y0, s - y0))
       /\ ~ (Opposite(T(x1, y0), T(x1, y1)) /\ Opposite(p - x1, r - x1))
       /\ ~ (Opposite(T(x1, y1), T(x0, y1)) /\ Opposite(q - y1, s - y1))
       /\ ~ (Opposite(T(x0, y1), T(x0, y0)) /\ Opposite(p - x0, r - x0))
  BY <1>1, <1>2, <1>6, <1>7
<1>11. /\ ~ (T(x0, y0) = 0 /\ Opposite(p - x0, r - x0) /\ Opposite(q - y0, s - y0))
       /\ ~ (T(x1, y0) = 0 /\ Opposite(p - x1, r - x1) /\ Opposite(q - y0, s - y0))
       /\ ~ (T(x1, y1) = 0 /\ Opposite(p - x1, r - x1) /\ Opposite(q - y1, s - y1))
       /\ ~ (T(x0, y1) = 0 /\ Opposite(p - x0, r - x0) /\ Opposite(q - y1, s - y1))
  BY <1>1, <1>8, <1>9
<1> QED
  BY <1>10, <1>11 DEF Missed, p, q, r, s, T

\* Corners with a segment between them that cuts the rectangle are opposite.
LEMMA OppositeCorners ==
  ASSUME NEW poly, NEW x0, NEW y0, NEW x1, NEW y1, Box(poly, x0, y0, x1, y1),
         NEW u \in 1..4, NEW v \in 1..4,
         Splits(poly[u][1], poly[u][2], poly[v][1], poly[v][2], x0, y0, x1, y1),
         x0 \in Int, y0 \in Int, x1 \in Int, y1 \in Int
  PROVE  u - v \notin {1, -1, 3, -3}
<1> DEFINE p == poly[u][1]
           q == poly[u][2]
           r == poly[v][1]
           s == poly[v][2]
<1>1. /\ ~(p = x0 /\ r = x0) /\ ~(p = x1 /\ r = x1)
      /\ ~(q = y0 /\ s = y0) /\ ~(q = y1 /\ s = y1)
  <2>1. /\ q > y0 \/ s > y0
        /\ q < y1 \/ s < y1
        /\ p > x0 \/ r > x0
        /\ p < x1 \/ r < x1
    BY DEF Splits
  <2> HIDE DEF p, q, r, s
  <2> QED
    BY <2>1
<1>2. /\ u \in {1, 4} => p = x0
      /\ u \in {2, 3} => p = x1
      /\ u \in {1, 2} => q = y0
      /\ u \in {3, 4} => q = y1
  BY CornersOfBox
<1>3. /\ v \in {1, 4} => r = x0
      /\ v \in {2, 3} => r = x1
      /\ v \in {1, 2} => s = y0
      /\ v \in {3, 4} => s = y1
  BY CornersOfBox
<1> HIDE DEF p, q, r, s
<1> QED
  BY <1>1, <1>2, <1>3

LEMMA Ends ==
  ASSUME NEW k, NEW l, {k, l} = {1, 4}
  PROVE  (k = 1 /\ l = 4) \/ (k = 4 /\ l = 1)
OBVIOUS

\* core/avoidance.c, build_avoidance_graph: an edge of the graph meets the
\* inside of no rectangle, if its ends are not inside and not on a side.
THEOREM EdgeCutsNone ==
  ASSUME polygons \in Seq(Seq(Int \X Int)), NEW i \in DOMAIN polygons,
         Rectangle(polygons[i]), NEW a \in Int \X Int, NEW b \in Int \X Int,
         ~is_point_in_polygon(polygons[i], a), OffSides(a, polygons[i]),
         ~is_point_in_polygon(polygons[i], b), OffSides(b, polygons[i]),
         ~collide(a, b)
  PROVE  ~Cuts(a, b, polygons[i])
<1> SUFFICES ASSUME Cuts(a, b, polygons[i]) PROVE FALSE
  OBVIOUS
<1> DEFINE poly == polygons[i]
           k    == get_point_index_in_polygon(poly, a)
           l    == get_point_index_in_polygon(poly, b)
<1>1. /\ poly \in Seq(Int \X Int) /\ Rectangle(poly) /\ Cuts(a, b, poly)
      /\ ~is_point_in_polygon(poly, a) /\ OffSides(a, poly)
      /\ ~is_point_in_polygon(poly, b) /\ OffSides(b, poly)
  OBVIOUS
<1>0. ASSUME NEW v \in DOMAIN poly
      PROVE  /\ ~is_segment_crossing_segment(a, b, poly[v], Following(poly, v))
             /\ {k, l} # {1, Len(poly)} =>
                  ~Diagonal(k, l) /\ ~is_point_on_segment(a, b, poly[v])
  BY DEF collide
<1> HIDE DEF poly
<1>2. PICK x0, y0, x1, y1 \in Int : Box(poly, x0, y0, x1, y1)
  BY <1>1, Corners
<1>3. Splits(a[1], a[2], b[1], b[2], x0, y0, x1, y1)
  BY <1>1, <1>2, CutSplits
<1>4. \A u, v \in 1..4 : poly[u] = poly[v] => u = v
  BY <1>2, CornersDiffer
<1>5. ASSUME NEW v \in 1..4 PROVE get_point_index_in_polygon(poly, poly[v]) = v
  <2>1. DOMAIN poly = 1..4
    BY <1>2 DEF Box
  <2> QED
    BY <1>4, <2>1, IndexOfVertex
<1>6. ASSUME NEW u \in 1..4, NEW v \in 1..4, a = poly[u], b = poly[v]
      PROVE  u - v \notin {1, -1, 3, -3}
  BY <1>2, <1>3, <1>6, OppositeCorners
<1>7. ASSUME NEW v \in 1..4
      PROVE  /\ ~is_segment_crossing_segment(a, b, poly[v], Following(poly, v))
             /\ {k, l} # {1, 4} =>
                  ~Diagonal(k, l) /\ ~is_point_on_segment(a, b, poly[v])
  <2>1. v \in DOMAIN poly /\ Len(poly) = 4
    BY <1>2 DEF Box
  <2> HIDE DEF k, l
  <2> QED
    BY <1>0, <2>1
<1>8. {k, l} # {1, 4}
  <2>1. ASSUME NEW z, get_point_index_in_polygon(poly, z) # 0
        PROVE  \E v \in 1..4 : z = poly[v] /\ get_point_index_in_polygon(poly, z) = v
    <3>1. \E v \in 1..4 : poly[v] = z
      BY <1>2, <2>1 DEF Box, get_point_index_in_polygon
    <3> QED
      BY <1>5, <3>1
  <2>2. ASSUME (k = 1 /\ l = 4) \/ (k = 4 /\ l = 1) PROVE FALSE
    <3> HIDE DEF k, l
    <3>1. k # 0 /\ l # 0 /\ k - l \in {3, -3}
      BY <2>2
    <3>2. PICK u \in 1..4 : a = poly[u] /\ k = u
      BY <2>1, <3>1 DEF k
    <3>3. PICK v \in 1..4 : b = poly[v] /\ l = v
      BY <2>1, <3>1 DEF l
    <3>4. u - v \in {3, -3}
      BY <3>1, <3>2, <3>3
    <3>5. u - v \notin {3, -3}
      BY <1>6, <3>2, <3>3
    <3> QED
      BY <3>4, <3>5
  <2> HIDE DEF k, l
  <2> QED
    BY <2>2, Ends
<1>9. Missed(a[1], a[2], b[1], b[2], x0, y0, x1, y1)
  BY <1>2, <1>7, <1>8, EdgeMisses
<1>10. ASSUME NEW u \in 1..4, NEW v \in 1..4, a = poly[u], b = poly[v]
       PROVE  FALSE
  <2>1. k = u /\ l = v
    BY <1>5, <1>10
  <2>2. ~Diagonal(u, v)
    BY <1>7, <1>8, <2>1
  <2>3. u - v \in {1, -1}
    BY <2>2 DEF Diagonal
  <2> QED
    <3>1. u - v \notin {1, -1}
      BY <1>6, <1>10
    <3> QED
      BY <2>3, <3>1
<1>11. /\ a[1] \in Int /\ a[2] \in Int /\ b[1] \in Int /\ b[2] \in Int
       /\ x0 < x1 /\ y0 < y1
  BY <1>2 DEF Box
<1>12. ~(a[1] < x0 \/ x1 < a[1] \/ a[2] < y0 \/ y1 < a[2])
  BY <1>3, <1>9, <1>11, FromLeft, FromRight, FromAbove, FromBelow
<1>13. /\ Missed(b[1], b[2], a[1], a[2], x0, y0, x1, y1)
       /\ Splits(b[1], b[2], a[1], a[2], x0, y0, x1, y1)
  BY <1>3, <1>9, <1>11, Swapped
<1>14. ~(b[1] < x0 \/ x1 < b[1] \/ b[2] < y0 \/ y1 < b[2])
  BY <1>11, <1>13, FromLeft, FromRight, FromAbove, FromBelow
<1>15. (\E u \in 1..4 : a = poly[u]) /\ (\E v \in 1..4 : b = poly[v])
  <2>1. Beyond(a, x0, y0, x1, y1) \/ Corner(a, poly)
    BY <1>1, <1>2, BeyondOrCorner
  <2>2. Beyond(b, x0, y0, x1, y1) \/ Corner(b, poly)
    BY <1>1, <1>2, BeyondOrCorner
  <2> QED
    BY <1>12, <1>14, <2>1, <2>2, Zenon DEF Beyond, Corner
<1> QED
  BY <1>10, <1>15

\* In which direction a segment is looked at makes no difference.
LEMMA CutsBothWays ==
  ASSUME NEW a \in Int \X Int, NEW b \in Int \X Int, NEW poly \in Seq(Int \X Int),
         Cuts(a, b, poly)
  PROVE  Cuts(b, a, poly)
<1>1. ASSUME NEW z \in Int \X Int
      PROVE  /\ Side(a, b, z) > 0 => Side(b, a, z) < 0
             /\ Side(a, b, z) < 0 => Side(b, a, z) > 0
  <2>1. PICK p \in Int, q \in Int : a = <<p, q>>
    OBVIOUS
  <2>2. PICK r \in Int, s \in Int : b = <<r, s>>
    OBVIOUS
  <2>3. PICK x \in Int, y \in Int : z = <<x, y>>
    OBVIOUS
  <2>4. /\ Side(a, b, z) = Turn(p, q, r, s, x, y)
        /\ Side(b, a, z) = Turn(r, s, p, q, x, y)
    BY <2>1, <2>2, <2>3 DEF Side, Turn
  <2> DEFINE T == Turn(p, q, r, s, x, y)
             U == Turn(r, s, p, q, x, y)
  <2>5. T \in Int /\ U = -T
    BY DEF Turn
  <2> HIDE DEF T, U
  <2>6. (T > 0 => U < 0) /\ (T < 0 => U > 0)
    BY <2>5
  <2> QED
    BY <2>4, <2>6 DEF T, U
<1>2. \A v \in DOMAIN poly : poly[v] \in Int \X Int
  OBVIOUS
<1>3. /\ \E v \in DOMAIN poly : Side(b, a, poly[v]) > 0
      /\ \E v \in DOMAIN poly : Side(b, a, poly[v]) < 0
  BY <1>1, <1>2 DEF Cuts
<1>4. \A v \in DOMAIN poly : \/ Side(poly[v], Following(poly, v), b) > 0
                             \/ Side(poly[v], Following(poly, v), a) > 0
  BY DEF Cuts
<1> QED
  BY <1>3, <1>4 DEF Cuts

-----------------------------------------------------------------------------
(* Loops                                                                   *)

\* Each set of naturals has a least one.
LEMMA LeastNatural ==
  ASSUME NEW S \in SUBSET Nat, S # {}
  PROVE  \E n \in S : \A m \in S : n <= m
<1>1. PICK x \in S : \A y \in S : ~ (<<y, x>> \in OpToRel(<, Nat))
  BY NatLessThanWellFounded, WFMin
<1>2. \A y \in S : ~(y < x)
  BY <1>1 DEF OpToRel
<1>3. \A y \in S : x <= y
  BY <1>2
<1> QED
  BY <1>3

\* The iterations of a loop, as the function that a recursive definition
\* chooses: x is the state before it, step[n] what the n-th turn does, and the
\* sets R are what the turns keep.
Turns(g, b, m, x, step) ==
  g = [n \in b..m |-> IF n = b THEN x ELSE step[n][g[n - 1]]]

\* What holds before the loop and is kept by each of its turns.
LEMMA KeptByTurns ==
  ASSUME NEW b \in Nat, NEW m \in Nat, NEW R, NEW f, f[b] \in R[b],
         \A n \in (b + 1)..m : f[n - 1] \in R[n - 1] => f[n] \in R[n]
  PROVE  \A n \in b..m : f[n] \in R[n]
<1> DEFINE Out == { n \in b..m : f[n] \notin R[n] }
<1>1. CASE Out # {}
  <2>1. Out \in SUBSET Nat
    OBVIOUS
  <2> HIDE DEF Out
  <2>2. PICK n \in Out : \A k \in Out : n <= k
    BY <1>1, <2>1, LeastNatural
  <2> USE DEF Out
  <2>3. n \in (b + 1)..m /\ n - 1 \in b..m /\ n - 1 \notin Out
    BY <2>2
  <2>4. f[n - 1] \in R[n - 1]
    BY <2>3
  <2> QED
    BY <2>2, <2>3, <2>4
<1> QED
  BY <1>1

\* A loop whose turns stay within R has iterations.
LEMMA TurnsExist ==
  ASSUME NEW b \in Nat, NEW m \in Nat, b <= m, NEW R, NEW x \in R[b], NEW step,
         \A n \in (b + 1)..m : \A s \in R[n - 1] : step[n][s] \in R[n]
  PROVE  \E g : Turns(g, b, m, x, step) /\ \A n \in b..m : g[n] \in R[n]
<1> DEFINE Good(g, k) == Turns(g, b, k, x, step) /\ \A n \in b..k : g[n] \in R[n]
           Bad == { k \in b..m : ~ \E g : Good(g, k) }
<1>1. CASE Bad # {}
  <2>1. Bad \in SUBSET Nat
    OBVIOUS
  <2> HIDE DEF Bad
  <2>2. PICK k \in Bad : \A j \in Bad : k <= j
    BY <1>1, <2>1, LeastNatural
  <2> USE DEF Bad
  <2>3. CASE k = b
    <3> DEFINE g == [n \in b..b |-> x]
    <3>1. g = [n \in b..b |-> IF n = b THEN x ELSE step[n][g[n - 1]]]
      OBVIOUS
    <3>2. \A n \in b..b : g[n] \in R[n]
      OBVIOUS
    <3>3. Good(g, b)
      BY <3>1, <3>2 DEF Turns
    <3> QED
      BY <2>2, <2>3, <3>3
  <2>4. CASE k # b
    <3>1. k - 1 \in b..m /\ k - 1 \notin Bad /\ k \in (b + 1)..m /\ k \in Int
      BY <2>2, <2>4
    <3>2. PICK g : Good(g, k - 1)
      BY <3>1
    <3> DEFINE h == [n \in b..k |-> IF n = k THEN step[k][g[k - 1]] ELSE g[n]]
    <3>3. g[k - 1] \in R[k - 1] /\ \A n \in b..(k - 1) : g[n] \in R[n]
      BY <3>1, <3>2
    <3>4. \A n \in b..k : h[n] \in R[n]
      BY <3>1, <3>3
    <3>5. \A n \in b..(k - 1) : g[n] = IF n = b THEN x ELSE step[n][g[n - 1]]
      BY <3>2 DEF Turns
    <3>6. \A n \in b..k : h[n] = IF n = b THEN x ELSE step[n][h[n - 1]]
      <4> SUFFICES ASSUME NEW n \in b..k
                   PROVE  h[n] = IF n = b THEN x ELSE step[n][h[n - 1]]
        OBVIOUS
      <4>1. CASE n = k
        BY <3>1, <4>1
      <4>2. CASE n # k
        <5>1. n \in b..(k - 1) /\ h[n] = g[n]
          BY <3>1, <4>2
        <5>2. n # b => n - 1 \in b..k /\ n - 1 # k /\ h[n - 1] = g[n - 1]
          BY <3>1, <4>2
        <5> HIDE DEF h
        <5> QED
          BY <3>5, <5>1, <5>2
      <4> QED
        BY <4>1, <4>2
    <3>7. h = [n \in b..k |-> h[n]]
      OBVIOUS
    <3> HIDE DEF h
    <3>8. Turns(h, b, k, x, step)
      BY <3>6, <3>7 DEF Turns
    <3>9. Good(h, k)
      BY <3>4, <3>8
    <3> QED
      BY <2>2, <3>9
  <2> QED
    BY <2>3, <2>4
<1> QED
  BY <1>1

-----------------------------------------------------------------------------
(* The points of the graph                                                 *)

(* The vertices, in no order.                                              *)
AllCorners ==
  { c \in Int \X Int : \E i \in DOMAIN polygons : \E v \in DOMAIN polygons[i] :
                          c = polygons[i][v] }

LEMMA Elements ==
  ASSUME NEW S, NEW s \in Seq(S)
  PROVE  \A n \in 1..Len(s) : s[n] \in S
OBVIOUS

LEMMA JoinedSeqs ==
  ASSUME NEW S, NEW s \in Seq(S), NEW t \in Seq(S)
  PROVE  s \o t \in Seq(S)
OBVIOUS

LEMMA SubTyped ==
  ASSUME NEW S, NEW T, NEW s \in Seq(S), \A n \in DOMAIN s : s[n] \in T
  PROVE  s \in Seq(T)
OBVIOUS

LEMMA VerticesAreCorners ==
  ASSUME Table
  PROVE  vertices \in Seq(AllCorners)
<1> DEFINE m == Len(polygons)
           flatten == CHOOSE f : f = [i \in 1..m |->
                          IF i = 1 THEN polygons[i] ELSE f[i - 1] \o polygons[i]]
<1>1. CASE m = 0
  <2>1. vertices = polygons /\ polygons = <<>>
    BY <1>1 DEF vertices, FlattenSeq, Table
  <2> QED
    BY <2>1
<1>2. CASE m # 0
  <2>0. /\ m \in Nat /\ m >= 1 /\ DOMAIN polygons = 1..m
        /\ \A i \in 1..m : polygons[i] \in Seq(Int \X Int)
    BY <1>2 DEF Table
  <2> DEFINE R    == [i \in 1..m |-> Seq(AllCorners)]
             step == [i \in 1..m |-> [q \in Seq(AllCorners) |-> q \o polygons[i]]]
  <2>1. ASSUME NEW i \in 1..m PROVE polygons[i] \in Seq(AllCorners)
    <3>1. polygons[i] \in Seq(Int \X Int)
      BY <2>0
    <3>2. \A v \in DOMAIN polygons[i] : polygons[i][v] \in Int \X Int
      BY <3>1
    <3>3. \A v \in DOMAIN polygons[i] : polygons[i][v] \in AllCorners
      BY <2>0, <3>2 DEF AllCorners
    <3> QED
      BY <3>1, <3>3, SubTyped
  <2>2. \A i \in (1 + 1)..m : \A q \in R[i - 1] : step[i][q] \in R[i]
    <3> SUFFICES ASSUME NEW i \in (1 + 1)..m, NEW q \in R[i - 1]
                 PROVE  step[i][q] \in R[i]
      OBVIOUS
    <3>1. i \in 1..m /\ i - 1 \in 1..m
      BY <2>0
    <3>2. q \in Seq(AllCorners) /\ polygons[i] \in Seq(AllCorners)
      BY <2>1, <3>1
    <3> QED
      BY <3>1, <3>2, JoinedSeqs
  <2>3. polygons[1] \in R[1]
    BY <2>0, <2>1
  <2> HIDE DEF m, R, step
  <2>4. \E g : Turns(g, 1, m, polygons[1], step) /\ \A i \in 1..m : g[i] \in R[i]
    <3>1. 1 \in Nat /\ m \in Nat /\ 1 <= m
      BY <2>0
    <3> DEFINE x == polygons[1]
    <3> HIDE DEF x
    <3>2. x \in R[1]
      BY <2>3 DEF x
    <3>3. \E g : Turns(g, 1, m, x, step) /\ \A i \in 1..m : g[i] \in R[i]
      BY <2>2, <3>1, <3>2, TurnsExist
    <3> QED
      BY <3>3 DEF x
  <2>5. \E g : g = [i \in 1..m |-> IF i = 1 THEN polygons[i] ELSE g[i - 1] \o polygons[i]]
    <3>1. PICK g : Turns(g, 1, m, polygons[1], step) /\ \A i \in 1..m : g[i] \in R[i]
      BY <2>4
    <3>2. ASSUME NEW i \in 1..m, i # 1 PROVE step[i][g[i - 1]] = g[i - 1] \o polygons[i]
      <4>1. i - 1 \in 1..m
        BY <2>0, <3>2
      <4>2. g[i - 1] \in Seq(AllCorners)
        BY <3>1, <4>1 DEF R
      <4>3. step[i] = [q \in Seq(AllCorners) |-> q \o polygons[i]]
        BY DEF step
      <4> DEFINE r == g[i - 1]
      <4> HIDE DEF r
      <4> QED
        BY <4>2, <4>3 DEF r
    <3>3. \A i \in 1..m : g[i] = IF i = 1 THEN polygons[i] ELSE g[i - 1] \o polygons[i]
      BY <3>1, <3>2 DEF Turns
    <3>4. g = [i \in 1..m |-> g[i]]
      BY <3>1 DEF Turns
    <3>5. [i \in 1..m |-> g[i]] =
            [i \in 1..m |-> IF i = 1 THEN polygons[i] ELSE g[i - 1] \o polygons[i]]
      BY <3>3, Zenon
    <3> QED
      BY <3>4, <3>5, Zenon
  <2>6. flatten = [i \in 1..m |-> IF i = 1 THEN polygons[i] ELSE flatten[i - 1] \o polygons[i]]
    BY <2>5, Zenon
  <2> HIDE DEF flatten
  <2>7. flatten[m] \in R[m]
    <3>1. \A i \in 1..m : flatten[i] = IF i = 1 THEN polygons[i]
                                       ELSE flatten[i - 1] \o polygons[i]
      BY <2>6
    <3>2. flatten[1] \in R[1]
      BY <2>0, <2>3, <3>1
    <3>3. \A i \in (1 + 1)..m : flatten[i - 1] \in R[i - 1] => flatten[i] \in R[i]
      <4> SUFFICES ASSUME NEW i \in (1 + 1)..m, flatten[i - 1] \in R[i - 1]
                   PROVE  flatten[i] \in R[i]
        OBVIOUS
      <4>1. i \in 1..m /\ i - 1 \in 1..m /\ i # 1
        BY <2>0
      <4>2. flatten[i] = flatten[i - 1] \o polygons[i]
        BY <3>1, <4>1
      <4>3. flatten[i - 1] \in Seq(AllCorners) /\ polygons[i] \in Seq(AllCorners)
        BY <2>1, <4>1 DEF R
      <4> QED
        BY <4>1, <4>2, <4>3, JoinedSeqs DEF R
    <3>4. 1 \in Nat /\ m \in Nat
      BY <2>0
    <3>5. \A i \in 1..m : flatten[i] \in R[i]
      BY <3>2, <3>3, <3>4, KeptByTurns
    <3>6. m \in 1..m
      BY <2>0
    <3> QED
      BY <3>5, <3>6, Zenon
  <2>8. vertices = flatten[m]
    BY <2>0 DEF vertices, FlattenSeq, flatten, m
  <2> QED
    BY <2>0, <2>7, <2>8 DEF R
<1> QED
  BY <1>1, <1>2

(* Where the points of a graph from s to f are.                            *)
Places(s, f) == {s, f} \cup { c \in AllCorners : ~Blocked(c) }

(* The points from s to f, with some of the corners behind them.           *)
PointLists(s, f) ==
  { q \in Seq(Places(s, f)) : Len(q) >= 2 /\ q[1] = s /\ q[2] = f }

LEMMA LongerList ==
  ASSUME NEW s, NEW f, NEW q \in PointLists(s, f),
         NEW c \in AllCorners, ~Blocked(c)
  PROVE  Append(q, c) \in PointLists(s, f)
<1>1. c \in Places(s, f)
  BY DEF Places
<1>2. /\ q \in Seq(Places(s, f)) /\ Len(q) >= 2 /\ q[1] = s /\ q[2] = f
  BY DEF PointLists
<1>3. /\ Append(q, c) \in Seq(Places(s, f)) /\ Len(Append(q, c)) >= 2
      /\ Append(q, c)[1] = s /\ Append(q, c)[2] = f
  BY <1>1, <1>2
<1> QED
  BY <1>3 DEF PointLists

LEMMA PointsOfGraph ==
  ASSUME Table, NEW s, NEW f
  PROVE  valid_points(s, f) \in PointLists(s, f)
<1> DEFINE m     == Len(vertices)
           found == CHOOSE h : h = [n \in 0..m |->
                       IF n = 0 THEN <<s, f>>
                       ELSE IF Blocked(vertices[n]) THEN h[n - 1]
                            ELSE Append(h[n - 1], vertices[n])]
           Q     == PointLists(s, f)
           R     == [n \in 0..m |-> Q]
           x     == <<s, f>>
           step  == [n \in 1..m |-> [q \in Q |->
                       IF Blocked(vertices[n]) THEN q ELSE Append(q, vertices[n])]]
<1>1. /\ 0 \in Nat /\ m \in Nat /\ 0 <= m
      /\ \A n \in 1..m : vertices[n] \in AllCorners
  BY VerticesAreCorners
<1>2. x \in Q
  <2>1. x \in Seq(Places(s, f))
    BY DEF Places
  <2> QED
    BY <2>1 DEF PointLists
<1>3. valid_points(s, f) = found[m]
  BY DEF valid_points
<1> HIDE DEF x, m, Q
<1>4. ASSUME NEW n \in 1..m, NEW q \in Q
      PROVE  (IF Blocked(vertices[n]) THEN q ELSE Append(q, vertices[n])) \in Q
  BY <1>1, <1>4, LongerList DEF Q
<1>5. x \in R[0]
  BY <1>1, <1>2
<1>6. \A n \in (0 + 1)..m : \A q \in R[n - 1] : step[n][q] \in R[n]
  <2> SUFFICES ASSUME NEW n \in (0 + 1)..m, NEW q \in R[n - 1] PROVE step[n][q] \in R[n]
    OBVIOUS
  <2>1. n \in 1..m /\ n \in 0..m /\ q \in Q
    BY <1>1
  <2> QED
    BY <1>4, <2>1
<1>7. PICK g : Turns(g, 0, m, x, step) /\ \A n \in 0..m : g[n] \in R[n]
  <2> HIDE DEF R, step
  <2> QED
    BY <1>1, <1>5, <1>6, TurnsExist
<1>8. ASSUME NEW n \in 0..m
      PROVE  g[n] = IF n = 0 THEN x
                    ELSE IF Blocked(vertices[n]) THEN g[n - 1]
                         ELSE Append(g[n - 1], vertices[n])
  <2>1. CASE n = 0
    BY <1>7, <2>1 DEF Turns
  <2>2. CASE n # 0
    <3>1. n \in 1..m /\ n - 1 \in 0..m
      BY <1>1, <2>2
    <3>2. g[n - 1] \in Q
      BY <1>7, <3>1
    <3>3. g[n] = step[n][g[n - 1]]
      BY <1>7, <2>2 DEF Turns
    <3>4. step[n][g[n - 1]] = IF Blocked(vertices[n]) THEN g[n - 1]
                              ELSE Append(g[n - 1], vertices[n])
      <4> DEFINE q == g[n - 1]
      <4>1. q \in Q
        BY <3>2
      <4>2. step[n] = [r \in Q |-> IF Blocked(vertices[n]) THEN r
                                   ELSE Append(r, vertices[n])]
        BY <3>1
      <4> HIDE DEF q, step
      <4> QED
        BY <4>1, <4>2 DEF q
    <3> HIDE DEF step
    <3> QED
      BY <2>2, <3>3, <3>4
  <2> QED
    BY <2>1, <2>2
<1>9. g = [n \in 0..m |-> g[n]]
  BY <1>7 DEF Turns
<1>10. found = [n \in 0..m |->
                  IF n = 0 THEN x
                  ELSE IF Blocked(vertices[n]) THEN found[n - 1]
                       ELSE Append(found[n - 1], vertices[n])]
  <2>1. g = [n \in 0..m |->
               IF n = 0 THEN x
               ELSE IF Blocked(vertices[n]) THEN g[n - 1]
                    ELSE Append(g[n - 1], vertices[n])]
    BY <1>8, <1>9
  <2> QED
    BY <2>1, Zenon DEF x
<1> HIDE DEF found
<1>11. \A n \in 0..m : found[n] = IF n = 0 THEN x
                                  ELSE IF Blocked(vertices[n]) THEN found[n - 1]
                                       ELSE Append(found[n - 1], vertices[n])
  BY <1>10
<1>12. \A n \in (0 + 1)..m : found[n - 1] \in R[n - 1] => found[n] \in R[n]
  <2> SUFFICES ASSUME NEW n \in (0 + 1)..m, found[n - 1] \in R[n - 1]
               PROVE  found[n] \in R[n]
    OBVIOUS
  <2>1. n \in 1..m /\ n \in 0..m /\ n # 0 /\ found[n - 1] \in Q
    BY <1>1
  <2> QED
    BY <1>4, <1>11, <2>1
<1>13. \A n \in 0..m : found[n] \in R[n]
  <2>1. found[0] \in R[0]
    BY <1>1, <1>5, <1>11
  <2> HIDE DEF R
  <2> QED
    BY <1>1, <1>12, <2>1, KeptByTurns
<1> QED
  BY <1>1, <1>3, <1>13 DEF Q

-----------------------------------------------------------------------------
(* The search                                                              *)

(* What a search can be asked for: two points at least.                    *)
Listed(vp) == vp \in Seq(Int \X Int) /\ Len(vp) >= 2 /\ Unit \in Nat \ {0}

(* i and j are joined in the graph.                                        *)
Edge(vp, i, j) == <<i, j>> \in graph(vp) \/ <<j, i>> \in graph(vp)

(* What the variables of the search hold.                                  *)
States(vp) == [v : DOMAIN vp, checked : SUBSET DOMAIN vp,
               distance : [DOMAIN vp -> Nat], parent : [DOMAIN vp -> 0..Len(vp)]]

LEMMA StateTypes ==
  ASSUME NEW vp, Listed(vp), NEW s \in States(vp)
  PROVE  /\ Len(vp) \in Nat /\ DOMAIN vp = 1..Len(vp)
         /\ s.v \in DOMAIN vp /\ s.checked \in SUBSET DOMAIN vp
         /\ s.distance \in [DOMAIN vp -> Nat] /\ s.parent \in [DOMAIN vp -> 0..Len(vp)]
BY DEF States, Listed

(* The points that are not checked are farther than the checked ones, and  *)
(* the next to be checked is the nearest of them.                          *)
Nearest(vp, s) ==
    /\ \A i \in s.checked, j \in DOMAIN vp \ s.checked : s.distance[i] <= s.distance[j]
    /\ s.v \notin s.checked =>
         \A j \in DOMAIN vp \ s.checked : s.distance[s.v] <= s.distance[j]

(* parent[] leads along edges to checked points, and from all points but   *)
(* the first that the search has reached.                                  *)
Parents(vp, s) ==
    /\ s.parent[1] = 0 /\ s.distance[1] = 0
    /\ \A i \in DOMAIN vp : s.parent[i] # 0 =>
         s.parent[i] \in s.checked /\ Edge(vp, s.parent[i], i)
    /\ \A i \in DOMAIN vp \ {1} : s.distance[i] < DIJKSTRA_MAX_DISTANCE => s.parent[i] # 0
    /\ \A i \in s.checked \cup {s.v} : i = 1 \/ s.distance[i] < DIJKSTRA_MAX_DISTANCE

SearchInv(vp, s) ==
    /\ s \in States(vp) /\ Nearest(vp, s) /\ Parents(vp, s)
    /\ 2 \notin s.checked
    /\ (s.v = 1 /\ s.checked = {}) \/ 1 \in s.checked

(* Each parent was checked in an earlier round than its children.          *)
Ranked(vp, s, n) ==
    \E rank \in [DOMAIN vp -> 1..(n + 1)] :
       /\ \A i \in DOMAIN vp : s.parent[i] # 0 => rank[s.parent[i]] < rank[i]
       /\ \A i \in s.checked : rank[i] <= n
       /\ \A i \in DOMAIN vp \ s.checked : rank[i] = n + 1

LEMMA SquareOf == ASSUME NEW x \in Int PROVE x * x \in Nat
OBVIOUS

LEMMA WeightType ==
  ASSUME NEW a \in Int \X Int, NEW b \in Int \X Int
  PROVE  weight(a, b) \in Nat
<1> DEFINE x == a[1] - b[1]
           y == a[2] - b[2]
<1>1. x \in Int /\ y \in Int
  OBVIOUS
<1>2. weight(a, b) = x * x + y * y
  BY DEF weight
<1> HIDE DEF x, y
<1> QED
  BY <1>1, <1>2, SquareOf

LEMMA MaxType == ASSUME Unit \in Nat \ {0} PROVE DIJKSTRA_MAX_DISTANCE \in Nat
<1>1. Unit * Unit \in Nat \ {0}
  OBVIOUS
<1>2. \A n \in Nat \ {0} : 13000000 \div n \in Nat
  OBVIOUS
<1> QED
  BY <1>1, <1>2 DEF DIJKSTRA_MAX_DISTANCE

\* The point that a round takes next.
LEMMA NextPoint ==
  ASSUME NEW D \in SUBSET Nat, NEW distance \in [D -> Nat],
         NEW open \in SUBSET D, open # {}
  PROVE  LET n == CHOOSE i \in open : \A j \in open :
                     \/ distance[i] < distance[j]
                     \/ distance[i] = distance[j] /\ i <= j
         IN  n \in open /\ \A j \in open : distance[n] <= distance[j]
<1> DEFINE far == { distance[i] : i \in open }
<1>1. far \in SUBSET Nat /\ far # {}
  OBVIOUS
<1>2. PICK x \in far : \A y \in far : x <= y
  <2> HIDE DEF far
  <2> QED
    BY <1>1, LeastNatural
<1> DEFINE near == { i \in open : distance[i] = x }
<1>3. near \in SUBSET Nat /\ near # {}
  BY <1>2
<1>4. PICK i \in near : \A j \in near : i <= j
  <2> HIDE DEF near
  <2> QED
    BY <1>3, LeastNatural
<1>5. \A j \in open : x <= distance[j]
  BY <1>2
<1>6. /\ i \in open
      /\ \A j \in open :
            distance[i] < distance[j] \/ (distance[i] = distance[j] /\ i <= j)
  <2>1. i \in open /\ distance[i] = x /\ x \in Nat
    BY <1>4
  <2>2. ASSUME NEW j \in open
        PROVE  distance[i] < distance[j] \/ (distance[i] = distance[j] /\ i <= j)
    <3>1. distance[j] \in Nat /\ x <= distance[j]
      BY <1>5
    <3>2. distance[j] = x => i <= j
      BY <1>4
    <3> QED
      BY <2>1, <3>1, <3>2
  <2> QED
    BY <2>1, <2>2
<1>7. \A k \in open :
        (\A j \in open : \/ distance[k] < distance[j]
                         \/ distance[k] = distance[j] /\ k <= j)
           => \A j \in open : distance[k] <= distance[j]
  OBVIOUS
<1> QED
  BY <1>6, <1>7

\* What one round of the search does.
LEMMA RoundKeepsSearch ==
  ASSUME NEW vp, Listed(vp), NEW s, SearchInv(vp, s), ~Stops(s)
  PROVE  /\ SearchInv(vp, Round(vp, graph(vp), s))
         /\ Round(vp, graph(vp), s).checked = s.checked \cup {s.v}
         /\ \A i \in DOMAIN vp :
              LET t == Round(vp, graph(vp), s)
              IN  \/ t.parent[i] = s.parent[i]
                  \/ t.parent[i] = s.v /\ i \notin t.checked
<1> DEFINE D       == DOMAIN vp
           v       == s.v
           d       == s.distance
           w(i)    == weight(vp[v], vp[i])
           near(i) == Edge(vp, v, i) /\ d[i] > d[v] + w(i)
           dist    == [i \in D |-> IF near(i) THEN d[v] + w(i) ELSE d[i]]
           checked == s.checked \cup {v}
           open    == { i \in D \ checked : i # 1 /\ dist[i] < DIJKSTRA_MAX_DISTANCE }
           next    == CHOOSE i \in open : \A j \in open :
                        \/ dist[i] < dist[j]
                        \/ dist[i] = dist[j] /\ i <= j
           parent  == [i \in D |-> IF near(i) THEN v ELSE s.parent[i]]
           t       == Round(vp, graph(vp), s)
<1>1. t = [v |-> IF open = {} THEN v ELSE next, checked |-> checked,
           distance |-> dist, parent |-> parent]
  BY DEF Round, Edge
<1>2. /\ v \in D /\ s.checked \in SUBSET D /\ d \in [D -> Nat]
      /\ s.parent \in [D -> 0..Len(vp)] /\ D = 1..Len(vp) /\ Len(vp) \in Nat
  <2>1. s \in States(vp)
    BY DEF SearchInv
  <2> QED
    BY <2>1, StateTypes
<1>3. ASSUME NEW i \in D PROVE w(i) \in Nat
  <2>1. \A k \in DOMAIN vp : vp[k] \in Int \X Int
    BY DEF Listed
  <2>2. vp[v] \in Int \X Int /\ vp[i] \in Int \X Int
    BY <1>2, <2>1
  <2> QED
    BY <2>2, WeightType
<1>4. v # 2 /\ v \notin s.checked
  BY DEF Stops
<1>5. /\ \A i \in s.checked, j \in D \ s.checked : d[i] <= d[j]
      /\ \A j \in D \ s.checked : d[v] <= d[j]
  BY <1>4 DEF SearchInv, Nearest
<1>6. /\ s.parent[1] = 0 /\ d[1] = 0
      /\ \A i \in D : s.parent[i] # 0 => s.parent[i] \in s.checked /\ Edge(vp, s.parent[i], i)
      /\ \A i \in D \ {1} : d[i] < DIJKSTRA_MAX_DISTANCE => s.parent[i] # 0
      /\ \A i \in checked : i = 1 \/ d[i] < DIJKSTRA_MAX_DISTANCE
  BY DEF SearchInv, Parents
<1>7. /\ 2 \notin s.checked
      /\ 1 \in checked
  BY DEF SearchInv
<1> HIDE DEF D, v, d, w, t
<1>8. ASSUME NEW i \in checked PROVE ~near(i)
  <2>1. i \in D /\ d[i] \in Nat /\ d[v] \in Nat /\ w(i) \in Nat
    BY <1>2, <1>3
  <2>2. d[i] <= d[v]
    BY <1>2, <1>4, <1>5, <2>1
  <2> QED
    BY <2>1, <2>2
<1> HIDE DEF near
<1>9. dist \in [D -> Nat] /\ parent \in [D -> 0..Len(vp)]
  <2>1. ASSUME NEW i \in D PROVE d[i] \in Nat /\ d[v] + w(i) \in Nat
    <3>1. d[i] \in Nat /\ d[v] \in Nat /\ w(i) \in Nat
      BY <1>2, <1>3
    <3> QED
      BY <3>1
  <2>2. dist \in [D -> Nat]
    BY <2>1
  <2>3. v \in 0..Len(vp)
    BY <1>2
  <2>4. parent \in [D -> 0..Len(vp)]
    <3> DEFINE p == s.parent
               P == 0..Len(vp)
    <3>1. p \in [D -> P] /\ v \in P
      BY <1>2, <2>3
    <3> HIDE DEF p, P
    <3>2. [i \in D |-> IF near(i) THEN v ELSE p[i]] \in [D -> P]
      BY <3>1
    <3> QED
      BY <3>2 DEF p, P
  <2> QED
    BY <2>2, <2>4
<1>10. \A i \in checked : dist[i] = d[i] /\ parent[i] = s.parent[i]
  BY <1>2, <1>8
<1>11. ASSUME NEW j \in D \ checked PROVE dist[j] >= d[v] /\ dist[j] <= d[j]
  <2>1. d[j] \in Nat /\ d[v] \in Nat /\ w(j) \in Nat /\ d[v] <= d[j]
    BY <1>2, <1>3, <1>5
  <2>2. CASE near(j)
    <3>1. dist[j] = d[v] + w(j) /\ d[j] > d[v] + w(j)
      BY <2>2 DEF near
    <3> HIDE DEF dist
    <3> QED
      BY <2>1, <3>1
  <2>3. CASE ~near(j)
    <3>1. dist[j] = d[j]
      BY <2>3
    <3> HIDE DEF dist
    <3> QED
      BY <2>1, <3>1
  <2> QED
    BY <2>2, <2>3
<1>12. DIJKSTRA_MAX_DISTANCE \in Nat
  BY MaxType DEF Listed
<1>13. open # {} => next \in open /\ \A j \in open : dist[next] <= dist[j]
  <2>1. D \in SUBSET Nat /\ open \in SUBSET D
    BY <1>2
  <2> HIDE DEF open, dist
  <2> QED
    BY <1>9, <2>1, NextPoint, ZenonT(30)
<1>14. /\ t.v = IF open = {} THEN v ELSE next
       /\ t.checked = checked /\ t.distance = dist /\ t.parent = parent
  <2> HIDE DEF next, open, dist, checked, parent
  <2> QED
    BY <1>1
<1>15. t \in States(vp)
  <2>1. open \subseteq D
    OBVIOUS
  <2>2. checked \in SUBSET D
    BY <1>2
  <2>3. (IF open = {} THEN v ELSE next) \in D
    <3> HIDE DEF next, open
    <3> QED
      BY <1>2, <1>13, <2>1
  <2> HIDE DEF next, open, dist, parent, checked
  <2> QED
    BY <1>1, <1>9, <2>2, <2>3 DEF States, D
<1>16. Nearest(vp, t)
  <2>1. ASSUME NEW i \in checked, NEW j \in D \ checked PROVE dist[i] <= dist[j]
    <3>1. dist[i] = d[i] /\ d[i] \in Nat /\ d[v] \in Nat /\ dist[j] \in Nat
      BY <1>2, <1>9, <1>10
    <3>2. d[i] <= d[v]
      BY <1>2, <1>4, <1>5, <3>1
    <3> QED
      BY <1>11, <3>1, <3>2
  <2>2. ASSUME t.v \notin checked, NEW j \in D \ checked PROVE dist[t.v] <= dist[j]
    <3>1. open # {} /\ t.v = next
      BY <1>14, <2>2
    <3>2. next \in open /\ \A k \in open : dist[next] <= dist[k]
      BY <1>13, <3>1
    <3>3. CASE j \in open
      BY <3>1, <3>2, <3>3
    <3>4. CASE j \notin open
      <4>1. ~(dist[j] < DIJKSTRA_MAX_DISTANCE)
        <5>1. j \in D \ checked /\ j # 1
          BY <1>7
        <5> HIDE DEF dist, checked
        <5> QED
          BY <3>4, <5>1
      <4>2. next \in D /\ dist[next] < DIJKSTRA_MAX_DISTANCE
        BY <3>2
      <4>3. next \in D /\ j \in D
        BY <4>2
      <4> HIDE DEF next, open, dist
      <4>4. dist[next] \in Nat /\ dist[j] \in Nat
        BY <1>9, <4>3
      <4> QED
        BY <1>12, <3>1, <4>1, <4>2, <4>4
    <3> HIDE DEF next, open, dist
    <3> QED
      BY <3>3, <3>4, Zenon
  <2> HIDE DEF dist, checked
  <2> QED
    BY <1>14, <2>1, <2>2 DEF Nearest, D
<1>17. Parents(vp, t)
  <2>1. parent[1] = 0 /\ dist[1] = 0
    BY <1>6, <1>7, <1>10
  <2>2. ASSUME NEW i \in D, parent[i] # 0
        PROVE  parent[i] \in checked /\ Edge(vp, parent[i], i)
    <3>1. CASE near(i)
      BY <3>1 DEF near
    <3>2. CASE ~near(i)
      BY <1>6, <2>2, <3>2
    <3> QED
      BY <3>1, <3>2
  <2>3. ASSUME NEW i \in D \ {1}, dist[i] < DIJKSTRA_MAX_DISTANCE PROVE parent[i] # 0
    <3>1. CASE near(i)
      BY <1>2, <3>1
    <3>2. CASE ~near(i)
      <4>1. dist[i] = d[i] /\ parent[i] = s.parent[i]
        BY <3>2
      <4> HIDE DEF dist, parent
      <4> QED
        BY <1>6, <2>3, <4>1
    <3> QED
      BY <3>1, <3>2
  <2>4. ASSUME NEW i \in checked \cup {t.v}
        PROVE  i = 1 \/ dist[i] < DIJKSTRA_MAX_DISTANCE
    <3>1. CASE i \in checked
      BY <1>6, <1>10, <3>1
    <3>2. CASE i \notin checked
      BY <1>13, <1>14, <2>4, <3>2
    <3> QED
      BY <3>1, <3>2
  <2> HIDE DEF dist, checked, parent
  <2> QED
    BY <1>14, <2>1, <2>2, <2>3, <2>4 DEF Parents, D
<1>18. 2 \notin t.checked /\ 1 \in t.checked
  BY <1>4, <1>7, <1>14
<1>19. SearchInv(vp, t)
  BY <1>15, <1>16, <1>17, <1>18 DEF SearchInv
<1>20. ASSUME NEW i \in D
       PROVE  t.parent[i] = s.parent[i] \/ (t.parent[i] = v /\ i \notin t.checked)
  BY <1>8, <1>14
<1> QED
  BY <1>14, <1>19, <1>20 DEF t, D, v

(* The n-th turn of the search.                                            *)
Searched(vp, n) ==
  { s \in States(vp) : /\ SearchInv(vp, s) /\ Ranked(vp, s, n)
                       /\ IsFiniteSet(s.checked)
                       /\ Stops(s) \/ Cardinality(s.checked) = n }

LEMMA SearchTurn ==
  ASSUME NEW vp, Listed(vp), NEW n \in Nat, NEW s \in Searched(vp, n)
  PROVE  (IF Stops(s) THEN s ELSE Round(vp, graph(vp), s)) \in Searched(vp, n + 1)
<1> DEFINE D == DOMAIN vp
           t == IF Stops(s) THEN s ELSE Round(vp, graph(vp), s)
<1>1. /\ SearchInv(vp, s) /\ IsFiniteSet(s.checked)
      /\ Stops(s) \/ Cardinality(s.checked) = n
      /\ s.checked \subseteq D /\ s.v \in D /\ s.parent \in [D -> 0..Len(vp)]
  <2>1. s \in States(vp)
    BY DEF Searched
  <2> QED
    BY <2>1, StateTypes DEF Searched
<1>2. PICK rank \in [D -> 1..(n + 1)] :
        /\ \A i \in D : s.parent[i] # 0 => rank[s.parent[i]] < rank[i]
        /\ \A i \in s.checked : rank[i] <= n
        /\ \A i \in D \ s.checked : rank[i] = n + 1
  BY DEF Searched, Ranked
<1>3. SearchInv(vp, t)
  BY <1>1, RoundKeepsSearch
<1>4. t \in States(vp)
  BY <1>3 DEF SearchInv
<1>5. (Stops(s) /\ t = s) \/ (~Stops(s) /\ t = Round(vp, graph(vp), s))
  OBVIOUS
<1> HIDE DEF t
<1>6. IsFiniteSet(t.checked) /\ (Stops(t) \/ Cardinality(t.checked) = n + 1)
  <2>1. CASE Stops(s)
    BY <1>1, <1>5, <2>1
  <2>2. CASE ~Stops(s)
    <3>1. s.v \notin s.checked /\ Cardinality(s.checked) = n
      BY <1>1, <2>2 DEF Stops
    <3>2. t.checked = s.checked \cup {s.v}
      BY <1>1, <1>5, <2>2, RoundKeepsSearch
    <3>3. /\ IsFiniteSet(s.checked \cup {s.v})
          /\ Cardinality(s.checked \cup {s.v}) = n + 1
      BY <1>1, <3>1, FS_AddElement
    <3> QED
      BY <3>2, <3>3
  <2> QED
    BY <2>1, <2>2
<1>7. ASSUME NEW i \in D
      PROVE  \/ t.parent[i] = s.parent[i]
             \/ t.parent[i] = s.v /\ i \notin t.checked /\ s.v \notin s.checked
  <2>1. CASE Stops(s)
    BY <1>5, <2>1
  <2>2. CASE ~Stops(s)
    <3>1. s.v \notin s.checked
      BY <2>2 DEF Stops
    <3>2. \/ Round(vp, graph(vp), s).parent[i] = s.parent[i]
          \/ /\ Round(vp, graph(vp), s).parent[i] = s.v
             /\ i \notin Round(vp, graph(vp), s).checked
      BY <1>1, <2>2, RoundKeepsSearch
    <3> QED
      BY <1>5, <2>2, <3>1, <3>2
  <2> QED
    BY <2>1, <2>2
<1>8. s.checked \subseteq t.checked /\ t.checked \subseteq s.checked \cup {s.v}
  <2>1. CASE ~Stops(s)
    <3>1. Round(vp, graph(vp), s).checked = s.checked \cup {s.v}
      BY <1>1, <2>1, RoundKeepsSearch
    <3> QED
      BY <1>5, <2>1, <3>1
  <2> QED
    BY <1>5, <2>1
<1>9. ASSUME NEW i \in D, t.parent[i] # 0
      PROVE  t.parent[i] \in t.checked
  BY <1>3, <1>9 DEF SearchInv, Parents
<1>10. Ranked(vp, t, n + 1)
  <2> DEFINE later == [i \in D |-> IF i \in t.checked THEN rank[i] ELSE n + 2]
  <2>1. later \in [D -> 1..((n + 1) + 1)]
    BY <1>2
  <2>2. \A i \in t.checked : later[i] <= n + 1
    <3>1. t.checked \subseteq D
      BY <1>1, <1>8
    <3>2. ASSUME NEW i \in t.checked PROVE rank[i] <= n + 1
      BY <1>2, <3>1
    <3> QED
      BY <3>1, <3>2
  <2>3. \A i \in D \ t.checked : later[i] = (n + 1) + 1
    OBVIOUS
  <2>4. ASSUME NEW i \in D, t.parent[i] # 0 PROVE later[t.parent[i]] < later[i]
    <3> DEFINE k == t.parent[i]
    <3>1. k \in t.checked /\ k \in D
      BY <1>1, <1>8, <1>9, <2>4
    <3>2. later[k] = rank[k] /\ rank[k] \in 1..(n + 1)
      BY <1>2, <3>1
    <3>3. CASE i \notin t.checked
      <4>1. later[i] = n + 2
        BY <3>3
      <4> QED
        BY <3>2, <4>1
    <3>4. CASE i \in t.checked
      <4>1. later[i] = rank[i] /\ k = s.parent[i]
        BY <1>7, <3>4
      <4>2. rank[k] < rank[i]
        BY <1>2, <2>4, <4>1
      <4> QED
        BY <3>2, <4>1, <4>2
    <3> HIDE DEF k, later
    <3> QED
      BY <3>3, <3>4 DEF k
  <2> HIDE DEF later
  <2> QED
    BY <2>1, <2>2, <2>3, <2>4 DEF Ranked
<1> QED
  BY <1>3, <1>4, <1>6, <1>10 DEF Searched, t

LEMMA SearchStart ==
  ASSUME NEW vp, Listed(vp)
  PROVE  Unsearched(vp) \in Searched(vp, 0)
<1> DEFINE D == DOMAIN vp
           s == Unsearched(vp)
           d == [i \in D |-> IF i = 1 THEN 0 ELSE DIJKSTRA_MAX_DISTANCE]
<1>1. /\ D = 1..Len(vp) /\ 1 \in D /\ DIJKSTRA_MAX_DISTANCE \in Nat
  BY MaxType DEF Listed
<1>2. s = [v |-> 1, checked |-> {}, distance |-> d, parent |-> [i \in D |-> 0]]
  BY DEF Unsearched
<1>3. d \in [D -> Nat] /\ [i \in D |-> 0] \in [D -> 0..Len(vp)]
  BY <1>1
<1>4. s \in States(vp)
  <2> HIDE DEF d
  <2> QED
    BY <1>1, <1>2, <1>3 DEF States
<1> HIDE DEF s
<1>5. s.v = 1 /\ s.checked = {} /\ s.distance = d /\ \A i \in D : s.parent[i] = 0
  BY <1>2
<1>6. Nearest(vp, s)
  BY <1>1, <1>5 DEF Nearest
<1>7. Parents(vp, s)
  BY <1>1, <1>5 DEF Parents
<1>8. SearchInv(vp, s)
  BY <1>4, <1>5, <1>6, <1>7 DEF SearchInv
<1>9. Ranked(vp, s, 0)
  <2> DEFINE rank == [i \in D |-> 1]
  <2>1. /\ rank \in [D -> 1..(0 + 1)]
        /\ \A i \in D : s.parent[i] # 0 => rank[s.parent[i]] < rank[i]
        /\ \A i \in s.checked : rank[i] <= 0
        /\ \A i \in D \ s.checked : rank[i] = 0 + 1
    BY <1>5
  <2> QED
    BY <2>1 DEF Ranked
<1> QED
  BY <1>4, <1>5, <1>8, <1>9, FS_EmptySet DEF Searched, s

\* core/avoidance.c, dijkstra: the loop is over after as many turns as there
\* are points, so the model's bound is none.
THEOREM SearchEnds ==
  ASSUME NEW vp, Listed(vp)
  PROVE  Search(vp) \in Searched(vp, Len(vp)) /\ Stops(Search(vp))
<1> DEFINE m    == Len(vp)
           E    == graph(vp)
           x    == Unsearched(vp)
           at   == CHOOSE h : h = [n \in 0..m |->
                     IF n = 0 THEN x
                     ELSE IF Stops(h[n - 1]) THEN h[n - 1] ELSE Round(vp, E, h[n - 1])]
           R    == [n \in 0..m |-> Searched(vp, n)]
           turn(s) == IF Stops(s) THEN s ELSE Round(vp, E, s)
           step == [n \in 1..m |-> [s \in Searched(vp, n - 1) |-> turn(s)]]
<1>1. m \in Nat /\ 0 \in Nat /\ 0 <= m
  BY DEF Listed
<1>2. Search(vp) = at[m]
  BY DEF Search
<1>3. x \in R[0]
  BY <1>1, SearchStart
<1>4. ASSUME NEW n \in 1..m, NEW s \in Searched(vp, n - 1) PROVE turn(s) \in Searched(vp, n)
  <2>1. n - 1 \in Nat /\ (n - 1) + 1 = n
    BY <1>1
  <2> QED
    BY <1>4, <2>1, SearchTurn
<1> HIDE DEF x, m, E
<1>5. \A n \in (0 + 1)..m : \A s \in R[n - 1] : step[n][s] \in R[n]
  <2> SUFFICES ASSUME NEW n \in (0 + 1)..m, NEW s \in R[n - 1] PROVE step[n][s] \in R[n]
    OBVIOUS
  <2>1. n \in 1..m /\ n \in 0..m /\ n - 1 \in 0..m /\ s \in Searched(vp, n - 1)
    BY <1>1
  <2> HIDE DEF turn
  <2> QED
    BY <1>4, <2>1
<1>6. PICK g : Turns(g, 0, m, x, step) /\ \A n \in 0..m : g[n] \in R[n]
  <2> HIDE DEF R, step
  <2> QED
    BY <1>1, <1>3, <1>5, TurnsExist
<1>7. ASSUME NEW n \in 0..m
      PROVE  g[n] = IF n = 0 THEN x ELSE turn(g[n - 1])
  <2> HIDE DEF turn
  <2>1. CASE n = 0
    BY <1>6, <2>1 DEF Turns
  <2>2. CASE n # 0
    <3>1. n \in 1..m /\ n - 1 \in 0..m
      BY <1>1, <2>2
    <3>2. g[n - 1] \in Searched(vp, n - 1)
      BY <1>6, <3>1
    <3>3. g[n] = step[n][g[n - 1]]
      BY <1>6, <2>2 DEF Turns
    <3> QED
      BY <2>2, <3>1, <3>2, <3>3
  <2> QED
    BY <2>1, <2>2
<1>8. g = [n \in 0..m |-> g[n]]
  BY <1>6 DEF Turns
<1>9. at = [n \in 0..m |-> IF n = 0 THEN x ELSE turn(at[n - 1])]
  <2>1. g = [n \in 0..m |-> IF n = 0 THEN x ELSE turn(g[n - 1])]
    <3> HIDE DEF turn
    <3> QED
      BY <1>7, <1>8
  <2> QED
    BY <2>1
<1> HIDE DEF at, turn
<1>10. \A n \in 0..m : at[n] = IF n = 0 THEN x ELSE turn(at[n - 1])
  BY <1>9
<1>11. \A n \in (0 + 1)..m : at[n - 1] \in R[n - 1] => at[n] \in R[n]
  <2> SUFFICES ASSUME NEW n \in (0 + 1)..m, at[n - 1] \in R[n - 1]
               PROVE  at[n] \in R[n]
    OBVIOUS
  <2>1. n \in 1..m /\ n \in 0..m /\ n # 0 /\ n - 1 \in 0..m
    BY <1>1
  <2>2. at[n - 1] \in Searched(vp, n - 1) /\ at[n] = turn(at[n - 1])
    BY <1>10, <2>1
  <2> QED
    BY <1>4, <2>1, <2>2
<1>12. \A n \in 0..m : at[n] \in R[n]
  <2>1. at[0] \in R[0]
    BY <1>1, <1>3, <1>10
  <2> HIDE DEF R
  <2> QED
    BY <1>1, <1>11, <2>1, KeptByTurns
<1>13. Search(vp) \in Searched(vp, m)
  BY <1>1, <1>2, <1>12
<1>14. Stops(Search(vp))
  <2> DEFINE c == Search(vp).checked
             D == 1..m
  <2>1. /\ Search(vp) \in States(vp) /\ SearchInv(vp, Search(vp))
        /\ Stops(Search(vp)) \/ Cardinality(c) = m
    BY <1>13 DEF Searched
  <2>2. m >= 2 /\ DOMAIN vp = D
    BY DEF m, Listed
  <2>3. c \in SUBSET D /\ 2 \notin c /\ 2 \in D
    BY <1>1, <2>1, <2>2 DEF SearchInv, States
  <2>4. IsFiniteSet(D) /\ Cardinality(D) = m
    <3>1. 1 \in Int /\ m \in Int /\ ~(1 > m)
      BY <1>1, <2>2
    <3>2. IsFiniteSet(D) /\ Cardinality(D) = (m - 1) + 1
      BY <3>1, FS_Interval
    <3> QED
      BY <1>1, <3>2
  <2> HIDE DEF c, D
  <2>5. Cardinality(D) = Cardinality(c) => D = c
    BY <2>3, <2>4, FS_Subset
  <2> QED
    BY <2>1, <2>3, <2>4, <2>5
<1> QED
  BY <1>13, <1>14 DEF m

-----------------------------------------------------------------------------
(* The way back                                                            *)

(* The ways along parent[] to point 2.                                     *)
Ways(D, parent) ==
  { r \in Seq(D) : /\ Len(r) >= 1 /\ r[Len(r)] = 2
                   /\ \A k \in 1..(Len(r) - 1) :
                        parent[r[k + 1]] # 0 /\ r[k] = parent[r[k + 1]] }

(* One step of the way back.                                               *)
Leading(r, parent) ==
  IF parent[Head(r)] = 0 THEN r ELSE <<parent[Head(r)]>> \o r

(* The ways after n steps back; rank makes them end.                       *)
WaysBack(D, parent, rank, n) ==
  { r \in Ways(D, parent) : /\ parent[r[1]] = 0 \/ Len(r) = n + 1
                            /\ rank[r[1]] + Len(r) <= rank[2] + 1 }

LEMMA StepBack ==
  ASSUME NEW m \in Nat, NEW D, D = 1..m,
         NEW parent \in [D -> 0..m], NEW rank \in [D -> 1..(m + 1)],
         \A i \in D : parent[i] # 0 => rank[parent[i]] < rank[i], 2 \in D,
         NEW n \in Nat, NEW r \in WaysBack(D, parent, rank, n)
  PROVE  Leading(r, parent) \in WaysBack(D, parent, rank, n + 1)
<1>1. /\ r \in Seq(D) /\ Len(r) \in Nat /\ Len(r) >= 1 /\ r[Len(r)] = 2
      /\ \A k \in 1..(Len(r) - 1) : parent[r[k + 1]] # 0 /\ r[k] = parent[r[k + 1]]
      /\ parent[r[1]] = 0 \/ Len(r) = n + 1
      /\ rank[r[1]] + Len(r) <= rank[2] + 1
  BY DEF WaysBack, Ways
<1>2. r[1] \in D /\ Head(r) = r[1]
  <2>1. r \in Seq(D) /\ Len(r) \in Nat /\ Len(r) >= 1
    BY <1>1
  <2>2. \A k \in 1..Len(r) : r[k] \in D
    BY <2>1, Elements, Zenon
  <2>3. 1 \in 1..Len(r)
    BY <2>1
  <2> QED
    BY <2>2, <2>3
<1>3. CASE parent[r[1]] = 0
  BY <1>1, <1>2, <1>3 DEF WaysBack, Ways, Leading
<1>4. CASE parent[r[1]] # 0
  <2> DEFINE i == parent[r[1]]
             t == <<i>> \o r
  <2>1. i \in D
    BY <1>2, <1>4
  <2>2. /\ t \in Seq(D) /\ Len(t) = Len(r) + 1 /\ t[1] = i
        /\ \A k \in 1..Len(r) : t[k + 1] = r[k]
    BY <1>1, <2>1
  <2>3. Leading(r, parent) = t
    BY <1>2, <1>4 DEF Leading
  <2> HIDE DEF t
  <2>4. t[Len(t)] = 2
    <3>1. Len(r) \in 1..Len(r)
      BY <1>1
    <3>2. t[Len(r) + 1] = r[Len(r)]
      BY <2>2, <3>1
    <3> QED
      BY <1>1, <2>2, <3>2
  <2>5. ASSUME NEW k \in 1..(Len(t) - 1)
        PROVE  parent[t[k + 1]] # 0 /\ t[k] = parent[t[k + 1]]
    <3>1. k \in 1..Len(r) /\ t[k + 1] = r[k]
      BY <1>1, <2>2
    <3>2. CASE k = 1
      BY <1>4, <2>2, <3>1, <3>2
    <3>3. CASE k # 1
      <4>1. k - 1 \in 1..(Len(r) - 1) /\ k - 1 \in 1..Len(r) /\ (k - 1) + 1 = k
        BY <1>1, <3>1, <3>3
      <4>2. parent[r[k]] # 0 /\ r[k - 1] = parent[r[k]]
        BY <1>1, <4>1
      <4>3. t[k] = r[k - 1]
        BY <2>2, <4>1
      <4> QED
        BY <3>1, <4>2, <4>3
    <3> QED
      BY <3>2, <3>3
  <2>6. rank[i] < rank[r[1]] /\ rank[i] \in 1..(m + 1) /\ rank[r[1]] \in 1..(m + 1)
        /\ rank[2] \in 1..(m + 1)
    BY <1>2, <1>4, <2>1
  <2>7. rank[t[1]] + Len(t) <= rank[2] + 1 /\ Len(t) = (n + 1) + 1
    <3> DEFINE a == rank[i]
               b == rank[r[1]]
               c == rank[2]
    <3>1. a < b /\ b + Len(r) <= c + 1
      BY <1>1, <2>6
    <3>5. a \in Int /\ b \in Int /\ c \in Int
      BY <2>6
    <3>2. a + Len(t) <= c + 1
      <4> HIDE DEF a, b, c
      <4> QED
        BY <1>1, <2>2, <3>1, <3>5
    <3>3. rank[t[1]] = a
      BY <2>2
    <3>4. Len(t) = (n + 1) + 1
      BY <1>1, <1>4, <2>2
    <3> QED
      BY <3>2, <3>3, <3>4
  <2>8. t \in Ways(D, parent)
    <3>1. Len(t) >= 1
      BY <1>1, <2>2
    <3> QED
      BY <2>2, <2>4, <2>5, <3>1 DEF Ways
  <2> QED
    BY <2>3, <2>7, <2>8 DEF WaysBack
<1> QED
  BY <1>3, <1>4

\* The loop back along parent[] is over when the model's is.
LEMMA WayBack ==
  ASSUME NEW vp, NEW m \in Nat, m = Len(vp), NEW D, D = 1..m,
         NEW parent \in [D -> 0..m], NEW rank \in [D -> 1..(m + 1)],
         \A i \in D : parent[i] # 0 => rank[parent[i]] < rank[i], 2 \in D
  PROVE  LET r == Backwards(vp, parent)
         IN  r \in Ways(D, parent) /\ parent[r[1]] = 0
<1> DEFINE x    == <<2>>
           back == CHOOSE h : h = [n \in 0..m |->
                      IF n = 0 THEN x
                      ELSE LET r == h[n - 1]
                           IN  IF parent[Head(r)] = 0 THEN r
                               ELSE <<parent[Head(r)]>> \o r]
           W(n) == WaysBack(D, parent, rank, n)
           R    == [n \in 0..m |-> W(n)]
           step == [n \in 1..m |-> [r \in W(n - 1) |-> Leading(r, parent)]]
<1>1. 0 \in Nat /\ m \in Nat /\ 0 <= m
  OBVIOUS
<1>2. Backwards(vp, parent) = back[m]
  BY DEF Backwards
<1>3. x \in R[0]
  <2>1. x \in Seq(D) /\ Len(x) = 1 /\ x[1] = 2 /\ rank[2] \in 1..(m + 1)
    OBVIOUS
  <2>2. x \in Ways(D, parent)
    BY <2>1 DEF Ways
  <2> QED
    BY <1>1, <2>1, <2>2 DEF WaysBack
<1>4. ASSUME NEW n \in 1..m, NEW r \in W(n - 1) PROVE Leading(r, parent) \in W(n)
  <2>1. n - 1 \in Nat /\ (n - 1) + 1 = n
    BY <1>1
  <2> QED
    BY <1>4, <2>1, StepBack
<1> HIDE DEF x, W
<1>5. \A n \in (0 + 1)..m : \A r \in R[n - 1] : step[n][r] \in R[n]
  <2> SUFFICES ASSUME NEW n \in (0 + 1)..m, NEW r \in R[n - 1] PROVE step[n][r] \in R[n]
    OBVIOUS
  <2>1. n \in 1..m /\ n \in 0..m /\ n - 1 \in 0..m /\ r \in W(n - 1)
    BY <1>1
  <2> QED
    BY <1>4, <2>1
<1>6. PICK g : Turns(g, 0, m, x, step) /\ \A n \in 0..m : g[n] \in R[n]
  <2> HIDE DEF R, step
  <2> QED
    BY <1>1, <1>3, <1>5, TurnsExist
<1>7. ASSUME NEW n \in 0..m
      PROVE  g[n] = IF n = 0 THEN x ELSE Leading(g[n - 1], parent)
  <2>1. CASE n = 0
    BY <1>6, <2>1 DEF Turns
  <2>2. CASE n # 0
    <3>1. n \in 1..m /\ n - 1 \in 0..m
      BY <1>1, <2>2
    <3>2. g[n - 1] \in W(n - 1)
      BY <1>6, <3>1
    <3>3. g[n] = step[n][g[n - 1]]
      BY <1>6, <2>2 DEF Turns
    <3>4. step[n][g[n - 1]] = Leading(g[n - 1], parent)
      <4> DEFINE q == g[n - 1]
      <4>1. q \in W(n - 1)
        BY <3>2
      <4>2. step[n] = [r \in W(n - 1) |-> Leading(r, parent)]
        BY <3>1
      <4> HIDE DEF q, step
      <4> QED
        BY <4>1, <4>2 DEF q
    <3> HIDE DEF step
    <3> QED
      BY <2>2, <3>3, <3>4
  <2> QED
    BY <2>1, <2>2
<1>8. g = [n \in 0..m |-> g[n]]
  BY <1>6 DEF Turns
<1>9. back = [n \in 0..m |-> IF n = 0 THEN x ELSE Leading(back[n - 1], parent)]
  <2>1. g = [n \in 0..m |-> IF n = 0 THEN x ELSE Leading(g[n - 1], parent)]
    BY <1>7, <1>8
  <2> QED
    BY <2>1, Zenon DEF Leading
<1> HIDE DEF back
<1>10. \A n \in 0..m : back[n] = IF n = 0 THEN x ELSE Leading(back[n - 1], parent)
  BY <1>9
<1>11. \A n \in (0 + 1)..m : back[n - 1] \in R[n - 1] => back[n] \in R[n]
  <2> SUFFICES ASSUME NEW n \in (0 + 1)..m, back[n - 1] \in R[n - 1]
               PROVE  back[n] \in R[n]
    OBVIOUS
  <2>1. n \in 1..m /\ n \in 0..m /\ n # 0 /\ n - 1 \in 0..m
    BY <1>1
  <2>2. back[n - 1] \in W(n - 1) /\ back[n] = Leading(back[n - 1], parent)
    BY <1>10, <2>1
  <2> QED
    BY <1>4, <2>1, <2>2
<1>12. \A n \in 0..m : back[n] \in R[n]
  <2>1. back[0] \in R[0]
    BY <1>1, <1>3, <1>10
  <2> HIDE DEF R
  <2> QED
    BY <1>1, <1>11, <2>1, KeptByTurns
<1> DEFINE r == Backwards(vp, parent)
<1>13. r \in WaysBack(D, parent, rank, m)
  BY <1>1, <1>2, <1>12 DEF W
<1> HIDE DEF r
<1>14. /\ r \in Ways(D, parent) /\ r \in Seq(D) /\ Len(r) >= 1
       /\ parent[r[1]] = 0 \/ Len(r) = m + 1
       /\ rank[r[1]] + Len(r) <= rank[2] + 1
  BY <1>13 DEF WaysBack, Ways
<1>15. parent[r[1]] = 0
  <2>1. r[1] \in D /\ rank[r[1]] \in 1..(m + 1) /\ rank[2] \in 1..(m + 1)
    BY <1>14
  <2>2. ASSUME parent[r[1]] # 0 PROVE FALSE
    <3>1. parent[r[1]] \in D /\ rank[parent[r[1]]] < rank[r[1]]
      BY <2>1, <2>2
    <3>2. rank[parent[r[1]]] \in 1..(m + 1)
      BY <3>1
    <3> QED
      BY <1>14, <2>1, <2>2, <3>1, <3>2
  <2> QED
    BY <2>2
<1> QED
  BY <1>14, <1>15 DEF r

\* core/avoidance.c, dijkstra: the way that parent[] leads back ends at the
\* start, and each leg of it is an edge; a lone point 2 when nothing led there.
THEOREM RouteJoins ==
  ASSUME NEW vp, Listed(vp)
  PROVE  LET r == Route(vp)
         IN  /\ r \in Seq(DOMAIN vp) /\ Len(r) >= 1 /\ r[Len(r)] = 2
             /\ Len(r) > 1 => r[1] = 1
             /\ \A k \in 1..(Len(r) - 1) : Edge(vp, r[k], r[k + 1])
<1> DEFINE m == Len(vp)
           D == DOMAIN vp
           s == Search(vp)
           r == Route(vp)
<1>1. /\ s \in States(vp) /\ Ranked(vp, s, m) /\ Parents(vp, s)
  BY SearchEnds DEF Searched, SearchInv
<1>2. m \in Nat /\ D = 1..m /\ 2 \in D /\ 1 \in D /\ s.parent \in [D -> 0..m]
  <2>1. m \in Nat /\ D = 1..m /\ s.parent \in [D -> 0..m]
    BY <1>1, StateTypes
  <2>2. m >= 2
    BY DEF Listed
  <2> QED
    BY <2>1, <2>2
<1>3. PICK rank \in [D -> 1..(m + 1)] :
        \A i \in D : s.parent[i] # 0 => rank[s.parent[i]] < rank[i]
  BY <1>1 DEF Ranked
<1>4. r \in Ways(D, s.parent) /\ s.parent[r[1]] = 0
  <2> DEFINE p == s.parent
  <2>1. r = Backwards(vp, p)
    BY DEF Route
  <2>2. p \in [D -> 0..m] /\ \A i \in D : p[i] # 0 => rank[p[i]] < rank[i]
    BY <1>2, <1>3
  <2> HIDE DEF p, r, s
  <2>3. m = Len(vp)
    OBVIOUS
  <2> HIDE DEF m, D
  <2>4. Backwards(vp, p) \in Ways(D, p) /\ p[Backwards(vp, p)[1]] = 0
    <3>1. m \in Nat /\ D = 1..m /\ 2 \in D
      BY <1>2
    <3> QED
      BY <2>2, <2>3, <3>1, WayBack
  <2> QED
    BY <2>1, <2>4 DEF p
<1> HIDE DEF r, s
<1>5. /\ r \in Seq(D) /\ Len(r) \in Nat /\ Len(r) >= 1 /\ r[Len(r)] = 2
      /\ \A k \in 1..(Len(r) - 1) :
           s.parent[r[k + 1]] # 0 /\ r[k] = s.parent[r[k + 1]]
  BY <1>4 DEF Ways
<1>6. \A k \in 1..Len(r) : r[k] \in D
  BY <1>5, Elements, Zenon
<1>7. ASSUME NEW k \in 1..(Len(r) - 1)
      PROVE  Edge(vp, r[k], r[k + 1]) /\ r[k] \in s.checked
  <2>1. r[k + 1] \in D
    BY <1>5, <1>6
  <2> QED
    BY <1>1, <1>5, <2>1 DEF Parents
<1>8. ASSUME Len(r) > 1 PROVE r[1] = 1
  <2>1. 1 \in 1..(Len(r) - 1)
    BY <1>5, <1>8
  <2>2. r[1] \in s.checked /\ r[1] \in D
    BY <1>5, <1>6, <1>7, <2>1
  <2> QED
    BY <1>1, <1>4, <2>2 DEF Parents
<1> QED
  BY <1>5, <1>7, <1>8 DEF r, D

(* An edge of the graph, seen from one of its ends.                        *)
Free(a, b) == ~collide(a, b) \/ ~collide(b, a)

LEMMA PlacesTyped ==
  ASSUME Table, NEW s \in Points, NEW f \in Points
  PROVE  Places(s, f) \subseteq Int \X Int
BY DEF Places, AllCorners, Table

\* The same for points.
LEMMA RouteOfPoints ==
  ASSUME Table, NEW s \in Points, NEW f \in Points
  PROVE  LET r == RoutePoints(s, f)
         IN  /\ r \in Seq(Places(s, f)) /\ Len(r) >= 1 /\ r[Len(r)] = f
             /\ Len(r) > 1 => r[1] = s
             /\ \A k \in 1..(Len(r) - 1) : Free(r[k], r[k + 1])
<1> DEFINE vp == valid_points(s, f)
           r  == Route(vp)
           q  == RoutePoints(s, f)
<1>1. vp \in Seq(Places(s, f)) /\ Len(vp) >= 2 /\ vp[1] = s /\ vp[2] = f
  BY PointsOfGraph DEF PointLists
<1>2. vp \in Seq(Int \X Int)
  <2>1. Places(s, f) \subseteq Int \X Int
    BY PlacesTyped
  <2> HIDE DEF vp
  <2> QED
    BY <1>1, <2>1
<1>3. q = [n \in DOMAIN r |-> vp[r[n]]]
  BY DEF RoutePoints
<1> HIDE DEF vp, q
<1>4. /\ r \in Seq(DOMAIN vp) /\ Len(r) >= 1 /\ r[Len(r)] = 2
      /\ Len(r) > 1 => r[1] = 1
      /\ \A k \in 1..(Len(r) - 1) : Edge(vp, r[k], r[k + 1])
  <2>1. Listed(vp)
    BY <1>1, <1>2 DEF Listed, Table
  <2> QED
    BY <2>1, RouteJoins
<1> HIDE DEF r
<1>5. Len(r) \in Nat /\ DOMAIN r = 1..Len(r) /\ \A n \in 1..Len(r) : r[n] \in DOMAIN vp
  BY <1>4
<1>6. \A n \in DOMAIN vp : vp[n] \in Places(s, f)
  BY <1>1
<1>7. q \in Seq(Places(s, f)) /\ Len(q) = Len(r)
  <2>1. \A n \in 1..Len(r) : vp[r[n]] \in Places(s, f)
    BY <1>5, <1>6
  <2> QED
    BY <1>3, <1>5, <2>1
<1>8. \A n \in 1..Len(r) : q[n] = vp[r[n]]
  BY <1>3, <1>5
<1>9. ASSUME NEW k \in 1..(Len(r) - 1) PROVE Free(q[k], q[k + 1])
  <2>1. Edge(vp, r[k], r[k + 1])
    BY <1>4
  <2>2. k \in 1..Len(r) /\ k + 1 \in 1..Len(r)
    BY <1>5
  <2>3. q[k] = vp[r[k]] /\ q[k + 1] = vp[r[k + 1]]
    BY <1>8, <2>2
  <2>4. ~collide(vp[r[k]], vp[r[k + 1]]) \/ ~collide(vp[r[k + 1]], vp[r[k]])
    <3> DEFINE i == r[k]
               j == r[k + 1]
    <3>1. Edge(vp, i, j)
      BY <2>1
    <3> HIDE DEF i, j
    <3>2. ~collide(vp[i], vp[j]) \/ ~collide(vp[j], vp[i])
      BY <3>1 DEF Edge, graph
    <3> QED
      BY <3>2 DEF i, j
  <2> QED
    BY <2>3, <2>4 DEF Free
<1>10. q[Len(q)] = f /\ (Len(q) > 1 => q[1] = s)
  <2>1. Len(r) \in 1..Len(r) /\ 1 \in 1..Len(r)
    BY <1>4, <1>5
  <2> QED
    BY <1>1, <1>4, <1>7, <1>8, <2>1
<1> QED
  BY <1>4, <1>7, <1>9, <1>10 DEF q

-----------------------------------------------------------------------------
(* The drive                                                               *)

\* A route leads from clear points to clear points, vertices among them.
LEMMA PlacesClear ==
  ASSUME Table, NEW s \in Clear, NEW f \in Clear
  PROVE  Places(s, f) \subseteq Clear
<1> SUFFICES ASSUME NEW p \in AllCorners, ~Blocked(p) PROVE p \in Points
  BY DEF Places, Clear
<1>1. PICK j \in DOMAIN polygons : \E v \in DOMAIN polygons[j] : p = polygons[j][v]
  BY DEF AllCorners
<1> QED
  BY <1>1 DEF Table

\* A clear point is outside of all obstacles, and not on a side.
LEMMA ClearOutside ==
  ASSUME Table, NEW p \in Clear
  PROVE  /\ p \in Int \X Int
         /\ \A i \in DOMAIN polygons :
              ~is_point_in_polygon(polygons[i], p) /\ OffSides(p, polygons[i])
BY DEF Table, Clear, Blocked

LEMMA FreeLeg ==
  ASSUME Table, NEW a \in Clear, NEW b \in Clear, Free(a, b),
         NEW i \in DOMAIN polygons
  PROVE  ~Cuts(a, b, polygons[i])
<1>1. /\ polygons \in Seq(Seq(Int \X Int)) /\ Rectangle(polygons[i])
      /\ polygons[i] \in Seq(Int \X Int)
  BY DEF Table
<1>2. /\ a \in Int \X Int /\ b \in Int \X Int
      /\ ~is_point_in_polygon(polygons[i], a) /\ OffSides(a, polygons[i])
      /\ ~is_point_in_polygon(polygons[i], b) /\ OffSides(b, polygons[i])
  BY ClearOutside
<1>3. CASE ~collide(a, b)
  BY <1>1, <1>2, <1>3, EdgeCutsNone
<1>4. CASE ~collide(b, a)
  <2>1. ~Cuts(b, a, polygons[i])
    BY <1>1, <1>2, <1>4, EdgeCutsNone
  <2> QED
    BY <1>1, <1>2, <2>1, CutsBothWays
<1> QED
  BY <1>3, <1>4 DEF Free

(* A way from s to f over free legs.                                       *)
Leads(r, s, f) ==
    /\ Len(r) \in Nat /\ Len(r) > 1 /\ r[1] = s /\ r[Len(r)] = f
    /\ \A k \in 1..Len(r) : r[k] \in Clear
    /\ \A k \in 1..(Len(r) - 1) : Free(r[k], r[k + 1])

LEMMA RouteFound ==
  ASSUME Table, Connected, NEW s \in Clear, NEW f \in Clear
  PROVE  Leads(RoutePoints(s, f), s, f)
<1> DEFINE r == RoutePoints(s, f)
<1>1. s \in Points /\ f \in Points /\ Len(r) > 1
  BY DEF Clear, Connected
<1>2. /\ r \in Seq(Places(s, f)) /\ r[Len(r)] = f /\ r[1] = s
      /\ \A k \in 1..(Len(r) - 1) : Free(r[k], r[k + 1])
  BY <1>1, RouteOfPoints
<1>3. Places(s, f) \subseteq Clear
  BY PlacesClear
<1> HIDE DEF r
<1> QED
  BY <1>1, <1>2, <1>3 DEF Leads, r

(* The route leads to the pose of the path, and the robot is where it says *)
(* except on the first leg of a route that starts elsewhere.               *)
OnRoute ==
    /\ start \in Clear /\ finish = path[latest_pos_idx]
    /\ route = RoutePoints(start, finish) /\ index < Len(route)
    /\ index > 1 \/ start = pose_reached => pose_reached = route[index]

DriveInv ==
    /\ path \in Paths /\ \A n \in DOMAIN path : path[n] \in Clear
    /\ latest_pos_idx \in 0..Len(path) /\ index \in Nat \ {0}
    /\ pose_reached \in Clear
    /\ latest_pos_idx = 0 => index = 1
    /\ latest_pos_idx > 0 => OnRoute

\* The poses of a path are clear.
LEMMA PosesClear ==
  ASSUME Table, NEW p \in Paths, \A n \in DOMAIN p : p[n] \in Clear
  PROVE  Len(p) \in Nat \ {0} /\ \A n \in 1..Len(p) : p[n] \in Clear
BY DEF Table

LEMMA InitDrive == ASSUME Table, Init PROVE DriveInv
<1>1. Len(path) \in Nat
  BY PosesClear DEF Init
<1> QED
  BY <1>1 DEF Init, DriveInv

\* Where the leg leads.
LEMMA LegLeads ==
  ASSUME Table, Connected, DriveInv, latest_pos_idx > 0
  PROVE  /\ Leads(route, start, finish) /\ index \in 1..(Len(route) - 1)
         /\ pose_to_reach = route[index + 1] /\ pose_to_reach \in Clear
<1>1. latest_pos_idx \in 1..Len(path) /\ path[latest_pos_idx] \in Clear
  BY PosesClear DEF DriveInv
<1>2. start \in Clear /\ finish \in Clear /\ route = RoutePoints(start, finish)
  BY <1>1 DEF DriveInv, OnRoute
<1>3. Leads(route, start, finish)
  BY <1>2, RouteFound
<1>4. index \in Nat \ {0} /\ index < Len(route)
  BY DEF DriveInv, OnRoute
<1>5. index \in 1..(Len(route) - 1) /\ index + 1 \in 1..Len(route)
  BY <1>3, <1>4 DEF Leads
<1> QED
  BY <1>3, <1>4, <1>5 DEF Leads, pose_to_reach, avoidance

LEMMA NextKeepsDrive ==
  ASSUME Table, Connected, DriveInv, [Next]_vars
  PROVE  DriveInv'
<1>0. /\ Len(path) \in Nat \ {0} /\ \A n \in 1..Len(path) : path[n] \in Clear
      /\ latest_pos_idx \in 0..Len(path) /\ index \in Nat \ {0}
      /\ pose_reached \in Clear
      /\ path \in Paths /\ \A n \in DOMAIN path : path[n] \in Clear
  BY PosesClear DEF DriveInv
<1>1. CASE FirstCall
  <2>1. /\ latest_pos_idx' = 1 /\ 1 \in 1..Len(path) /\ index' = 1
        /\ UNCHANGED <<path, pose_reached>>
    BY <1>0, <1>1 DEF FirstCall, DriveInv
  <2>2. /\ start' = pose_reached /\ finish' = path[1]
        /\ route' = RoutePoints(pose_reached, path[1])
    BY <1>1 DEF FirstCall, update_graph
  <2>3. Leads(RoutePoints(pose_reached, path[1]), pose_reached, path[1])
    BY <1>0, <2>1, RouteFound
  <2>4. OnRoute'
    <3>1. route' = RoutePoints(start', finish')
      BY <2>2
    <3>2. 1 < Len(route') /\ route'[1] = pose_reached
      BY <2>2, <2>3 DEF Leads
    <3> QED
      BY <1>0, <2>1, <2>2, <3>1, <3>2
         DEF OnRoute, RoutePoints
  <2> QED
    BY <1>0, <2>1, <2>4 DEF DriveInv
<1>2. CASE LegReached
  <2>1. /\ latest_pos_idx > 0 /\ pose_to_reach # path[latest_pos_idx]
        /\ index' = index + 1 /\ pose_reached' = pose_to_reach
        /\ UNCHANGED <<path, latest_pos_idx, start, finish, route>>
    BY <1>2 DEF LegReached
  <2>2. /\ Leads(route, start, finish) /\ index \in 1..(Len(route) - 1)
        /\ pose_to_reach = route[index + 1] /\ pose_to_reach \in Clear
    BY <2>1, LegLeads
  <2>3. OnRoute
    BY <2>1 DEF DriveInv
  <2>4. index + 1 # Len(route)
    BY <2>1, <2>2, <2>3 DEF OnRoute, Leads
  <2>5. index' < Len(route') /\ pose_reached' = route'[index']
    BY <2>1, <2>2, <2>4 DEF Leads
  <2>6. OnRoute'
    BY <2>1, <2>3, <2>5 DEF OnRoute
  <2>7. index' \in Nat \ {0}
    BY <1>0, <2>1
  <2> QED
    BY <1>0, <2>1, <2>2, <2>6, <2>7 DEF DriveInv
<1>3. CASE RouteReached
  <2>1. /\ latest_pos_idx > 0 /\ index' = 1 /\ pose_reached' = pose_to_reach
        /\ latest_pos_idx' = IF latest_pos_idx < Len(path) THEN latest_pos_idx + 1
                                                           ELSE latest_pos_idx
        /\ UNCHANGED path
    BY <1>3 DEF RouteReached
  <2>2. latest_pos_idx' \in 1..Len(path) /\ path[latest_pos_idx'] \in Clear
    BY <1>0, <2>1
  <2>3. /\ start' = pose_reached /\ finish' = path[latest_pos_idx']
        /\ route' = RoutePoints(pose_reached, path[latest_pos_idx'])
    BY <1>3 DEF RouteReached, update_graph
  <2>4. Leads(route', start', finish')
    BY <1>0, <2>2, <2>3, RouteFound
  <2>5. pose_reached' \in Clear
    BY <2>1, LegLeads
  <2>6. OnRoute'
    <3>1. route' = RoutePoints(start', finish') /\ finish' = path'[latest_pos_idx']
      BY <2>1, <2>3
    <3>2. index' < Len(route') /\ route'[index'] = start'
      BY <2>1, <2>4 DEF Leads
    <3>3. start' \in Clear /\ ~(index' > 1)
      BY <1>0, <2>1, <2>3
    <3> QED
      BY <3>1, <3>2, <3>3 DEF OnRoute, RoutePoints
  <2> QED
    BY <1>0, <2>1, <2>2, <2>5, <2>6 DEF DriveInv
<1>4. CASE UNCHANGED vars
  BY <1>4 DEF vars, DriveInv, OnRoute
<1> QED
  BY <1>1, <1>2, <1>3, <1>4 DEF Next

LEMMA LegCutsNone == ASSUME Table, Connected, DriveInv PROVE LegIsFree
<1> SUFFICES ASSUME latest_pos_idx > 0, index > 1 \/ start = pose_reached,
                    NEW i \in DOMAIN polygons
             PROVE  ~Cuts(pose_reached, pose_to_reach, polygons[i])
  BY DEF LegIsFree
<1>1. /\ Leads(route, start, finish) /\ index \in 1..(Len(route) - 1)
      /\ pose_to_reach = route[index + 1] /\ pose_to_reach \in Clear
  BY LegLeads
<1>2. pose_reached = route[index] /\ pose_reached \in Clear
  BY DEF DriveInv, OnRoute
<1>3. Free(pose_reached, pose_to_reach)
  BY <1>1, <1>2 DEF Leads
<1> QED
  BY <1>1, <1>2, <1>3, FreeLeg

LEMMA DriveLeads == ASSUME Table, Connected, DriveInv PROVE RouteLeads
<1> SUFFICES ASSUME latest_pos_idx > 0
             PROVE  index < Len(route) /\ route[Len(route)] = path[latest_pos_idx]
  BY DEF RouteLeads
<1> QED
  BY LegLeads DEF DriveInv, OnRoute, Leads

\* core/planner.c, the draft that drives along the routes: the route is always
\* one to the pose of the path that is due, and the robot is at the point of it
\* that the index tells, but for the first leg of a route that starts from the
\* pose before the robot's (set_start_finish before pose_reached is set).
THEOREM DriveInvariant == ASSUME Table, Connected PROVE Spec => []DriveInv
<1>1. Init => DriveInv
  BY InitDrive
<1>2. DriveInv /\ [Next]_vars => DriveInv'
  BY NextKeepsDrive
<1> QED
  BY <1>1, <1>2, PTL DEF Spec

\* Every leg leads on, to the pose of the path that is due and not past it.
THEOREM RoutesLead == ASSUME Table, Connected PROVE Spec => []RouteLeads
<1>1. DriveInv => RouteLeads
  BY DriveLeads
<1> QED
  BY <1>1, DriveInvariant, PTL

\* core/avoidance.c, build_avoidance_graph: on a table where a route is always
\* found no leg of the drive that starts where its route says leads through an
\* obstacle.
THEOREM RoutesAreFree == ASSUME Table, Connected PROVE Spec => []LegIsFree
<1>1. DriveInv => LegIsFree
  BY LegCutsNone
<1> QED
  BY <1>1, DriveInvariant, PTL
=============================================================================
