-------------------------------- MODULE Poly --------------------------------
(***************************************************************************)
(* Points, segments and polygons of src/spatial/poly.c, polyraycast.c,     *)
(* polyinside.c and polyintersects.c, on integer coordinates, where the    *)
(* arithmetic of the code is exact: quotients are compared by their cross  *)
(* products.  Rings are sequences of points, with the first one repeated   *)
(* at the end or not, as they are written in a WKT.                        *)
(***************************************************************************)
EXTENDS Integers, SequencesExt, FiniteSetsExt

Point(x, y) == [x |-> x, y |-> y]

geomCoord == [x : Int, y : Int]

\* Of three numbers, whether the first is between the others, in either order.
Between(n, m, k) == (m <= n /\ n <= k) \/ (k <= n /\ n <= m)

\* How far p is on the left or on the right of the line through a and b.
Side(a, b, p) == (b.x - a.x) * (p.y - a.y) - (b.y - a.y) * (p.x - a.x)

-----------------------------------------------------------------------------
(***************************************************************************)
(* polyRaycast: a point on a segment, or on the left of where the segment  *)
(* crosses the point's horizontal, which is without the segment's upper    *)
(* end.                                                                    *)
(***************************************************************************)
\* Mutant: both ends count.
CrossesBoth(p, a, b) == (a.y >= p.y) # (b.y >= p.y) \/ a.y = p.y \/ b.y = p.y

Crosses(p, a, b) == (a.y > p.y) # (b.y > p.y)

polyRaycast(p, a, b) ==
    IF a = b THEN IF p = a THEN "on" ELSE "out"
    ELSE IF Between(p.x, a.x, b.x) /\ Between(p.y, a.y, b.y) /\ Side(a, b, p) = 0 THEN "on"
    ELSE IF /\ Crosses(p, a, b)
            /\ IF a.y < b.y THEN Side(a, b, p) > 0 ELSE Side(a, b, p) < 0
         THEN "left" ELSE "out"

Edge(ring, n) == <<ring[n], ring[(n % Len(ring)) + 1]>>

\* Whether p is inside of a ring, or exterior when it is on it.
insideshpext(p, shape, exterior) ==
    LET ray(n) == polyRaycast(p, Edge(shape, n)[1], Edge(shape, n)[2])
    IN  IF \E n \in DOMAIN shape : ray(n) = "on" THEN exterior
        ELSE Cardinality({n \in DOMAIN shape : ray(n) = "left"}) % 2 = 1

\* Inside of a polygon, and in none of its holes (but their edges).
polyPointInside(p, exterior, holes) ==
    insideshpext(p, exterior, TRUE) /\ ~\E h \in DOMAIN holes : insideshpext(p, holes[h], FALSE)

-----------------------------------------------------------------------------
(***************************************************************************)
(* lineintersects: whether segment a b meets segment c d.                  *)
(***************************************************************************)
Apart(m, n, k, l) == (m > k /\ m > l /\ n > k /\ n > l) \/ (m < k /\ m < l /\ n < k /\ n < l)

\* A quotient of at least 0 and at most 1.
Fraction(n, d) == IF d > 0 THEN 0 <= n /\ n <= d ELSE d <= n /\ n <= 0

\* Mutant: the segments are taken for lines.
lineintersectsLines(a, b, c, d) ==
    Side(a, b, c) # 0 /\ (b.x - a.x) * (d.y - c.y) # (b.y - a.y) * (d.x - c.x)

lineintersects(a, b, c, d) ==
    LET cross(p, q, r, s) == (q.x - p.x) * (s.y - r.y) - (q.y - p.y) * (s.x - r.x)
        cmpxr == cross(a, c, a, b)
        cmpxs == cross(a, c, c, d)
        rxs == cross(a, b, c, d)
    IN  /\ ~Apart(a.y, b.y, c.y, d.y)
        /\ ~Apart(a.x, b.x, c.x, d.x)
        /\ IF cmpxr = 0
           THEN (c.x <= a.x) # (c.x <= b.x) \/ (c.y <= a.y) # (c.y <= b.y)
           ELSE rxs # 0 /\ Fraction(cmpxs, rxs) /\ Fraction(cmpxr, rxs)

-----------------------------------------------------------------------------
(***************************************************************************)
(* A segment, or a polygon, and a polygon.                                 *)
(***************************************************************************)
polyLineIntersect(a, b, exterior, holes) ==
    \/ polyPointInside(a, exterior, holes)
    \/ polyPointInside(b, exterior, holes)
    \/ \E n \in DOMAIN exterior : lineintersects(a, b, Edge(exterior, n)[1], Edge(exterior, n)[2])

\* The edges that a segment crosses with neither of its ends on them are counted.
polyLineInside(a, b, exterior, holes) ==
    LET crossed == {n \in DOMAIN exterior :
                      LET e == Edge(exterior, n)
                      IN  /\ lineintersects(a, b, e[1], e[2])
                          /\ polyRaycast(a, e[1], e[2]) # "on"
                          /\ polyRaycast(b, e[1], e[2]) # "on"}
    IN  /\ polyPointInside(a, exterior, holes)
        /\ polyPointInside(b, exterior, holes)
        /\ Cardinality(crossed) % 2 = 0

\* polyPolygonInside without holes, as it is called: all the points of a ring are inside.
RingInside(shape, exterior) == \A n \in DOMAIN shape : polyPointInside(shape[n], exterior, <<>>)

\* The rectangle around a ring, and the zeroed one when it has no points.
polyPolygonRect(ring) ==
    LET xs == {p.x : p \in Range(ring)}
        ys == {p.y : p \in Range(ring)}
    IN  IF ring = <<>> THEN [min |-> Point(0, 0), max |-> Point(0, 0)]
        ELSE [min |-> Point(Min(xs), Min(ys)), max |-> Point(Max(xs), Max(ys))]

polyRectIntersectsRect(r, rect) ==
    /\ r.min.y <= rect.max.y /\ r.max.y >= rect.min.y
    /\ r.min.x <= rect.max.x /\ r.max.x >= rect.min.x

\* A ring of one point is a point.  Two of them are compared by their x only.
PointOr(shape, exterior, holes, otherwise) ==
    CASE shape = <<>> \/ exterior = <<>> -> FALSE
      [] Len(shape) = 1 /\ Len(exterior) = 1 -> shape[1].x = exterior[1].x
      [] Len(shape) = 1 /\ Len(exterior) > 1 -> polyPointInside(shape[1], exterior, holes)
      [] Len(shape) > 1 /\ Len(exterior) = 1 -> polyPointInside(exterior[1], shape, holes)
      [] OTHER -> otherwise

\* One ring is inside of the other, and not in a hole of it.
polyPolygonContains(shape, exterior, holes) ==
    PointOr(shape, exterior, holes,
        /\ ~\E h \in DOMAIN holes : RingInside(shape, holes[h])
        /\ RingInside(shape, exterior) \/ RingInside(exterior, shape))

\* Mutant: the edges only.
polyPolygonIntersectsEdges(shape, exterior, holes) ==
    \E n \in DOMAIN shape, m \in DOMAIN exterior :
        lineintersects(Edge(shape, n)[1], Edge(shape, n)[2], Edge(exterior, m)[1], Edge(exterior, m)[2])

polyPolygonIntersects(shape, exterior, holes) ==
    PointOr(shape, exterior, holes,
        /\ polyRectIntersectsRect(polyPolygonRect(shape), polyPolygonRect(exterior))
        /\ \/ \E n \in DOMAIN shape, m \in DOMAIN exterior :
                 lineintersects(Edge(shape, n)[1], Edge(shape, n)[2], Edge(exterior, m)[1], Edge(exterior, m)[2])
           \/ polyPolygonContains(shape, exterior, holes))
=============================================================================
