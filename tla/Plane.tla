------------------------------- MODULE Plane -------------------------------
(***************************************************************************)
(* What the predicates of Poly and PolyMap are checked against: segments,  *)
(* triangles and simple quadrilaterals of the plane, with their edges, by  *)
(* nothing but on which side of a line a point is.                         *)
(***************************************************************************)
EXTENDS Integers, SequencesExt

PlaneSide(a, b, p) == (b.x - a.x) * (p.y - a.y) - (b.y - a.y) * (p.x - a.x)

BoxesMeet(a, b, c, d) ==
    /\ \E p, q \in {a, b}, r, s \in {c, d} : p.x <= r.x /\ q.x >= s.x
    /\ \E p, q \in {a, b}, r, s \in {c, d} : p.y <= r.y /\ q.y >= s.y

\* Two segments have a point in common.
SegmentsMeet(a, b, c, d) ==
    /\ BoxesMeet(a, b, c, d)
    /\ PlaneSide(a, b, c) * PlaneSide(a, b, d) <= 0
    /\ PlaneSide(c, d, a) * PlaneSide(c, d, b) <= 0

OnSegment(p, a, b) == SegmentsMeet(p, p, a, b)

\* The vertices of a ring, which may repeat its first point at the end.
Corners(ring) == IF Len(ring) > 1 /\ Last(ring) = Head(ring) THEN Front(ring) ELSE ring

InTriangle(p, t) ==
    LET sides == {PlaneSide(t[1], t[2], p), PlaneSide(t[2], t[3], p), PlaneSide(t[3], t[1], p)}
    IN  (\A side \in sides : side >= 0) \/ (\A side \in sides : side <= 0)

\* A quadrilateral is cut along a diagonal that has a corner on either side.
Pieces(c) ==
    IF Len(c) = 3 THEN {c}
    ELSE IF PlaneSide(c[1], c[3], c[2]) * PlaneSide(c[1], c[3], c[4]) < 0
    THEN {<<c[1], c[2], c[3]>>, <<c[1], c[3], c[4]>>}
    ELSE {<<c[2], c[3], c[4]>>, <<c[2], c[4], c[1]>>}

Covers(ring, p) == \E t \in Pieces(Corners(ring)) : InTriangle(p, t)

OnEdge(ring, p) ==
    LET c == Corners(ring)
    IN  \E n \in DOMAIN c : OnSegment(p, c[n], c[(n % Len(c)) + 1])

\* A point of a polygon that is not in the open inside of a hole.
InRegion(rings, p) ==
    /\ Covers(Head(rings), p)
    /\ \A n \in 2 .. Len(rings) : Covers(rings[n], p) => OnEdge(rings[n], p)

\* An edge of triangle s has all of triangle t on its outer side.
Separates(s, t) ==
    \E n \in 1 .. 3 :
        LET a == s[n]
            b == s[(n % 3) + 1]
            inner == PlaneSide(s[1], s[2], s[3])
        IN  \A k \in 1 .. 3 : PlaneSide(a, b, t[k]) * inner < 0

TrianglesMeet(s, t) == ~Separates(s, t) /\ ~Separates(t, s)

\* Whether a ring with four corners, no three of them on a line, does not cross itself.
SimpleQuad(c) ==
    /\ \A n \in 1 .. 4 : PlaneSide(c[n], c[(n % 4) + 1], c[((n + 1) % 4) + 1]) # 0
    /\ ~SegmentsMeet(c[1], c[2], c[3], c[4])
    /\ ~SegmentsMeet(c[2], c[3], c[4], c[1])
=============================================================================
