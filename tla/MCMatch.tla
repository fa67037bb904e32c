------------------------------ MODULE MCMatch ------------------------------
(***************************************************************************)
(* Instances of Match for TLC, on a grid whose coordinates begin at 1: the *)
(* points that a MULTIPOLYGON of one polygon is misread as are outside.    *)
(***************************************************************************)
EXTENDS Match

Closed(c) == Append(c, Head(c))

\* Corners on a grid of 3 by 3, and points half-way between them, too.
Vertices == {Point(x, y) : x, y \in {1, 3, 5}}
Everywhere == {Point(x, y) : x, y \in 1 .. 5}

Triangles == {t \in [1 .. 3 -> Vertices] : PlaneSide(t[1], t[2], t[3]) # 0}
Quads == {q \in [1 .. 4 -> Vertices] : SimpleQuad(q)}

Polygon(rings) == Geometry("POLYGON", rings)
AsPoint(p) == Geometry("POINT", p)

\* A square with a hole that is a triangle.
Square == <<Point(1, 1), Point(5, 1), Point(5, 5), Point(1, 5), Point(1, 1)>>
HoleTriangles == {t \in [1 .. 3 -> {Point(x, y) : x, y \in 2 .. 4}] : PlaneSide(t[1], t[2], t[3]) > 0}
WithHole == {Polygon(<<Square, Closed(h)>>) : h \in HoleTriangles}

Shapes ==
    {Polygon(<<t>>) : t \in Triangles} \union {Polygon(<<Closed(q)>>) : q \in Quads} \union WithHole

Points25 == {AsPoint(p) : p \in Everywhere}

\* A polygon with a point, and a point with a polygon.
MCPointCases == (Shapes \X Points25) \union (Points25 \X Shapes)

\* Every triangle, in both directions and from every corner, with every triangle.
LeastFirst(t) ==
    /\ PlaneSide(t[1], t[2], t[3]) > 0
    /\ \A n \in 2 .. 3 : t[1].x < t[n].x \/ (t[1].x = t[n].x /\ t[1].y < t[n].y)

EveryTriangle == {Polygon(<<Closed(t)>>) : t \in Triangles}

\* Large triangles and small ones, one inside of the other without touching it, or not.
Large == {Polygon(<<Closed(t)>>) : t \in {<<Point(1, 1), Point(5, 1), Point(1, 5)>>, <<Point(5, 5), Point(5, 1), Point(1, 5)>>}}
Small == {Polygon(<<Closed(t)>>) : t \in {u \in [1 .. 3 -> Everywhere] : LeastFirst(u)}}

MCTriangleCases ==
    (EveryTriangle \X {Polygon(<<Closed(t)>>) : t \in {u \in Triangles : LeastFirst(u)}})
        \union (Large \X Small) \union (Small \X Large)

\* Parts that are far from one another, near to one another and one in the other.
SomePoints == {Point(1, 1), Point(2, 2), Point(5, 3)}
SomeLines == {<<Point(1, 1), Point(3, 3)>>, <<Point(1, 5), Point(5, 5), Point(5, 3)>>, <<Point(2, 1), Point(2, 5)>>}
SomeTriangles == {<<Point(1, 1), Point(3, 1), Point(1, 3)>>, <<Point(5, 1), Point(5, 5), Point(3, 5)>>,
                  <<Point(1, 1), Point(5, 1), Point(1, 5)>>}
SomePolygons == {<<Closed(t)>> : t \in SomeTriangles} \union {<<Square, <<Point(2, 2), Point(2, 4), Point(4, 2)>>>>}

Sequences2(S) == {<<x, y>> : x, y \in S}

Singles ==
    {AsPoint(p) : p \in SomePoints} \union {Geometry("LINESTRING", l) : l \in SomeLines}
        \union {Polygon(q) : q \in SomePolygons}

Multis ==
    {Geometry("MULTIPOINT", s) : s \in Sequences2(SomePoints)}
        \union {Geometry("MULTILINESTRING", s) : s \in Sequences2(SomeLines)}
        \union {Geometry("MULTIPOLYGON", s) : s \in Sequences2(SomePolygons)}

Collections == {Geometry("GEOMETRYCOLLECTION", s) : s \in Sequences2(Singles)}

Nested ==
    {Geometry("GEOMETRYCOLLECTION", <<x, Geometry("GEOMETRYCOLLECTION", <<y, z>>)>>) :
        x \in Multis, y \in {AsPoint(Point(5, 3))}, z \in Singles}

MCPartCases == (Multis \union Collections \union Nested) \X (Singles \union Points25)

\* For what the code does otherwise.
MCSingleCases == {Geometry("MULTIPOLYGON", <<q>>) : q \in SomePolygons} \X Points25

MCLineCases ==
    {Polygon(<<Closed(<<Point(2, 1), Point(4, 1), Point(3, 3)>>)>>)}
        \X {Geometry("LINESTRING", l) : l \in [1 .. 3 -> Everywhere]}

\* Two lines of two points each.
Ends == {Point(x, y) : x, y \in {1, 3, 5, 7}}
Segments == {Geometry("LINESTRING", l) : l \in [1 .. 2 -> Ends]}
MCSegmentCases == Segments \X Segments

\* Circles and points whose distances are never the radius, where rounding would decide.
Centers == {Point(x, 0) : x \in {-180, -172, -90, 0, 45, 170, 172, 180}}
Radii == {5, 25, 55, 65, 88, 95, 115, 173, 185}
Around == {Point(x, 0) : x \in {-180, -170, -160, -90, 0, 12, 45, 60, 103, 130, 170, 180}}
              \union {Point(x, y) : x \in {0, 45, 90, 180}, y \in {-90, -80, -30, 30, 80, 90}}
              \union {Point(x, y) : x \in {-45, 0, 45, 90, 135}, y \in {-45, 45}}

MCCircleCases ==
    {<<AsPoint(pair[1]), Circle(pair[2], r)>> :
        pair \in {pair \in Around \X Centers : HasDistance(pair[1], pair[2])}, r \in Radii}

\* Those narrower than a hemisphere.
MCAntimeridianCases == {case \in MCCircleCases : case[2].meters < 90}

MCCases == MCPointCases \union MCSegmentCases \union MCTriangleCases \union MCPartCases \union MCCircleCases
=============================================================================
