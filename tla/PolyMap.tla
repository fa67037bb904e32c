------------------------------ MODULE PolyMap ------------------------------
(***************************************************************************)
(* Geometries, their bounds (src/spatial/geom_levels.c), their flattened   *)
(* form geomPolyMap (geom_polymap.c) and the predicates on it (geom.c).    *)
(*                                                                         *)
(* A geometry is a record of its type and its body, as it is encoded: the  *)
(* point of a POINT, a sequence of points (MULTIPOINT, LINESTRING), of     *)
(* rings or lines (POLYGON, MULTILINESTRING), of polygons (MULTIPOLYGON)   *)
(* or of geometries (GEOMETRYCOLLECTION).                                  *)
(***************************************************************************)
EXTENDS Poly

CONSTANT MaxDepth   \* how deep collections are in one another, a bound of the instances

ASSUME DepthAssumption == MaxDepth \in Nat

Geometry(type, body) == [type |-> type, body |-> body]

-----------------------------------------------------------------------------
(***************************************************************************)
(* The geometries of a collection that are no collections, or have no      *)
(* members, in their order: its members, with the members of the           *)
(* collections among them in their place, and so on.                       *)
(***************************************************************************)
HasMembers(g) == g.type = "GEOMETRYCOLLECTION" /\ g.body # <<>>

Opened(gs) == FlattenSeq([n \in DOMAIN gs |-> IF HasMembers(gs[n]) THEN gs[n].body ELSE <<gs[n]>>])

Leaves(g) ==
    LET level[k \in 0 .. MaxDepth] == IF k = 0 THEN <<g>> ELSE Opened(level[k - 1])
    IN  level[MaxDepth]

IsPlain(g) ==
    CASE g.type = "POINT" -> g.body \in geomCoord
      [] g.type \in {"MULTIPOINT", "LINESTRING"} -> g.body \in Seq(geomCoord)
      [] g.type \in {"MULTILINESTRING", "POLYGON"} -> g.body \in Seq(Seq(geomCoord))
      [] g.type = "MULTIPOLYGON" -> g.body \in Seq(Seq(Seq(geomCoord)))
      [] OTHER -> g.type = "GEOMETRYCOLLECTION" /\ g.body = <<>>

\* MaxDepth is enough: what Leaves has is not to be opened.
IsGeometry(g) ==
    IF g.type = "GEOMETRYCOLLECTION" THEN \A n \in DOMAIN Leaves(g) : IsPlain(Leaves(g)[n]) ELSE IsPlain(g)

-----------------------------------------------------------------------------
\* Mutant: the bounds of the last one.
UnionOfLast(rects) == IF rects = <<>> THEN polyPolygonRect(<<>>) ELSE Last(rects)

\* geomRectExpand with both corners of each of the other rectangles.
UnionOf(rects) == polyPolygonRect(FlattenSeq([n \in DOMAIN rects |-> <<rects[n].min, rects[n].max>>]))

\* Of a polygon, the outer ring only.
PolygonBounds(rings) == IF rings = <<>> THEN polyPolygonRect(<<>>) ELSE polyPolygonRect(Head(rings))

\* Of anything but a collection: a collection without members has the zeroed rectangle.
PlainBounds(g) ==
    CASE g.type = "POINT" -> polyPolygonRect(<<g.body>>)
      [] g.type \in {"MULTIPOINT", "LINESTRING"} -> polyPolygonRect(g.body)
      [] g.type = "POLYGON" -> PolygonBounds(g.body)
      [] g.type = "MULTILINESTRING" -> UnionOf([n \in DOMAIN g.body |-> polyPolygonRect(g.body[n])])
      [] g.type = "MULTIPOLYGON" -> UnionOf([n \in DOMAIN g.body |-> PolygonBounds(g.body[n])])
      [] OTHER -> polyPolygonRect(<<>>)

geomBounds(g) ==
    IF g.type = "GEOMETRYCOLLECTION" THEN UnionOf([n \in DOMAIN Leaves(g) |-> PlainBounds(Leaves(g)[n])])
    ELSE PlainBounds(g)

-----------------------------------------------------------------------------
\* One of the polygons of a geomPolyMap, with its type and its holes.
Part(type, ring, holes) == [type |-> type, ring |-> ring, holes |-> holes]

PolygonPart(rings) ==
    IF rings = <<>> THEN Part("POLYGON", <<>>, <<>>) ELSE Part("POLYGON", Head(rings), Tail(rings))

(***************************************************************************)
(* A MULTIPOLYGON of one polygon is read as a POLYGON, one level too high: *)
(* as many points as that polygon has rings, each made of a count and the  *)
(* halves of coordinates, and of a type no predicate knows.  Where the     *)
(* lower halves are 0, as in all coordinates of few digits, these points   *)
(* are closer to zero than any coordinate.                                 *)
(***************************************************************************)
SinglePolygon(polygons) ==
    LET rings == IF polygons = <<>> THEN <<>> ELSE Head(polygons)
    IN  Part("MULTIPOLYGON", [n \in DOMAIN rings |-> Point(0, 0)], <<>>)

PointPart(p) == Part("POINT", <<p>>, <<>>)

LinePart(line) == Part("LINESTRING", line, <<>>)

\* Of anything but a collection: a collection without members has no parts.
PlainParts(g) ==
    CASE g.type = "POINT" -> <<PointPart(g.body)>>
      [] g.type = "LINESTRING" -> <<LinePart(g.body)>>
      [] g.type = "POLYGON" -> <<PolygonPart(g.body)>>
      [] g.type = "MULTIPOINT" -> [n \in DOMAIN g.body |-> PointPart(g.body[n])]
      [] g.type = "MULTILINESTRING" -> [n \in DOMAIN g.body |-> LinePart(g.body[n])]
      [] g.type = "MULTIPOLYGON" /\ Len(g.body) <= 1 -> <<SinglePolygon(g.body)>>
      [] g.type = "MULTIPOLYGON" /\ Len(g.body) > 1 ->
            [n \in DOMAIN g.body |->
                IF g.body[n] = <<>> THEN Part("NONE", <<>>, <<>>) ELSE PolygonPart(g.body[n])]
      [] OTHER -> <<>>

\* A collection is flattened, and the parts of its members are one after the other.
geomNewPolyMap(g) ==
    IF g.type = "GEOMETRYCOLLECTION" THEN FlattenSeq([n \in DOMAIN Leaves(g) |-> PlainParts(Leaves(g)[n])])
    ELSE PlainParts(g)

-----------------------------------------------------------------------------
(***************************************************************************)
(* The predicates go through the parts of a map until one passes the test, *)
(* or has a type that the predicate does not know.                         *)
(***************************************************************************)
Points == {"POINT"}
Lines == {"POINT", "LINESTRING"}
Surfaces == {"POINT", "LINESTRING", "POLYGON"}

Reached(m, known) == {m[n] : n \in {k \in DOMAIN m : \A j \in 1 .. k : m[j].type \in known}}

\* What the loops over a line take for its segments: the second one, the third one and so on,
\* and from its last point to its first one.
Legs(line) == {Edge(line, n) : n \in 2 .. Len(line)}

\* What they take when both ends of a segment are the same point.
Stops(line) == {<<line[n], line[n]>> : n \in 2 .. Len(line)}

On(p, a, b) == polyRaycast(p, a, b) = "on"

\* A double in the code: the instances take lines whose centres are points of the grid.
lineCenter(a, b) == Point((a.x + b.x) \div 2, (a.y + b.y) \div 2)

pointContains(a, m) == \E part \in Reached(m, Points) : a = part.ring[1]

pointWithin(a, m) ==
    \E part \in Reached(m, Surfaces) :
        \/ part.type = "POINT" /\ a = part.ring[1]
        \/ part.type = "LINESTRING" /\ \E leg \in Legs(part.ring) : On(a, leg[1], leg[2])
        \/ part.type = "POLYGON" /\ polyPointInside(a, part.ring, part.holes)

lineIntersects(a, b, m) ==
    \E part \in Reached(m, Lines) :
        \/ part.type = "POINT" /\ On(part.ring[1], a, b)
        \/ part.type = "LINESTRING" /\ \E stop \in Stops(part.ring) : lineintersects(a, b, stop[1], stop[2])

lineContains(a, b, m) ==
    \E part \in Reached(m, Lines) :
        \/ part.type = "POINT" /\ On(part.ring[1], a, b)
        \/ /\ part.type = "LINESTRING"
           /\ \E leg \in Legs(part.ring) : On(leg[1], a, b) /\ On(leg[2], a, b) /\ On(lineCenter(a, b), a, b)

lineExIntersects(a, b, m) ==
    LET along(c, d) == On(c, a, b) /\ On(d, a, b) /\ On(a, b, lineCenter(c, d))
    IN  \E part \in Reached(m, Surfaces) :
            \/ part.type = "POINT" /\ On(part.ring[1], a, b)
            \/ /\ part.type = "LINESTRING"
               /\ \E leg \in Legs(part.ring) :
                     lineintersects(a, b, leg[1], leg[2]) /\ ~along(leg[1], leg[2])
            \/ /\ part.type = "POLYGON"
               /\ \E p \in {a, b} : polyPointInside(p, part.ring, part.holes)

polygonContains(polygon, holes, m) ==
    \E part \in Reached(m, Surfaces) :
        \/ part.type = "POINT" /\ polyPointInside(part.ring[1], polygon, holes)
        \/ /\ part.type = "LINESTRING"
           /\ \E leg \in Legs(part.ring) : polyLineInside(leg[1], leg[2], polygon, holes)
        \/ part.type = "POLYGON" /\ polyPolygonContains(polygon, part.ring, part.holes)

polygonIntersects(polygon, holes, m) ==
    \E part \in Reached(m, Surfaces) :
        \/ part.type = "POINT" /\ polyPointInside(part.ring[1], polygon, holes)
        \/ /\ part.type = "LINESTRING"
           /\ \E stop \in Stops(part.ring) : polyPointInside(stop[1], polygon, holes)
        \/ part.type = "POLYGON" /\ polyPolygonIntersects(polygon, part.ring, part.holes)

polygonExIntersects(polygon, holes, m) ==
    \E part \in Reached(m, Surfaces) :
        \/ part.type = "POINT" /\ polyPointInside(part.ring[1], polygon, holes)
        \/ /\ part.type = "LINESTRING"
           /\ \E leg \in Legs(part.ring) : polyLineIntersect(leg[1], leg[2], polygon, holes)
        \/ part.type = "POLYGON" /\ polyPolygonIntersects(polygon, part.ring, part.holes)

geomPolyMapIntersects(m1, m2) ==
    \E part \in Reached(m1, Surfaces) :
        \/ part.type = "POINT" /\ pointWithin(part.ring[1], m2)
        \/ part.type = "LINESTRING" /\ \E stop \in Stops(part.ring) : lineIntersects(stop[1], stop[2], m2)
        \/ part.type = "POLYGON" /\ polygonIntersects(part.ring, part.holes, m2)

\* Mutant: one point of each part is enough.
geomPolyMapWithinSome(m1, m2) ==
    m1 # <<>> /\ \A n \in DOMAIN m1 : \E k \in DOMAIN m1[n].ring : pointWithin(m1[n].ring[k], m2)

\* The vertices, whatever is between them, and whatever the type of their part.
geomPolyMapWithin(m1, m2) ==
    m1 # <<>> /\ \A n \in DOMAIN m1 : \A k \in DOMAIN m1[n].ring : pointWithin(m1[n].ring[k], m2)

geomPolyMapContains(m1, m2) ==
    \E part \in Reached(m1, Surfaces) :
        \/ part.type = "POINT" /\ pointContains(part.ring[1], m2)
        \/ part.type = "LINESTRING" /\ \E leg \in Legs(part.ring) : lineContains(leg[1], leg[2], m2)
        \/ part.type = "POLYGON" /\ polygonContains(part.ring, part.holes, m2)

geomPolyMapExIntersects(m1, m2) ==
    \E part \in Reached(m1, Surfaces) :
        \/ part.type = "POINT" /\ pointWithin(part.ring[1], m2)
        \/ part.type = "LINESTRING" /\ \E leg \in Legs(part.ring) : lineExIntersects(leg[1], leg[2], m2)
        \/ part.type = "POLYGON" /\ polygonExIntersects(part.ring, part.holes, m2)
=============================================================================
