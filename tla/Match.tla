------------------------------- MODULE Match -------------------------------
(***************************************************************************)
(* One search command on a key with one field: the walk of the index with  *)
(* the bounds of the target, and matchSearch of src/spatial.c for what is  *)
(* found.  Search has the rest of the command.  A target is a geometry, or  *)
(* the circle of RADIUS and MEMBER; to a geometry that is not a point a    *)
(* circle is a polygon of twelve sides, and not here.                      *)
(***************************************************************************)
EXTENDS PolyMap, Plane, Geoutil

CONSTANTS
    Cases,      \* pairs of a geometry to store and a target to search with
    Searches    \* the commands to search with

VARIABLES
    stored,     \* the value of the field
    target,     \* the target of the command
    search,     \* its search type
    answer      \* "hit" or "miss", and "none" before

vars == <<stored, target, search, answer>>

(***************************************************************************)
(* A search type is named by its command: SEARCH is INTERSECTS, CONTAINS   *)
(* is EX_CONTAINS and INTERSECTS is EX_INTERSECTS in the code.             *)
(***************************************************************************)
SearchTypes == {"SEARCH", "WITHIN", "CONTAINS", "INTERSECTS"}

ASSUME SearchesAssumption == Searches \subseteq SearchTypes

Circle(center, meters) == [type |-> "RADIUS", center |-> center, meters |-> meters]

ASSUME CasesAssumption ==
    \A case \in Cases :
        LET g == case[1]
            t == case[2]
        IN  /\ IsGeometry(g)
            /\ IF t.type = "RADIUS" THEN g.type = "POINT" /\ HasDistance(g.body, t.center) /\ t.meters \in Nat
               ELSE IsGeometry(t)

IsRadius == target.type = "RADIUS"

matchGeometry(g, targetMap, searchType) ==
    LET m == geomNewPolyMap(g)
    IN  \/ searchType = "WITHIN" /\ geomPolyMapWithin(m, targetMap)
        \/ searchType = "SEARCH" /\ geomPolyMapIntersects(m, targetMap)
        \/ searchType = "CONTAINS" /\ geomPolyMapContains(m, targetMap)
        \/ searchType = "INTERSECTS" /\ geomPolyMapExIntersects(m, targetMap)

\* A point and a circle meet by their distance, whatever the search type.
matchSearch(g, searchType) ==
    IF IsRadius THEN geomCoordWithinRadius(g.body, target.center, target.meters)
    ELSE matchGeometry(g, geomNewPolyMap(target), searchType)

bounds ==
    IF IsRadius THEN geoutilBoundsFromLatLon(target.center, target.meters) ELSE geomBounds(target)

Init ==
    /\ \E case \in Cases : stored = case[1] /\ target = case[2]
    /\ search \in Searches
    /\ answer = "none"

\* The index has the field under the bounds of its geometry.
Found == polyRectIntersectsRect(geomBounds(stored), bounds)

ExGisSearch ==
    /\ answer = "none"
    /\ answer' = IF Found /\ matchSearch(stored, search) THEN "hit" ELSE "miss"
    /\ UNCHANGED <<stored, target, search>>

Spec == Init /\ [][ExGisSearch]_vars

Answered(Expected) == answer # "none" => (answer = "hit" <=> Expected)

-----------------------------------------------------------------------------
(***************************************************************************)
(* A polygon with a point: GIS.CONTAINS, GIS.INTERSECTS and GIS.SEARCH     *)
(* find the points of the polygon's region, its edges and the edges of its *)
(* holes included, whatever its shape, the direction of its rings and      *)
(* where they begin, and whether they are closed in the WKT or not; and so *)
(* do GIS.WITHIN and the others for a stored point, with a polygon as the  *)
(* target.  The horizontal through the point may go through vertices and   *)
(* along edges.                                                            *)
(***************************************************************************)
PointsExact ==
    /\ stored.type = "POLYGON" /\ target.type = "POINT" /\ search # "WITHIN" =>
           Answered(InRegion(stored.body, target.body))
    /\ stored.type = "POINT" /\ target.type = "POLYGON" /\ search # "CONTAINS" =>
           Answered(InRegion(target.body, stored.body))

(***************************************************************************)
(* Two lines of two points: GIS.INTERSECTS finds those that have a point   *)
(* in common, vertical, horizontal and touching ones included, unless the  *)
(* last point of the target is in line with the stored one; and it never   *)
(* finds lines that have none.  So far is lineintersects right.            *)
(***************************************************************************)
IsSegment(g) == g.type = "LINESTRING" /\ Len(g.body) = 2

SegmentsExact ==
    IsSegment(stored) /\ IsSegment(target) /\ search = "INTERSECTS" =>
        LET s == stored.body
            t == target.body
            meet == SegmentsMeet(s[1], s[2], t[1], t[2])
        IN  /\ answer = "hit" => meet
            /\ answer = "miss" /\ meet => PlaneSide(s[1], s[2], t[2]) = 0

(***************************************************************************)
(* Two triangles: GIS.INTERSECTS and GIS.SEARCH find those that have a     *)
(* point in common, if only a vertex or a part of an edge, and no others.  *)
(* GIS.CONTAINS finds all that the given one is included in, with edges    *)
(* that coincide, too, and none that the given one does not meet.          *)
(***************************************************************************)
IsTriangle(g) ==
    /\ g.type = "POLYGON" /\ Len(g.body) = 1
    /\ LET c == Corners(Head(g.body)) IN Len(c) = 3 /\ PlaneSide(c[1], c[2], c[3]) # 0

TrianglesExact ==
    IsTriangle(stored) /\ IsTriangle(target) =>
        LET s == Corners(Head(stored.body))
            t == Corners(Head(target.body))
        IN  /\ search \in {"SEARCH", "INTERSECTS"} => Answered(TrianglesMeet(s, t))
            /\ search = "CONTAINS" /\ answer = "hit" => TrianglesMeet(s, t)
            /\ search = "CONTAINS" /\ answer = "miss" => \E p \in Range(t) : ~Covers(s, p)

(***************************************************************************)
(* GIS.WITHIN finds the triangles with all of their points in the target.  *)
(***************************************************************************)
WithinExact ==
    IsTriangle(stored) /\ IsTriangle(target) /\ search = "WITHIN" =>
        Answered(\A p \in Range(Head(stored.body)) : Covers(Head(target.body), p))

(***************************************************************************)
(* A stored geometry of several parts is found if one of its parts were    *)
(* found for itself, and by GIS.WITHIN if all of them were: its bounds     *)
(* leave none of them out, and its geomPolyMap none and nothing of one.    *)
(* A MULTIPOLYGON of one polygon is not among them.                        *)
(***************************************************************************)
Members(g) ==
    LET of(type) == {Geometry(type, body) : body \in Range(g.body)}
    IN  CASE g.type = "MULTIPOINT" -> of("POINT")
          [] g.type = "MULTILINESTRING" -> of("LINESTRING")
          [] g.type = "MULTIPOLYGON" -> of("POLYGON")
          [] g.type = "GEOMETRYCOLLECTION" -> Range(g.body)
          [] OTHER -> {g}

FoundAlone(g) ==
    /\ polyRectIntersectsRect(geomBounds(g), bounds)
    /\ matchSearch(g, search)

PartsAgree ==
    Members(stored) # {stored} =>
        Answered(IF search = "WITHIN" THEN \A g \in Members(stored) : FoundAlone(g)
                 ELSE \E g \in Members(stored) : FoundAlone(g))

(***************************************************************************)
(* A circle with the points around it, centres at the edges of the map     *)
(* included: what a search finds is not farther away than the radius, and  *)
(* the rectangle by which it walks the index leaves out nothing that is    *)
(* near enough, its own rim and what is close to a pole included, as long  *)
(* as the circle is narrower than a hemisphere and does not reach the      *)
(* antimeridian; RadiusFound below is about those that do.                 *)
(***************************************************************************)
ToAntimeridian == Turn(180 - target.center.x)

RadiusExact ==
    IsRadius =>
        LET near == geoutilDistance(stored.body, target.center) <= target.meters
        IN  /\ answer = "hit" => near
            /\ target.meters < ToAntimeridian /\ target.meters < 90 => Answered(near)

-----------------------------------------------------------------------------
(***************************************************************************)
(* What the code does otherwise.  "Each geometry is reduced down to a      *)
(* POINT, LINESTRING, or POLYGON", says geom.h of geomPolyMap: a           *)
(* MULTIPOLYGON of one polygon is found where the polygon is.              *)
(***************************************************************************)
SinglePolygonFound ==
    stored.type = "MULTIPOLYGON" /\ Len(stored.body) = 1 =>
        Answered(\E g \in Members(stored) : FoundAlone(g))

(***************************************************************************)
(* A search in a circle finds the points of the target area within the     *)
(* radius, as README.md says, and its centre above all.                    *)
(***************************************************************************)
RadiusFound ==
    IsRadius /\ answer = "miss" => geoutilDistance(stored.body, target.center) > target.meters

(***************************************************************************)
(* GIS.INTERSECTS finds the polygons that the given line intersects with,  *)
(* as README.md says: one of its segments meets an edge or is inside.      *)
(***************************************************************************)
LineMeets(line, ring) ==
    LET c == Corners(ring)
    IN  \/ \E p \in Range(line) : Covers(ring, p)
        \/ \E n \in 1 .. Len(line) - 1, k \in DOMAIN c :
              SegmentsMeet(line[n], line[n + 1], c[k], c[(k % Len(c)) + 1])

LineExact ==
    search = "INTERSECTS" /\ target.type = "LINESTRING" => Answered(LineMeets(target.body, Head(stored.body)))
=============================================================================
