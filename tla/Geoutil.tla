------------------------------- MODULE Geoutil ------------------------------
(***************************************************************************)
(* The great circles of src/spatial/geoutil.c, where they can be walked in *)
(* whole degrees: along a meridian, over a pole and beyond, and along the  *)
(* equator.  A distance is an angle, that is to say in units of the        *)
(* earth's radius.  x is a longitude, y is a latitude.                     *)
(***************************************************************************)
EXTENDS Integers

abs(n) == IF n < 0 THEN -n ELSE n

\* asin(sin(a)): the latitude after a degrees from the equator towards a pole.
Folded(a) == LET turn == (a + 90) % 360 IN IF turn <= 180 THEN turn - 90 ELSE 270 - turn

\* Normalised to -180 .. 180, where 180 itself becomes -180.
Normalised(a) == ((a + 180) % 360) - 180

\* The angle of a turn by a degrees in either direction.
Turn(a) == abs(Normalised(a))

\* A longitude and a latitude.
IsCoord(p) == p.x \in -180 .. 180 /\ p.y \in -90 .. 90

\* The places that there is a distance for.
HasDistance(p, c) ==
    /\ IsCoord(p) /\ IsCoord(c) /\ c.y = 0
    /\ \/ p.y = 0 \/ abs(p.y) = 90
       \/ Turn(p.x - c.x) \in {0, 90, 180}
       \/ Turn(p.x - c.x) \in {45, 135} /\ abs(p.y) = 45

\* From c on the equator: along it, over a pole, and to the places between that are a whole
\* number of degrees away.
geoutilDistance(p, c) ==
    LET turn == Turn(p.x - c.x)
    IN  CASE turn = 0 -> abs(p.y)
          [] turn = 180 -> 180 - abs(p.y)
          [] p.y = 0 -> turn
          [] turn = 90 \/ abs(p.y) = 90 -> 90
          [] turn = 45 /\ abs(p.y) = 45 -> 60
          [] turn = 135 /\ abs(p.y) = 45 -> 120

Bearings == {"N", "E", "S", "W"}

\* The latitude to the north and the south, the longitude to the east and the west.
geoutilDestinationLatLon(c, distance, bearing) ==
    CASE bearing = "N" -> Folded(c.y + distance)
      [] bearing = "E" -> Normalised(c.x + distance)
      [] bearing = "S" -> Folded(c.y - distance)
      [] bearing = "W" -> Normalised(c.x - distance)

\* Mutant: the sides are taken for each other.
BoundsTurned(c, distance) ==
    LET to(bearing) == geoutilDestinationLatLon(c, distance, bearing)
    IN  [min |-> [x |-> to("S"), y |-> to("W")], max |-> [x |-> to("N"), y |-> to("E")]]

geoutilBoundsFromLatLon(c, distance) ==
    LET to(bearing) == geoutilDestinationLatLon(c, distance, bearing)
    IN  [min |-> [x |-> to("W"), y |-> to("S")], max |-> [x |-> to("E"), y |-> to("N")]]

geomCoordWithinRadius(p, center, distance) == geoutilDistance(p, center) <= distance
=============================================================================
