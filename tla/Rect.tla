-------------------------------- MODULE Rect --------------------------------
(***************************************************************************)
(* The rectangles of the R-tree (rectT of src/spatial/rtree_tmpl.c) and    *)
(* the pure operators the tree is built from.  A coordinate is a double in *)
(* the code and an integer here: the tree only compares, adds and squares  *)
(* coordinates, so that what is lost is the rounding of sums and products. *)
(***************************************************************************)
EXTENDS Integers, FiniteSetsExt

Dims == 1..2

Corner == [Dims -> Int]

RectType == [min : Corner, max : Corner]

MakeRect(minX, minY, maxX, maxY) == [min |-> <<minX, minY>>, max |-> <<maxX, maxY>>]

(***************************************************************************)
(* A rectangle whose corners are ordered.  geomBounds only builds such     *)
(* rectangles; the window of a search need not be one (a radius window     *)
(* that crosses the antimeridian is not).                                  *)
(***************************************************************************)
Ordered(r) == \A d \in Dims : r.min[d] <= r.max[d]

\* The intervals are closed: rectangles that share an edge or a corner overlap.
Overlap(a, b) == \A d \in Dims : a.min[d] <= b.max[d] /\ b.min[d] <= a.max[d]

lesser(a, b) == IF a < b THEN a ELSE b

greater(a, b) == IF a > b THEN a ELSE b

CombineRect(a, b) ==
    [min |-> [d \in Dims |-> lesser(a.min[d], b.min[d])],
     max |-> [d \in Dims |-> greater(a.max[d], b.max[d])]]

Within(a, b) == \A d \in Dims : b.min[d] <= a.min[d] /\ a.max[d] <= b.max[d]

(***************************************************************************)
(* nodeCover's loop: the smallest rectangle around a set of rectangles,    *)
(* and the zeroed rectT when there is none.                                *)
(***************************************************************************)
Cover(rs) ==
    IF rs = {} THEN MakeRect(0, 0, 0, 0)
    ELSE [min |-> [d \in Dims |-> Min({r.min[d] : r \in rs})],
          max |-> [d \in Dims |-> Max({r.max[d] : r \in rs})]]

(***************************************************************************)
(* rectSphericalVolume is pi/4 times this sum of squares.  The tree only   *)
(* compares sums and differences of volumes, which a positive factor       *)
(* leaves alone.                                                           *)
(***************************************************************************)
RectVolume(r) ==
    LET extent(d) == r.max[d] - r.min[d]
    IN  extent(1) * extent(1) + extent(2) * extent(2)

=============================================================================
