--------------------------- MODULE MCSpatialTree ----------------------------
(***************************************************************************)
(* An instance of SpatialTree for TLC: enough fields to split the root.    *)
(***************************************************************************)
EXTENDS SpatialTree, TLC

Symmetry == Permutations(Fields)

\* Two places far from each other and a stretch that reaches the first.
Places == {MakeRect(0, 0, 1, 1), MakeRect(8, 0, 9, 1), MakeRect(1, 0, 4, 0)}

PlaceWindows == Places \union {MakeRect(0, 0, 9, 9), MakeRect(1, 1, 1, 1), MakeRect(2, 0, 3, 3)}
=============================================================================
