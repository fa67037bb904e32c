----------------------------- MODULE MCSpatial ------------------------------
(***************************************************************************)
(* Instances of Spatial for TLC.  Three geometries on a line: near and     *)
(* wide overlap, far overlaps neither.                                     *)
(***************************************************************************)
EXTENDS Spatial, TLC

CONSTANTS near, wide, far, all, left, exactFar

MCBounds(g) ==
    CASE g = near -> MakeRect(0, 0, 1, 1)
      [] g = wide -> MakeRect(1, 0, 4, 1)
      [] g = far -> MakeRect(8, 0, 9, 1)

\* The query all matches everything in reach; left has a window that reaches wide but a
\* shape that does not match it; exactFar matches far alone.
MCWindow(q) ==
    CASE q = all -> MakeRect(0, 0, 9, 9)
      [] q = left -> MakeRect(0, 0, 2, 2)
      [] q = exactFar -> MakeRect(8, 0, 8, 0)

MCMatch(g, q) == q = left => g # wide

Symmetry == Permutations(Fields)
=============================================================================
