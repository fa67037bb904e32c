----------------------------- MODULE RTreeSpec ------------------------------
(***************************************************************************)
(* What the R-tree of src/spatial/rtree.c promises to its caller, with no  *)
(* tree in it: a set of entries, each an item under a rectangle.  RTree is *)
(* shown to implement this specification.                                  *)
(***************************************************************************)
EXTENDS RTreeIndex

CONSTANTS
    Items,      \* the pointers a caller stores
    Rects       \* the rectangles a caller passes

VARIABLE entries

Entry == [item : Items, rect : Rects]

TypeOK == entries \subseteq Entry

Init == entries = {}

\* The caller never stores an item that is already there.
Insert(i, r) ==
    /\ i \notin ItemsOf(entries)
    /\ entries' = Inserted(entries, i, r)

Remove(i, r) == entries' \in RemoveOutcomes(entries, i, r)

RemoveAll == entries' = {}

Next ==
    \/ \E i \in Items, r \in Rects : Insert(i, r) \/ Remove(i, r)
    \/ RemoveAll

Spec == Init /\ [][Next]_entries

=============================================================================
