------------------------------ MODULE MCRTree -------------------------------
(***************************************************************************)
(* An instance of RTree for TLC, of two parts that both begin with an      *)
(* empty tree: a small tree under every order of insertions, removals and  *)
(* clears, and a tree of three levels from which items are removed.        *)
(***************************************************************************)
EXTENDS RTree

CONSTANTS
    SmallItems, \* the items of the small tree
    TallItems,  \* 1 .. n: those of the tall one
    MinItems    \* bound: how many items are left in the tall one

Symmetry == Permutations(SmallItems)

MCItems == SmallItems \union TallItems

\* Two separate points, and a segment that overlaps both.
SmallRects == {MakeRect(0, 0, 0, 0), MakeRect(3, 0, 3, 2), MakeRect(0, 0, 3, 1)}

\* The rectangles of the tall tree, whose branches overlap.
GrowRect(n) ==
    LET x == (n * 7) % 10
        y == (n * 3) % 10
    IN  MakeRect(x, y + 1, x + (n % 3), y + 1)

TallRects == {GrowRect(n) : n \in TallItems}

MCRects == SmallRects \union TallRects

MCWindows ==
    SmallRects
        \union {MakeRect(1, 0, 2, 0), MakeRect(0, 1, 0, 3), MakeRect(0, 0, 3, 3), MakeRect(3, 0, 0, 0)}
        \union {MakeRect(0, 0, 4, 10), MakeRect(5, 6, 5, 6), MakeRect(0, 0, 12, 10), MakeRect(2, 4, 8, 7)}
        \union {GrowRect(2), GrowRect(7)}

-----------------------------------------------------------------------------
Held == {e.item : e \in Entries(root)}

SmallNext ==
    \/ /\ rtreeCount(root) < Cardinality(SmallItems)
       /\ \E item \in SmallItems, rect \in SmallRects : RtreeInsert(item, rect)
    \/ \E item \in SmallItems, rect \in SmallRects : RtreeRemove(item, rect)
    \/ RtreeRemoveAll

\* The items in their order, each with its own rectangle.
TallGrowth ==
    LET n == Cardinality(Held)
    IN  /\ Held = 1 .. n
        /\ n < MaxItems
        /\ RtreeInsert(n + 1, GrowRect(n + 1))

\* Removals with the item's rectangle or with one that overlaps some of the tree.
TallShrink ==
    /\ rtreeCount(root) > MinItems
    /\ \E item \in TallItems : \E rect \in {GrowRect(item), MakeRect(0, 0, 4, 10)} :
          RtreeRemove(item, rect)

MCNext ==
    \/ Held \subseteq SmallItems /\ SmallNext
    \/ Held \subseteq TallItems /\ (TallGrowth \/ TallShrink)

MCSpec == Init /\ [][MCNext]_root
=============================================================================
