---------------------------- MODULE SpatialTree -----------------------------
(***************************************************************************)
(* The calls src/spatial.c and src/tairgis.c make to the R-tree of a key,  *)
(* on the tree itself: Spatial says which calls those are and leaves the   *)
(* tree abstract; here the tree is the one of RTree, and of the rest of    *)
(* the object only the current private id and bounds of each field remain. *)
(***************************************************************************)
EXTENDS RTree

CONSTANTS
    Fields,     \* the field names of a key
    MaxSets     \* bound of the model: calls of spatialTypeSet

\* Private ids are items of the tree, and geomBounds only builds rectangles whose corners
\* are ordered.
ASSUME SetsAssumption == MaxSets \in Nat /\ 1 .. MaxSets \subseteq Items

ASSUME BoundsAssumption == \A r \in Rects : Ordered(r)

VARIABLES
    stored,     \* the private id and the bounds of each field's value
    idx         \* the last private id given out

treeVars == <<root, stored, idx>>

NoFields == [f \in {} |-> f]

TreeInit == root = Null /\ stored = NoFields /\ idx = 0

Planted(tree, entry) == InsertRect(IF tree = Null THEN EmptyLeaf ELSE tree, entry, 0)

\* spatialTypeSet: the former entry is looked for under the bounds of the new value.
TreeSet(f, rect) ==
    /\ idx < MaxSets
    /\ LET entry == [item |-> idx + 1, rect |-> rect]
           cleared == IF f \in DOMAIN stored THEN RemoveRect(root, rect, stored[f].item) ELSE root
       IN  /\ root' = Planted(cleared, entry)
           /\ stored' = [x \in DOMAIN stored \union {f} |-> IF x = f THEN entry ELSE stored[x]]
    /\ idx' = idx + 1

\* ExGisDel: the entry is looked for under its own bounds; the key, and with it the tree,
\* goes with the last field.
TreeDel(f) ==
    /\ f \in DOMAIN stored
    /\ stored' = [x \in DOMAIN stored \ {f} |-> stored[x]]
    /\ root' = IF DOMAIN stored = {f} THEN Null
               ELSE RemoveRect(root, stored[f].rect, stored[f].item)
    /\ UNCHANGED idx

TreeNext ==
    \/ \E f \in Fields, rect \in Rects : TreeSet(f, rect)
    \/ \E f \in Fields : TreeDel(f)

TreeSpec == TreeInit /\ [][TreeNext]_treeVars

-----------------------------------------------------------------------------
(***************************************************************************)
(* Properties.                                                             *)
(***************************************************************************)
\* Whatever entries updates have left behind, searching the tree with a window and keeping
\* the current ids (searchIterator) gives each field whose value reaches into the window,
\* once, and no other: a removal with the wrong bounds never takes a live entry with it.
LiveFieldsFound ==
    \A window \in Windows :
        LET hits == rtreeSearch(root, window)
            live(f) == {n \in DOMAIN hits : hits[n] = stored[f].item}
        IN  \A f \in DOMAIN stored :
                Cardinality(live(f)) = IF Overlap(window, stored[f].rect) THEN 1 ELSE 0

Index == INSTANCE RTreeIndex

\* The calls change the tree as the abstract index of Spatial says they do: setting a field
\* may leave its former entry, and takes or moves no entry of another field, through
\* splits, underfull nodes and reinsertion.
IndexSteps ==
    [][\E f \in Fields :
          \/ \E rect \in Rects :
                Entries(root)' \in
                    {Index!Inserted(es, idx', rect) :
                        es \in IF f \in DOMAIN stored
                              THEN Index!RemoveOutcomes(Entries(root), stored[f].item, rect)
                              ELSE {Entries(root)}}
          \/ /\ f \in DOMAIN stored
             /\ Entries(root)' =
                   IF DOMAIN stored = {f} THEN {}
                   ELSE {e \in Entries(root) : e.item # stored[f].item}]_treeVars

\* "try to delete the former existing data for 'field' also remove what's exiting in rtree"
\* (src/spatial.c:109-110): the tree holds the current entry of each field and no other.
NoLeftovers == Entries(root) = {stored[f] : f \in DOMAIN stored}

=============================================================================
