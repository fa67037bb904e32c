---------------------------- MODULE RTreeIndex ------------------------------
(***************************************************************************)
(* The R-tree seen from outside: a set of entries, each an item under a    *)
(* rectangle, and what the functions of src/spatial/rtree.c do to it.      *)
(* RTreeSpec makes a specification of these operators, which RTree         *)
(* implements; Spatial uses them as the index of a key.                    *)
(***************************************************************************)
EXTENDS Rect

ItemsOf(es) == {e.item : e \in es}

(***************************************************************************)
(* What rtreeSearch reports: the items whose rectangle overlaps the        *)
(* window, no others and none of them left out.                            *)
(***************************************************************************)
Found(es, window) == {e.item : e \in {e \in es : Overlap(window, e.rect)}}

Inserted(es, i, r) == es \union {[item |-> i, rect |-> r]}

(***************************************************************************)
(* The sets rtreeRemove(i, r) may leave.  The search for the item follows  *)
(* the branches that overlap r and compares items only, so that the entry  *)
(* is found when its own rectangle overlaps r; when it does not, whether   *)
(* it is found depends on the shape the tree happens to have.              *)
(***************************************************************************)
RemoveOutcomes(es, i, r) ==
    LET without == {e \in es : e.item # i}
    IN  IF \E e \in es : e.item = i /\ Overlap(r, e.rect)
        THEN {without}
        ELSE {without, es}

=============================================================================
