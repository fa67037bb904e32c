------------------------------- MODULE RTree --------------------------------
(***************************************************************************)
(* The R-tree of src/spatial/rtree.c and src/spatial/rtree_tmpl.c: the     *)
(* index of one GIS key.  A node is a record of its level and the sequence *)
(* of its branches; a branch of a leaf (level 0) carries an item, a branch *)
(* of any other node carries its child.  The C code changes nodes in       *)
(* place; here every function returns the nodes as it leaves them.         *)
(***************************************************************************)
EXTENDS Rect, SequencesExt

CONSTANTS
    Items,      \* the pointers a caller stores
    Rects,      \* the rectangles a caller inserts and removes with
    Windows,    \* the rectangles a caller searches
    MAX_NODES,  \* the capacity of a node (16 unless the including file overrides it)
    MaxItems    \* bound of the model: how many items the tree may hold

ASSUME RectsAssumption == Rects \union Windows \subseteq RectType

\* With a capacity of 2 or 3 MIN_NODES is 1, and a root above the leaves may be left with
\* one branch, then with none, which insertion cannot descend from.
ASSUME MaxNodesAssumption == MAX_NODES \in Nat /\ MAX_NODES >= 4

VARIABLE root

\* tr->root of a tree that never held an item: a tree of no level.
Null == [level |-> -1, branch |-> <<>>]

Entry == [item : Items, rect : Rects]

(***************************************************************************)
(* The nodes of a level.  A procedure of the code that calls itself on the *)
(* children of a node is a function of the level here, and its value is a  *)
(* function on the nodes of that level, given by the body of the procedure *)
(* from the values one level below.                                        *)
(***************************************************************************)
Node[l \in Nat] ==
    [level : {l},
     branch : Seq(IF l = 0 THEN Entry ELSE [rect : RectType, child : Node[l - 1]])]

MIN_NODES == MAX_NODES \div 2

Positions(node) == DOMAIN node.branch

Count(node) == Len(node.branch)

RectsOf(node) == {node.branch[i].rect : i \in Positions(node)}

NodeCover(node) == Cover(RectsOf(node))

BranchOf(node) == [rect |-> NodeCover(node), child |-> node]

EmptyLeaf == [level |-> 0, branch |-> <<>>]

\* Where a function is least.
Least(f) == {i \in DOMAIN f : \A j \in DOMAIN f : f[i] <= f[j]}

-----------------------------------------------------------------------------
(***************************************************************************)
(* Splitting a full node (splitNode): the branches of the node and the one *)
(* that does not fit are buf; a partition is the pair of groups of their   *)
(* positions.                                                              *)
(***************************************************************************)
GroupVolume(buf, group) == RectVolume(Cover({buf[i].rect : i \in group}))

\* pickSeeds: the pair that wastes most space, the first such pair in the scan.
PickSeeds(buf) ==
    LET pairs == {p \in (DOMAIN buf) \X (DOMAIN buf) : p[1] < p[2]}
        saved(p) == RectVolume(buf[p[1]].rect) + RectVolume(buf[p[2]].rect)
                      - GroupVolume(buf, {p[1], p[2]})
        seeds == Least([p \in pairs |-> saved(p)])
        a == Min({p[1] : p \in seeds})
        b == Min({p[2] : p \in {p \in seeds : p[1] = a}})
    IN  <<{a}, {b}>>

Unclassified(buf, groups) == DOMAIN buf \ (groups[1] \union groups[2])

Classify(groups, i, g) == [groups EXCEPT ![g] = @ \union {i}]

\* How much more group 2 would grow than group 1 if branch i joined it.
GrowthDifference(buf, groups, i) ==
    LET growth(g) == GroupVolume(buf, groups[g] \union {i}) - GroupVolume(buf, groups[g])
    IN  growth(2) - growth(1)

BetterGroup(diff) == IF diff >= 0 THEN 1 ELSE 2

\* The unclassified branch with the strongest preference, the smaller group among equals.
Strongest(groups, diff) ==
    LET strongest == Least([i \in DOMAIN diff |-> IF diff[i] < 0 THEN diff[i] ELSE -diff[i]])
        size == [i \in strongest |-> Cardinality(groups[BetterGroup(diff[i])])]
    IN  Min(Least(size))

\* The body of choosePartition's loop: that branch goes to the group it prefers.
ClassifyNext(buf, groups) ==
    LET i == Strongest(groups, [j \in Unclassified(buf, groups) |->
                                    GrowthDifference(buf, groups, j)])
    IN  Classify(groups, i, BetterGroup(GrowthDifference(buf, groups, i)))

\* One turn of the loop: once one of the groups has all but minFill branches, the other
\* takes the rest.
\* Mutant: minFill is ignored.
PartitionNextNoMinFill(buf, groups) ==
    IF Unclassified(buf, groups) = {} THEN groups ELSE ClassifyNext(buf, groups)

PartitionNext(buf, groups) ==
    LET rest == Unclassified(buf, groups)
        full(g) == Cardinality(groups[g]) >= Len(buf) - MIN_NODES
    IN  IF rest = {} THEN groups
        ELSE IF full(1) \/ full(2)
             THEN [groups EXCEPT ![IF full(1) THEN 2 ELSE 1] = @ \union rest]
             ELSE ClassifyNext(buf, groups)

\* The groups choosePartition ends with; no more turns are needed than there are branches.
ChoosePartition(buf, groups) ==
    LET after[k \in 0 .. Len(buf)] ==
            IF k = 0 THEN groups ELSE PartitionNext(buf, after[k - 1])
    IN  after[Len(buf)]

\* loadNodes: a group in the order of the buffer.
Load(buf, group, level) ==
    LET loaded[k \in 0 .. Len(buf)] ==
            IF k = 0 THEN <<>>
            ELSE IF k \in group THEN Append(loaded[k - 1], buf[k]) ELSE loaded[k - 1]
    IN  [level |-> level, branch |-> loaded[Len(buf)]]

\* The node as the call leaves it, and the sibling it had to create, if any.
Grown(node, sibling) == [node |-> node, sibling |-> sibling]

Split(node, buf, groups) ==
    Grown(Load(buf, groups[1], node.level), <<Load(buf, groups[2], node.level)>>)

SplitNode(node, buf) == Split(node, buf, ChoosePartition(buf, PickSeeds(buf)))

\* Mutant: the capacity test is off by one.
AddBranchOverfull(branch, node) ==
    IF Count(node) <= MAX_NODES
    THEN Grown([node EXCEPT !.branch = Append(@, branch)], <<>>)
    ELSE SplitNode(node, Append(node.branch, branch))

AddBranch(branch, node) ==
    IF Count(node) < MAX_NODES
    THEN Grown([node EXCEPT !.branch = Append(@, branch)], <<>>)
    ELSE SplitNode(node, Append(node.branch, branch))

-----------------------------------------------------------------------------
(***************************************************************************)
(* Insertion.                                                              *)
(***************************************************************************)
\* The branch whose volume grows least, then the smallest, then the first.
PickBranch(rect, node) ==
    LET volume(i) == RectVolume(node.branch[i].rect)
        least == Least([i \in Positions(node) |->
                           RectVolume(CombineRect(rect, node.branch[i].rect)) - volume(i)])
    IN  Min(Least([i \in least |-> volume(i)]))

\* The way back up: branch i, which leads to the new entry, grows with it, or was split.
AfterInsertion(rect, node, i, sub) ==
    IF sub.sibling = <<>>
    THEN Grown([node EXCEPT !.branch[i] =
                    [rect |-> CombineRect(rect, @.rect), child |-> sub.node]],
               <<>>)
    ELSE AddBranch(BranchOf(sub.sibling[1]), [node EXCEPT !.branch[i] = BranchOf(sub.node)])

\* The body of insertRectRec.
InsertInto(branch, level, node, below) ==
    IF node.level < level THEN Grown(node, <<>>)
    ELSE IF node.level = level THEN AddBranch(branch, node)
    ELSE LET i == PickBranch(branch.rect, node)
         IN  AfterInsertion(branch.rect, node, i, below[node.branch[i].child])

InsertRectRec(branch, tree, level) ==
    LET insert[l \in Nat] == [node \in Node[l] |-> InsertInto(branch, level, node, insert[l - 1])]
    IN  insert[tree.level][tree]

\* A root that was split goes under a new one.
GrowRoot(grown) ==
    IF grown.sibling = <<>> THEN grown.node
    ELSE [level |-> grown.node.level + 1,
          branch |-> <<BranchOf(grown.node), BranchOf(grown.sibling[1])>>]

InsertRect(tree, branch, level) == GrowRoot(InsertRectRec(branch, tree, level))

-----------------------------------------------------------------------------
(***************************************************************************)
(* Removal.                                                                *)
(***************************************************************************)
\* The last branch moves into the place of the one that goes.
\* Mutant: the last branch goes whichever was asked for.
DisconnectBranchTail(node, i) == [node EXCEPT !.branch = Front(@)]

DisconnectBranch(node, i) ==
    [node EXCEPT !.branch = Front([@ EXCEPT ![i] = Last(node.branch)])]

\* What removeRectRec leaves: whether it found the item, the node, and the
\* list of the nodes that became too small, the last one first.
Removal(found, node, underfull) == [found |-> found, node |-> node, underfull |-> underfull]

NotFound(node) == Removal(FALSE, node, <<>>)

\* Mutant: the rectangle of the child keeps the extent of the removed item.
AfterRemovalWide(node, i, child, underfull) ==
    IF Count(child) >= MIN_NODES
    THEN Removal(TRUE, [node EXCEPT !.branch[i].child = child], underfull)
    ELSE Removal(TRUE, DisconnectBranch(node, i), <<child>> \o underfull)

\* The way back up: the child the item was removed from stays, under its new cover, or
\* leaves the node for reinsertion.
AfterRemoval(node, i, child, underfull) ==
    IF Count(child) >= MIN_NODES
    THEN Removal(TRUE, [node EXCEPT !.branch[i] = BranchOf(child)], underfull)
    ELSE Removal(TRUE, DisconnectBranch(node, i), <<child>> \o underfull)

Overlapping(rect, node) == {i \in Positions(node) : Overlap(rect, node.branch[i].rect)}

RemoveFromLeaf(item, node) ==
    LET at == {i \in Positions(node) : node.branch[i].item = item}
    IN  IF at = {} THEN NotFound(node) ELSE Removal(TRUE, DisconnectBranch(node, Min(at)), <<>>)

\* The body of removeRectRec: the item goes from under the first overlapping branch under
\* which it is found.
RemoveFrom(rect, item, node, below) ==
    IF node.level = 0 THEN RemoveFromLeaf(item, node)
    ELSE LET sub == [i \in Overlapping(rect, node) |-> below[node.branch[i].child]]
             at == {i \in DOMAIN sub : sub[i].found}
         IN  IF at = {} THEN NotFound(node)
             ELSE AfterRemoval(node, Min(at), sub[Min(at)].node, sub[Min(at)].underfull)

RemoveRectRec(rect, item, tree) ==
    LET remove[l \in Nat] == [node \in Node[l] |-> RemoveFrom(rect, item, node, remove[l - 1])]
    IN  remove[tree.level][tree]

\* The branches of an underfull node go back in at the level of that node.
\* Mutant: an underfull node is freed with what it still holds.
ReinsertNothing(tree, node) == tree

Reinsert(tree, node) ==
    LET after[k \in 0 .. Count(node)] ==
            IF k = 0 THEN tree ELSE InsertRect(after[k - 1], node.branch[k], node.level)
    IN  after[Count(node)]

\* The same for each node of the list.
ReinsertAll(tree, underfull) ==
    LET after[k \in 0 .. Len(underfull)] ==
            IF k = 0 THEN tree ELSE Reinsert(after[k - 1], underfull[k])
    IN  after[Len(underfull)]

\* A root with a single child gives way to it, once.
\* Mutant: the root is never replaced.
KeepRoot(tree) == tree

CollapseRoot(tree) ==
    IF Count(tree) = 1 /\ tree.level > 0 THEN tree.branch[1].child ELSE tree

Restored(removal) ==
    IF removal.found
    THEN CollapseRoot(ReinsertAll(removal.node, removal.underfull))
    ELSE removal.node

RemoveRect(tree, rect, item) == Restored(RemoveRectRec(rect, item, tree))

-----------------------------------------------------------------------------
(***************************************************************************)
(* Reading.                                                                *)
(***************************************************************************)
\* The branches of the leaves, from left to right.
LeavesUnder(node, below) ==
    IF node.level = 0 THEN node.branch
    ELSE FlattenSeq([i \in Positions(node) |-> below[node.branch[i].child]])

Leaves(tree) ==
    LET leaves[l \in Nat] == [node \in Node[l] |-> LeavesUnder(node, leaves[l - 1])]
    IN  leaves[tree.level][tree]

\* The branches search follows.
\* Mutant: it follows one, as a removal does.
VisitedFirst(rect, node) ==
    IF node.level = 0 \/ Overlapping(rect, node) = {} THEN Overlapping(rect, node)
    ELSE {Min(Overlapping(rect, node))}

Visited(rect, node) == Overlapping(rect, node)

\* The body of search: the items it hands to its iterator, in the order of the calls.
SearchUnder(rect, node, below) ==
    FlattenSeq([i \in Positions(node) |->
        IF i \notin Visited(rect, node) THEN <<>>
        ELSE IF node.level = 0 THEN <<node.branch[i].item>>
        ELSE below[node.branch[i].child]])

SearchNode(tree, rect) ==
    LET search[l \in Nat] == [node \in Node[l] |-> SearchUnder(rect, node, search[l - 1])]
    IN  search[tree.level][tree]

rtreeSearch(tree, rect) == IF tree = Null THEN <<>> ELSE SearchNode(tree, rect)

\* countRec: the branches of the leaves, counted.
rtreeCount(tree) == IF tree = Null THEN 0 ELSE Len(Leaves(tree))

Entries(tree) == IF tree = Null THEN {} ELSE Range(Leaves(tree))

-----------------------------------------------------------------------------
Init == root = Null

\* rtreeInsert(item, rect); the caller never stores an item twice.
RtreeInsert(item, rect) ==
    /\ rtreeCount(root) < MaxItems
    /\ \A e \in Entries(root) : e.item # item
    /\ root' = InsertRect(IF root = Null THEN EmptyLeaf ELSE root,
                          [rect |-> rect, item |-> item], 0)

\* rtreeRemove(item, rect), whatever the item and the rectangle.
RtreeRemove(item, rect) ==
    /\ root # Null
    /\ root' = RemoveRect(root, rect, item)

RtreeRemoveAll ==
    /\ root # Null
    /\ root' = Null

Next ==
    \/ \E item \in Items, rect \in Rects : RtreeInsert(item, rect)
    \/ \E item \in Items, rect \in Rects : RtreeRemove(item, rect)
    \/ RtreeRemoveAll

Spec == Init /\ [][Next]_root

-----------------------------------------------------------------------------
(***************************************************************************)
(* Properties.                                                             *)
(***************************************************************************)
NodesUnder(node, below) ==
    {node} \union IF node.level = 0 THEN {}
                 ELSE UNION {below[node.branch[i].child] : i \in Positions(node)}

NodesFrom(tree) ==
    LET nodes[l \in Nat] == [node \in Node[l] |-> NodesUnder(node, nodes[l - 1])]
    IN  nodes[tree.level][tree]

Nodes == IF root = Null THEN {} ELSE NodesFrom(root)

\* Type invariant: a leaf's branches carry items, the children of a node are one level below
\* it, so that all leaves are at the same depth, and no node is over capacity.
TypeOK ==
    root # Null =>
        /\ root.level \in Nat
        /\ root \in Node[root.level]
        /\ \A node \in Nodes : Count(node) <= MAX_NODES

\* Splits, removals and the reinsertion of underfull nodes leave every node but the
\* root with at least MIN_NODES branches (choosePartition's minFill, removeRectRec's
\* test), so that the tree never degenerates into a list.
MinimumFill == \A node \in Nodes \ {root} : Count(node) >= MIN_NODES

\* A root above the leaves has a choice to offer: the single collapse at the end of
\* removeRect is enough, however many nodes of a path became underfull at once.
RootBranches == root # Null /\ root.level > 0 => Count(root) >= 2

\* Every branch rectangle is exactly the cover of its child: never too small, which
\* would hide items from search and from remove, and never too large, which would
\* make both visit nodes for nothing, although insert only ever enlarges it
\* (combineRect) and remove recomputes it on its way back only.
TightCovers ==
    \A node \in Nodes :
        node.level > 0 =>
            \A i \in Positions(node) : node.branch[i].rect = NodeCover(node.branch[i].child)

\* A search that prunes by branch rectangles calls its iterator for exactly the items a
\* scan of all entries would report, and once for each of them.
SearchExact ==
    LET entries == Entries(root)
    IN  \A window \in Windows :
            LET hits == rtreeSearch(root, window)
            IN  /\ ToSet(hits) = {e.item : e \in {e \in entries : Overlap(window, e.rect)}}
                /\ Len(hits) = Cardinality(ToSet(hits))

Abstract == INSTANCE RTreeSpec WITH entries <- Entries(root)

\* The tree implements the set of entries: an insertion adds its entry and no split loses
\* one, a removal takes out the item it was asked for and nothing else, always when
\* its rectangle overlaps the entry's, and no reinsertion loses or duplicates an entry.
ImplementsRTreeSpec == Abstract!Spec

=============================================================================
