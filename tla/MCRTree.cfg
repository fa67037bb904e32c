\* A small tree under every command, and removals from a tree of three levels: underfull
\* leaves and inner nodes, reinsertion at both levels, and the collapse of the root.
SPECIFICATION MCSpec
CONSTANTS
    Items <- MCItems
    SmallItems = {i1, i2, i3, i4, i5, i6}
    TallItems = {1, 2, 3, 4, 5, 6, 7, 8, 9, 10, 11, 12, 13, 14, 15}
    Rects <- MCRects
    Windows <- MCWindows
    MAX_NODES = 4
    MaxItems = 15
    MinItems = 12
SYMMETRY Symmetry
INVARIANTS TypeOK MinimumFill RootBranches TightCovers SearchExact
PROPERTY ImplementsRTreeSpec
CHECK_DEADLOCK FALSE
