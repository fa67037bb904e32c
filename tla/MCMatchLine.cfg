SPECIFICATION Spec
CONSTANTS
    Cases <- MCLineCases
    MaxDepth = 2
    Searches = {"INTERSECTS"}
INVARIANTS LineExact
CHECK_DEADLOCK FALSE
