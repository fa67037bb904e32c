SPECIFICATION Spec
CONSTANTS
    Cases <- MCSingleCases
    MaxDepth = 2
    Searches = {"CONTAINS"}
INVARIANTS SinglePolygonFound
CHECK_DEADLOCK FALSE
