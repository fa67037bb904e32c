SPECIFICATION Spec
CONSTANTS
    Cases <- MCCases
    MaxDepth = 2
    Searches = {"SEARCH", "WITHIN", "CONTAINS", "INTERSECTS"}
INVARIANTS PointsExact SegmentsExact TrianglesExact WithinExact PartsAgree RadiusExact
CHECK_DEADLOCK FALSE
