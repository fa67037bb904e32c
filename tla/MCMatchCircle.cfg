SPECIFICATION Spec
CONSTANTS
    Cases <- MCAntimeridianCases
    MaxDepth = 2
    Searches = {"SEARCH"}
INVARIANTS RadiusFound
CHECK_DEADLOCK FALSE
