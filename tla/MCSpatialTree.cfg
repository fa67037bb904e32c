SPECIFICATION TreeSpec
CONSTANTS
    Items = {1, 2, 3, 4, 5, 6, 7}
    Rects <- Places
    Windows <- PlaceWindows
    MAX_NODES = 4
    MaxItems = 7
    Fields = {f1, f2, f3, f4, f5}
    MaxSets = 6
SYMMETRY Symmetry
INVARIANT LiveFieldsFound
PROPERTY IndexSteps
CHECK_DEADLOCK FALSE
