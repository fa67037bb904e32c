SPECIFICATION Spec
CONSTANTS
    near = near
    wide = wide
    far = far
    all = all
    left = left
    exactFar = exactFar
    Fields = {f1, f2}
    Geoms = {near, wide, far}
    Bad = Bad
    Queries = {all, left, exactFar}
    Limits = {0, 1}
    Bounds <- MCBounds
    Window <- MCWindow
    Match <- MCMatch
    IdxMod = 3
    MaxSets = 3
    MaxPairs = 2
SYMMETRY Symmetry
INVARIANTS TypeOK DictionariesAgree EveryFieldIndexed IdsAreUnique DeleteNeverFails EachFieldOnce
PROPERTY ImplementsGisMap
