SPECIFICATION Spec
CONSTANTS
    Keys = {k}
    Fields = {f1, f2}
    Geoms = {g1, g2}
    Bad = Bad
    CString <- MCCString
    MaxPairs = 2
    MaxCommands = 3
SYMMETRY Symmetry
INVARIANTS TypeOK FieldsAgree KeysAgree
