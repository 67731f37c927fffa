SPECIFICATION Spec
CONSTANTS
    Sizes = {4, 8}
    Keys = {k1, k2}
    k1 = k1
    k2 = k2
    None = None
    New = New
    MaxRows = 2
    MaxId = 2
    MaxResults = 1
    MaxEvents = 2
SYMMETRY SymKeys
INVARIANTS
    ValueIsRowsOwn
    ShownIsHeld
    ButtonsFollow
PROPERTIES
    FormIsNotRemoved
