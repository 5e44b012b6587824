SPECIFICATION Spec
CONSTANTS
    Item = {i1}
    Caller = {c1, c2}
    MaxMessage = 3
    MaxAction = 2
    MaxToken = 3
SYMMETRY Symmetry
CHECK_DEADLOCK FALSE
PROPERTIES
    OnlyLaterRestoresFence
