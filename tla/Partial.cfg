SPECIFICATION Spec
CONSTANTS
    Frame = {top}
    Top = top
    Piece = {p, q}
    MaxTime = 2
INVARIANT PlaylistIsWhole
CHECK_DEADLOCK FALSE
