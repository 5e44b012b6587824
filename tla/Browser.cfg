SPECIFICATION MCSpec
CONSTANTS
    Frame = {top, player}
    Top = top
    Piece = {p, q}
    MaxTime = 1
    Video = {u, v, w}
    Captioned = {v, w}
    NoVideo = NoVideo
    MaxLate = 2
    MaxChunk = 1
    MaxAttempt = 2
    MaxNavigation = 2
    Item = {a}
    Filter = {"library"}
    MaxChange = 1
    MaxFail = 1
INVARIANTS
    PagesKeepUp
PROPERTIES
    CapturesAreTrue
    NothingHangs
CHECK_DEADLOCK FALSE
