SPECIFICATION MCSpec
CONSTANTS
    Item = {i1}
    Caller = {c1, c2}
    MaxMessage = 3
    MaxAction = 2
    MaxToken = 3
SYMMETRY Symmetry
INVARIANTS
    MessageConsumesOnce
PROPERTIES
    ResolvedIsFinal
    ClaimIsKept
    LateDeletionSparesRestored
    ResultsAreAccurate
CHECK_DEADLOCK FALSE
