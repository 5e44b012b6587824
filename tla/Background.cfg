SPECIFICATION MCSpec
CONSTANTS
    Sweeper = {s1, s2}
    Url = {u1, u2}
    Content = {c1}
    MaxRow = 2
    MaxClaim = 3
    MaxEvent = 1
    MaxAttempts = 2
    BatchSize = 2
    MaxRedrives = 1
    Deletable = {1}
    MaxMishaps = 1
INVARIANTS
    ObjectsFollowRows
PROPERTIES
    OnlyHoldersAct
    ImplementsLedger
    SweepsFinish
CHECK_DEADLOCK FALSE
