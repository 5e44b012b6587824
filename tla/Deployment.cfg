SPECIFICATION FairSpec
CONSTANTS
    l1 = l1
    l2 = l2
    Start = {l1, l2}
    Attached = {l2}
    Stop = {s1}
    Env <- MCEnv
    MaxFaults = 1
INVARIANTS
    NothingLeftBehind
PROPERTIES
    RuntimeStaysOne
    ExitStopsSiblings
CHECK_DEADLOCK FALSE
