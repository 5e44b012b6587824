SPECIFICATION LosslessSpec
CONSTANTS
    Item = {i1}
    Request = {k1}
    Worker = {w1}
    MaxAttempt = 2
    MaxRetries = 1
    Fault = {}
PROPERTIES
    EveryAttemptSettles
    ImplementsLifecycle
CHECK_DEADLOCK FALSE
