SPECIFICATION Spec
CONSTANTS
    Item = {i1}
    Request = {k1}
    Worker = {w1, w2}
    MaxAttempt = 2
    MaxRetries = 0
    Fault = {"duplicate"}
CHECK_DEADLOCK FALSE
INVARIANTS
    NoContradictoryFailure
