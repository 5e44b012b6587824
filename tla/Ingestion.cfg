SPECIFICATION MCSpec
CONSTANTS
    Item = {i1}
    Request = {k1}
    Worker = {w1, w2}
    MaxAttempt = 3
    MaxRetries = 1
    Fault = {"crash", "duplicate", "database"}
SYMMETRY Symmetry
INVARIANTS
    TypeOK
    AtMostOneActive
    OutcomeHasEvent
    RequestAdmitsOnce
    ExclusiveIngestion
    ItemStaysTrue
PROPERTIES
    OutcomeIsFinal
CHECK_DEADLOCK FALSE
