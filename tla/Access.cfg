SPECIFICATION MCSpec
CONSTANTS
    Account = {a1, a2}
    Challenge = {c1, c2}
    Pairing = {p1, p2}
    MaxCode = 2
    Grant = {g1}
    Client = {k1, k2}
    Requester = {r1}
    ActiveLimit = 1
    AttemptLimit = 2
    PairingLimit = 1
    MaxTurns = 2
    Process = {p, s}
    Http = {p}
    McpGrant = {g, h}
    Full = {g}
    Call = {c, d}
    NoGrant = NoGrant
    MaxOperator = 1
    MaxMessage = 2
    Tab = {t, u}
    MaxSession = 2
    MaxChallenge = 2
    MaxPending = 2
INVARIANTS
    RevokedIsRefused
    ServedAsAdmitted
    OneAccountPerClient
PROPERTIES
    ImplementsOneTimeSecret
    CredentialsStayTrue
    NobodyWaits
CHECK_DEADLOCK FALSE
