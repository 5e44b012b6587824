SPECIFICATION MCSpec
CONSTANTS
    User = {1, 2}
    Policy <- MCPolicy
    MaxTries = 2
    MaxDay = 1
    Video = {v1, v2}
    Client = {c1, c2}
    Identity = {"telegram", "web"}
    Channel = {"telegram", "web"}
    ChannelOf <- MCChannelOf
    Linkable = {w}
    Extension = {"web"}
    MaxToken = 2
    MaxAttempt = 1
    MaxActs = 1
    Event = {1, 2}
    Direct = {d1}
    Repair = {r1, r2}
    BatchSize = 2
    MaxFaults = 2
SYMMETRY Symmetry
INVARIANTS
    NoLockCycle
PROPERTIES
    LinksAreClean
    LimitsHold
    OutboxIsHonest
CHECK_DEADLOCK FALSE
