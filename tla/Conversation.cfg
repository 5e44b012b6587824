SPECIFICATION MCSpec
CONSTANTS
    Req = {r1, r2, r3}
    Msg = {m1, m2}
    Proc = {p1, p2}
    MaxThread = 3
    MaxLoss = 1
    MaxSection = 2
    MaxDelta = 2
    Query = {q1, q2}
    Segment = {s1}
    Pending = {"delete"}
    Todo = {t1}
    ActionTool = {"save_videos", "confirm_item_deletion"}
    RequestLimit = 4
    ToolLimit = 3
    MaxBatch = 2
    MaxSegments = 1
INVARIANTS
    TurnsStayInOrder
    AnswerIsWhole
    AgentKeepsItsWord
PROPERTIES
    ClosedThreadIsQuiet
    FollowsContract
    EverythingEnds
CHECK_DEADLOCK FALSE
