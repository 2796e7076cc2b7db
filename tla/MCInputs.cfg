SPECIFICATION InputsSpec
CONSTANTS
    Group = {g1, g2, g3}
    Handle = {h1, h2, h3}
    MaxTracked = 2
    None = None
    MaxRecording = 2
    HeadLag = 2
    MaxHeight = 4
    MaxMoves = 9
    Identity = {"p1", "p2"}
    Throttle = 3
    MaxTime = 8
    Claim = {"c1", "c2"}
    MaxOffset = 2
    MaxUndelivered = 1
    MaxSessions = 2
    Receiver = {"r1", "r2"}
    MqttMaxUndelivered = 1
    MaxMqttMessages = 2
    MaxLosses = 2
    Cap = 4
    BatchLimit = 3
    MaxMetrics = 14
    MaxBurst = 11
INVARIANTS
    NeverPanics ReportsRight
    PanicsOnlyAfterStop
    ParentsFirst
    TagsOnceKnown
    SlotsBalance FindsMessage
    SlotsSurviveReconnect
    NoOrphan
    ClosedFormIsLoop
PROPERTIES
    EveryGroupReported
    LostSourceIsFatal
    FollowsFeed
    MarkIsDeserved StopReturns
    Reconnects
    ExecdStopReturns
CHECK_DEADLOCK FALSE
