\* One input that gathers and two service inputs; channels that are full at once.
CONSTANTS
    Input = {cpu}
    NServices = 2
    NOutputs = 1
    ChanCap = 1
    MaxMetrics = 2
SPECIFICATION FairSpec
CHECK_DEADLOCK FALSE
INVARIANTS NeverSendsOnClosed NothingLeftBehind ServicesStopped
PROPERTY ShutdownCompletes
