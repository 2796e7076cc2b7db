\* Tags in columns: a tag set that is contained in one already recorded.
SPECIFICATION ServicesSpec
CONSTANTS
    PgBatch <- PgBatchSet
    CacheSize = 1
    MaxBatches = 2
    MaxFaults = 2
    Period = 2
    Delay = 1
    Grace = 1
    Starts = {0, 1}
    EndOfTime = 5
    MaxAggMetrics = 2
    MaxIterations = 3
    MaxSignals = 3
    MaxSize = 2
    MaxArchives = 1
    MaxLines = 3
    MaxSeconds = 2
    MaxWriters = 3
    Tokens = 2
    Cap = 4
    BatchLimit = 3
    MaxMetrics = 13
    MaxBurst = 5
INVARIANT TagsResolve
CHECK_DEADLOCK FALSE
