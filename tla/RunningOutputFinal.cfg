\* Shutdown while the first flush is being aligned.
CONSTANTS
    Cap = 2
    BatchLimit = 2
    MaxMetrics = 3
    MaxBurst = 3
    RoundInterval = TRUE
SPECIFICATION RunSpec
INVARIANT AlwaysFinalWrite
