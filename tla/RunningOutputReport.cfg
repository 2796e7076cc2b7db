\* Drops counted between the load and the store, or by Reject.
CONSTANTS
    Cap = 3
    BatchLimit = 2
    MaxMetrics = 6
    MaxBurst = 4
    RoundInterval = FALSE
SPECIFICATION RunSpec
INVARIANT DropsAreReported
