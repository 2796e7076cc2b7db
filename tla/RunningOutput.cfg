\* Both goroutines, every interleaving of their shared accesses, from the
\* alignment of the first flush on.
CONSTANTS
    Cap = 3
    BatchLimit = 2
    MaxMetrics = 5
    MaxBurst = 4
    RoundInterval = TRUE
SPECIFICATION RecoveringSpec
INVARIANTS LengthCountsUnsent NeverSkipsBatchSize  NeverOverReports
PROPERTIES Terminates SettledOnceQuiet
