\* Metrics added during a write displace those it counted.
CONSTANTS
    Cap = 3
    BatchLimit = 2
    MaxMetrics = 6
    MaxBurst = 4
    RoundInterval = FALSE
SPECIFICATION RunSpec
PROPERTY WriteSendsSnapshot
