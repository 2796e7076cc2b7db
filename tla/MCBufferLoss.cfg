\* A write during which the ring and the batch are overrun.
CONSTANTS
    Cap = 4
    BatchLimit = 3
    MaxMetrics = 14
    MaxBurst = 9
SPECIFICATION Spec
CHECK_DEADLOCK FALSE
INVARIANT ExactlyOnePlace
