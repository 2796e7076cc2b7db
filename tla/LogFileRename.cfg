\* A rename that goes on failing.
SPECIFICATION LogSpec
CONSTANTS
    MaxSize = 2
    MaxArchives <- KeepAll
    MaxLines = 3
    MaxSeconds = 2
    MaxWriters = 3
PROPERTY KeepsLogOpen
CHECK_DEADLOCK FALSE
