\* An agent that stops while the input runs.
SPECIFICATION LotusSpec
CONSTANT MaxRecording = 2
INVARIANT ExitsOnlyIfFatal
CHECK_DEADLOCK FALSE
