\* A token that is offered before a tick and taken after it.
SPECIFICATION LimiterSpec
CONSTANT Tokens = 2
INVARIANT OnlyNTimes
CHECK_DEADLOCK FALSE
