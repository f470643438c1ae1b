SPECIFICATION Spec
CONSTANTS
    Packets <- SameSecond
    NodeCount = 3
    Timeout = 1
    DiskMayFail = FALSE
    ClockMayStepBack = FALSE
    MaxReceived = 3
    MaxStarts = 1
INVARIANT LogCausal
CHECK_DEADLOCK FALSE
