SPECIFICATION Spec
CONSTANTS
    Packets <- ThreeNodes
    NodeCount = 3
    Timeout = 1
    DiskMayFail = FALSE
    ClockMayStepBack = FALSE
    MaxReceived = 3
    MaxStarts = 1
PROPERTY WaitIsBounded
CHECK_DEADLOCK FALSE
