\* Every entry leaves the memory of the server, and a stop ends the process.
SPECIFICATION FairSpec
CONSTANTS
    Packets <- WithFourthNode
    NodeCount = 3
    Timeout = 1
    DiskMayFail = TRUE
    ClockMayStepBack = FALSE
    MaxReceived = 3
    MaxStarts = 1
PROPERTIES
    Drains
    StopEnds
\* A process that was stopped after its last start stays down.
CHECK_DEADLOCK FALSE
