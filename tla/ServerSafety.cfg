\* The server under loss, duplication, reordering, timeouts, clock changes,
\* a stop and a crash: the safety properties.
SPECIFICATION Spec
CONSTANTS
    Packets <- ThreeNodes
    NodeCount = 3
    Timeout = 1
    DiskMayFail = FALSE
    ClockMayStepBack = TRUE
    MaxReceived = 3
    MaxStarts = 2
INVARIANTS
    TypeOK
    CausalFile
    CommittedIsLub
    FlushReachesFixpoint
    BufferCausal
    LogCausal
PROPERTIES
    ImplementsCausalLog
    StopComesCloser
\* A process that was stopped after its last start stays down.
CHECK_DEADLOCK FALSE
