\* An agent that is started after its application has logged.
SPECIFICATION PipelineSpec
CONSTANTS
    Agents = {1, 2}
    NodeCount = 3
    Packets <- SentByTwo
    Programs = {"free"}
    Faults = {"restart"}
    Faulty = {2}
    Radix = 10
    MaxCopies = 1
    MaxTime = 1
    MaxLines = 4
    MaxClock = 4
    Timeout = 0
    DiskMayFail = FALSE
    ClockMayStepBack = FALSE
    MaxReceived = 2
    MaxStarts = 1
INVARIANT NoneInverted
CONSTRAINT LateStart
CHECK_DEADLOCK FALSE
