\* Lines written in two parts and datagrams delivered twice or never, up to the
\* first forced write.
SPECIFICATION PipelineSpec
CONSTANTS
    Agents = {1, 2}
    NodeCount = 3
    Packets <- SentByTwo
    Programs = {"free"}
    Faults = {"split", "long"}
    Faulty = {1}
    Radix = 2
    MaxCopies = 2
    MaxTime = 1
    MaxLines = 2
    MaxClock = 4
    Timeout = 0
    DiskMayFail = FALSE
    ClockMayStepBack = FALSE
    MaxReceived = 3
    MaxStarts = 1
INVARIANT GapFree
PROPERTY NothingLost
CONSTRAINT NotForced
\* Once the applications have written all their lines.
CHECK_DEADLOCK FALSE
