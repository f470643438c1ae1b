\* Agents, network and server without faults: a network that loses nothing but
\* delivers in any order, at any time.
SPECIFICATION FairPipeline
CONSTANTS
    Agents = {1, 2}
    NodeCount = 3
    Packets <- SentByTwo
    Programs = {"free", "gen_log"}
    Faults = {"blank"}
    Faulty = {1,2}
    Radix = 10
    MaxCopies = 1
    MaxTime = 1
    MaxLines = 3
    MaxClock = 4
    Timeout = 0
    DiskMayFail = FALSE
    ClockMayStepBack = FALSE
    MaxReceived = 8
    MaxStarts = 1
INVARIANTS
    ClocksFollowApps
    AggregateCausal
PROPERTIES
    EveryLineStored
    ImplementsAggregation
\* Once the applications have written all their lines.
CHECK_DEADLOCK FALSE
