\* Two agents; files that are truncated and lines cut in two befall one of them, and
\* restarts, and an empty line first.  Radix 2 has a number of two digits among three lines.
SPECIFICATION FairSpec
CONSTANTS
    Agents = {1, 3}
    NodeCount = 3
    Programs = {"free", "gen_log"}
    Faults = {"split", "rotate", "restart", "blank"}
    Faulty = {1}
    Radix = 2
    MaxCopies = 1
    MaxTime = 1
    MaxLines = 3
INVARIANTS
    TypeOK
    ReadOnce
    ForeignFollowsApp
PROPERTY CatchesUp
\* Once the applications have written all their lines.
CHECK_DEADLOCK FALSE
