CONSTANTS
    t1 = t1
    t2 = t2
    t3 = t3
    b1 = b1
    b2 = b2
    Threads <- MCThreads
    Blocks <- MCBlocks
    Nobody = Nobody
    Null = Null
    MaxItems = 2
    SemThreads <- MCSemThreads
    MaxCount = 2
    MaxClock = 4
    Wrap = 8
    Times = {0, 1, 2, 3}
    Supported = {"REALTIME", "MONOTONIC"}
SPECIFICATION WaitSpec
\* A thread that lost its wakeup may sleep for ever, and all blocks may be gone.
CHECK_DEADLOCK FALSE
INVARIANTS
    NoLostWakeup
    DisciplinedNeverRaces
    NothingLost
    ClocksKeepTime
PROPERTIES
    LimitedWaitsEnd
