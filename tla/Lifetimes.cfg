CONSTANTS
    Chats = {"s1", "s2"}
    MinNew = 1
    StartBound = 2
    WriteBound = 1
    RefreshBound = 1
    Generations = {1, 2}
    AskBound = 1
    DeathBound = 1
    OpCap = 7
    SampleOps = 3
    HostCap = 2
    OutputMax = 4
    LineSizes = {1, 5}
    LineMax = 5
    ResultSizes = {0, 2, 6}
    Notice = 1
    Budget = 1
    CallTimeout = 2
    ClockBound = 3
SPECIFICATION FairSpec
INVARIANT LifetimesKept
PROPERTIES NewsKept MemoryCatchesUp ConnectionLossShown ScriptsEnd
CHECK_DEADLOCK FALSE
