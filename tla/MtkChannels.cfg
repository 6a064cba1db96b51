CONSTANTS
    MTK_CHANNEL_COUNT = 2
    ProxyIds <- MCProxyIds
    Dispatchers = {d1, d2}
    MaxJobs = 4
    MaxNoMem = 1
    MalThread = MalThread
    EventLoop = EventLoop
    Nobody = Nobody
    Slots = {0, 1}
    MaxApns = 2
    MaxResets = 2
    MaxNoMemory = 1
SPECIFICATION PartsFairSpec
CHECK_DEADLOCK FALSE
INVARIANTS
    ProxyFifo
    WholeApn
    NewestKept
PROPERTIES
    EveryJobRuns
    OperationsEnd
