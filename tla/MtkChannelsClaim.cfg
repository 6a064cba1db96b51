CONSTANTS
    MTK_CHANNEL_COUNT = 2
    ProxyIds <- MCProxyIds
    Dispatchers = {d1, d2}
    MaxJobs = 2
    MaxNoMem = 0
    MalThread = MalThread
    EventLoop = EventLoop
    Nobody = Nobody
    Slots = {0}
    MaxApns = 0
    MaxResets = 0
    MaxNoMemory = 0
SPECIFICATION PartsFairSpec
CHECK_DEADLOCK FALSE
INVARIANTS
    OneThreadPerChannel
