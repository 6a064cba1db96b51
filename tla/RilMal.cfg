CONSTANTS
    MTK_CHANNEL_COUNT = 1
    ProxyIds = {0}
    SimIds = {0, 1}
    Dispatchers = {}
    Vendors = {v1}
    MaxJobs = 1
    MaxNoMem = 1
    MalThread = MalThread
    EventLoop = EventLoop
    Nobody = Nobody
    MAL_MAX_ATTEMPTS = 2
    MaxSerial = 2
SPECIFICATION FairSpec
CHECK_DEADLOCK FALSE
INVARIANTS
    TokenOutlivesUncrossed
    OwnAnswer
PROPERTIES
    EveryFrameAnswered
