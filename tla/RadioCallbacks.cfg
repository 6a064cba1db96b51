CONSTANTS
    Services <- OneRadio
    Vendors = {v1}
    Binder = Binder
    EventLoop = EventLoop
    MaxClients = 2
    MaxCalls = 1
    MaxNitz = 2
SPECIFICATION FairSpec
CHECK_DEADLOCK FALSE
INVARIANTS
    LockBalanced
    CallbackStays
    NitzKept
PROPERTIES
    OnlyDeadDropped
    CallEnds
