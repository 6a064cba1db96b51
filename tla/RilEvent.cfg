CONSTANTS
    MaxTimers = 3
    Threads = {th1, th2}
    Delays = {0, 2}
    MaxTime = 4
    MaxSignals = 1
SPECIFICATION FairSpec
CHECK_DEADLOCK FALSE
INVARIANTS
    LinkedOnce
    FiresInOrder
    NoLostWakeup
PROPERTIES
    EveryTimerFires
