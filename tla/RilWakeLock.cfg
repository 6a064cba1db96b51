CONSTANTS
    Notifiers = {n1, n2}
    Ackers = {a1}
    Versions = {12, 13}
    MaxTimers = 4
    MaxAcks = 2
    Nobody = Nobody
SPECIFICATION FairSpec
CHECK_DEADLOCK FALSE
INVARIANTS
    HeldHasTimer
    LastIsLive
PROPERTIES
    FinallyReleased
