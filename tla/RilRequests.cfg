CONSTANTS
    Slots = {0, 1}
    b1 = b1  b2 = b2  v1 = v1  v2 = v2  a1 = a1  a2 = a2  m1 = m1
    Binders = {b1, b2}
    Vendors = {v1, v2}
    Addr = {a1, a2}
    Kinds <- MCConverting
    Stale = {m1}
    Version = 13
    MaxRequests = 2
    MaxDups = 1
    NoAddr = NoAddr
SPECIFICATION Spec
SYMMETRY Threads
INVARIANTS
    TypeOK
    ListSound
    CompletedAtMostOnce
    PendingAccounted
    TokenAlive
    OwnResult
    AckedMeansExpected
