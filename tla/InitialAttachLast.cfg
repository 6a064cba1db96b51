CONSTANTS
    Slots = {0}
    MaxApns = 2
    MaxResets = 1
    MaxNoMemory = 0
SPECIFICATION AttachSpec
CHECK_DEADLOCK FALSE
INVARIANTS
    ModemHasLast
