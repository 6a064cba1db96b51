CONSTANTS
    Versions <- MCVersions
    MaxCapabilities = 0
    Positions = 1
    Cids = {c0}
    Calls = {k1}
    MaxFailed = 0
SPECIFICATION PartsSpec
CHECK_DEADLOCK FALSE
INVARIANTS
    CallAcknowledged
