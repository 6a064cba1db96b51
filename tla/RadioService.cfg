CONSTANTS
    Versions <- MCVersions
    MaxCapabilities = 1
    Positions = 2
    Cids = {c0, c1}
    Calls = {k1, k2, k3}
    MaxFailed = 1
SPECIFICATION PartsSpec
CHECK_DEADLOCK FALSE
INVARIANTS
    OwnCallback
    ErrorFaithful
    ReadsFit
    CapabilityWhole
    OwnInterface
    PositionsBacked
