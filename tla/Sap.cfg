CONSTANTS
    Kinds = {"connect", "disconnect", "apdu", "transferAtr", "power", "resetSim", "transferCardReaderStatus", "setTransferProtocol"}
    Tokens = {t1, t2}
    Vendors = {v1, v2}
    MaxRequests = 2
    MaxIndications = 1
SPECIFICATION Spec
SYMMETRY Symmetry
CHECK_DEADLOCK FALSE
INVARIANTS
    UseAfterFreeExplained
    AnsweredOnce
    NothingLeft
