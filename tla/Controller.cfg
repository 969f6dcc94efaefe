SPECIFICATION LiveSpec
CONSTANTS
    Readings = 1
    Travel = 2
    MaxRequests = 2
    MaxResets = 1
    RxCap = 1
    TxCap = 1
INVARIANTS
    CtlInv
PROPERTIES
    PositionKeptAtRest
    ImplementsRequester
    UnlocksOnlyWhenTold
    RequestsResolve
