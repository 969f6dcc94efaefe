SPECIFICATION FairSpec
CONSTANTS
    Ids = {1, 2}
    NoId = 0
    UpCap = 2
    MaxTrouble = 1
    DownCap = 2
INVARIANTS
    GrantedWasActed
    LinkAgrees
    ReaderFreeForAck
PROPERTIES
    ScanEnds
    RecordedLockArrives
CHECK_DEADLOCK FALSE
