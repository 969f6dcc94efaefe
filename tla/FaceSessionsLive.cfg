SPECIFICATION FairSpec
CONSTANTS
    Sessions = {s1, s2}
    Kinds = {"scan", "enroll"}
    Callers = {"force", "sync", "quiesce", "close"}
    FaultSets = {{"capture"}}
    None = None
PROPERTIES
    LockIsDispatched
    SlotIsFreed
CHECK_DEADLOCK FALSE
