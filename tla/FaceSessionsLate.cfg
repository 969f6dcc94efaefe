SPECIFICATION FairSpec
CONSTANTS
    Sessions = {s1, s2}
    Kinds = {"scan"}
    Callers = {"force", "quiesce"}
    FaultSets = {{"capture"}}
    None = None
PROPERTIES
    SlotComesFree
CHECK_DEADLOCK FALSE
