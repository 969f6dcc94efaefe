SPECIFICATION Spec
CONSTANTS
    Sessions = {s1, s2}
    Kinds = {"scan", "sensor", "enroll"}
    Callers = {"force", "sync", "quiesce", "close"}
    FaultSets = {{"capture", "teardown"}, {"store"}}
    None = None
SYMMETRY Symmetry
INVARIANTS
    SessionsInv
    NobodyLeftWaiting
    ReceiptIsTrue
PROPERTIES
    OutcomeIsFinal
CHECK_DEADLOCK FALSE
