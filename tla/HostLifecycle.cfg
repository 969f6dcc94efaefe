SPECIFICATION FairSpec
CONSTANTS
    Requests = {r1, r2}
    Recoveries = {b1, b2}
    Faults = {"journal", "drain", "backup", "database", "commit", "reload", "crash"}
    MaxTrouble = 4
    None = None
INVARIANTS
    ProductInv
PROPERTIES
    WipesDrained
    ImplementsContract
    ResetEnds
CHECK_DEADLOCK FALSE
