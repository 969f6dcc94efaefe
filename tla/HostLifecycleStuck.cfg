SPECIFICATION FairSpec
CONSTANTS
    Requests = {r1}
    Recoveries = {b1}
    Faults = {"drain", "reload"}
    MaxTrouble = 3
    None = None
PROPERTIES
    RetriesEnd
CHECK_DEADLOCK FALSE
