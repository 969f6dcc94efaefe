SPECIFICATION Spec
CONSTANTS
    Requests = {r1}
    Recoveries = {b1}
    Faults = {"drain", "backup", "reload"}
    MaxTrouble = 2
    None = None
INVARIANTS
    FailureKeepsMaintenance
