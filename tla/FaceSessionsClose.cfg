SPECIFICATION Spec
CONSTANTS
    Sessions = {s1}
    Kinds = {"enroll"}
    Callers = {"close"}
    FaultSets = {{"store"}}
    None = None
SYMMETRY Symmetry
INVARIANTS
    CloseLocks
CHECK_DEADLOCK FALSE
