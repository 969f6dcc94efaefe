SPECIFICATION Spec
CONSTANTS
    Users = {alice, bob}
    Timers = {t1, t2, t3}
    RiskSets = {{"crossed"}}
    None = None
SYMMETRY Symmetry
INVARIANTS
    UnlockRelocks
CHECK_DEADLOCK FALSE
