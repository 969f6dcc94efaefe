SPECIFICATION Spec
CONSTANTS
    Users = {alice, bob}
    Timers = {t1, t2, t3}
    RiskSets = {{}}
    None = None
SYMMETRY Symmetry
INVARIANTS
    NeverRelocksWhileRunning
CHECK_DEADLOCK FALSE
