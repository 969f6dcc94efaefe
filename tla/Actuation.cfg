SPECIFICATION FairSpec
CONSTANTS
    Users = {alice, bob}
    Timers = {t1, t2, t3}
    RiskSets = {{"send"}, {"send", "save"}, {"send", "read", "timer", "zero"},
                {"send", "save", "read", "timer", "zero"}}
    None = None
INVARIANTS
    ActuationInv
    HostAgreesWithCar
    DrainedIsSecured
    CountdownGuaranteed
PROPERTIES
    MaintenanceGrantsNothing
    SettlesSecured
CHECK_DEADLOCK FALSE
