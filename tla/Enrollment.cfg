SPECIFICATION ESpec
CONSTANTS
    Users = {1, 2}
    Devices = {1, 2}
    Faces = {1, 2}
    Requests = {1, 2}
    PinMaxFailures = 2
    FaceLimit = 1
    MaxMobileDevices = 1
    MaxGrants = 1
    MaxChanges = 1
    MaxOpen = 1
    MaxCrashes = 1
    Profiles = {
        {"enrollment.start", "user.role"},
        {"enrollment.start", "user.pin"},
        {"enrollment.start", "user.delete", "reset"}}
    None = none
INVARIANTS
    PendingIsWorkedOn
    OncePerRequest
PROPERTIES
    ImplementsOutcome
    EnrollmentSettles
CHECK_DEADLOCK FALSE
