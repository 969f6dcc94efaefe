SPECIFICATION SSpec
CONSTANTS
    Users = {1, 2, 3}
    Devices = {1, 2, 3}
    Faces = {}
    PinMaxFailures = 2
    FaceLimit = 1
    MaxMobileDevices = 1
    MaxGrants = 1
    MaxChanges = 2
    MaxOpen = 2
    Profiles = {
        {"user.create", "user.role", "user.delete", "late", "recovery"},
        {"user.create", "pairing.invite", "user.pin"},
        {"user.create", "pairing.invite", "user.role"},
        {"user.create", "user.role", "device.revoke"},
        {"user.create", "pairing.invite", "device.revoke", "reset"},
        {"scan", "user.access", "user.pin", "failures", "late"},
        {"legacy", "recovery", "user.delete"}}
    None = none
INVARIANTS
    LimitsHold
    AuthorityIsCurrent
    RolesStand
PROPERTIES
    OwnerKeepsControl
CHECK_DEADLOCK FALSE
