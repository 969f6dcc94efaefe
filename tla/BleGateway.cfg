SPECIFICATION Spec
CONSTANTS
    Devices = {d1, d2}
    MaxClients = 1
    Buffer = 1
    MaxTunnels = 2
    MaxChunks = 2
    Scenes = {"stop", "share", "reconnect"}
    None = none
INVARIANTS
    GatewayInv
    RegistrationSettled
PROPERTIES
    ImplementsTunnel
    NothingHangs
CHECK_DEADLOCK FALSE
