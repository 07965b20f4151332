SPECIFICATION ServerSpec
CONSTANTS
    UnixClients = {u1, u2}
    Fragile = {u1}
    TcpClients = {t1}
    MaxConnections = 2
    SetupMayFail = TRUE
CHECK_DEADLOCK FALSE
INVARIANTS
    RegisteredAreTold
PROPERTIES
    ShutdownCompletes
