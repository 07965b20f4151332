CONSTANTS
    Clients = {c1, c2}
    Keyed = {c1, c2}
    WrongKeys = {}
    TailMayFail = TRUE
    Overlaps = TRUE
    MaxSends = 1
    MaxConnects = 3
    NoKey = NoKey
SPECIFICATION KeystoreSpec
CHECK_DEADLOCK FALSE
INVARIANTS
    BindingIsHeld
PROPERTIES
    KeyedClientBinds
