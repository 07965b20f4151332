CONSTANTS
    Clients = {c1}
    SessionThreads = {s1}
    Cap = 1
    Budget = 1
    MaxBroadcasts = 2
    MaxReplies = 1
    Depth = 3
    MaxTreeCancels = 2
    MayLock = TRUE
SPECIFICATION ThreadsSpec
CHECK_DEADLOCK FALSE
INVARIANTS
    CountersBalanced
    WaiterHasSender
PROPERTIES
    LaggardReaped
    CancelReachesStarted
    ExitTakesChildren
