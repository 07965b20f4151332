SPECIFICATION MCSpec
CONSTANTS
    Clients = {c1, c2}
    Sessions = {s1, s2}
    None = None
    Slow = {c1}
    Requests = {"RegisterActivitySubscriber", "UnregisterActivitySubscriber"}
    Orphanable = {s2}
    MaxEvents = 2
    MaxQueue = 1
    MaxGen = 2
    MaxOps = 3
    ShareEvents = 1
    ShareOps = 2
CHECK_DEADLOCK FALSE
INVARIANTS
    AtMostOnce
    NoLoss
    AttachedViewComplete
