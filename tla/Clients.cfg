SPECIFICATION ClientsSpec
CONSTANTS
    Clients = {c1, c2}
    Sessions = {s1}
    None = None
    Slow = {}
    Requests = {"RegisterActivitySubscriber", "RegisterSummarySubscriber", "UnregisterSummarySubscriber"}
    Orphanable = {}
    MaxEvents = 0
    MaxQueue = 2
    MaxGen = 2
    MaxOps = 2
    MaxSessions = 2
    MaxAsked = 4
    MaxCancels = 1
    MaxForeign = 1
    DaemonMayDie = TRUE
CHECK_DEADLOCK FALSE
INVARIANTS
    AnsweredOrTracked
PROPERTIES
    DisconnectedIsForgotten
    PromptAnswered
