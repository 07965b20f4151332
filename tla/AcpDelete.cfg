CONSTANTS
    MaxSessions = 2
    MaxAsked = 4
    MaxCancels = 0
    MaxForeign = 0
    DaemonMayDie = FALSE
SPECIFICATION LoadSpec
CHECK_DEADLOCK FALSE
PROPERTY DeleteAnswered
