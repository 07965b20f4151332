CONSTANTS
    Ids <- SameIds
    MaxCancels = 0
    MaxChunks = 1
    ChanCap = 1
    Faulty = FALSE
SPECIFICATION Spec
CHECK_DEADLOCK FALSE
INVARIANTS
    EveryCallAnswered
