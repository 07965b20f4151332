CONSTANTS
    Depth = 2
    MaxTreeCancels = 1
    MayLock = FALSE
SPECIFICATION TreeSpec
CHECK_DEADLOCK FALSE
PROPERTY
    NoOrphan
