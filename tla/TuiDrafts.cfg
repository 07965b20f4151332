SPECIFICATION TuiSpec
CONSTANTS
    MaxChats = 3
    Stored = 2
    MaxTyped = 2
    MaxKeys = 3
    MaxElsewhere = 1
CHECK_DEADLOCK FALSE
INVARIANTS
    DraftsSurvive
