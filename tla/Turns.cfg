SPECIFICATION RecordsSpec
CONSTANTS
    None = None
    MaxTurns = 4
    max_turns = 2
    MaxCrashes = 1
    Outcomes <- AllOutcomes
    Commands = {"undo", "redo"}
    WriteFails = FALSE
    MaxLines = 2
    MaxLate = 1
    PipeCap = 1
    MergeCap = 1
    OutCap = 1
    StreamLimit = 3
INVARIANTS
    TypeOK
    NoUndoneContext
    StoredHistory
    PlainChainHoldsHistory
    RecordIsWhole
PROPERTIES
    UndoSticks
    CommandEnds
