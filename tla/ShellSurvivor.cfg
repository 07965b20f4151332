SPECIFICATION ShellSpec
CONSTANTS
    MaxLines = 2
    MaxLate = 1
    PipeCap = 1
    MergeCap = 1
    OutCap = 1
    StreamLimit = 3
CHECK_DEADLOCK FALSE
INVARIANTS
    RecordIsAlwaysStream
