SPECIFICATION Spec
CONSTANTS
    None = None
    MaxTurns = 3
    max_turns = 2
    MaxCrashes = 1
    Outcomes <- AllOutcomes
    Commands = {"undo", "redo"}
    WriteFails = FALSE
PROPERTY TurnIdsGrow
