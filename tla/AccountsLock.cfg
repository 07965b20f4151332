CONSTANTS
    AccountNames = {a1, a2}
    MaxConfig = 2
    Unbuildable = {2}
    MaxEdits = 0
    MaxOps = 3
    SaveMayFail = TRUE
    OpenAi = a1
    Default = a2
    None = None
SPECIFICATION AccountsSpec
CHECK_DEADLOCK FALSE
INVARIANT
    LockDestroysCredentials
