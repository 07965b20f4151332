CONSTANTS
    AccountNames = {a1, a2}
    MaxConfig = 3
    Unbuildable = {3}
    MaxEdits = 1
    MaxOps = 3
    SaveMayFail = TRUE
    OpenAi = a1
    Default = a2
    None = None
    Calls = {"x", "y"}
    MaxPipe = 4
    Requesters = {r}
    Forced = {r}
    Interval = 1
    MaxEvents = 3
    NoValue = NoValue
SPECIFICATION PartSpec
CHECK_DEADLOCK FALSE
INVARIANTS
    AccountsAgree
    OwnAnswer
PROPERTIES
    CallsEnd
    CatalogConverges
