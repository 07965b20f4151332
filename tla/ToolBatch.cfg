CONSTANTS
    Ids <- TwoCalls
    MaxCancels = 1
    MaxChunks = 1
    ChanCap = 1
    Faulty = TRUE
    Apis = {"chat", "responses", "anthropic", "google"}
    MaxAttempts = 2
    MaxEvents = 4
    MaxToolCalls = 3
    ChannelCap = 1
SPECIFICATION WorkerSpec
CHECK_DEADLOCK FALSE
INVARIANTS
    TurnIsTheResponse
PROPERTIES
    BatchEnds
    AnsweredOnce
    RequestEnds
