SPECIFICATION ThreadsSpec
CONSTANTS
    UpdatesCap = 2
    DumpCap = 2
    MaxBatches = 3
    MaxChunks = 3
    MaxWakes = 1
    DumpEnabled = TRUE
    DumperMayFail = TRUE
    EarlyStop = TRUE
CHECK_DEADLOCK FALSE
INVARIANTS
    RegisteredIsPrefix
    StoppedIsComplete
PROPERTIES
    StopCompletesUnlessLost
