SPECIFICATION BlacklistsSpec
CONSTANTS
    NumFiles = 2
    MaxVersion = 1
    MaxCaptures = 2
    Timeouts = FALSE
    NULL = NULL
\* The last capture may have stopped.
CHECK_DEADLOCK FALSE
INVARIANTS
    BlacklistsAccounted
PROPERTIES
    ReloadsEnd
