SPECIFICATION BlacklistsSpec
CONSTANTS
    NumFiles = 2
    MaxVersion = 1
    MaxCaptures = 2
    Timeouts = TRUE
    NULL = NULL
INVARIANT
    UpdatedIsWhole
CHECK_DEADLOCK FALSE
