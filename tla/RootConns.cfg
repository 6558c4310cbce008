SPECIFICATION Spec
CONSTANTS
    MaxConns = 2
    StorePayload = FALSE
    DumpMayFail = TRUE
    Tuples = {t1, t2}
    NoConn = NoConn
CHECK_DEADLOCK FALSE
INVARIANTS
    SlotsSafe
    JavaInSync
    NoLeakUnlessFaulted
PROPERTIES
    PurgedAreFreed
