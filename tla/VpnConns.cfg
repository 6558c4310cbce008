SPECIFICATION Spec
CONSTANTS
    MaxConns = 2
    StorePayload = FALSE
    DumpMayFail = FALSE
    TcpTuples = {t1}
    UdpTuples = {t2}
    IcmpTuples = {}
    SocketMayFail = TRUE
CHECK_DEADLOCK FALSE
INVARIANTS
    CallbacksSafe
    JavaInSync
    NoLeakUnlessFaulted
PROPERTIES
    JavaMonotone
