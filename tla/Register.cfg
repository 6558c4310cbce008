SPECIFICATION AdapterSpec
CONSTANTS
    Size = 2
    MaxConns = 3
    MaxBatch = 3
    MaxUpdates = 2
    Ifaces = {0, 1}
    Reported <- MCReported
    MaxLag = 1
CHECK_DEADLOCK FALSE
INVARIANTS
    AssertHolds
    CountersRight
    ListConsistent
PROPERTIES
    ImplementsLog
