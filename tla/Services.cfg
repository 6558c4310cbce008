SPECIFICATION ServicesSpec
CONSTANTS
    Modes = {"pcap", "trailer", "pcapng"}
    Snaplens = {0, 5}
    MaxSnaplen = 60
    Limits = {0, 230}
    BufferSize = 150
    AlmostFull = 100
    PktLens = {3, 60}
    SecretLens = {20, 70}
    MaxPkts = 3
    MaxSecrets = 3
    Ports = {1, 2}
    MaxConns = 3
    MaxMsgs = 2
    RegSize = 2
    CacheSize = 1
    MaxPending = 0
    Nets = {1, 2}
    MaxInst = 2
    MaxChanges = 3
\* Each of the services stops when its bounds are reached.
CHECK_DEADLOCK FALSE
INVARIANTS
    SizeRespected
    DumpAccounted
    MessagesReachOwner
    ErrorShown
    StoppedIsReleased
    NothingArmed
PROPERTIES
    PacketsExported
    MessagesHandled
    ReceiverStops
    ReconnectEnds
