SPECIFICATION Spec
CONSTANTS
    t1 = t1
    u1 = u1
    u2 = u2
    u3 = u3
    i1 = i1
    k1 = k1
    k2 = k2
    Tcp <- MCTcp
    Udp <- MCUdp
    Icmp <- MCIcmp
    Keys = {k1, k2}
    KeyOf <- MCKeyOf
    LocalPorts = {1, 2, 3}
    MAX_NUM_SOCKETS = 3
    NUM_SOCKETS_AFTER_PURGE = 1
    Timeout <- MCTimeout
INVARIANTS
    ResourcesAccounted
PROPERTIES
    PurgeMakesRoom
