SPECIFICATION MCSpec
CONSTANTS
    NULL = NULL
    c1 = c1
    c2 = c2
    a1 = a1
    i1 = i1
    i2 = i2
    h1 = h1
    h2 = h2
    Netd = netd
    Phone = phone
    Unknown = unknown
    Conns = {c1, c2}
    Dns = {c2}
    Uid <- MCUid
    Ip <- MCIp
    Host <- MCHost
    Cached <- MCCached
    Lists <- MCLists
    Blacklists <- MCBlacklists
    MaxChanges = 2
    FirewallVisible = TRUE
    Pkgs = {1, 2}
    AppUids = {10, 11}
    HostRules <- MCHostRules
    Hosts <- MCHosts
    MaxPkgEvents = 4
    MaxEdits = 3
    MaxHostEdits = 3
\* The model ends when the capture has stopped.
CHECK_DEADLOCK FALSE
INVARIANTS
    BlocksByTheRules
    ListsAccounted
    NewestIsChosen
    UidsFollowRules
    HostsInSync
