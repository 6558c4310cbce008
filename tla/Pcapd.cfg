SPECIFICATION PcapdSpec
CONSTANTS
    MaxSessions = 2
    Modes = {"inet", "named", "file"}
    Links = {wlan, rmnet}
    FirstRoutes = {wlan, NULL}
    MaxChanges = 1
    Uids = {app1, app2}
    Filter <- OneApp
    NumRules = 2
    app1 = app1
    NULL = NULL
\* The model ends with the last capture.
CHECK_DEADLOCK FALSE
INVARIANTS
    DaemonsAccounted
    InterfaceAccounted
PROPERTIES
    DaemonResponds
