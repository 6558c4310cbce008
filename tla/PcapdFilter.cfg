SPECIFICATION PcapdSpec
CONSTANTS
    MaxSessions = 1
    Modes = {"inet"}
    Links = {wlan, rmnet}
    FirstRoutes = {wlan, NULL}
    MaxChanges = 0
    Uids = {app1, app2}
    Filter <- OneApp
    NumRules = 0
    app1 = app1
    NULL = NULL
PROPERTY
    SocketClosedExits
CHECK_DEADLOCK FALSE
