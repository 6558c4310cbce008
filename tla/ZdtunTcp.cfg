\* One TCP connection, direct or through a SOCKS5 proxy with a password.  The window
\* holds one byte, so that every second byte waits for a window update.
SPECIFICATION TcpSpec
CONSTANTS
    ProxyModes = {TRUE, FALSE}
    Auth = TRUE
    Upload = 2
    Download = 2
    Window = 1
    Scale = 2
    MSS = 4
    WindowMod = 16
    MaxTun = 1
\* The model ends when the connection is closed.
CHECK_DEADLOCK FALSE
INVARIANTS
    UploadInOrder
    DownloadInOrder
PROPERTIES
    TransfersEnd
