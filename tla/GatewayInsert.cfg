SPECIFICATION Spec
CONSTANTS
    NFds = 1
    Fds <- MCFds
    CmdFd = 10
    ListenFd = 11
    c0 = c0
    c1 = c1
    c2 = c2
    c3 = c3
    Conns <- MCConns
    CmdConn = c0
    NoConn = NoConn
    Timeout = 0
    MaxEvents = 1
    MaxIn = 0
    MaxBacklog = 1
    Minutes = TRUE
    HasSerialPort = FALSE
CHECK_DEADLOCK FALSE
SYMMETRY Symmetry
INVARIANT InsertFindsNoEntry
