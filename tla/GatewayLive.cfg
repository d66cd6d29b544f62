SPECIFICATION FairSpec
CONSTANTS
    NFds = 1
    Fds <- MCFds
    CmdFd = 10
    ListenFd = 11
    c0 = c0
    c1 = c1
    c2 = c2
    c3 = c3
    Conns <- FewConns
    CmdConn = c0
    NoConn = NoConn
    Timeout = 0
    MaxEvents = 4
    MaxIn = 1
    MaxBacklog = 1
    Minutes = FALSE
    HasSerialPort = FALSE
CHECK_DEADLOCK FALSE
INVARIANTS
    EntryOwnsDescriptor
    InputNotStranded
PROPERTIES
    ServerReconnects
    ExpiredLeave
