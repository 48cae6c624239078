SPECIFICATION FairSshd
CONSTANTS
    p1 = p1
    p2 = p2
    Processes <- MCProcesses
    Absent = Absent
    Foreign = Foreign
    NoHost = NoHost
    MaxStarts = 3
    MaxSent = 1
INVARIANTS
    SshdTypeOK
    NothingLost
    TargetReleased
    SocketPrivate
    ServerReachable
    FailsForCause
PROPERTIES
    ForwardEnds
    ConnectionsSettle
CHECK_DEADLOCK FALSE
