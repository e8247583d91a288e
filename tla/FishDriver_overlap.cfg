\* Sockets may overlap: connect() while another socket is still alive.
CONSTANTS
    k1 = k1
    k2 = k2
    s1 = s1
    s2 = s2
    None = None
    Sockets <- MCSockets
    SessionIds <- MCSessionIds
    FlushThreshold = 2
    AttemptCap = 2
    Orderly = FALSE
    DeadPolicy = {"fresh", "refuse"}
    SessionFirst = FALSE

SPECIFICATION Spec

INVARIANTS
    TypeOK
    TimersMatchState
    SocketsMatchState

PROPERTIES
    StopIsFinal
    WaitsEnd
