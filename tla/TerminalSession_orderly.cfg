\* A tab whose sockets never overlap, against a server that replaces dead sessions.
CONSTANTS
    k1 = k1
    k2 = k2
    s1 = s1
    s2 = s2
    None = None
    Sockets <- MCSockets
    SessionIds <- MCSessionIds
    FlushThreshold = 2
    AttemptCap = 2
    Orderly = TRUE
    DeadPolicy = {"fresh"}
    SessionFirst = TRUE

SPECIFICATION SessionSpec

INVARIANTS
    OneSession

PROPERTIES
    ImplementsDriver
    LivePtyIsKept
    StartsWhenSized
