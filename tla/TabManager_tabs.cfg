\* Two tabs and two sessions, one of them reporting, two saves in flight at most
\* and one kill.
CONSTANTS
    s1 = s1
    s2 = s2
    None = None
    SessionIds = {s1, s2}
    MaxTabs = 2
    MaxSaved = 2
    MaxSaves = 2
    Reporters = {2}
    Texts = {None}
    MaxKills = 1
    Kinds <- MCKinds

SPECIFICATION Safety
SYMMETRY Symmetry
\* The page may be gone and the kill spent.
CHECK_DEADLOCK FALSE

INVARIANTS
    TabsAreConsistent
    SavesAreCurrent

PROPERTIES
    NoTabForgotten
    RestoreIsComplete
    LiveTitleWins
