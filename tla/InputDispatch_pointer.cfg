SPECIFICATION Spec
CONSTANTS
    Rows = 2
    MaxScrollback = 1
INVARIANTS
    PointerOK

PROPERTIES
    ReleaseEndsPress
    AppOwnsItsDrag
    DragKeepsAnchor
