SPECIFICATION Spec
CONSTANTS
    Producers = {"ui", "reader", "ssh"}
    MaxItems = 3
    MaxCallbacks = 3
    MaxPtys = 3
    Inputs <- MCInputs
INVARIANTS
    PtysEndOnce
    SessionHasInput

PROPERTIES
    ImplementsChannel
    StopReturns
