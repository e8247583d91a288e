\* One host, its surface created, resized, hidden and destroyed at any time.
CONSTANT TrailingFlushFrames <- MCTrailing

SPECIFICATION Spec

INVARIANTS
    TypeOK
    DrawsHaveSurface

PROPERTIES
    DestroyEnds
    TicksCarryOn
    FramesAreLatched
    GridFitsWindow
