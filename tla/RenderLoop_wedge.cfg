\* A frame request of the vsync thread races the destruction of the handle.
CONSTANT TrailingFlushFrames <- MCTrailing

SPECIFICATION Safety

INVARIANT CanRequestAgain
