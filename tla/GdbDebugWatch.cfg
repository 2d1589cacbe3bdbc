SPECIFICATION Spec
CONSTANTS
    w1 = w1
    w2 = w2
    brk = brk
    CodeAddr <- MCCodeAddr
    Image <- MCImage
    Word <- MCWord
    Brk = brk
    BpTypes <- MCSw
    Watches <- MCWatches
    Touches <- MCTouches
    Shared = FALSE
    MaxReplies = 1
INVARIANT BreakpointsTransparent
PROPERTIES NoRunThrough WatchStops
CHECK_DEADLOCK FALSE
