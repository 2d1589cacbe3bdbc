SPECIFICATION Spec
CONSTANTS
    w1 = w1
    w2 = w2
    brk = brk
    CodeAddr <- MCCodeAddr
    Image <- MCImage
    Word <- MCWord
    Brk = brk
    BpTypes <- MCBoth
    Watches <- MCNoWatches
    Touches <- MCFewTouches
    Shared = FALSE
    MaxReplies = 0
INVARIANTS TypeOK BreakpointsTransparent StopMeansStopped
PROPERTIES NoRunThrough BreakpointReported CommandAnswered
CHECK_DEADLOCK FALSE
