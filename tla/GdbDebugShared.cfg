SPECIFICATION Spec
CONSTANTS
    w1 = w1
    w2 = w2
    brk = brk
    CodeAddr <- MCCodeAddr
    Image <- MCImage
    Word <- MCWord
    Brk = brk
    BpTypes <- MCBoth
    Watches <- MCNoWatches
    Touches <- MCFewTouches
    Shared = TRUE
    MaxReplies = 0
INVARIANT RestoresOriginal
CHECK_DEADLOCK FALSE
