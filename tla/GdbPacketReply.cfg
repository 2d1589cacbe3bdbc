SPECIFICATION Spec
CONSTANTS
    BufSize = 6
    Chars <- MCChars
    MaxRaw = 2
    ReadSizes <- MCReadSizes
INVARIANT MemoryReplyFits
