SPECIFICATION Spec
CONSTANTS
    BufSize = 6
    Chars <- MCChars
    MaxRaw = 5
    ReadSizes <- MCReadSizes
INVARIANTS TypeOK BufferBound AcceptedIsDecoded RefusedIsDamaged
PROPERTY DropOnlyWhenFull
