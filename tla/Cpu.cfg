SPECIFICATION Spec
CONSTANTS
    Half = 4
    PageBits = 3
    General <- MCGeneral
    Vectors <- MCVectors
    Stack = 72
    Tls = 203
    Data <- MCData
    Starts <- MCStarts
CHECK_DEADLOCK FALSE
INVARIANTS TypeOK CompareDecides WideSum
PROPERTIES Architecture
