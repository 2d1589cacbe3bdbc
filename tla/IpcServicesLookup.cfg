SPECIFICATION Spec
CONSTANTS
    s1 = s1
    s2 = s2
    bsd = bsd
    user = user
    Slots = {s1, s2}
    Names = {bsd, user}
    Mapping <- MCMapping
    HandleBase = 1
    MaxHandle = 4
    MaxGen = 2
CHECK_DEADLOCK FALSE
INVARIANTS ErrorMovesNothing
