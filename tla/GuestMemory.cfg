SPECIFICATION Spec
CONSTANTS
    AddrSpace = 20
    LenSpace = 10
    HeapBase = 8
    RamSize = 10
    StaticMap <- MCStaticMap
    Tls <- MCTls
    MaxWidth = 2
    InfoSize = 2
    Byte = {"one"}
    Zero = "zero"
    HeapSizes = {2, 4, 14}
    Mirrors <- MCMirrors
    Unmaps <- MCUnmaps
    Queries <- MCQueries
    Accesses <- MCAccesses
    MaxStamp = 6
CHECK_DEADLOCK FALSE
INVARIANTS TypeOK HeapMapped NullBlocksBelowHeap AccessInBounds ListTruthful
PROPERTIES ResolutionStable ResizeKeepsData MirrorCopies UnmapKeepsOutside IsAddressSpace
