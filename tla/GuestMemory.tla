---------------------------- MODULE GuestMemory ----------------------------
(***************************************************************************)
(* The guest physical address space of the emulator: the region vector of  *)
(* Memory.cpp, the byte accesses of ARMv8/MMU.cpp and the supervisor calls *)
(* of Svc.cpp that map, copy, unmap and describe memory.                   *)
(*                                                                         *)
(* Addresses below heap_base are "straight": they index pRAM and the       *)
(* region vector is not consulted.  Every other address is looked up in    *)
(* the vector, first match wins, and reads the host block of that region.  *)
(* The vector only grows at its back and erase keeps the order of the      *)
(* rest, so a region is a record with a stamp: its place in that order.    *)
(***************************************************************************)
EXTENDS Integers, FiniteSets, Sequences

CONSTANTS
    AddrSpace,   \* number of guest addresses, 2^64 in the code
    LenSpace,    \* number of values of an unsigned int, 2^32 in the code
    HeapBase,    \* heap_base, which is also straight_max
    RamSize,     \* ram_size, the bytes behind pRAM
    StaticMap,   \* mem_map_straight, a sequence of [addr, len]
    Tls,         \* the thread local page that ARMv8::Init maps, [addr, len]
    MaxWidth,    \* widest single access in bytes
    InfoSize,    \* sizeof(MemInfo), 40 in the code
    Byte,        \* values the guest stores in a byte
    Zero,        \* the byte mmap fills pRAM with
    HeapSizes,   \* bound: the sizes the guest passes to SetHeapSize
    Mirrors,     \* bound: the <<dest, src, size>> passed to MirrorStack
    Unmaps,      \* bound: the <<dest, size>> passed to UnmapMemory
    Queries,     \* bound: the <<meminfo, addr>> passed to QueryMemory
    Accesses,    \* bound: the <<address, width>> the guest loads and stores
    MaxStamp     \* bound: number of regions ever pushed

ASSUME SpaceAssumption ==
    /\ AddrSpace \in Nat /\ LenSpace \in Nat /\ RamSize \in Nat
    /\ HeapBase \in Nat /\ HeapBase <= RamSize /\ 0 < LenSpace
    /\ HeapBase + LenSpace <= AddrSpace
    /\ RamSize < AddrSpace
    /\ MaxWidth \in Nat /\ 0 < MaxWidth /\ MaxWidth <= HeapBase
    /\ InfoSize \in Nat /\ 0 < InfoSize
    /\ MaxStamp \in Nat

ASSUME MapAssumption ==
    /\ StaticMap \in Seq([addr : 0..(AddrSpace - 1), len : 0..(LenSpace - 1)])
    /\ \A i \in 1..Len(StaticMap) :
           StaticMap[i].addr + StaticMap[i].len < HeapBase
    /\ Tls \in [addr : 0..(AddrSpace - 1), len : 0..(LenSpace - 1)]
    /\ Tls.addr + Tls.len < HeapBase

ASSUME InputAssumption ==
    /\ HeapSizes \subseteq 0..(AddrSpace - 1)
    /\ Mirrors \subseteq (0..(AddrSpace - 1)) \X (0..(AddrSpace - 1)) \X Nat
    /\ Unmaps \subseteq (0..(AddrSpace - 1)) \X Nat
    /\ Queries \subseteq (0..(AddrSpace - 1)) \X (0..(AddrSpace - 1))
    /\ Accesses \subseteq (0..(AddrSpace - 1)) \X (1..MaxWidth)

VARIABLES
    regions,     \* the region vector
    stamp,       \* the next place at its back
    heap_size,   \* Memory::heap_size
    mem,         \* host storage: a byte for each cell of pRAM and the blocks
    unmapped,    \* history: the addresses of regions DelMemmap erased, and of
                 \* heap that a growth announced and AddMemmap could not map
    overrun,     \* a store has written behind the end of a block
    running      \* the process has not aborted, faulted or been terminated

vars == <<regions, stamp, heap_size, mem, unmapped, overrun, running>>

Addr == 0..(AddrSpace - 1)
Junk == "junk"                      \* a byte nobody can know: fresh from new[],
                                    \* or read behind the end of a block
Answer == "meminfo"                 \* a byte of a stored MemInfo
Value == Byte \cup {Zero, Junk, Answer}

(***************************************************************************)
(* A RAMBlock.  kind tells the elements of the static array mem_map_straight*)
(* from the anonymous blocks allocated with new, with or without storage.  *)
(***************************************************************************)
Region == [stamp : Nat, addr : Addr, len : 0..(LenSpace - 1),
           kind : {"static", "straight", "block"}]

UInt(n) == n % LenSpace             \* a 64-bit size passed as unsigned int
Wrap(n) == n % AddrSpace            \* uint64_t arithmetic

(* ReadBytes and WriteBytes take an int: a negative one copies nothing.    *)
IntSize(n) == IF 2 * UInt(n) < LenSpace THEN UInt(n) ELSE 0

End(r) == Wrap(r.addr + r.len)
Contains(r, a) == r.addr <= a /\ a <= End(r)
Span(r) == {a \in Addr : Contains(r, a)}

(* Mutant: only the first address is compared with the bound.             *)
IsStraightStart(a, n) == a <= HeapBase

IsStraight(a, n) == Wrap(a + n) <= HeapBase

(***************************************************************************)
(* FindRamBlock: the first region of the vector that contains the address. *)
(* The width of the access is not looked at.                               *)
(***************************************************************************)
Hits(rs, a) == {r \in rs : Contains(r, a)}
(* Mutant: the youngest region wins.                                      *)
FindYoungest(rs, a) ==
    CHOOSE r \in Hits(rs, a) : \A q \in Hits(rs, a) : r.stamp >= q.stamp

FindRamBlock(rs, a) ==
    CHOOSE r \in Hits(rs, a) : \A q \in Hits(rs, a) : r.stamp <= q.stamp

(***************************************************************************)
(* GetRawPtr.  A block that has no storage faults, an address in no region *)
(* aborts.  A cell is <<0, index into pRAM>> or <<stamp of the block,      *)
(* offset>>; offsets at and behind the block's length are not its own.     *)
(***************************************************************************)
Reachable(rs, a, n) ==
    IsStraight(a, n) \/ (Hits(rs, a) # {} /\ FindRamBlock(rs, a).kind = "block")

Cell(rs, a, n) ==
    IF IsStraight(a, n)
    THEN <<0, a>>
    ELSE <<FindRamBlock(rs, a).stamp, a - FindRamBlock(rs, a).addr>>

(***************************************************************************)
(* The bytes an access goes through.  The loops of ReadFromRAM and         *)
(* WriteToRAM compare 64-bit addresses: when the end of the access is at   *)
(* or over the top of the address space they do not run at all.            *)
(***************************************************************************)
Width(a, n) == IF a + n < AddrSpace THEN n ELSE 0

Touched(rs, a, n) ==
    {<<Cell(rs, a, n)[1], Cell(rs, a, n)[2] + i>> : i \in 0..(Width(a, n) - 1)}

(* Mutant: the block is a byte shorter than its region.                   *)
BlockCellsShort(r) == {r.stamp} \X (0..(r.len - 2))

(* The storage behind a region: new uint8_t[len].                          *)
BlockCells(r) == {r.stamp} \X (0..(r.len - 1))
RamCells == {0} \X (0..(RamSize - 1))
Cells(rs) == RamCells \cup UNION {BlockCells(r) : r \in {q \in rs : q.kind = "block"}}

(***************************************************************************)
(* The lookup includes the end of a region and does not look at the width, *)
(* so an access may leave the storage of the block it was found in.  That  *)
(* is undefined.  What the build can make of it: the stray bytes, at most  *)
(* as wide as the header the allocator keeps before the next block, belong *)
(* to no block; a load finds anything there, a store is lost and may have  *)
(* damaged that header, and either may fault.                              *)
(***************************************************************************)
Overruns(rs, a, n) == Reachable(rs, a, n) /\ ~(Touched(rs, a, n) \subseteq Cells(rs))

(* The addresses behind which there is a byte of storage.                  *)
HasByte(rs, a) == a + 1 < AddrSpace /\ Reachable(rs, a, 1) /\ Cell(rs, a, 1) \in Cells(rs)

----------------------------------------------------------------------------
(* AddMemmap: the new region at the back of the vector.                    *)
NewRegion(a, n) ==
    [stamp |-> stamp, addr |-> a, len |-> UInt(n),
     kind |-> IF IsStraight(a, UInt(n)) THEN "straight" ELSE "block"]

AddMemmap(a, n) == regions \cup {NewRegion(a, n)}

(* Mutant: mapping moves the blocks and does not copy them.               *)
ExtendedFresh(rs) == [c \in Cells(rs) |-> IF c \in RamCells THEN mem[c] ELSE Junk]

(* What new[] and push_back leave: the old bytes, and junk in a new block. *)
Extended(rs) == [c \in Cells(rs) |-> IF c \in DOMAIN mem THEN mem[c] ELSE Junk]

(* Mutant: regions that overlap the range are erased too.                 *)
DeletedOverlap(a, n) ==
    {r \in regions : a <= End(r) /\ r.addr <= Wrap(a + UInt(n))}

(* DelMemmap: the regions inside [a, a + n], both ends included.           *)
Deleted(a, n) ==
    {r \in regions : a <= r.addr /\ End(r) <= Wrap(a + UInt(n))}

Halt ==
    /\ running' = FALSE
    /\ UNCHANGED <<regions, stamp, heap_size, mem, unmapped, overrun>>

----------------------------------------------------------------------------
StaticRegions ==
    {[stamp |-> i, addr |-> StaticMap[i].addr, len |-> StaticMap[i].len,
      kind |-> "static"] : i \in 1..Len(StaticMap)}

TlsRegion == [stamp |-> Len(StaticMap) + 1, addr |-> Tls.addr,
              len |-> Tls.len, kind |-> "straight"]

Init ==
    /\ regions = StaticRegions \cup {TlsRegion}
    /\ stamp = Len(StaticMap) + 2
    /\ heap_size = 0
    /\ mem = [c \in RamCells |-> Zero]
    /\ unmapped = {}
    /\ overrun = FALSE
    /\ running = TRUE

(***************************************************************************)
(* The heap that a growth announces.  All of it is mapped if its length    *)
(* survives as an unsigned int and it ends within the address space.       *)
(***************************************************************************)
Announced(size) == {a \in Addr : HeapBase + heap_size <= a /\ a < HeapBase + size}
Fits(size) == size - heap_size <= LenSpace /\ HeapBase + size <= AddrSpace
CutOff(size) == IF Fits(size) THEN {} ELSE Announced(size)

(* Mutant: every growth is mapped at heap_base.                           *)
GrowFromBase(size) ==
    /\ running /\ stamp <= MaxStamp
    /\ heap_size < size
    /\ regions' = AddMemmap(HeapBase, size - heap_size - 1)
    /\ stamp' = stamp + 1
    /\ mem' = Extended(regions')
    /\ unmapped' = (unmapped \cup CutOff(size)) \ Span(NewRegion(HeapBase, size - heap_size - 1))
    /\ heap_size' = size
    /\ UNCHANGED <<overrun, running>>

(***************************************************************************)
(* SetHeapSize.  Growing maps the part above the old size, as far as its   *)
(* length is an unsigned int; shrinking only lowers heap_size, so growing  *)
(* again overlaps what is still mapped.                                    *)
(***************************************************************************)
GrowHeap(size) ==
    LET base == Wrap(HeapBase + heap_size)
        more == size - heap_size - 1
    IN  /\ running /\ stamp <= MaxStamp
        /\ heap_size < size
        /\ regions' = AddMemmap(base, more)
        /\ stamp' = stamp + 1
        /\ mem' = Extended(regions')
        /\ unmapped' = (unmapped \cup CutOff(size)) \ Span(NewRegion(base, more))
        /\ heap_size' = size
        /\ UNCHANGED <<overrun, running>>

ShrinkHeap(size) ==
    /\ running
    /\ heap_size >= size
    /\ heap_size' = size
    /\ UNCHANGED <<regions, stamp, mem, unmapped, overrun, running>>

SetHeapSize(size) == GrowHeap(size) \/ ShrinkHeap(size)

(* Mutant: the last byte is not copied.                                   *)
CopyDomainShort(size) == 0..(IntSize(size) - 2)

(* Mutant: the byte behind the last is copied too.                        *)
CopyDomainLong(size) == 0..IntSize(size)

(***************************************************************************)
(* MirrorStack maps dest, reads all of src into a temporary buffer through *)
(* the new map and writes it to dest, byte by byte.  Distinct addresses    *)
(* have distinct cells, so at most one index of the copy writes a given    *)
(* cell.  The byte at the top of the address space reads as zero and is    *)
(* not written (Width).                                                    *)
(***************************************************************************)
CopyDomain(size) == 0..(IntSize(size) - 1)

Reads(src, size) == {Wrap(src + i) : i \in CopyDomain(size)}
Writes(dest, size) == {Wrap(dest + i) : i \in CopyDomain(size)}

CopyReachable(rs, dest, src, size) ==
    \A a \in Reads(src, size) \cup Writes(dest, size) : Reachable(rs, a, 1)

CopyOverruns(rs, dest, src, size) ==
    \E a \in Reads(src, size) \cup Writes(dest, size) : Overruns(rs, a, 1)

Loaded(rs, store, a) ==
    IF Width(a, 1) = 0 THEN Zero
    ELSE IF HasByte(rs, a) THEN store[Cell(rs, a, 1)] ELSE Junk

Copied(rs, dest, src, size) ==
    LET old == Extended(rs)
        To(c) == {i \in CopyDomain(size) : c \in Touched(rs, Wrap(dest + i), 1)}
    IN  [c \in Cells(rs) |->
            IF To(c) = {} THEN old[c]
            ELSE Loaded(rs, old, Wrap(src + (CHOOSE i \in To(c) : TRUE)))]

MirrorStack(dest, src, size) ==
    /\ running /\ stamp <= MaxStamp
    /\ CopyReachable(AddMemmap(dest, size), dest, src, size)
    /\ regions' = AddMemmap(dest, size)
    /\ stamp' = stamp + 1
    /\ mem' = Copied(regions', dest, src, size)
    /\ unmapped' = unmapped \ Span(NewRegion(dest, size))
    /\ overrun' = (overrun \/ \E a \in Writes(dest, size) : Overruns(regions', a, 1))
    /\ UNCHANGED <<heap_size, running>>

MirrorFails(dest, src, size) ==
    /\ running /\ stamp <= MaxStamp
    /\ \/ ~CopyReachable(AddMemmap(dest, size), dest, src, size)
       \/ CopyOverruns(AddMemmap(dest, size), dest, src, size)
    /\ Halt

(* Mutant: the vector entry is erased and its block is kept.              *)
UnmapLeaks(dest, size) ==
    /\ running
    /\ \A r \in Deleted(dest, size) : r.kind # "static"
    /\ regions' = regions \ Deleted(dest, size)
    /\ unmapped' = unmapped \cup UNION {Span(r) : r \in Deleted(dest, size)}
    /\ UNCHANGED <<stamp, heap_size, mem, overrun, running>>

(***************************************************************************)
(* UnmapMemory.  Deleting an element of the static array is an invalid     *)
(* free, which ends the process.                                           *)
(***************************************************************************)
UnmapMemory(dest, size) ==
    /\ running
    /\ \A r \in Deleted(dest, size) : r.kind # "static"
    /\ regions' = regions \ Deleted(dest, size)
    /\ mem' = [c \in Cells(regions') |-> mem[c]]
    /\ unmapped' = unmapped \cup UNION {Span(r) : r \in Deleted(dest, size)}
    /\ UNCHANGED <<stamp, heap_size, overrun, running>>

UnmapFails(dest, size) ==
    /\ running
    /\ \E r \in Deleted(dest, size) : r.kind = "static"
    /\ Halt

----------------------------------------------------------------------------
(***************************************************************************)
(* GetRegions lists the regions sorted by address (the sort is stable), a  *)
(* free entry before each region that does not begin where the last one    *)
(* ended, and a free entry up to the top of the address space.             *)
(***************************************************************************)
(* Mutant: the list is not sorted.                                        *)
BeforeUnsorted(q, r) == q.stamp < r.stamp

Before(q, r) == q.addr < r.addr \/ (q.addr = r.addr /\ q.stamp < r.stamp)

LastBefore(rs) ==
    IF rs = {} THEN 0
    ELSE LET top == CHOOSE r \in rs : \A q \in rs : q = r \/ Before(q, r)
         IN  Wrap(End(top) + 1)

GapStart(r) == LastBefore({q \in regions : Before(q, r)})
GapEnd(r) == Wrap(AddrSpace + r.addr - 1)
InGap(r, a) == GapStart(r) # r.addr /\ GapStart(r) <= a /\ a <= GapEnd(r)

(* The entries of GetRegions that contain the address, in list order.      *)
Listed(a) == {r \in regions : InGap(r, a) \/ Contains(r, a)}
FirstListed(a) == CHOOSE r \in Listed(a) : \A q \in Listed(a) : q = r \/ Before(r, q)

Entry(a) ==
    IF Listed(a) = {}
    THEN [begin |-> LastBefore(regions), end |-> AddrSpace - 1, free |-> TRUE]
    ELSE LET r == FirstListed(a)
         IN  IF InGap(r, a)
             THEN [begin |-> GapStart(r), end |-> GapEnd(r), free |-> TRUE]
             ELSE [begin |-> r.addr, end |-> End(r), free |-> FALSE]

(* A list that covers the address; without one the call stores nothing.    *)
Covered(a) ==
    \/ Listed(a) # {}
    \/ LastBefore(regions) # AddrSpace - 1 /\ LastBefore(regions) <= a

(***************************************************************************)
(* QueryMemory reads a word of a mapped region and stores the MemInfo      *)
(* through GuestPtr, which indexes pRAM whatever the address is.  The word *)
(* it reads next lies anywhere in the region, so it may fault as well when *)
(* the region reaches past pRAM.                                           *)
(***************************************************************************)
InfoCells(meminfo) == {<<0, meminfo + i>> : i \in 0..(InfoSize - 1)}

QueryMayFault(meminfo, a) ==
    \/ ~(InfoCells(meminfo) \subseteq RamCells)
    \/ ~Entry(a).free /\ (Entry(a).begin >= RamSize \/ Entry(a).end >= RamSize)

QueryMustFault(meminfo, a) ==
    \/ ~(InfoCells(meminfo) \subseteq RamCells)
    \/ ~Entry(a).free /\ Entry(a).begin >= RamSize

QueryMemory(meminfo, a) ==
    /\ running
    /\ Covered(a)
    /\ ~QueryMustFault(meminfo, a)
    /\ mem' = [c \in DOMAIN mem |-> IF c \in InfoCells(meminfo) THEN Answer ELSE mem[c]]
    /\ UNCHANGED <<regions, stamp, heap_size, unmapped, overrun, running>>

QueryFaults(meminfo, a) ==
    /\ running
    /\ Covered(a)
    /\ QueryMayFault(meminfo, a)
    /\ Halt

----------------------------------------------------------------------------
(***************************************************************************)
(* WriteToRAM: the pointer is found once, for the first byte, and the rest *)
(* of the access follows it on the host, out of the block if need be.      *)
(***************************************************************************)
Store(a, n, v) ==
    /\ running
    /\ Reachable(regions, a, n)
    /\ mem' = [c \in DOMAIN mem |-> IF c \in Touched(regions, a, n) THEN v ELSE mem[c]]
    /\ overrun' = (overrun \/ Overruns(regions, a, n))
    /\ UNCHANGED <<regions, stamp, heap_size, unmapped, running>>

(* A load or a store of an address that has no storage ends the process,   *)
(* and one that leaves its block may.                                      *)
AccessFails(a, n) ==
    /\ running
    /\ ~Reachable(regions, a, n) \/ Overruns(regions, a, n)
    /\ Halt

(* The allocator ends the process when it meets a header a store damaged.  *)
AllocatorAborts ==
    /\ running
    /\ overrun
    /\ Halt

Next ==
    \/ \E size \in HeapSizes : SetHeapSize(size)
    \/ \E m \in Mirrors : MirrorStack(m[1], m[2], m[3]) \/ MirrorFails(m[1], m[2], m[3])
    \/ \E u \in Unmaps : UnmapMemory(u[1], u[2]) \/ UnmapFails(u[1], u[2])
    \/ \E q \in Queries : QueryMemory(q[1], q[2]) \/ QueryFaults(q[1], q[2])
    \/ \E x \in Accesses : AccessFails(x[1], x[2]) \/ \E v \in Byte : Store(x[1], x[2], v)
    \/ AllocatorAborts

Spec == Init /\ [][Next]_vars

----------------------------------------------------------------------------
HeapRange == {a \in Addr : HeapBase <= a /\ a < HeapBase + heap_size}

(***************************************************************************)
(* The variables have their types; storage exists for pRAM and for exactly *)
(* the blocks of the regions in the vector (Memory.cpp:67-75, 90-101).     *)
(***************************************************************************)
TypeOK ==
    /\ regions \subseteq Region
    /\ stamp \in Nat
    /\ heap_size \in Addr
    /\ mem \in [Cells(regions) -> Value]
    /\ unmapped \subseteq Addr
    /\ overrun \in BOOLEAN
    /\ running \in BOOLEAN

(***************************************************************************)
(* Every address of the heap that SetHeapSize announced is in some region, *)
(* however the heap was grown, shrunk and grown again and whatever was     *)
(* mirrored over it, unless an UnmapMemory took its region away, or the    *)
(* growth that announced it did not fit: AddMemmap takes its length as an  *)
(* unsigned int, and a range over the top of the address space holds no    *)
(* address (Svc.cpp:106-116 against Memory.cpp:47-59, 77).                 *)
(***************************************************************************)
HeapMapped ==
    \A a \in HeapRange : a \in unmapped \/ Hits(regions, a) # {}

(***************************************************************************)
(* A region without storage holds no address that GetRawPtr would look up  *)
(* in it, except heap_base itself: a null block is dereferenced nowhere    *)
(* else (Memory.cpp:61-65, 77-82, 135-149).                                *)
(***************************************************************************)
NullBlocksBelowHeap ==
    \A r \in regions : r.kind # "block" => \A a \in Span(r) : a <= HeapBase

(***************************************************************************)
(* An access that GetRawPtr lets through touches live storage only, in no  *)
(* history a freed block or another one's, with one exception: it may run  *)
(* behind the end of the block it was found in, and then by no more than   *)
(* the width of one access (Memory.cpp:47-59, 67-75, 90-101, 135-149;      *)
(* ARMv8/MMU.cpp:15-43).  RegionsHaveStorage is about the exception.       *)
(***************************************************************************)
BehindBlock(c) ==
    \E r \in regions :
        /\ r.kind = "block" /\ c[1] = r.stamp
        /\ r.len <= c[2] /\ c[2] < r.len + MaxWidth

AccessInBounds ==
    \A a \in Addr, n \in 1..MaxWidth :
        Reachable(regions, a, n) =>
            \A c \in Touched(regions, a, n) : c \in DOMAIN mem \/ BehindBlock(c)

(***************************************************************************)
(* An address keeps its cell for as long as the region it resolves to is   *)
(* in the vector: mapping over it, or erasing other regions, never         *)
(* redirects it (the first match of Memory.cpp:47-59 with push_back and    *)
(* erase).                                                                 *)
(***************************************************************************)
ResolutionKept ==
    \A a \in Addr :
        (Reachable(regions, a, 1) /\ (IsStraight(a, 1) \/ FindRamBlock(regions, a) \in regions'))
            => /\ Reachable(regions', a, 1)
               /\ Cell(regions', a, 1) = Cell(regions, a, 1)

ResolutionStable == [][ResolutionKept]_vars

(***************************************************************************)
(* SetHeapSize loses no data: every address outside the part it gives up   *)
(* still reads the byte it read before (Svc.cpp:106-116).                  *)
(***************************************************************************)
KeepsByte(a) ==
    HasByte(regions, a) =>
        HasByte(regions', a) /\ mem'[Cell(regions', a, 1)] = mem[Cell(regions, a, 1)]

ResizeKeepsData ==
    [][\A size \in HeapSizes : SetHeapSize(size) =>
          \A a \in Addr : (a \in HeapRange => a \in HeapRange') => KeepsByte(a)]_vars

(***************************************************************************)
(* After MirrorStack every byte of the destination reads what the source   *)
(* byte read before the call, also where the two overlap each other, the   *)
(* heap or a region mapped earlier.  Excepted are bytes without storage,   *)
(* at the inclusive end of a region mapped before, and sizes that the int  *)
(* of ReadBytes and WriteBytes does not hold (Svc.cpp:122-130).            *)
(***************************************************************************)
MirrorCopies ==
    [][\A m \in Mirrors : MirrorStack(m[1], m[2], m[3]) /\ 2 * m[3] < LenSpace =>
          \A i \in 0..(m[3] - 1) :
              LET to == Wrap(m[1] + i)
                  from == Wrap(m[2] + i)
              IN  HasByte(regions, from) /\ HasByte(regions', to) =>
                      mem'[Cell(regions', to, 1)] = mem[Cell(regions, from, 1)]]_vars

(***************************************************************************)
(* UnmapMemory(dest, size) takes nothing away outside dest..dest+size: any *)
(* other address keeps its byte (Svc.cpp:132-136, Memory.cpp:90-101).      *)
(***************************************************************************)
UnmapKeepsOutside ==
    [][\A u \in Unmaps : UnmapMemory(u[1], u[2]) =>
          \A a \in Addr \ (u[1]..(u[1] + u[2])) : KeepsByte(a)]_vars

(***************************************************************************)
(* What QueryMemory answers from the list of GetRegions, for overlapping   *)
(* and nested regions too: every address is in an entry, so a guest that   *)
(* walks the map by begin + size never stops short; the entry found is a   *)
(* range around the address; it is free exactly when no region contains    *)
(* the address.  Two regions that begin at 0 are excluded (the gap before  *)
(* the second one wraps over the whole space), and so is a region that     *)
(* ends at the last address but one, which no page-granular range does     *)
(* (Memory.cpp:114-133, Svc.cpp:149-177).                                  *)
(***************************************************************************)
ListTruthful ==
    (/\ Cardinality({r \in regions : r.addr = 0}) <= 1
     /\ \A r \in regions : End(r) # AddrSpace - 2)
    => \A a \in Addr :
           /\ Covered(a)
           /\ Entry(a).begin <= a /\ a <= Entry(a).end
           /\ Entry(a).free <=> Hits(regions, a) = {}

(***************************************************************************)
(* All of this is an address space as the guest may think of it: an        *)
(* address is mapped as often as regions hold it, and has the byte of the  *)
(* cell it resolves to.  No address below heap_base ever loses its byte;   *)
(* above it the last address of a region is a place of which little is     *)
(* promised (Memory.cpp:43-149, ARMv8/MMU.cpp:15-65, Svc.cpp:106-177).     *)
(***************************************************************************)
Contents == [a \in {b \in Addr : HasByte(regions, b)} |-> mem[Cell(regions, a, 1)]]
Layers == [a \in Addr |-> Cardinality(Hits(regions, a))]
StraightPart == 0..(HeapBase - 1)
Ends == {End(r) : r \in {q \in regions : q.addr <= End(q)}} \ StraightPart

View == INSTANCE AddressSpace WITH
            Top <- AddrSpace, Fixed <- StraightPart, Longest <- LenSpace,
            layers <- Layers, bytes <- Contents, lasts <- Ends, heap <- heap_size,
            damaged <- overrun, alive <- running

IsAddressSpace == View!Spec

----------------------------------------------------------------------------
(***************************************************************************)
(* What the comments of the code say and the code does not do.             *)
(***************************************************************************)

(***************************************************************************)
(* Memory.cpp:79 and 86, "Within straight regions" and "Necessary to       *)
(* extend memory area": whatever AddMemmap does for a range, each address  *)
(* that a region holds is straight or has a byte of the region's block.    *)
(* Both branches count the size and the lookup counts the inclusive end:   *)
(* the heap's last byte lies behind its block (Svc.cpp:109), and a region  *)
(* without storage that ends at heap_base holds heap_base.                 *)
(***************************************************************************)
RegionsHaveStorage ==
    \A r \in regions : \A a \in Span(r) :
        IsStraight(a, 1) \/ <<r.stamp, a - r.addr>> \in DOMAIN mem

============================================================================
