------------------------- MODULE AddressSpaceProofs -------------------------
(***************************************************************************)
(* GuestMemory implements AddressSpace: whatever regions, blocks and       *)
(* stamps the calls leave, what the guest can observe is one byte for each *)
(* mapped address, changed only as AddressSpace allows.                    *)
(***************************************************************************)
EXTENDS GuestMemoryProofs

(***************************************************************************)
(* What the refinement needs beyond IInv: the elements of the static array *)
(* keep to the straight part, so that freeing one means that its fixed     *)
(* addresses were in the range.                                            *)
(***************************************************************************)
StaticBelow(rs) == \A r \in rs : r.kind = "static" => r.addr + r.len < HeapBase

Null(rs) == \A r \in rs : r.kind # "block" => \A a \in Span(r) : a <= HeapBase

AInv == IInv /\ StaticBelow(regions)

(* The addresses of the view that have a byte.                             *)
Readable == {a \in Addr : HasByte(regions, a)}

(* No call maps a static region.                                           *)
THEOREM StaticStaysBelow == Spec => []AInv
<1>1. Init => StaticBelow(regions)
  <2> SUFFICES ASSUME Init, NEW r \in regions, r.kind = "static"
               PROVE  r.addr + r.len < HeapBase
    BY DEF StaticBelow
  <2>1. r \in StaticRegions
    BY DEF Init, TlsRegion
  <2> QED
    BY <2>1, MapAssumption DEF StaticRegions
<1>2. StaticBelow(regions) /\ [Next]_vars => StaticBelow(regions)'
  <2> SUFFICES ASSUME StaticBelow(regions), [Next]_vars,
                      NEW r \in regions', r.kind = "static"
               PROVE  r.addr + r.len < HeapBase
    BY DEF StaticBelow
  <2>1. \A a, n : NewRegion(a, n).kind # "static"
    BY DEF NewRegion
  <2>2. \/ regions' \subseteq regions
        \/ \E a, n : regions' = regions \cup {NewRegion(a, n)}
    BY DEF Next, vars, SetHeapSize, GrowHeap, ShrinkHeap, MirrorStack, MirrorFails,
           UnmapMemory, UnmapFails, QueryMemory, QueryFaults, Store, AccessFails,
           AllocatorAborts, Halt, AddMemmap
  <2>3. r \in regions
    BY <2>1, <2>2
  <2> QED
    BY <2>3 DEF StaticBelow
<1> QED
  BY <1>1, <1>2, Inductive, PTL DEF Spec, AInv

----------------------------------------------------------------------------
(* Which addresses have a byte.                                            *)

(* One byte is straight below heap_base, and at the very top, where its    *)
(* end wraps (Memory.cpp:43-45).                                           *)
LEMMA StraightByte ==
    ASSUME NEW a \in Addr
    PROVE  /\ a \in Nat /\ a < AddrSpace
           /\ IsStraight(a, 1) <=> (a < HeapBase \/ a = AddrSpace - 1)
<1>1. /\ AddrSpace \in Nat /\ HeapBase \in Nat /\ HeapBase < AddrSpace
      /\ a \in Nat /\ a < AddrSpace
  BY SpaceAssumption DEF Addr
<1>2. CASE a = AddrSpace - 1
  <2>1. a + 1 = AddrSpace /\ AddrSpace % AddrSpace = 0
    BY <1>1, <1>2
  <2> QED
    BY <1>1, <1>2, <2>1 DEF IsStraight, Wrap
<1>3. CASE a # AddrSpace - 1
  <2>1. a + 1 \in Nat /\ a + 1 < AddrSpace
    BY <1>1, <1>3
  <2>2. Wrap(a + 1) = a + 1
    BY <2>1, WrapFacts
  <2> QED
    BY <1>1, <1>3, <2>2 DEF IsStraight
<1> QED
  BY <1>1, <1>2, <1>3

(* Below heap_base an address is its place in pRAM.                        *)
LEMMA LowByte ==
    ASSUME NEW rs, NEW a \in Addr, a < HeapBase
    PROVE  /\ HasByte(rs, a) /\ Reachable(rs, a, 1)
           /\ Cell(rs, a, 1) = <<0, a>> /\ <<0, a>> \in Cells(rs)
<1>1. /\ a \in Nat /\ IsStraight(a, 1) /\ a + 1 < AddrSpace
      /\ HeapBase \in Nat /\ RamSize \in Nat /\ HeapBase <= RamSize
  BY StraightByte, SpaceAssumption
<1>2. Cell(rs, a, 1) = <<0, a>> /\ Reachable(rs, a, 1)
  BY <1>1 DEF Cell, Reachable
<1>3. <<0, a>> \in Cells(rs)
  BY <1>1 DEF Cells, RamCells
<1> QED
  BY <1>1, <1>2, <1>3 DEF HasByte

(* From heap_base on it has a byte if the first region that contains it    *)
(* has a block, and the address is not the end of it.                      *)
LEMMA HighByte ==
    ASSUME NEW rs, Stamped(rs), \A r \in rs : 0 < r.stamp,
           NEW a \in Addr, ~(a < HeapBase), a # AddrSpace - 1
    PROVE  /\ ~IsStraight(a, 1)
           /\ Cell(rs, a, 1) = <<FindRamBlock(rs, a).stamp, a - FindRamBlock(rs, a).addr>>
           /\ Reachable(rs, a, 1) <=> (Hits(rs, a) # {} /\ FindRamBlock(rs, a).kind = "block")
           /\ HasByte(rs, a) <=>
                /\ Hits(rs, a) # {}
                /\ FindRamBlock(rs, a).kind = "block"
                /\ a < FindRamBlock(rs, a).addr + FindRamBlock(rs, a).len
<1> DEFINE f == FindRamBlock(rs, a)
           c == Cell(rs, a, 1)
<1>1. ~IsStraight(a, 1) /\ a \in Nat /\ a + 1 < AddrSpace /\ AddrSpace \in Nat
  BY StraightByte, SpaceAssumption
<1>2. c = <<f.stamp, a - f.addr>>
      /\ (Reachable(rs, a, 1) <=> (Hits(rs, a) # {} /\ f.kind = "block"))
  BY <1>1 DEF Cell, Reachable
<1>3. ASSUME Hits(rs, a) # {}, f.kind = "block"
      PROVE  c \in Cells(rs) <=> a < f.addr + f.len
  <2>1. f \in rs /\ f \in Region /\ Contains(f, a)
    BY <1>3, FindFacts DEF Hits, Stamped
  <2>2. f.stamp \in Nat /\ 0 < f.stamp /\ f.addr \in Nat /\ f.len \in Nat /\ f.addr <= a
    BY <2>1, SpaceAssumption DEF Region, Addr, Contains
  <2>3. ASSUME a < f.addr + f.len PROVE c \in Cells(rs)
    <3>1. a - f.addr \in 0..(f.len - 1)
      BY <1>1, <2>2, <2>3
    <3>2. c \in BlockCells(f)
      BY <1>2, <3>1 DEF BlockCells
    <3> HIDE DEF f, c
    <3> QED
      BY <1>3, <2>1, <3>2 DEF Cells
  <2>4. ASSUME c \in Cells(rs) PROVE a < f.addr + f.len
    <3>1. c[1] = f.stamp /\ c[2] = a - f.addr
      BY <1>2
    <3> HIDE DEF f, c
    <3>2. c \notin RamCells
      BY <2>2, <3>1 DEF RamCells
    <3>3. PICK q \in rs : q.kind = "block" /\ c \in BlockCells(q)
      BY <2>4, <3>2 DEF Cells
    <3>4. q.stamp = f.stamp /\ c[2] \in 0..(q.len - 1)
      BY <3>1, <3>3 DEF BlockCells
    <3>5. q = f
      BY <2>1, <3>3, <3>4 DEF Stamped
    <3>6. a - f.addr <= f.len - 1
      BY <3>1, <3>4, <3>5
    <3> QED
      BY <1>1, <2>2, <3>6
  <2> QED
    BY <2>3, <2>4
<1> HIDE DEF f, c
<1> QED
  BY <1>1, <1>2, <1>3 DEF HasByte, f, c

(* The very top has none (ARMv8/MMU.cpp:20, 35).                           *)
LEMMA TopByte ==
    ASSUME NEW rs, NEW a \in Addr, a = AddrSpace - 1
    PROVE  /\ ~HasByte(rs, a) /\ Reachable(rs, a, 1)
           /\ Touched(rs, a, 1) = {} /\ ~Overruns(rs, a, 1)
<1>1. AddrSpace \in Nat /\ ~(a + 1 < AddrSpace) /\ IsStraight(a, 1)
  BY StraightByte, SpaceAssumption
<1>2. 0..(Width(a, 1) - 1) = {}
  BY <1>1 DEF Width
<1>3. Touched(rs, a, 1) = {}
  BY <1>2 DEF Touched
<1> QED
  BY <1>1, <1>3 DEF HasByte, Reachable, Overruns

(* An address in a region that has no byte is the end of the region.       *)
LEMMA EndByte ==
    ASSUME NEW rs, Stamped(rs), \A r \in rs : 0 < r.stamp, Null(rs),
           NEW a \in Addr, ~(a < HeapBase), a # AddrSpace - 1,
           Hits(rs, a) # {}, ~HasByte(rs, a)
    PROVE  /\ FindRamBlock(rs, a) \in rs /\ FindRamBlock(rs, a) \in Region
           /\ FindRamBlock(rs, a).addr <= End(FindRamBlock(rs, a))
           /\ End(FindRamBlock(rs, a)) = a
<1> DEFINE f == FindRamBlock(rs, a)
<1>1. f \in rs /\ f \in Region /\ Contains(f, a)
  BY FindFacts DEF Hits, Stamped
<1>2. ~(f.kind = "block" /\ a < f.addr + f.len)
  BY HighByte
<1> HIDE DEF f
<1>3. /\ f.addr \in Nat /\ f.len \in Nat /\ f.addr <= a /\ a <= End(f)
      /\ End(f) \in Addr /\ End(f) <= f.addr + f.len
      /\ AddrSpace \in Nat /\ HeapBase \in Nat /\ a \in Nat /\ End(f) \in Nat
  BY <1>1, SpanFacts, SpaceAssumption DEF Region, Addr, Contains
<1>4. ASSUME f.kind = "block" PROVE End(f) = a
  BY <1>2, <1>3, <1>4
<1>5. ASSUME f.kind # "block" PROVE End(f) = a
  <2>1. End(f) \in Span(f)
    BY <1>3 DEF Span, Contains
  <2>2. End(f) <= HeapBase
    BY <1>1, <1>5, <2>1 DEF Null
  <2> QED
    BY <1>3, <2>2
<1>6. End(f) = a
  BY <1>4, <1>5
<1>7. f.addr <= End(f)
  BY <1>3, <1>6
<1> QED
  BY <1>1, <1>6, <1>7 DEF f

(* An access of one byte that is refused, or leaves its block, is one of   *)
(* an address without a byte.                                              *)
LEMMA ByteFails ==
    ASSUME NEW rs, Stamped(rs), NEW a \in Addr
    PROVE  /\ ~Reachable(rs, a, 1) \/ Overruns(rs, a, 1)
                => ~(a < HeapBase) /\ a # AddrSpace - 1 /\ ~HasByte(rs, a)
           /\ Reachable(rs, a, 1) =>
                (Overruns(rs, a, 1) <=> (~HasByte(rs, a) /\ a # AddrSpace - 1))
<1>1. a \in Nat /\ a < AddrSpace /\ AddrSpace \in Nat
  BY StraightByte, SpaceAssumption
<1>2. ASSUME Reachable(rs, a, 1)
      PROVE  Overruns(rs, a, 1) <=> (~HasByte(rs, a) /\ a # AddrSpace - 1)
  <2>1. CASE a = AddrSpace - 1
    BY <2>1, TopByte
  <2>2. CASE a # AddrSpace - 1
    <3>1. a + 1 < AddrSpace
      BY <1>1, <2>2
    <3>2. Touched(rs, a, 1) = {Cell(rs, a, 1)}
      BY <1>2, <3>1, ByteTouched
    <3> QED
      BY <1>2, <2>2, <3>1, <3>2 DEF Overruns, HasByte
  <2> QED
    BY <2>1, <2>2
<1>3. ASSUME ~Reachable(rs, a, 1)
      PROVE  ~(a < HeapBase) /\ a # AddrSpace - 1 /\ ~HasByte(rs, a)
  BY <1>3, LowByte, TopByte DEF HasByte
<1>4. ASSUME Overruns(rs, a, 1)
      PROVE  ~(a < HeapBase) /\ a # AddrSpace - 1 /\ ~HasByte(rs, a)
  BY <1>2, <1>4, LowByte DEF Overruns
<1> QED
  BY <1>2, <1>3, <1>4

(* An address that the same regions contain resolves in the same way.      *)
LEMMA SameHits ==
    ASSUME NEW rs, NEW qs, Stamped(rs), Stamped(qs), \A r \in rs : 0 < r.stamp,
           \A r \in qs : 0 < r.stamp, NEW a \in Addr, Hits(rs, a) = Hits(qs, a)
    PROVE  /\ HasByte(rs, a) <=> HasByte(qs, a)
           /\ Cell(rs, a, 1) = Cell(qs, a, 1)
<1>1. FindRamBlock(rs, a) = FindRamBlock(qs, a)
  BY DEF FindRamBlock
<1>2. Cell(rs, a, 1) = Cell(qs, a, 1)
  BY <1>1 DEF Cell
<1>3. CASE a < HeapBase
  BY <1>2, <1>3, LowByte
<1>4. CASE a = AddrSpace - 1
  BY <1>2, <1>4, TopByte
<1>5. CASE ~(a < HeapBase) /\ a # AddrSpace - 1
  <2>1. HasByte(rs, a) <=> HasByte(qs, a)
    <3>1. HasByte(rs, a) <=>
            /\ Hits(rs, a) # {}
            /\ FindRamBlock(rs, a).kind = "block"
            /\ a < FindRamBlock(rs, a).addr + FindRamBlock(rs, a).len
      BY <1>5, HighByte
    <3>2. HasByte(qs, a) <=>
            /\ Hits(qs, a) # {}
            /\ FindRamBlock(qs, a).kind = "block"
            /\ a < FindRamBlock(qs, a).addr + FindRamBlock(qs, a).len
      BY <1>5, HighByte
    <3> QED
      BY <1>1, <3>1, <3>2
  <2> QED
    BY <1>2, <2>1
<1> QED
  BY <1>3, <1>4, <1>5

----------------------------------------------------------------------------
(* The steps, seen from the guest.                                         *)

(* What the invariant says of the vector.                                  *)
Ordered(rs) == Stamped(rs) /\ Null(rs) /\ \A r \in rs : 0 < r.stamp

LEMMA VectorFacts ==
    /\ AInv => Ordered(regions) /\ stamp \in Nat /\ DOMAIN mem = Cells(regions)
    /\ AInv' => Ordered(regions')
  BY DEF AInv, IInv, TypeOK, StampsOK, Stamped, NullBlocksBelowHeap, Null, Ordered

(* The bytes of the view are those of the readable addresses.              *)
LEMMA ViewBytes ==
    /\ View!Accessible = Readable
    /\ \A a \in Readable : Contents[a] = mem[Cell(regions, a, 1)]
    /\ Readable \subseteq Addr
  BY DEF View!Accessible, Contents, Readable

(* A step that keeps a byte of an address keeps it in the view.            *)
LEMMA KeptByte ==
    ASSUME NEW a \in Readable, a \in Readable',
           mem'[Cell(regions', a, 1)] = mem[Cell(regions, a, 1)]
    PROVE  View!Kept(a)
  BY DEF View!Kept, View!Accessible, Contents, Readable

(* The fixed addresses are readable, in every state.                       *)
LEMMA FixedReadable ==
    /\ View!Address = Addr /\ StraightPart \subseteq Addr
    /\ \A a \in Addr : a \in StraightPart <=> a < HeapBase
    /\ StraightPart \subseteq Readable /\ StraightPart \subseteq Readable'
    /\ View!Summit = AddrSpace - 1 /\ View!Summit \notin Readable
<1>1. AddrSpace \in Nat /\ HeapBase \in Nat /\ HeapBase < AddrSpace
  BY SpaceAssumption
<1>2. \A a \in Addr : a \in StraightPart <=> a < HeapBase
  BY <1>1 DEF Addr, StraightPart
<1>3. StraightPart \subseteq Addr
  BY <1>1 DEF Addr, StraightPart
<1>4. ASSUME NEW a \in StraightPart PROVE a \in Readable /\ a \in Readable'
  BY <1>2, <1>3, LowByte DEF Readable
<1> QED
  BY <1>1, <1>2, <1>3, <1>4, TopByte DEF View!Address, View!Summit, Addr, Readable

(* A new region spans its range, or nothing when its end wraps             *)
(* (Memory.cpp:47-59).                                                     *)
LEMMA NewSpan ==
    ASSUME NEW a \in Addr, NEW n \in Nat, stamp \in Nat
    PROVE  /\ UInt(n) \in Nat /\ Span(NewRegion(a, n)) = View!Range(a, UInt(n))
           /\ a + UInt(n) < AddrSpace =>
                a <= End(NewRegion(a, n)) /\ End(NewRegion(a, n)) = a + UInt(n)
           /\ ~(a + UInt(n) < AddrSpace) => End(NewRegion(a, n)) < a
<1> DEFINE r == NewRegion(a, n)
           k == UInt(n)
<1>1. r \in Region /\ r.addr = a /\ r.len = k
  BY NewRegionFacts
<1>2. /\ AddrSpace \in Nat /\ LenSpace \in Nat /\ LenSpace <= AddrSpace
      /\ a \in Nat /\ a < AddrSpace /\ k \in Nat /\ k < LenSpace
  BY SpaceAssumption, UIntFacts DEF Addr
<1> HIDE DEF r, k
<1>3. ASSUME a + k < AddrSpace
      PROVE  Span(r) = View!Range(a, k) /\ a <= End(r) /\ End(r) = a + k
  <2>1. End(r) = a + k
    BY <1>1, <1>2, <1>3, SpanFacts
  <2> QED
    BY <1>1, <1>2, <1>3, <2>1 DEF Span, Contains, View!Range, Addr
<1>4. ASSUME ~(a + k < AddrSpace) PROVE Span(r) = View!Range(a, k) /\ End(r) < a
  <2>1. a + k - AddrSpace \in 0..(AddrSpace - 1)
    BY <1>2, <1>4
  <2>2. (a + k) % AddrSpace = (a + k - AddrSpace) % AddrSpace
    BY <1>2, <2>1, SMT
  <2>3. (a + k - AddrSpace) % AddrSpace = a + k - AddrSpace
    BY <1>2, <2>1, SMT
  <2>4. End(r) = a + k - AddrSpace
    BY <1>1, <2>2, <2>3 DEF End, Wrap
  <2>5. End(r) < a /\ End(r) \in Int
    BY <1>2, <2>4
  <2>6. \A b \in Addr : ~Contains(r, b)
    BY <1>1, <1>2, <2>5 DEF Contains, Addr
  <2> QED
    BY <1>4, <2>5, <2>6 DEF Span, View!Range
<1> QED
  BY <1>2, <1>3, <1>4 DEF r, k

(* The length a range is mapped with is made of its size.                  *)
LEMMA TakenLength ==
    ASSUME NEW n \in Nat
    PROVE  UInt(n) \in View!Taken(n, LenSpace)
  BY UIntFacts, UIntBound DEF View!Taken

(* The number of layers is a number, and zero where no region is.          *)
LEMMA LayerFacts ==
    ASSUME AInv, NEW a \in Addr
    PROVE  /\ IsFiniteSet(Hits(regions, a)) /\ Layers[a] = Cardinality(Hits(regions, a))
           /\ Layers[a] \in Nat /\ (Layers[a] = 0 <=> Hits(regions, a) = {})
<1>1. IsFiniteSet(regions)
  BY RegionsFinite DEF AInv
<1>2. IsFiniteSet(Hits(regions, a))
  BY <1>1, FS_Subset DEF Hits
<1>3. Layers[a] = Cardinality(Hits(regions, a))
  BY DEF Layers
<1> QED
  BY <1>2, <1>3, FS_CardinalityType, FS_EmptySet

(* The addresses with a layer are those of the regions.                    *)
LEMMA MappedAddresses ==
    ASSUME AInv
    PROVE  View!Mapped = {a \in Addr : Hits(regions, a) # {}}
<1>1. \A a \in Addr : Layers[a] \in Nat /\ (Layers[a] = 0 <=> Hits(regions, a) = {})
  BY LayerFacts
<1>2. \A a \in Addr : Layers[a] > 0 <=> Hits(regions, a) # {}
  BY <1>1
<1> QED
  BY <1>2 DEF View!Mapped, View!Address, Addr

(* Mapping adds a layer to the range.                                      *)
LEMMA MappingLayers ==
    ASSUME AInv, NEW a \in Addr, NEW n \in Nat, regions' = AddMemmap(a, n)
    PROVE  /\ Layers' = [b \in Addr |-> IF b \in View!Range(a, UInt(n))
                                        THEN Layers[b] + 1 ELSE Layers[b]]
           /\ \A b \in Addr :
                /\ b \in View!Range(a, UInt(n)) =>
                       Hits(regions', b) = Hits(regions, b) \cup {NewRegion(a, n)}
                /\ b \notin View!Range(a, UInt(n)) => Hits(regions', b) = Hits(regions, b)
<1> DEFINE R == View!Range(a, UInt(n))
           new == NewRegion(a, n)
<1>1. stamp \in Nat /\ regions' = regions \cup {new} /\ Span(new) = R
  BY VectorFacts, NewSpan DEF AddMemmap
<1>2. new \notin regions
  <2>1. new.stamp = stamp /\ \A r \in regions : r.stamp \in Nat /\ r.stamp < stamp
    BY <1>1, NewRegionFacts DEF AInv, IInv, TypeOK, StampsOK, Region
  <2> QED
    BY <1>1, <2>1
<1>3. ASSUME NEW b \in Addr
      PROVE  /\ b \in R => Hits(regions', b) = Hits(regions, b) \cup {new}
             /\ b \notin R => Hits(regions', b) = Hits(regions, b)
  <2>1. b \in R <=> Contains(new, b)
    BY <1>1 DEF Span
  <2> HIDE DEF new
  <2> QED
    BY <1>1, <2>1 DEF Hits
<1>4. ASSUME NEW b \in Addr
      PROVE  Cardinality(Hits(regions', b)) = IF b \in R THEN Layers[b] + 1 ELSE Layers[b]
  <2>1. IsFiniteSet(Hits(regions, b)) /\ Layers[b] = Cardinality(Hits(regions, b))
    BY LayerFacts
  <2>2. new \notin Hits(regions, b)
    BY <1>2 DEF Hits
  <2> HIDE DEF new, R
  <2> QED
    BY <1>3, <2>1, <2>2, FS_AddElement
<1>5. Layers' = [b \in Addr |-> Cardinality(Hits(regions', b))]
  BY DEF Layers
<1> QED
  BY <1>3, <1>4, <1>5

(* An address that has a byte keeps it and its cell when a range is mapped,*)
(* and others get one within the range.                                    *)
LEMMA MappingBytes ==
    ASSUME AInv, AInv', [Next]_vars, NEW a \in Addr, NEW n \in Nat,
           regions' = AddMemmap(a, n)
    PROVE  /\ Readable' = Readable \cup {b \in View!Range(a, UInt(n)) :
                                            Layers[b] = 0 /\ b # a + UInt(n)}
           /\ \A b \in Readable : Cell(regions', b, 1) = Cell(regions, b, 1)
<1> DEFINE k == UInt(n)
           R == View!Range(a, k)
           new == NewRegion(a, n)
<1>0. /\ AddrSpace \in Nat /\ HeapBase \in Nat /\ a \in Nat /\ k \in Nat
      /\ Ordered(regions) /\ Ordered(regions') /\ stamp \in Nat
      /\ Stamped(regions) /\ Stamped(regions')
      /\ \A r \in regions : 0 < r.stamp
      /\ \A r \in regions' : 0 < r.stamp
  BY VectorFacts, NewSpan, SpaceAssumption DEF Addr, Ordered
<1>1. new.addr = a /\ new.len = k /\ new \in regions' /\ regions \subseteq regions'
      /\ (new.kind # "block" => IsStraight(a, k))
  BY <1>0, NewRegionFacts DEF AddMemmap, NewRegion
<1>2. ASSUME NEW b \in Readable
      PROVE  b \in Readable' /\ Cell(regions', b, 1) = Cell(regions, b, 1)
  <2>1. b \in Addr /\ HasByte(regions, b)
    BY DEF Readable
  <2>2. IsStraight(b, 1) \/ FindRamBlock(regions, b) \in regions'
    BY <1>0, <1>1, <2>1, RegionOfByte DEF Hits
  <2>3. HasByte(regions', b) /\ Cell(regions', b, 1) = Cell(regions, b, 1)
    BY <2>1, <2>2, ByteKept DEF AInv
  <2> QED
    BY <2>1, <2>3 DEF Readable
<1>3. ASSUME NEW b \in Addr, b \in R, ~(b < HeapBase), b # AddrSpace - 1,
             Hits(regions, b) = {}
      PROVE  HasByte(regions', b) <=> b # a + k
  <2>1. Hits(regions', b) = {new}
    BY <1>3, MappingLayers
  <2>2. FindRamBlock(regions', b) = new
    BY <1>0, <2>1, FindFacts
  <2>3. a + k < AddrSpace /\ a <= b /\ b <= a + k /\ b \in Nat
    <3>1. b \in Nat
      BY <1>0 DEF Addr
    <3> HIDE DEF k
    <3> QED
      BY <1>0, <1>3, <3>1 DEF View!Range
  <2>4. b < a + k => new.kind = "block"
    <3>1. SUFFICES ASSUME b < a + k, IsStraight(a, k) PROVE FALSE
      BY <1>1
    <3>2. Wrap(a + k) = a + k
      BY <1>0, <2>3, WrapFacts
    <3> QED
      BY <1>0, <1>3, <2>3, <3>1, <3>2 DEF IsStraight
  <2>5. HasByte(regions', b) <=> (new.kind = "block" /\ b < a + k)
    <3>1. HasByte(regions', b) <=>
            /\ Hits(regions', b) # {}
            /\ FindRamBlock(regions', b).kind = "block"
            /\ b < FindRamBlock(regions', b).addr + FindRamBlock(regions', b).len
      BY <1>0, <1>3, HighByte
    <3> QED
      BY <1>1, <2>1, <2>2, <3>1
  <2> HIDE DEF k, new
  <2> QED
    BY <1>0, <2>3, <2>4, <2>5
<1>4. ASSUME NEW b \in Addr, ~(b < HeapBase), Hits(regions, b) # {}, HasByte(regions', b)
      PROVE  HasByte(regions, b)
  <2>1. b # AddrSpace - 1
    BY <1>4, TopByte
  <2> DEFINE f == FindRamBlock(regions, b)
  <2>2. f \in regions /\ f \in regions'
    BY <1>0, <1>1, <1>4, FindFacts DEF Hits
  <2>3. \A q \in regions' \ regions : \A r \in regions : r.stamp < q.stamp
    BY StepsPushBehind DEF AInv
  <2>4. FindRamBlock(regions', b) = f
    BY <1>0, <1>4, <2>2, <2>3, FindKept
  <2>5. HasByte(regions', b) <=>
          /\ Hits(regions', b) # {}
          /\ FindRamBlock(regions', b).kind = "block"
          /\ b < FindRamBlock(regions', b).addr + FindRamBlock(regions', b).len
    BY <1>0, <1>4, <2>1, HighByte
  <2>6. HasByte(regions, b) <=>
          /\ Hits(regions, b) # {}
          /\ FindRamBlock(regions, b).kind = "block"
          /\ b < FindRamBlock(regions, b).addr + FindRamBlock(regions, b).len
    BY <1>0, <1>4, <2>1, HighByte
  <2> QED
    BY <1>4, <2>4, <2>5, <2>6
<1>5. ASSUME NEW b \in Addr
      PROVE  HasByte(regions', b) <=>
                 (HasByte(regions, b) \/ (b \in R /\ Layers[b] = 0 /\ b # a + k))
  <2>1. Layers[b] = 0 <=> Hits(regions, b) = {}
    BY LayerFacts
  <2>2. b \notin R => Hits(regions', b) = Hits(regions, b)
    BY MappingLayers
  <2>3. HasByte(regions, b) => HasByte(regions', b)
    BY <1>2 DEF Readable
  <2>4. CASE b < HeapBase
    BY <2>4, LowByte
  <2>5. CASE b = AddrSpace - 1
    <3>1. b \in R => b = a + k
      <4> HIDE DEF k
      <4> QED
        BY <1>0, <2>5 DEF View!Range
    <3> QED
      BY <2>5, <3>1, TopByte
  <2>6. CASE ~(b < HeapBase) /\ b # AddrSpace - 1 /\ b \in R
    BY <1>3, <1>4, <2>1, <2>3, <2>6, HighByte, <1>0
  <2>7. CASE ~(b < HeapBase) /\ b # AddrSpace - 1 /\ b \notin R
    BY <1>0, <2>2, <2>7, SameHits
  <2> QED
    BY <2>4, <2>5, <2>6, <2>7
<1>6. R \subseteq Addr
  <2> HIDE DEF k
  <2> QED
    BY <1>0 DEF View!Range, Addr
<1> HIDE DEF R, k
<1>7. Readable' = Readable \cup {b \in R : Layers[b] = 0 /\ b # a + k}
  BY <1>5, <1>6 DEF Readable
<1> QED
  BY <1>2, <1>7 DEF R, k

(* The end of the range joins the last addresses.                          *)
LEMMA MappingEnds ==
    ASSUME AInv, NEW a \in Addr, NEW n \in Nat, regions' = AddMemmap(a, n)
    PROVE  Ends' = Ends \cup {b \in View!Range(a, UInt(n)) :
                                  b = a + UInt(n) /\ b \notin StraightPart}
<1> DEFINE k == UInt(n)
           new == NewRegion(a, n)
<1>1. /\ AddrSpace \in Nat /\ a \in Nat /\ k \in Nat /\ new.addr = a
      /\ regions' = regions \cup {new}
      /\ a + k < AddrSpace => a <= End(new) /\ End(new) = a + k
      /\ ~(a + k < AddrSpace) => End(new) < a
      /\ End(new) \in Int
  <2>1. stamp \in Nat
    BY VectorFacts
  <2>2. End(new) \in Addr
    BY <2>1, NewRegionFacts, SpanFacts
  <2> QED
    BY <2>1, <2>2, NewSpan, NewRegionFacts, SpaceAssumption DEF Addr, AddMemmap
<1> HIDE DEF k, new
<1>2. Ends' = Ends \cup ({End(r) : r \in {q \in {new} : q.addr <= End(q)}} \ StraightPart)
  BY <1>1 DEF Ends
<1>3. CASE a + k < AddrSpace
  <2>1. {End(r) : r \in {q \in {new} : q.addr <= End(q)}} = {a + k}
    BY <1>1, <1>3
  <2>2. {b \in View!Range(a, k) : b = a + k /\ b \notin StraightPart} = {a + k} \ StraightPart
    BY <1>1, <1>3 DEF View!Range
  <2> QED
    BY <1>2, <2>1, <2>2 DEF k
<1>4. CASE ~(a + k < AddrSpace)
  <2>1. {q \in {new} : q.addr <= End(q)} = {}
    BY <1>1, <1>4
  <2>2. View!Range(a, k) = {}
    BY <1>4 DEF View!Range
  <2> QED
    BY <1>2, <2>1, <2>2 DEF k
<1> QED
  BY <1>3, <1>4

(* Mapping extends the view.                                               *)
LEMMA MappingExtends ==
    ASSUME AInv, AInv', [Next]_vars, NEW a \in Addr, NEW n \in Nat,
           regions' = AddMemmap(a, n)
    PROVE  View!Extend(a, UInt(n))
<1>1. Layers' = [b \in View!Address |-> IF b \in View!Range(a, UInt(n))
                                        THEN Layers[b] + 1 ELSE Layers[b]]
  BY MappingLayers, FixedReadable
<1>2. View!Accessible' = Readable' /\ View!Accessible = Readable
  BY DEF View!Accessible, Contents, Readable
<1> QED
  BY <1>1, <1>2, MappingBytes, MappingEnds DEF View!Extend

(* The view depends on the vector and on the storage only.                 *)
LEMMA ViewStays ==
    /\ UNCHANGED regions => UNCHANGED <<Layers, Readable, Ends>>
    /\ UNCHANGED <<regions, mem>> => UNCHANGED Contents
  BY DEF Layers, Readable, Contents, Ends

(* Growing the heap adds the part above the old size (Svc.cpp:106-116).    *)
LEMMA GrowIsSetHeap ==
    ASSUME AInv, AInv', [Next]_vars, NEW size \in HeapSizes, GrowHeap(size)
    PROVE  View!SetHeap(size)
<1> DEFINE a == Wrap(HeapBase + heap_size)
           n == size - heap_size - 1
<1>1. /\ size \in Nat /\ heap_size \in Nat /\ heap_size < size
      /\ HeapBase + heap_size \in Nat /\ n \in Nat
  BY SpaceAssumption, InputAssumption DEF AInv, IInv, TypeOK, GrowHeap, Addr
<1>2. a \in Addr /\ a = View!At(HeapBase + heap_size)
  BY <1>1, WrapFacts DEF View!At, Wrap
<1>3. /\ regions' = AddMemmap(a, n) /\ mem' = Extended(regions')
      /\ heap_size' = size /\ running /\ UNCHANGED <<overrun, running>>
  BY DEF GrowHeap
<1> HIDE DEF a, n
<1>4. View!Extend(a, UInt(n)) /\ UInt(n) \in View!Taken(n, LenSpace)
  BY <1>1, <1>2, <1>3, MappingExtends, TakenLength
<1>5. ASSUME NEW b \in Readable PROVE View!Kept(b)
  <2>1. b \in Readable' /\ Cell(regions', b, 1) = Cell(regions, b, 1)
    BY <1>1, <1>2, <1>3, MappingBytes
  <2>2. Cell(regions, b, 1) \in Cells(regions) /\ Cell(regions', b, 1) \in Cells(regions')
    BY <2>1 DEF Readable, HasByte
  <2>3. mem'[Cell(regions', b, 1)] = mem[Cell(regions, b, 1)]
    BY <1>3, <2>1, <2>2, VectorFacts DEF Extended
  <2> QED
    BY <2>1, <2>3, KeptByte
<1>6. \E k \in View!Taken(n, LenSpace) : View!Extend(View!At(HeapBase + heap_size), k)
  BY <1>2, <1>4
<1> QED
  BY <1>1, <1>3, <1>5, <1>6, ViewBytes DEF View!SetHeap, n

(* Shrinking it forgets the size.                                          *)
LEMMA ShrinkIsSetHeap ==
    ASSUME AInv, NEW size \in HeapSizes, ShrinkHeap(size)
    PROVE  View!SetHeap(size)
<1>1. /\ UNCHANGED <<regions, mem, overrun, running>> /\ heap_size' = size /\ running
      /\ heap_size >= size
  BY DEF ShrinkHeap
<1>2. ~(heap_size < size)
  BY <1>1, SpaceAssumption, InputAssumption DEF AInv, IInv, TypeOK, Addr
<1> QED
  BY <1>1, <1>2, ViewStays DEF View!SetHeap

(* MirrorStack maps, copies, and leaves alone what it does not copy over   *)
(* (Svc.cpp:122-130).                                                      *)
LEMMA MirrorIsMirror ==
    ASSUME AInv, AInv', [Next]_vars, NEW m \in Mirrors, MirrorStack(m[1], m[2], m[3])
    PROVE  View!Mirror(m[1], m[2], m[3])
<1> DEFINE rs == AddMemmap(m[1], m[3])
           k == IntSize(m[3])
           To(c) == {i \in CopyDomain(m[3]) : c \in Touched(rs, Wrap(m[1] + i), 1)}
           dests == {View!At(m[1] + i) : i \in 0..(k - 1)}
<1>0. /\ m[1] \in Addr /\ m[1] \in Nat /\ m[2] \in Nat /\ m[3] \in Nat
  BY SpaceAssumption, InputAssumption DEF Addr
<1>1. CopyDomain(m[3]) = 0..(k - 1) /\ k \in Nat /\ k \in View!CopyLengths(m[3])
  BY <1>0, CopyLength DEF CopyDomain, View!CopyLengths
<1>2. /\ regions' = rs /\ mem' = Copied(rs, m[1], m[2], m[3])
      /\ CopyReachable(rs, m[1], m[2], m[3])
      /\ overrun' = (overrun \/ \E a \in Writes(m[1], m[3]) : Overruns(rs, a, 1))
      /\ UNCHANGED <<heap_size, running>> /\ running
  BY DEF MirrorStack
<1>3. /\ Ordered(rs) /\ Stamped(rs) /\ \A r \in rs : 0 < r.stamp
      /\ DOMAIN mem = Cells(regions)
  BY <1>2, VectorFacts DEF Ordered
<1>4. \A x : View!At(x) = Wrap(x)
  BY DEF View!At, Wrap
<1>5. ASSUME NEW i \in 0..(k - 1)
      PROVE  /\ Wrap(m[1] + i) \in Addr /\ Reachable(rs, Wrap(m[1] + i), 1)
             /\ Wrap(m[2] + i) \in Addr /\ Reachable(rs, Wrap(m[2] + i), 1)
  <2>1. m[1] + i \in Nat /\ m[2] + i \in Nat
    BY <1>0, <1>1
  <2>2. Wrap(m[1] + i) \in Addr /\ Wrap(m[2] + i) \in Addr
    BY <2>1, WrapFacts
  <2>3. Wrap(m[1] + i) \in Writes(m[1], m[3]) /\ Wrap(m[2] + i) \in Reads(m[2], m[3])
    BY <1>1 DEF Writes, Reads
  <2>4. Reachable(rs, Wrap(m[1] + i), 1) /\ Reachable(rs, Wrap(m[2] + i), 1)
    BY <1>2, <2>3 DEF CopyReachable
  <2> QED
    BY <2>2, <2>4
<1>6. ASSUME NEW a \in Addr, Reachable(rs, a, 1)
      PROVE  a \in StraightPart \cup View!Mapped' \cup {View!Summit}
  <2>1. CASE a < HeapBase \/ a = AddrSpace - 1
    BY <2>1, FixedReadable
  <2>2. CASE ~(a < HeapBase) /\ a # AddrSpace - 1
    <3>1. Hits(regions', a) # {}
      BY <1>2, <1>3, <1>6, <2>2, HighByte
    <3>2. Layers'[a] = IF a \in View!Range(m[1], UInt(m[3])) THEN Layers[a] + 1 ELSE Layers[a]
      BY <1>0, <1>2, MappingLayers
    <3>3. Layers[a] \in Nat /\ (Layers[a] = 0 <=> Hits(regions, a) = {})
      BY LayerFacts
    <3>4. a \notin View!Range(m[1], UInt(m[3])) => Hits(regions', a) = Hits(regions, a)
      BY <1>0, <1>2, MappingLayers
    <3>5. Layers'[a] > 0
      BY <3>1, <3>2, <3>3, <3>4
    <3> QED
      BY <3>5, FixedReadable DEF View!Mapped
  <2> QED
    BY <2>1, <2>2
<1>7. ASSUME NEW i \in 0..(k - 1), Wrap(m[1] + i) \in Readable'
      PROVE  /\ Wrap(m[2] + i) \in Readable =>
                    Contents'[Wrap(m[1] + i)] = Contents[Wrap(m[2] + i)]
             /\ Wrap(m[2] + i) = View!Summit => Contents'[Wrap(m[1] + i)] = Zero
  <2>1. HasByte(regions', Wrap(m[1] + i)) /\ i \in CopyDomain(m[3])
    BY <1>1, <1>7 DEF Readable
  <2>2. Contents'[Wrap(m[1] + i)] = mem'[Cell(regions', Wrap(m[1] + i), 1)]
    BY <1>7 DEF Contents, Readable
  <2>3. ASSUME Wrap(m[2] + i) \in Readable
        PROVE  Contents'[Wrap(m[1] + i)] = Contents[Wrap(m[2] + i)]
    <3>1. HasByte(regions, Wrap(m[2] + i))
      BY <2>3 DEF Readable
    <3>2. mem'[Cell(regions', Wrap(m[1] + i), 1)] = mem[Cell(regions, Wrap(m[2] + i), 1)]
      BY <2>1, <3>1, MirrorStepCopies DEF AInv
    <3> QED
      BY <2>2, <2>3, <3>2, ViewBytes
  <2>4. ASSUME Wrap(m[2] + i) = View!Summit PROVE Contents'[Wrap(m[1] + i)] = Zero
    <3>1. mem'[Cell(regions', Wrap(m[1] + i), 1)] =
              Loaded(regions', Extended(regions'), Wrap(m[2] + i))
      BY <2>1, MirrorLoads DEF AInv
    <3>2. Width(Wrap(m[2] + i), 1) = 0
      BY <2>4, FixedReadable, SpaceAssumption DEF Width
    <3>3. Loaded(regions', Extended(regions'), Wrap(m[2] + i)) = Zero
      BY <3>2 DEF Loaded
    <3> QED
      BY <2>2, <3>1, <3>3
  <2> QED
    BY <2>3, <2>4
<1>8. ASSUME NEW b \in Readable, b \notin dests PROVE View!Kept(b)
  <2> DEFINE c == Cell(regions, b, 1)
  <2>1. b \in Addr /\ b \in Readable' /\ Cell(rs, b, 1) = c
    BY <1>0, <1>2, MappingBytes, ViewBytes
  <2>2. /\ Reachable(regions, b, 1) /\ Reachable(rs, b, 1)
        /\ c \in Cells(regions) /\ c \in Cells(rs)
    BY <1>2, <2>1 DEF Readable, HasByte
  <2>3. To(c) = {}
    <3>1. ASSUME NEW i \in 0..(k - 1), c \in Touched(rs, Wrap(m[1] + i), 1) PROVE FALSE
      <4>1. Wrap(m[1] + i) \in Addr /\ Reachable(rs, Wrap(m[1] + i), 1)
        BY <1>5
      <4>2. c = Cell(rs, Wrap(m[1] + i), 1)
        BY <1>3, <3>1, <4>1, ByteTouched
      <4>3. Wrap(m[1] + i) = b
        BY <1>3, <2>1, <2>2, <4>1, <4>2, CellDistinct
      <4> QED
        BY <1>4, <1>8, <4>3
    <3> HIDE DEF c, rs, k
    <3> QED
      BY <1>1, <3>1
  <2>4. Copied(rs, m[1], m[2], m[3])[c] =
          IF To(c) = {} THEN Extended(rs)[c]
          ELSE Loaded(rs, Extended(rs), Wrap(m[2] + (CHOOSE i \in To(c) : TRUE)))
    BY <2>2 DEF Copied
  <2>5. Extended(rs)[c] = mem[c]
    BY <1>3, <2>2 DEF Extended
  <2> HIDE DEF To
  <2>6. mem'[c] = mem[c]
    BY <1>2, <2>3, <2>4, <2>5
  <2> QED
    BY <1>2, <2>1, <2>6, KeptByte
<1>9. View!Extend(m[1], UInt(m[3])) /\ UInt(m[3]) \in View!Taken(m[3], LenSpace)
  BY <1>0, <1>2, MappingExtends, TakenLength
<1>10. View!Accessible' = Readable' /\ View!Accessible = Readable
  BY DEF View!Accessible, Contents, Readable
<1>11. (\E a \in Writes(m[1], m[3]) : Overruns(rs, a, 1)) <=>
           \E i \in 0..(k - 1) : Wrap(m[1] + i) \notin Readable' \cup {View!Summit}
  <2>1. ASSUME NEW i \in 0..(k - 1)
        PROVE  Overruns(rs, Wrap(m[1] + i), 1) <=>
                   Wrap(m[1] + i) \notin Readable' \cup {View!Summit}
    <3>1. Wrap(m[1] + i) \in Addr /\ Reachable(rs, Wrap(m[1] + i), 1)
      BY <1>5
    <3> HIDE DEF rs
    <3> QED
      BY <1>2, <1>3, <3>1, ByteFails, FixedReadable DEF Readable
  <2>2. Writes(m[1], m[3]) = {Wrap(m[1] + i) : i \in 0..(k - 1)}
    BY <1>1 DEF Writes
  <2> HIDE DEF rs, k
  <2> QED
    BY <2>1, <2>2
<1> HIDE DEF rs, To, k
<1>12. \A i \in 0..(k - 1) : {View!At(m[1] + i), View!At(m[2] + i)} \subseteq
                                 StraightPart \cup View!Mapped' \cup {View!Summit}
  BY <1>4, <1>5, <1>6
<1>13. \E n \in View!Taken(m[3], LenSpace) : View!Extend(m[1], n)
  BY <1>9
<1>14. overrun' = (overrun \/ \E i \in 0..(k - 1) :
                       View!At(m[1] + i) \notin View!Accessible' \cup {View!Summit})
  BY <1>2, <1>4, <1>10, <1>11
<1>15. \A i \in 0..(k - 1) : View!At(m[1] + i) \in View!Accessible' =>
          /\ View!At(m[2] + i) \in View!Accessible =>
                 Contents'[View!At(m[1] + i)] = Contents[View!At(m[2] + i)]
          /\ View!At(m[2] + i) = View!Summit => Contents'[View!At(m[1] + i)] = Zero
  BY <1>4, <1>7, <1>10
<1>16. \A b \in View!Accessible \ {View!At(m[1] + i) : i \in 0..(k - 1)} : View!Kept(b)
  BY <1>8, <1>10
<1> QED
  BY <1>1, <1>2, <1>12, <1>13, <1>14, <1>15, <1>16 DEF View!Mirror

(* UnmapMemory erases regions that lie in the range, and so changes how    *)
(* nothing outside it resolves (Svc.cpp:132-136, Memory.cpp:90-101).       *)
LEMMA UnmapIsUnmap ==
    ASSUME AInv, AInv', NEW u \in Unmaps, UnmapMemory(u[1], u[2])
    PROVE  View!Unmap(u[1], u[2])
<1> DEFINE del == Deleted(u[1], u[2])
           R == u[1]..(u[1] + u[2])
<1>0. u[1] \in Nat /\ u[2] \in Nat /\ u[1] \in Addr
  BY SpaceAssumption, InputAssumption DEF Addr
<1>1. /\ regions' = regions \ del /\ mem' = [c \in Cells(regions') |-> mem[c]]
      /\ running /\ UNCHANGED <<heap_size, overrun, running>>
  BY DEF UnmapMemory
<1>2. /\ Stamped(regions) /\ Stamped(regions') /\ regions \subseteq Region
      /\ \A r \in regions : 0 < r.stamp
      /\ \A r \in regions' : 0 < r.stamp
  BY VectorFacts DEF Ordered, Stamped
<1>3. ASSUME NEW r \in del, NEW b \in Addr, Contains(r, b) PROVE b \in R
  <2>1. UInt(u[2]) \in Nat /\ UInt(u[2]) <= u[2]
    BY <1>0, UIntBound
  <2>2. Wrap(u[1] + UInt(u[2])) \in Nat /\ Wrap(u[1] + UInt(u[2])) <= u[1] + UInt(u[2])
    BY <1>0, <2>1, WrapFacts, SpaceAssumption DEF Addr
  <2>3. r \in Region /\ u[1] <= r.addr /\ End(r) <= Wrap(u[1] + UInt(u[2]))
    BY <1>2 DEF Deleted
  <2>4. r.addr \in Nat /\ End(r) \in Nat /\ b \in Nat /\ r.addr <= b /\ b <= End(r)
    BY <1>3, <2>3, SpanFacts, SpaceAssumption DEF Region, Addr, Contains
  <2>5. u[1] <= b /\ b <= u[1] + u[2]
    BY <1>0, <2>1, <2>2, <2>3, <2>4
  <2> QED
    BY <1>0, <2>4, <2>5
<1>4. ASSUME NEW b \in Addr, b \notin R PROVE Hits(regions', b) = Hits(regions, b)
  BY <1>1, <1>3, <1>4 DEF Hits
<1>5. ASSUME NEW b \in Addr
      PROVE  /\ Layers'[b] \in Nat /\ Layers'[b] <= Layers[b]
             /\ b \notin R => Layers'[b] = Layers[b]
             /\ Layers'[b] = Layers[b] => Hits(regions', b) = Hits(regions, b)
  <2>1. IsFiniteSet(Hits(regions, b)) /\ Layers[b] = Cardinality(Hits(regions, b))
    BY LayerFacts
  <2>2. Layers'[b] = Cardinality(Hits(regions', b))
    BY DEF Layers
  <2>3. Hits(regions', b) \subseteq Hits(regions, b)
    BY <1>1 DEF Hits
  <2>4. IsFiniteSet(Hits(regions', b))
    BY <2>1, <2>3, FS_Subset
  <2>5. Cardinality(Hits(regions', b)) \in Nat /\ Cardinality(Hits(regions, b)) \in Nat
    BY <2>1, <2>4, FS_CardinalityType
  <2>6. /\ Cardinality(Hits(regions', b)) <= Cardinality(Hits(regions, b))
        /\ Cardinality(Hits(regions, b)) = Cardinality(Hits(regions', b))
              => Hits(regions, b) = Hits(regions', b)
    BY <2>1, <2>3, FS_Subset
  <2> QED
    BY <1>4, <2>1, <2>2, <2>5, <2>6
<1>6. Layers' \in [Addr -> Nat]
  <2>1. Layers' = [b \in Addr |-> Layers'[b]]
    BY DEF Layers
  <2> QED
    BY <1>5, <2>1
<1>7. ASSUME NEW b \in Addr, b \in StraightPart \/ Layers'[b] = Layers[b]
      PROVE  /\ b \in Readable <=> b \in Readable'
             /\ Cell(regions', b, 1) = Cell(regions, b, 1)
  <2>1. CASE b \in StraightPart
    <3>1. b < HeapBase /\ b \in Readable /\ b \in Readable'
      BY <2>1, FixedReadable
    <3>2. Cell(regions', b, 1) = <<0, b>> /\ Cell(regions, b, 1) = <<0, b>>
      BY <3>1, LowByte
    <3> QED
      BY <3>1, <3>2
  <2>2. CASE Layers'[b] = Layers[b]
    <3>1. Hits(regions', b) = Hits(regions, b)
      BY <1>5, <2>2
    <3> QED
      BY <1>2, <3>1, SameHits DEF Readable
  <2> QED
    BY <1>7, <2>1, <2>2
<1>8. ASSUME NEW b \in Readable, b \in StraightPart \/ Layers'[b] = Layers[b]
      PROVE  View!Kept(b)
  <2>1. b \in Addr /\ b \in Readable' /\ Cell(regions', b, 1) = Cell(regions, b, 1)
    BY <1>7, <1>8, ViewBytes
  <2>2. Cell(regions', b, 1) \in Cells(regions')
    BY <2>1 DEF Readable, HasByte
  <2>3. mem'[Cell(regions', b, 1)] = mem[Cell(regions, b, 1)]
    BY <1>1, <2>1, <2>2
  <2> QED
    BY <2>1, <2>3, KeptByte
<1>9. View!Accessible' = Readable' /\ View!Accessible = Readable
  BY DEF View!Accessible, Contents, Readable
<1>10. Readable \subseteq Addr /\ Readable' \subseteq Addr /\ View!Address = Addr
  BY FixedReadable DEF Readable
<1>11. Ends' \subseteq Ends
  BY <1>1 DEF Ends
<1> HIDE DEF del
<1> QED
  BY <1>1, <1>5, <1>6, <1>7, <1>8, <1>9, <1>10, <1>11 DEF View!Unmap

(* The cells of readable addresses: pRAM in the straight part, and blocks  *)
(* elsewhere.                                                              *)
LEMMA RamCell ==
    ASSUME AInv, NEW a \in Readable
    PROVE  /\ a \in Addr /\ a \in Nat /\ Cell(regions, a, 1) \in DOMAIN mem
           /\ a < HeapBase => Cell(regions, a, 1) = <<0, a>>
           /\ ~(a < HeapBase) =>
                /\ FindRamBlock(regions, a) \in regions /\ a # AddrSpace - 1
                /\ 0 < FindRamBlock(regions, a).stamp
                /\ Cell(regions, a, 1) = <<FindRamBlock(regions, a).stamp,
                                           a - FindRamBlock(regions, a).addr>>
<1>1. a \in Addr /\ a \in Nat /\ HasByte(regions, a)
  BY StraightByte DEF Readable
<1>2. /\ Stamped(regions) /\ DOMAIN mem = Cells(regions)
      /\ \A r \in regions : 0 < r.stamp
  BY VectorFacts DEF Ordered
<1>3. Cell(regions, a, 1) \in DOMAIN mem
  BY <1>1, <1>2 DEF HasByte
<1>4. CASE a < HeapBase
  BY <1>1, <1>3, <1>4, LowByte
<1>5. CASE ~(a < HeapBase)
  <2>1. a # AddrSpace - 1
    BY <1>1, TopByte
  <2>2. /\ Cell(regions, a, 1) = <<FindRamBlock(regions, a).stamp,
                                   a - FindRamBlock(regions, a).addr>>
        /\ Hits(regions, a) # {}
    BY <1>1, <1>2, <1>5, <2>1, HighByte
  <2>3. FindRamBlock(regions, a) \in regions /\ 0 < FindRamBlock(regions, a).stamp
    BY <1>2, <2>2, FindFacts DEF Hits
  <2> QED
    BY <1>1, <1>3, <1>5, <2>1, <2>2, <2>3
<1> QED
  BY <1>4, <1>5

(* QueryMemory stores its answer by way of pRAM, where an address is its   *)
(* own only below heap_base (Svc.cpp:149-177).                             *)
LEMMA QueryIsDescribe ==
    ASSUME AInv, NEW q \in Queries, QueryMemory(q[1], q[2])
    PROVE  View!Describe(q[1])
<1> DEFINE c(a) == Cell(regions, a, 1)
           P == StraightPart \cap View!Bytes(q[1], InfoSize)
<1>0. q[1] \in Addr /\ q[1] \in Nat /\ HeapBase \in Nat /\ InfoSize \in Nat
  BY SpaceAssumption, InputAssumption DEF Addr
<1>1. /\ mem' = [d \in DOMAIN mem |-> IF d \in InfoCells(q[1]) THEN Answer ELSE mem[d]]
      /\ UNCHANGED <<regions, heap_size, overrun, running>> /\ running
  BY DEF QueryMemory
<1>2. UNCHANGED <<Layers, Readable, Ends>>
  BY <1>1, ViewStays
<1>3. ASSUME NEW a \in Readable
      PROVE  /\ c(a) \in DOMAIN mem
             /\ c(a) \in InfoCells(q[1]) <=> a \in P
  <2>1. a \in Addr /\ a \in Nat /\ c(a) \in DOMAIN mem
    BY RamCell
  <2>2. CASE a < HeapBase
    <3>1. c(a) = <<0, a>>
      BY <2>2, RamCell
    <3>2. <<0, a>> \in InfoCells(q[1]) <=> \E i \in 0..(InfoSize - 1) : a = q[1] + i
      BY DEF InfoCells
    <3>3. (\E i \in 0..(InfoSize - 1) : a = q[1] + i) <=> a \in q[1] .. q[1] + InfoSize - 1
      <4>1. ASSUME a \in q[1] .. q[1] + InfoSize - 1
            PROVE  a - q[1] \in 0..(InfoSize - 1) /\ a = q[1] + (a - q[1])
        BY <1>0, <2>1, <4>1
      <4> QED
        BY <1>0, <2>1, <4>1
    <3>4. a \in StraightPart
      BY <2>1, <2>2, FixedReadable
    <3> HIDE DEF c
    <3> QED
      BY <2>1, <3>1, <3>2, <3>3, <3>4 DEF View!Bytes
  <2>3. CASE ~(a < HeapBase)
    <3>1. c(a) = <<FindRamBlock(regions, a).stamp, a - FindRamBlock(regions, a).addr>>
          /\ 0 < FindRamBlock(regions, a).stamp
      BY <2>3, RamCell
    <3>2. c(a)[1] # 0
      BY <3>1
    <3>3. \A d \in InfoCells(q[1]) : d[1] = 0
      BY DEF InfoCells
    <3>4. a \notin StraightPart
      BY <2>1, <2>3, FixedReadable
    <3> HIDE DEF c
    <3> QED
      BY <2>1, <3>2, <3>3, <3>4
  <2> QED
    BY <2>2, <2>3
<1> HIDE DEF P
<1>4. \A a \in Readable : mem'[c(a)] = IF a \in P THEN Answer ELSE mem[c(a)]
  BY <1>1, <1>3
<1>5. Contents' = [a \in Readable |-> mem'[c(a)]]
  BY <1>1, <1>2 DEF Contents, Readable
<1>6. \A a \in Readable : Contents[a] = mem[c(a)]
  BY ViewBytes
<1> HIDE DEF c
<1>7. Contents' = [a \in Readable |-> IF a \in P THEN Answer ELSE Contents[a]]
  BY <1>4, <1>5, <1>6
<1> QED
  BY <1>1, <1>2, <1>7, ViewBytes DEF View!Describe, P

(* Where an access of some width goes.                                     *)
LEMMA WideAccess ==
    ASSUME NEW a \in Addr, NEW n \in 1..MaxWidth
    PROVE  /\ a \in Nat /\ n \in Nat /\ 0 < n
           /\ View!Void(a, n) <=> ~(a + n < AddrSpace)
           /\ View!Void(a, n) => /\ \A rs : Reachable(rs, a, n) /\ Touched(rs, a, n) = {}
                                 /\ \A rs : ~Overruns(rs, a, n)
           /\ ~View!Void(a, n) => /\ a # AddrSpace - 1 /\ Width(a, n) = n
                                  /\ IsStraight(a, n) <=> a + n <= HeapBase
                                  /\ View!LeavesFixed(a, n) <=>
                                         (a < HeapBase /\ ~(a + n <= HeapBase))
<1>0. /\ AddrSpace \in Nat /\ HeapBase \in Nat /\ MaxWidth \in Nat /\ MaxWidth <= HeapBase
      /\ a \in Nat /\ n \in Nat /\ 0 < n /\ n <= MaxWidth /\ a < AddrSpace
      /\ HeapBase < AddrSpace
  BY SpaceAssumption DEF Addr
<1>1. View!Void(a, n) <=> ~(a + n < AddrSpace)
  BY <1>0 DEF View!Void, View!Summit
<1>2. ASSUME ~(a + n < AddrSpace) PROVE IsStraight(a, n) /\ Width(a, n) = 0
  <2>1. a + n - AddrSpace \in 0..(AddrSpace - 1) /\ a + n - AddrSpace <= HeapBase
    BY <1>0, <1>2
  <2>2. (a + n) % AddrSpace = (a + n - AddrSpace) % AddrSpace
    BY <1>0, <2>1, SMT
  <2>3. (a + n - AddrSpace) % AddrSpace = a + n - AddrSpace
    BY <1>0, <2>1, SMT
  <2> QED
    BY <1>2, <2>1, <2>2, <2>3 DEF IsStraight, Wrap, Width
<1>3. ASSUME ~(a + n < AddrSpace), NEW rs
      PROVE  Reachable(rs, a, n) /\ Touched(rs, a, n) = {} /\ ~Overruns(rs, a, n)
  <2>1. 0..(Width(a, n) - 1) = {}
    BY <1>2, <1>3
  <2>2. Touched(rs, a, n) = {}
    BY <2>1 DEF Touched
  <2> QED
    BY <1>2, <1>3, <2>2 DEF Reachable, Overruns
<1>4. ASSUME a + n < AddrSpace
      PROVE  /\ a # AddrSpace - 1 /\ Width(a, n) = n
             /\ IsStraight(a, n) <=> a + n <= HeapBase
             /\ View!LeavesFixed(a, n) <=> (a < HeapBase /\ ~(a + n <= HeapBase))
  <2>1. Wrap(a + n) = a + n
    BY <1>0, <1>4, WrapFacts
  <2>2. a + n - 1 \in Addr
    BY <1>0, <1>4 DEF Addr
  <2>3. View!LeavesFixed(a, n) <=> (a < HeapBase /\ ~(a + n <= HeapBase))
    BY <1>0, <2>2, FixedReadable DEF View!LeavesFixed
  <2> QED
    BY <1>0, <1>4, <2>1, <2>3 DEF IsStraight, Width
<1> QED
  BY <1>0, <1>1, <1>3, <1>4

(* An access that GetRawPtr lets through and that leaves its block goes    *)
(* over the end of a range, or out of the fixed part.                      *)
LEMMA OverrunAtEdge ==
    ASSUME AInv, NEW a \in Addr, NEW n \in 1..MaxWidth, Overruns(regions, a, n)
    PROVE  ~View!Void(a, n) /\ View!AtEdge(a, n)
<1>0. /\ a \in Nat /\ n \in Nat /\ 0 < n /\ HeapBase \in Nat /\ RamSize \in Nat
      /\ HeapBase <= RamSize /\ ~View!Void(a, n) /\ AddrSpace \in Nat
      /\ Width(a, n) = n /\ (IsStraight(a, n) <=> a + n <= HeapBase)
      /\ (View!LeavesFixed(a, n) <=> (a < HeapBase /\ ~(a + n <= HeapBase)))
  BY WideAccess, SpaceAssumption
<1>1. /\ Reachable(regions, a, n) /\ Stamped(regions)
      /\ \A r \in regions : 0 < r.stamp
  BY VectorFacts DEF Overruns, Ordered
<1>2. PICK i \in 0..(n - 1) :
          <<Cell(regions, a, n)[1], Cell(regions, a, n)[2] + i>> \notin Cells(regions)
  BY <1>0 DEF Overruns, Touched
<1>3. ~IsStraight(a, n)
  <2>1. SUFFICES ASSUME IsStraight(a, n) PROVE FALSE
    OBVIOUS
  <2>2. Cell(regions, a, n) = <<0, a>> /\ a + n <= HeapBase
    BY <1>0, <2>1 DEF Cell
  <2>3. a + i \in 0..(RamSize - 1)
    BY <1>0, <2>2
  <2>4. <<0, a + i>> \in Cells(regions)
    BY <2>3 DEF Cells, RamCells
  <2> QED
    BY <1>2, <2>2, <2>4
<1> DEFINE f == FindRamBlock(regions, a)
<1>4. /\ f \in regions /\ f \in Region /\ f.kind = "block" /\ Contains(f, a)
      /\ Cell(regions, a, n) = <<f.stamp, a - f.addr>>
      /\ a - f.addr \in 0..f.len /\ f.len \in Nat
  BY <1>0, <1>1, <1>3, BlockCell
<1> HIDE DEF f
<1>5. ~(a - f.addr + i < f.len)
  <2>1. SUFFICES ASSUME a - f.addr + i < f.len PROVE FALSE
    OBVIOUS
  <2>2. <<f.stamp, a - f.addr + i>> \in BlockCells(f)
    BY <1>4, <2>1 DEF BlockCells
  <2>3. <<f.stamp, a - f.addr + i>> \in Cells(regions)
    BY <1>4, <2>2 DEF Cells
  <2> QED
    BY <1>2, <1>4, <2>3
<1>6. /\ f.addr \in Nat /\ f.addr <= a /\ a <= End(f) /\ End(f) \in Addr /\ End(f) \in Nat
      /\ End(f) <= f.addr + f.len
  BY <1>4, SpanFacts, SpaceAssumption DEF Region, Addr, Contains
<1>7. End(f) \in View!Bytes(a, n)
  BY <1>0, <1>4, <1>5, <1>6 DEF View!Bytes
<1>8. CASE End(f) \in StraightPart
  <2>1. End(f) < HeapBase
    BY <1>6, <1>8, FixedReadable
  <2>2. View!LeavesFixed(a, n)
    BY <1>0, <1>3, <1>6, <2>1
  <2> QED
    BY <1>0, <2>2 DEF View!AtEdge
<1>9. CASE End(f) \notin StraightPart
  <2>1. End(f) \in Ends
    BY <1>0, <1>4, <1>6, <1>9 DEF Ends
  <2> QED
    BY <1>0, <1>7, <2>1 DEF View!AtEdge
<1> QED
  BY <1>8, <1>9

(* WriteToRAM finds the pointer once and follows it: the addresses whose   *)
(* byte it changes are among those of the access, and all of them in the   *)
(* straight part (ARMv8/MMU.cpp:31-43).                                    *)
LEMMA StoreIsStore ==
    ASSUME AInv, AInv', NEW x \in Accesses, NEW v \in Byte, Store(x[1], x[2], v)
    PROVE  View!Store(x[1], x[2], v)
<1> DEFINE a == x[1]
           n == x[2]
           f == FindRamBlock(regions, a)
           c(b) == Cell(regions, b, 1)
           T == Touched(regions, a, n)
           S == {b \in Readable : c(b) \in T}
<1>0. /\ a \in Addr /\ a \in Nat /\ n \in 1..MaxWidth /\ n \in Nat /\ 0 < n
      /\ HeapBase \in Nat /\ AddrSpace \in Nat /\ HeapBase < AddrSpace
  BY SpaceAssumption, InputAssumption DEF Addr
<1>1. /\ Reachable(regions, a, n)
      /\ mem' = [d \in DOMAIN mem |-> IF d \in T THEN v ELSE mem[d]]
      /\ overrun' = (overrun \/ Overruns(regions, a, n))
      /\ UNCHANGED <<regions, heap_size, running>> /\ running
  BY DEF Store
<1>2. UNCHANGED <<Layers, Readable, Ends>>
  BY <1>1, ViewStays
<1>3. /\ Stamped(regions)
      /\ \A r \in regions : 0 < r.stamp
      /\ overrun \in BOOLEAN /\ overrun' \in BOOLEAN
  BY VectorFacts DEF Ordered, AInv, IInv, TypeOK
<1>4. ~IsStraight(a, n) =>
          /\ f \in regions /\ f.addr \in Nat /\ f.stamp \in Nat /\ 0 < f.stamp
          /\ Hits(regions, a) # {} /\ f.kind = "block"
          /\ Cell(regions, a, n) = <<f.stamp, a - f.addr>>
  <2> SUFFICES ASSUME ~IsStraight(a, n)
               PROVE  /\ f \in regions /\ f.addr \in Nat /\ f.stamp \in Nat /\ 0 < f.stamp
                      /\ Hits(regions, a) # {} /\ f.kind = "block"
                      /\ Cell(regions, a, n) = <<f.stamp, a - f.addr>>
    OBVIOUS
  <2>1. Hits(regions, a) # {} /\ f.kind = "block"
    BY <1>1 DEF Reachable
  <2>2. f \in regions /\ f \in Region
    BY <1>3, <2>1, FindFacts DEF Hits, Stamped
  <2>3. 0 < f.stamp
    BY <1>3, <2>2
  <2> QED
    BY <1>0, <2>1, <2>2, <2>3 DEF Region, Addr, Cell
<1>5. IsStraight(a, n) => Cell(regions, a, n) = <<0, a>>
  BY DEF Cell
<1>6. ASSUME NEW b \in S PROVE b \in View!Bytes(a, n)
  <2>1. b \in Readable /\ c(b) \in T
    OBVIOUS
  <2>2. PICK i \in 0..(Width(a, n) - 1) :
            c(b) = <<Cell(regions, a, n)[1], Cell(regions, a, n)[2] + i>>
    BY <2>1 DEF Touched
  <2>3. i \in 0..(n - 1)
    BY <1>0, <2>2 DEF Width
  <2>4. b \in Nat /\ (b < HeapBase => c(b) = <<0, b>>)
    BY <2>1, RamCell
  <2>5. ~(b < HeapBase) =>
          /\ FindRamBlock(regions, b) \in regions /\ 0 < FindRamBlock(regions, b).stamp
          /\ c(b) = <<FindRamBlock(regions, b).stamp, b - FindRamBlock(regions, b).addr>>
    BY <2>1, RamCell
  <2> HIDE DEF c, S, T, f
  <2>6. CASE IsStraight(a, n)
    <3>1. c(b) = <<0, a + i>>
      BY <1>5, <2>2, <2>6
    <3>2. b < HeapBase
      BY <2>5, <3>1
    <3>3. b = a + i
      BY <2>4, <3>1, <3>2
    <3> QED
      BY <1>0, <2>3, <3>3 DEF View!Bytes
  <2>7. CASE ~IsStraight(a, n)
    <3>1. c(b) = <<f.stamp, a - f.addr + i>> /\ 0 < f.stamp
      BY <1>4, <2>2, <2>7
    <3>2. ~(b < HeapBase)
      BY <2>4, <3>1
    <3>3. FindRamBlock(regions, b) = f
      BY <1>3, <1>4, <2>5, <2>7, <3>1, <3>2 DEF Stamped
    <3>4. b - f.addr = a - f.addr + i
      BY <2>5, <3>1, <3>2, <3>3
    <3>5. b = a + i
      BY <1>0, <1>4, <2>3, <2>4, <2>7, <3>4
    <3> QED
      BY <1>0, <2>3, <3>5 DEF View!Bytes
  <2> QED
    BY <2>6, <2>7
<1>7. ASSUME ~View!Void(a, n), ~View!LeavesFixed(a, n)
      PROVE  /\ a \in Readable => a \in S
             /\ a < HeapBase => \A b \in View!Bytes(a, n) : b \in S
  <2>0. /\ a # AddrSpace - 1 /\ Width(a, n) = n
        /\ IsStraight(a, n) <=> a + n <= HeapBase
        /\ a < HeapBase => a + n <= HeapBase
    BY <1>0, <1>7, WideAccess
  <2>1. ASSUME NEW i \in 0..(n - 1)
        PROVE  <<Cell(regions, a, n)[1], Cell(regions, a, n)[2] + i>> \in T
    BY <2>0, <2>1 DEF Touched
  <2>2. ASSUME a < HeapBase, NEW b \in View!Bytes(a, n) PROVE b \in S
    <3>1. b \in Addr /\ b \in Nat /\ b < HeapBase /\ b - a \in 0..(n - 1) /\ b = a + (b - a)
      BY <1>0, <2>0, <2>2 DEF Addr, View!Bytes
    <3>2. b \in Readable /\ c(b) = <<0, b>>
      BY <3>1, LowByte DEF Readable
    <3>3. Cell(regions, a, n) = <<0, a>>
      BY <1>5, <2>0, <2>2
    <3>4. <<0, a + (b - a)>> \in T
      BY <2>1, <3>1, <3>3
    <3> HIDE DEF T
    <3> QED
      BY <3>1, <3>2, <3>4
  <2>3. ASSUME a \in Readable, ~(a < HeapBase) PROVE a \in S
    <3>1. ~IsStraight(a, n)
      BY <1>0, <2>0, <2>3
    <3>2. c(a) = <<f.stamp, a - f.addr>>
      BY <2>3, RamCell
    <3>3. 0 \in 0..(n - 1) /\ a - f.addr + 0 = a - f.addr
      BY <1>0, <1>4, <3>1
    <3>4. <<f.stamp, a - f.addr + 0>> \in T
      BY <1>4, <2>1, <3>1, <3>3
    <3> HIDE DEF T
    <3> QED
      BY <2>3, <3>2, <3>3, <3>4
  <2>4. a \in View!Bytes(a, n)
    BY <1>0 DEF View!Bytes
  <2> HIDE DEF S
  <2> QED
    BY <2>2, <2>3, <2>4
<1>8. Contents' = [b \in Readable |-> IF b \in S THEN v ELSE Contents[b]]
  <2>1. Contents' = [b \in Readable |-> mem'[c(b)]]
    BY <1>1, <1>2 DEF Contents, Readable
  <2>2. ASSUME NEW b \in Readable
        PROVE  mem'[c(b)] = IF b \in S THEN v ELSE Contents[b]
    <3>1. c(b) \in DOMAIN mem /\ Contents[b] = mem[c(b)]
      BY RamCell, ViewBytes
    <3>2. mem'[c(b)] = IF c(b) \in T THEN v ELSE mem[c(b)]
      <4> HIDE DEF T, c
      <4> QED
        BY <1>1, <3>1
    <3> HIDE DEF T, c
    <3> QED
      BY <3>1, <3>2
  <2> HIDE DEF S, c
  <2> QED
    BY <2>1, <2>2, Zenon
<1>9. S \in SUBSET (View!Bytes(a, n) \cap Readable)
  <2>1. S \subseteq Readable
    OBVIOUS
  <2> HIDE DEF S
  <2> QED
    BY <1>6, <2>1
<1>10. View!Void(a, n) => S = {}
  BY <1>0, WideAccess
<1>11. View!Void(a, n) \/ a \in StraightPart \cup View!Mapped
  <2>1. CASE View!Void(a, n)
    BY <2>1
  <2>2. CASE ~View!Void(a, n)
    <3>1. IsStraight(a, n) => a < HeapBase
      BY <1>0, <2>2, WideAccess
    <3>2. ~IsStraight(a, n) => a \in View!Mapped
      BY <1>0, <1>4, MappedAddresses
    <3> QED
      BY <1>0, <3>1, <3>2, FixedReadable
  <2> QED
    BY <2>1, <2>2
<1>12. overrun' => overrun \/ (~View!Void(a, n) /\ View!AtEdge(a, n))
  BY <1>0, <1>1, OverrunAtEdge
<1>13. a \in StraightPart => a < HeapBase
  BY <1>0, FixedReadable
<1> HIDE DEF S, a, n, T
<1>14. ~View!Void(a, n) /\ ~View!LeavesFixed(a, n) =>
          /\ a \in Readable => a \in S
          /\ a \in StraightPart => S = View!Bytes(a, n)
  BY <1>6, <1>7, <1>13
<1>15. View!Store(a, n, v)
  BY <1>1, <1>2, <1>3, <1>8, <1>9, <1>10, <1>11, <1>12, <1>14, ViewBytes DEF View!Store
<1> QED
  BY <1>15 DEF a, n

----------------------------------------------------------------------------
(* The calls that end the process do so for a reason.                      *)

(* An access that is refused begins where no region is, or goes over the   *)
(* end of one.                                                             *)
LEMMA RefusedAccess ==
    ASSUME AInv, NEW x \in Accesses, AccessFails(x[1], x[2])
    PROVE  View!BadAccess(x[1], x[2])
<1> DEFINE a == x[1]
           n == x[2]
<1>0. /\ a \in Addr /\ n \in 1..MaxWidth /\ a \in Nat /\ n \in Nat /\ 0 < n
      /\ HeapBase \in Nat
  BY SpaceAssumption, InputAssumption DEF Addr
<1>1. ~Reachable(regions, a, n) \/ Overruns(regions, a, n)
  BY DEF AccessFails
<1>2. /\ Ordered(regions) /\ Stamped(regions) /\ Null(regions)
      /\ \A r \in regions : 0 < r.stamp
  BY VectorFacts DEF Ordered
<1> SUFFICES View!BadAccess(a, n)
  OBVIOUS
<1> HIDE DEF a, n
<1>3. CASE Overruns(regions, a, n)
  BY <1>0, <1>3, OverrunAtEdge DEF View!BadAccess
<1>4. CASE ~Reachable(regions, a, n)
  <2>1. ~View!Void(a, n)
    BY <1>0, <1>4, WideAccess
  <2>2. /\ ~IsStraight(a, n) /\ a # AddrSpace - 1 /\ ~(a + n <= HeapBase)
        /\ View!LeavesFixed(a, n) <=> (a < HeapBase /\ ~(a + n <= HeapBase))
    BY <1>0, <1>4, <2>1, WideAccess DEF Reachable
  <2>3. CASE a < HeapBase
    <3>1. View!LeavesFixed(a, n)
      BY <2>2, <2>3
    <3> QED
      BY <2>1, <3>1 DEF View!BadAccess, View!AtEdge
  <2>4. CASE ~(a < HeapBase) /\ Hits(regions, a) = {}
    <3>1. a \notin StraightPart \cup View!Mapped
      BY <1>0, <2>4, FixedReadable, MappedAddresses
    <3> QED
      BY <2>1, <3>1 DEF View!BadAccess
  <2>5. CASE ~(a < HeapBase) /\ Hits(regions, a) # {}
    <3>1. FindRamBlock(regions, a).kind # "block"
      BY <1>4, <2>5 DEF Reachable
    <3>2. ~HasByte(regions, a)
      BY <1>0, <1>2, <2>2, <2>5, <3>1, HighByte
    <3>3. /\ FindRamBlock(regions, a) \in regions
          /\ FindRamBlock(regions, a).addr <= End(FindRamBlock(regions, a))
          /\ End(FindRamBlock(regions, a)) = a
      BY <1>0, <1>2, <2>2, <2>5, <3>2, EndByte
    <3>4. a \in Ends
      BY <1>0, <2>5, <3>3, FixedReadable DEF Ends
    <3>5. a \in View!Bytes(a, n)
      BY <1>0 DEF View!Bytes
    <3> QED
      BY <2>1, <3>4, <3>5 DEF View!BadAccess, View!AtEdge
  <2> QED
    BY <2>3, <2>4, <2>5
<1> QED
  BY <1>1, <1>3, <1>4

(* A mirror that fails has an address without a byte even in the new map.  *)
LEMMA RefusedMirror ==
    ASSUME AInv, NEW m \in Mirrors, MirrorFails(m[1], m[2], m[3])
    PROVE  View!BadMirror(m[1], m[2], m[3])
<1> DEFINE rs == AddMemmap(m[1], m[3])
           new == NewRegion(m[1], m[3])
           k == UInt(m[3])
<1>0. /\ m[1] \in Addr /\ m[1] \in Nat /\ m[2] \in Nat /\ m[3] \in Nat /\ stamp \in Nat
      /\ AddrSpace \in Nat
  BY SpaceAssumption, InputAssumption, VectorFacts DEF Addr
<1>1. /\ CopyDomain(m[3]) = 0..(IntSize(m[3]) - 1)
      /\ IntSize(m[3]) \in View!CopyLengths(m[3]) /\ IntSize(m[3]) \in Nat
      /\ k \in View!Taken(m[3], LenSpace) /\ k \in Nat
  BY <1>0, CopyLength, TakenLength, UIntBound DEF CopyDomain, View!CopyLengths
<1>2. Stamped(rs) /\ \A r \in rs : 0 < r.stamp
  BY <1>0, AddStamped DEF AInv, IInv
<1>3. Null(rs)
  <2>1. Null(regions)
    BY VectorFacts DEF Ordered
  <2> QED
    BY <1>0, <2>1, NewNullBlock DEF Null, AddMemmap
<1>4. /\ Span(new) = View!Range(m[1], k) /\ new.addr = m[1]
      /\ m[1] + k < AddrSpace => End(new) = m[1] + k
      /\ ~(m[1] + k < AddrSpace) => End(new) < m[1]
      /\ End(new) \in Addr
  BY <1>0, NewSpan, NewRegionFacts, SpanFacts
<1>5. ASSUME NEW b \in Addr, ~Reachable(rs, b, 1) \/ Overruns(rs, b, 1)
      PROVE  View!BadByte(b, m[1], k)
  <2>1. ~(b < HeapBase) /\ b # AddrSpace - 1 /\ ~HasByte(rs, b)
    BY <1>2, <1>5, ByteFails
  <2>2. b \notin StraightPart \cup {View!Summit}
    BY <2>1, FixedReadable
  <2>3. CASE Hits(rs, b) = {}
    <3>1. b \notin View!Mapped /\ b \notin Span(new)
      <4>1. Hits(regions, b) = {} /\ ~Contains(new, b)
        BY <2>3 DEF Hits, AddMemmap
      <4> QED
        BY <4>1, MappedAddresses DEF Span
    <3> QED
      BY <1>4, <2>2, <3>1 DEF View!BadByte
  <2>4. CASE Hits(rs, b) # {}
    <3> DEFINE f == FindRamBlock(rs, b)
    <3>1. f \in rs /\ f.addr <= End(f) /\ End(f) = b
      BY <1>2, <1>3, <2>1, <2>4, EndByte
    <3> HIDE DEF f
    <3>2. CASE f \in regions
      <4>1. b \in Ends
        BY <2>2, <3>1, <3>2 DEF Ends
      <4> QED
        BY <2>2, <4>1 DEF View!BadByte
    <3>3. CASE f = new
      <4> HIDE DEF new, k
      <4>1. m[1] + k < AddrSpace
        <5>1. End(new) \in Nat /\ m[1] <= End(new)
          BY <1>0, <1>4, <3>1, <3>3 DEF Addr
        <5> QED
          BY <1>0, <1>4, <5>1
      <4>2. b = m[1] + k
        BY <1>4, <3>1, <3>3, <4>1
      <4> QED
        BY <2>2, <4>2 DEF View!BadByte
    <3> QED
      BY <3>1, <3>2, <3>3 DEF AddMemmap
  <2> QED
    BY <2>3, <2>4
<1>6. PICK b \in Reads(m[2], m[3]) \cup Writes(m[1], m[3]) :
          ~Reachable(rs, b, 1) \/ Overruns(rs, b, 1)
  BY DEF MirrorFails, CopyReachable, CopyOverruns
<1>7. PICK i \in 0..(IntSize(m[3]) - 1) : b = Wrap(m[1] + i) \/ b = Wrap(m[2] + i)
  BY <1>1, <1>6 DEF Reads, Writes
<1>8. b \in Addr
  <2>1. m[1] + i \in Nat /\ m[2] + i \in Nat
    BY <1>0, <1>1, <1>7
  <2> QED
    BY <1>7, <2>1, WrapFacts
<1>9. \A d : View!At(d) = Wrap(d)
  BY DEF View!At, Wrap
<1>10. View!BadByte(b, m[1], k)
  BY <1>5, <1>6, <1>8
<1> HIDE DEF k
<1>11. View!BadByte(View!At(m[1] + i), m[1], k) \/ View!BadByte(View!At(m[2] + i), m[1], k)
  BY <1>7, <1>9, <1>10
<1> QED
  BY <1>1, <1>7, <1>11 DEF View!BadMirror

(* Only an element of the static array is freed in error.                  *)
LEMMA RefusedUnmap ==
    ASSUME AInv, NEW u \in Unmaps, UnmapFails(u[1], u[2])
    PROVE  View!BadUnmap(u[1], u[2])
<1>0. u[1] \in Nat /\ u[2] \in Nat /\ u[1] \in Addr /\ HeapBase \in Nat
  BY SpaceAssumption, InputAssumption DEF Addr
<1>1. PICK r \in Deleted(u[1], u[2]) : r.kind = "static"
  BY DEF UnmapFails
<1>2. r \in regions /\ r \in Region /\ u[1] <= r.addr /\ End(r) <= Wrap(u[1] + UInt(u[2]))
  BY DEF Deleted, AInv, IInv, TypeOK
<1>3. r.addr \in Nat /\ r.len \in Nat /\ r.addr + r.len < HeapBase
  BY <1>1, <1>2, SpaceAssumption DEF AInv, StaticBelow, Region, Addr
<1>4. r.addr + r.len < AddrSpace
  BY <1>3, SpaceAssumption
<1>5. End(r) = r.addr + r.len
  BY <1>2, <1>4, SpanFacts
<1>6. UInt(u[2]) \in Nat /\ UInt(u[2]) <= u[2]
  BY <1>0, UIntBound
<1>7. Wrap(u[1] + UInt(u[2])) \in Nat /\ Wrap(u[1] + UInt(u[2])) <= u[1] + UInt(u[2])
  BY <1>0, <1>6, WrapFacts, SpaceAssumption DEF Addr
<1>8. r.addr \in u[1] .. (u[1] + u[2]) /\ r.addr \in StraightPart
  BY <1>0, <1>2, <1>3, <1>5, <1>6, <1>7 DEF StraightPart
<1> QED
  BY <1>8 DEF View!BadUnmap

(* A description fails for want of a place, or of a word to read.          *)
LEMMA RefusedQuery ==
    ASSUME AInv, NEW q \in Queries, QueryFaults(q[1], q[2])
    PROVE  View!BadDescribe(q[1])
<1> DEFINE a == q[2]
<1>0. /\ a \in Addr /\ HeapBase \in Nat /\ RamSize \in Nat /\ HeapBase <= RamSize
      /\ AddrSpace \in Nat /\ q[1] \in Nat /\ InfoSize \in Nat
  BY SpaceAssumption, InputAssumption DEF Addr
<1>1. QueryMayFault(q[1], a)
  BY DEF QueryFaults
<1> HIDE DEF a
<1>2. CASE ~(InfoCells(q[1]) \subseteq RamCells)
  <2>1. PICK i \in 0..(InfoSize - 1) : <<0, q[1] + i>> \notin RamCells
    BY <1>2 DEF InfoCells
  <2>2. ~(q[1] + i \in 0..(RamSize - 1))
    BY <2>1 DEF RamCells
  <2>3. q[1] + i \in View!Bytes(q[1], InfoSize) /\ q[1] + i \notin StraightPart
    BY <1>0, <2>2 DEF View!Bytes, StraightPart
  <2> QED
    BY <2>3 DEF View!BadDescribe
<1>3. CASE ~Entry(a).free /\ (Entry(a).begin >= RamSize \/ Entry(a).end >= RamSize)
  <2> DEFINE r == FirstListed(a)
  <2>1. Listed(a) # {} /\ ~InGap(r, a)
    BY <1>3 DEF Entry
  <2>2. r \in Listed(a)
    BY <2>1, FirstListedFacts DEF AInv
  <2>3. r \in regions /\ r \in Region /\ Contains(r, a)
    BY <2>1, <2>2 DEF Listed, AInv, IInv, TypeOK
  <2>4. Entry(a).begin = r.addr /\ Entry(a).end = End(r)
    BY <2>1 DEF Entry
  <2> HIDE DEF r
  <2>5. End(r) \in Addr /\ r.addr \in Addr /\ r.addr <= End(r)
    <3>1. End(r) \in Addr /\ r.addr \in Addr
      BY <2>3, SpanFacts DEF Region
    <3>2. r.addr <= a /\ a <= End(r)
      BY <2>3 DEF Contains
    <3> QED
      BY <1>0, <3>1, <3>2 DEF Addr
  <2>6. r.addr \in Span(r) /\ End(r) \in Span(r)
    BY <1>0, <2>5 DEF Span, Contains, Addr
  <2>7. \E b \in Span(r) : b \in Addr /\ b >= RamSize
    BY <1>3, <2>4, <2>5, <2>6
  <2>8. PICK b \in Span(r) : b \in Addr /\ b >= RamSize
    BY <2>7
  <2>9. r \in Hits(regions, b)
    BY <2>3, <2>8 DEF Hits, Span
  <2>10. b \in View!Mapped
    BY <2>8, <2>9, MappedAddresses
  <2>11. b \notin StraightPart
    BY <1>0, <2>8 DEF StraightPart, Addr
  <2> QED
    BY <2>10, <2>11 DEF View!BadDescribe
<1> QED
  BY <1>1, <1>2, <1>3 DEF QueryMayFault

----------------------------------------------------------------------------
(* The initial map is the straight part, zeroed.                           *)
LEMMA InitIsInit ==
    ASSUME Init, AInv
    PROVE  View!Init
<1>1. \A r \in regions : r.kind # "block"
  BY DEF Init, StaticRegions, TlsRegion
<1>2. ASSUME NEW r \in regions
      PROVE  r \in Region /\ r.addr + r.len < HeapBase /\ End(r) \in StraightPart
  <2>1. r \in Region
    BY DEF AInv, IInv, TypeOK
  <2>2. r.addr + r.len < HeapBase
    BY MapAssumption DEF Init, StaticRegions, TlsRegion
  <2>3. End(r) \in Addr /\ End(r) <= r.addr + r.len
    BY <2>1, SpanFacts
  <2>4. r.addr \in Nat /\ r.len \in Nat
    BY <2>1, SpaceAssumption DEF Region, Addr
  <2> QED
    BY <2>1, <2>2, <2>3, <2>4, SpaceAssumption DEF StraightPart, Addr
<1>3. ASSUME NEW a \in Addr, Hits(regions, a) # {} PROVE a \in StraightPart
  <2>1. PICK r \in regions : a \in Span(r)
    BY <1>3 DEF Hits, Span
  <2>2. a \in Addr /\ a <= End(r) /\ End(r) \in StraightPart
    BY <1>2, <2>1 DEF Span, Contains
  <2> QED
    BY <2>2, SpaceAssumption DEF StraightPart, Addr
<1>4. Readable = StraightPart
  <2>1. ASSUME NEW a \in Readable, ~(a < HeapBase) PROVE FALSE
    <3>1. a \in Addr /\ HasByte(regions, a) /\ a # AddrSpace - 1
      BY TopByte DEF Readable
    <3>2. Stamped(regions) /\ \A r \in regions : 0 < r.stamp
      BY VectorFacts DEF Ordered
    <3>3. Hits(regions, a) # {} /\ FindRamBlock(regions, a).kind = "block"
      BY <2>1, <3>1, <3>2, HighByte
    <3>4. FindRamBlock(regions, a) \in regions
      BY <3>2, <3>3, FindFacts DEF Hits
    <3> QED
      BY <1>1, <3>3, <3>4
  <2> QED
    BY <2>1, FixedReadable DEF Readable
<1>5. ASSUME NEW a \in Readable PROVE mem[Cell(regions, a, 1)] = Zero
  <2>1. Cell(regions, a, 1) \in DOMAIN mem
    BY RamCell
  <2> QED
    BY <2>1 DEF Init
<1>6. Contents = [a \in StraightPart |-> Zero]
  BY <1>4, <1>5 DEF Contents, Readable
<1>7. View!Mapped \subseteq StraightPart
  BY <1>3, MappedAddresses
<1>8. Layers \in [View!Address -> Nat]
  <2>1. \A a \in Addr : Cardinality(Hits(regions, a)) \in Nat
    BY LayerFacts
  <2> QED
    BY <2>1 DEF Layers, View!Address, Addr
<1>9. Ends = {}
  BY <1>2 DEF Ends
<1> QED
  BY <1>6, <1>7, <1>8, <1>9 DEF View!Init, Init

(* A process that ends leaves the view as it was.                          *)
LEMMA HaltFails ==
    ASSUME running, Halt,
           \/ \E x \in Accesses : View!BadAccess(x[1], x[2])
           \/ \E m \in Mirrors : View!BadMirror(m[1], m[2], m[3])
           \/ \E u \in Unmaps : View!BadUnmap(u[1], u[2])
           \/ \E q \in Queries : View!BadDescribe(q[1])
           \/ overrun
    PROVE  View!Fail
<1>1. UNCHANGED <<Layers, Contents, Ends, heap_size, overrun>> /\ running' = FALSE
  BY ViewStays DEF Halt
<1> QED
  BY <1>1 DEF View!Fail

(* Every step is a step of the address space, or none.                     *)
LEMMA StepIsStep ==
    ASSUME AInv, AInv', [Next]_vars
    PROVE  [View!Next]_(View!vars)
<1>1. ASSUME NEW size \in HeapSizes, SetHeapSize(size) PROVE View!Next
  <2>1. View!SetHeap(size)
    BY <1>1, GrowIsSetHeap, ShrinkIsSetHeap DEF SetHeapSize
  <2> QED
    BY <2>1 DEF View!Next
<1>2. ASSUME NEW m \in Mirrors, MirrorStack(m[1], m[2], m[3]) PROVE View!Next
  <2>1. View!Mirror(m[1], m[2], m[3])
    BY <1>2, MirrorIsMirror
  <2> QED
    BY <2>1 DEF View!Next
<1>3. ASSUME NEW m \in Mirrors, MirrorFails(m[1], m[2], m[3]) PROVE View!Next
  <2>1. View!BadMirror(m[1], m[2], m[3]) /\ running /\ Halt
    BY <1>3, RefusedMirror DEF MirrorFails
  <2> QED
    BY <2>1, HaltFails DEF View!Next
<1>4. ASSUME NEW u \in Unmaps, UnmapMemory(u[1], u[2]) PROVE View!Next
  <2>1. View!Unmap(u[1], u[2])
    BY <1>4, UnmapIsUnmap
  <2> QED
    BY <2>1 DEF View!Next
<1>5. ASSUME NEW u \in Unmaps, UnmapFails(u[1], u[2]) PROVE View!Next
  <2>1. View!BadUnmap(u[1], u[2]) /\ running /\ Halt
    BY <1>5, RefusedUnmap DEF UnmapFails
  <2> QED
    BY <2>1, HaltFails DEF View!Next
<1>6. ASSUME NEW q \in Queries, QueryMemory(q[1], q[2]) PROVE View!Next
  <2>1. View!Describe(q[1])
    BY <1>6, QueryIsDescribe
  <2> QED
    BY <2>1 DEF View!Next
<1>7. ASSUME NEW q \in Queries, QueryFaults(q[1], q[2]) PROVE View!Next
  <2>1. View!BadDescribe(q[1]) /\ running /\ Halt
    BY <1>7, RefusedQuery DEF QueryFaults
  <2> QED
    BY <2>1, HaltFails DEF View!Next
<1>8. ASSUME NEW x \in Accesses, NEW v \in Byte, Store(x[1], x[2], v) PROVE View!Next
  <2>1. View!Store(x[1], x[2], v)
    BY <1>8, StoreIsStore
  <2> QED
    BY <2>1 DEF View!Next
<1>9. ASSUME NEW x \in Accesses, AccessFails(x[1], x[2]) PROVE View!Next
  <2>1. View!BadAccess(x[1], x[2]) /\ running /\ Halt
    BY <1>9, RefusedAccess DEF AccessFails
  <2> QED
    BY <2>1, HaltFails DEF View!Next
<1>10. ASSUME AllocatorAborts PROVE View!Next
  <2>1. View!Fail
    BY <1>10, HaltFails DEF AllocatorAborts
  <2> QED
    BY <2>1 DEF View!Next
<1>11. ASSUME UNCHANGED vars PROVE UNCHANGED View!vars
  BY <1>11, ViewStays DEF vars, View!vars
<1> QED
  BY <1>1, <1>2, <1>3, <1>4, <1>5, <1>6, <1>7, <1>8, <1>9, <1>10, <1>11 DEF Next

(***************************************************************************)
(* The regions, blocks and pointers of Memory.cpp implement an address     *)
(* space, for inputs of any size (Memory.cpp:43-149, ARMv8/MMU.cpp:15-65,  *)
(* Svc.cpp:106-177).                                                       *)
(***************************************************************************)
THEOREM MemoryIsAddressSpace == Spec => IsAddressSpace
<1>1. Init /\ AInv => View!Init
  BY InitIsInit
<1>2. AInv /\ AInv' /\ [Next]_vars => [View!Next]_(View!vars)
  BY StepIsStep
<1> QED
  BY <1>1, <1>2, StaticStaysBelow, PTL DEF Spec, IsAddressSpace, View!Spec
=============================================================================
