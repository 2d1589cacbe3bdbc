------------------------- MODULE GuestMemoryProofs -------------------------
(***************************************************************************)
(* Theorems about GuestMemory for every address space, region map and set  *)
(* of inputs its assumptions allow.                                        *)
(***************************************************************************)
EXTENDS GuestMemory, Induction, TLAPS

(***************************************************************************)
(* The inductive invariant.  Stamps say the vector has an order: they are  *)
(* distinct and below the next one, so a region pushed later never comes   *)
(* first.                                                                  *)
(***************************************************************************)
Stamped(rs) ==
    /\ rs \subseteq Region
    /\ \A r, q \in rs : r.stamp = q.stamp => r = q

StampsOK ==
    /\ 0 < stamp
    /\ \A r \in regions : 0 < r.stamp /\ r.stamp < stamp
    /\ \A r, q \in regions : r.stamp = q.stamp => r = q

IInv == TypeOK /\ StampsOK /\ NullBlocksBelowHeap /\ HeapMapped

----------------------------------------------------------------------------
(* Arithmetic of the two widths.                                           *)

(* Wrapped sums are addresses, never grow, and are exact below the width   *)
(* (uint64_t arithmetic of Memory.cpp:43-59).                              *)
LEMMA WrapFacts ==
    ASSUME NEW n \in Nat
    PROVE  /\ Wrap(n) \in Addr /\ Wrap(n) <= n
           /\ n < AddrSpace => Wrap(n) = n
  <1>1. AddrSpace \in Nat /\ 0 < AddrSpace
    BY SpaceAssumption
  <1>2. n % AddrSpace \in 0..(AddrSpace - 1)
    BY <1>1, SMT
  <1>3. n < AddrSpace => n % AddrSpace = n
    BY <1>1, SMT
  <1>4. n % AddrSpace <= n
    BY <1>1, SMT
  <1> QED BY <1>2, <1>3, <1>4 DEF Wrap, Addr

(* A length passed as unsigned int is a length, exact below the width      *)
(* (Memory.cpp:77).                                                        *)
LEMMA UIntFacts ==
    ASSUME NEW n \in Nat
    PROVE  /\ UInt(n) \in 0..(LenSpace - 1)
           /\ n < LenSpace => UInt(n) = n
  <1>1. LenSpace \in Nat /\ 0 < LenSpace
    BY SpaceAssumption
  <1>2. n % LenSpace \in 0..(LenSpace - 1)
    BY <1>1, SMT
  <1>3. n < LenSpace => n % LenSpace = n
    BY <1>1, SMT
  <1> QED BY <1>2, <1>3 DEF UInt

(* A length passed as unsigned int never grows (Memory.cpp:90).            *)
LEMMA UIntBound ==
    ASSUME NEW n \in Nat
    PROVE  UInt(n) \in Nat /\ UInt(n) <= n
  <1>1. LenSpace \in Nat /\ 0 < LenSpace
    BY SpaceAssumption
  <1>2. n % LenSpace \in 0..(LenSpace - 1)
    BY <1>1, SMT
  <1>3. n % LenSpace <= n
    BY <1>1, SMT
  <1> QED BY <1>2, <1>3 DEF UInt

(* The last address of a region, and what it contains (Memory.cpp:47-59).  *)
LEMMA SpanFacts ==
    ASSUME NEW r \in Region
    PROVE  /\ End(r) \in Addr /\ End(r) <= r.addr + r.len
           /\ r.addr + r.len < AddrSpace => End(r) = r.addr + r.len
           /\ Span(r) \subseteq Addr
           /\ \A a \in Addr : a \in Span(r) <=> Contains(r, a)
           /\ \A a \in Span(r) : a - r.addr \in 0..r.len
  <1>1. r.addr \in Nat /\ r.len \in Nat /\ r.addr + r.len \in Nat
    BY SpaceAssumption DEF Region, Addr
  <1>2. /\ End(r) \in Addr /\ End(r) <= r.addr + r.len
        /\ r.addr + r.len < AddrSpace => End(r) = r.addr + r.len
    BY <1>1, WrapFacts DEF End
  <1>3. /\ Span(r) \subseteq Addr
        /\ \A a \in Addr : a \in Span(r) <=> Contains(r, a)
    BY DEF Span
  <1>4. \A a \in Span(r) : a - r.addr \in 0..r.len
    BY <1>1, <1>2, SpaceAssumption DEF Span, Contains, Addr
  <1> QED BY <1>2, <1>3, <1>4

(* A new region is a region, behind all others (Memory.cpp:61-75).         *)
LEMMA NewRegionFacts ==
    ASSUME NEW a \in Addr, NEW n \in Nat, stamp \in Nat
    PROVE  /\ NewRegion(a, n) \in Region
           /\ NewRegion(a, n).stamp = stamp
           /\ NewRegion(a, n).addr = a
           /\ NewRegion(a, n).len = UInt(n)
           /\ NewRegion(a, n).kind # "block" => IsStraight(a, UInt(n))
  BY UIntFacts DEF NewRegion, Region

----------------------------------------------------------------------------
(* The first match.                                                        *)

(* FindRamBlock finds a region whenever one contains the address, and no   *)
(* other that contains it comes before (Memory.cpp:47-59).                 *)
LEMMA FindFacts ==
    ASSUME NEW rs, Stamped(rs), NEW a, Hits(rs, a) # {}
    PROVE  /\ FindRamBlock(rs, a) \in Hits(rs, a)
           /\ \A q \in Hits(rs, a) : FindRamBlock(rs, a).stamp <= q.stamp
  <1> DEFINE S == {r.stamp : r \in Hits(rs, a)}
  <1>1. S \in SUBSET Nat /\ S # {}
    BY DEF Stamped, Hits, Region
  <1>2. PICK m \in S : \A n \in S : m <= n
    BY <1>1, LeastNat
  <1>3. PICK r \in Hits(rs, a) : r.stamp = m
    BY <1>2
  <1>4. \A q \in Hits(rs, a) : r.stamp <= q.stamp
    BY <1>2, <1>3
  <1> QED BY <1>4 DEF FindRamBlock

(* A hit that no other precedes is the one FindRamBlock finds.             *)
LEMMA FindUnique ==
    ASSUME NEW rs, Stamped(rs), NEW a, NEW r \in Hits(rs, a),
           \A q \in Hits(rs, a) : r.stamp <= q.stamp
    PROVE  FindRamBlock(rs, a) = r
  <1> DEFINE f == FindRamBlock(rs, a)
  <1>1. f \in Hits(rs, a) /\ \A q \in Hits(rs, a) : f.stamp <= q.stamp
    BY FindFacts
  <1>2. f \in rs /\ r \in rs
    BY <1>1 DEF Hits
  <1>3. f.stamp \in Nat /\ r.stamp \in Nat
    BY <1>2 DEF Stamped, Region
  <1>4. f.stamp = r.stamp
    BY <1>1, <1>3
  <1> QED BY <1>2, <1>4 DEF Stamped

(* The region found before a change of the vector is found after it when   *)
(* it is still there and everything new is behind it.                      *)
LEMMA FindKept ==
    ASSUME NEW rs, NEW qs, Stamped(rs), Stamped(qs),
           NEW a, Hits(rs, a) # {}, FindRamBlock(rs, a) \in qs,
           \A q \in qs \ rs : \A r \in rs : r.stamp < q.stamp
    PROVE  /\ Hits(qs, a) # {}
           /\ FindRamBlock(qs, a) = FindRamBlock(rs, a)
  <1> DEFINE f == FindRamBlock(rs, a)
  <1>1. f \in Hits(rs, a) /\ \A q \in Hits(rs, a) : f.stamp <= q.stamp
    BY FindFacts
  <1>2. f \in rs /\ f \in Hits(qs, a)
    BY <1>1 DEF Hits
  <1>3. ASSUME NEW q \in Hits(qs, a)
        PROVE  f.stamp <= q.stamp
    <2>1. CASE q \in rs
      BY <1>1, <2>1, <1>3 DEF Hits
    <2>2. CASE q \notin rs
      <3>1. f.stamp < q.stamp
        BY <1>2, <1>3, <2>2 DEF Hits
      <3>2. f.stamp \in Nat /\ q.stamp \in Nat
        BY <1>2, <1>3 DEF Stamped, Region, Hits
      <3> QED BY <3>1, <3>2
    <2> QED BY <2>1, <2>2
  <1> QED BY <1>2, <1>3, FindUnique

----------------------------------------------------------------------------
(* Storage.                                                                *)

(* The mem that AddMemmap leaves has a value in every cell it has.         *)
LEMMA ExtendedType ==
    ASSUME NEW rs, mem \in [Cells(regions) -> Value]
    PROVE  Extended(rs) \in [Cells(rs) -> Value]
  BY DEF Extended, Value

(* What MirrorStack leaves in memory is typed as well.                     *)
LEMMA CopiedType ==
    ASSUME NEW rs, mem \in [Cells(regions) -> Value], NEW dest, NEW src, NEW size
    PROVE  Copied(rs, dest, src, size) \in [Cells(rs) -> Value]
  <1> DEFINE To(c) == {i \in CopyDomain(size) : c \in Touched(rs, Wrap(dest + i), 1)}
             Pick(c) == CHOOSE i \in To(c) : TRUE
  <1>1. Extended(rs) \in [Cells(rs) -> Value]
    BY ExtendedType
  <1>2. \A a : Loaded(rs, Extended(rs), a) \in Value
    BY <1>1 DEF Loaded, HasByte, Value
  <1>3. Copied(rs, dest, src, size) =
          [c \in Cells(rs) |-> IF To(c) = {} THEN Extended(rs)[c]
                               ELSE Loaded(rs, Extended(rs), Wrap(src + Pick(c)))]
    BY DEF Copied
  <1>4. \A c \in Cells(rs) : Extended(rs)[c] \in Value
    BY <1>1
  <1> HIDE DEF To, Pick
  <1> QED BY <1>2, <1>3, <1>4

(* A block resolves to a cell with an offset up to its length              *)
(* (Memory.cpp:135-149).                                                   *)
LEMMA BlockCell ==
    ASSUME NEW rs, Stamped(rs), NEW a \in Addr, NEW n \in Nat,
           Reachable(rs, a, n), ~IsStraight(a, n)
    PROVE  /\ FindRamBlock(rs, a) \in rs /\ FindRamBlock(rs, a) \in Region
           /\ FindRamBlock(rs, a).kind = "block" /\ Contains(FindRamBlock(rs, a), a)
           /\ Cell(rs, a, n) = <<FindRamBlock(rs, a).stamp, a - FindRamBlock(rs, a).addr>>
           /\ a - FindRamBlock(rs, a).addr \in 0..FindRamBlock(rs, a).len
           /\ FindRamBlock(rs, a).len \in Nat
  <1> DEFINE r == FindRamBlock(rs, a)
  <1>1. r \in Hits(rs, a) /\ r.kind = "block"
    BY FindFacts DEF Reachable
  <1>2. r \in rs /\ r \in Region /\ Contains(r, a)
    BY <1>1 DEF Hits, Stamped
  <1>3. a - r.addr \in 0..r.len
    BY <1>2, SpanFacts
  <1>4. r.len \in Nat
    BY <1>2, SpaceAssumption DEF Region
  <1> QED BY <1>1, <1>2, <1>3, <1>4 DEF Cell

(* What a byte access goes through: its cell, except at the top.           *)
LEMMA ByteTouched ==
    ASSUME NEW rs, Stamped(rs), NEW a \in Addr, Reachable(rs, a, 1)
    PROVE  Touched(rs, a, 1) = IF a + 1 < AddrSpace THEN {Cell(rs, a, 1)} ELSE {}
  <1>0. a \in Nat /\ AddrSpace \in Nat
    BY SpaceAssumption DEF Addr
  <1>1. Cell(rs, a, 1) = <<Cell(rs, a, 1)[1], Cell(rs, a, 1)[2] + 0>>
    <2>1. CASE IsStraight(a, 1)
      BY <1>0, <2>1 DEF Cell
    <2>2. CASE ~IsStraight(a, 1)
      <3>1. /\ Cell(rs, a, 1) = <<FindRamBlock(rs, a).stamp, a - FindRamBlock(rs, a).addr>>
            /\ a - FindRamBlock(rs, a).addr \in 0..FindRamBlock(rs, a).len
        BY <2>2, BlockCell
      <3>2. a - FindRamBlock(rs, a).addr \in Int
        BY <3>1
      <3> QED BY <3>1, <3>2
    <2> QED BY <2>1, <2>2
  <1>2. CASE a + 1 < AddrSpace
    <2>1. 0..(Width(a, 1) - 1) = {0}
      BY <1>2 DEF Width
    <2> QED BY <1>1, <1>2, <2>1 DEF Touched
  <1>3. CASE ~(a + 1 < AddrSpace)
    <2>1. 0..(Width(a, 1) - 1) = {}
      BY <1>3 DEF Width
    <2> QED BY <1>3, <2>1 DEF Touched
  <1> QED BY <1>2, <1>3

(* Every byte of an access that GetRawPtr lets through is storage, or lies *)
(* behind the block it was found in by less than the widest access: the    *)
(* offset of the first byte is at most the length of the block             *)
(* (Memory.cpp:135-149, ARMv8/MMU.cpp:15-43).                              *)
LEMMA CellFacts ==
    ASSUME NEW rs, Stamped(rs), NEW a \in Addr, NEW n \in 1..MaxWidth,
           Reachable(rs, a, n), NEW c \in Touched(rs, a, n)
    PROVE  \/ c \in Cells(rs)
           \/ \E r \in rs : /\ r.kind = "block" /\ c[1] = r.stamp
                            /\ r.len <= c[2] /\ c[2] < r.len + MaxWidth
  <1>0. /\ AddrSpace \in Nat /\ RamSize \in Nat /\ MaxWidth \in Nat /\ HeapBase \in Nat
        /\ HeapBase <= RamSize /\ a \in Nat /\ n \in Nat /\ n <= MaxWidth /\ a + n \in Nat
    BY SpaceAssumption DEF Addr
  <1>1. PICK i \in 0..(Width(a, n) - 1) : c = <<Cell(rs, a, n)[1], Cell(rs, a, n)[2] + i>>
    BY DEF Touched
  <1>2. a + n < AddrSpace /\ i \in 0..(n - 1)
    BY <1>0, <1>1 DEF Width
  <1>3. CASE IsStraight(a, n)
    <2>1. a + n <= HeapBase
      BY <1>0, <1>2, <1>3, WrapFacts DEF IsStraight
    <2>2. a + i \in 0..(RamSize - 1)
      BY <1>0, <1>2, <2>1
    <2>3. c = <<0, a + i>>
      BY <1>1, <1>3 DEF Cell
    <2> QED BY <2>2, <2>3 DEF Cells, RamCells
  <1>4. CASE ~IsStraight(a, n)
    <2> DEFINE r == FindRamBlock(rs, a)
    <2>1. /\ r \in rs /\ r.kind = "block" /\ r.len \in Nat
          /\ Cell(rs, a, n) = <<r.stamp, a - r.addr>> /\ a - r.addr \in 0..r.len
      BY <1>0, <1>4, BlockCell
    <2> HIDE DEF r
    <2>2. c = <<r.stamp, a - r.addr + i>> /\ a - r.addr + i \in 0..(r.len + MaxWidth - 1)
      BY <1>0, <1>1, <1>2, <2>1
    <2>3. CASE a - r.addr + i < r.len
      <3>1. c \in BlockCells(r)
        BY <2>1, <2>2, <2>3 DEF BlockCells
      <3> QED BY <2>1, <3>1 DEF Cells
    <2>4. CASE ~(a - r.addr + i < r.len)
      <3>1. /\ c[1] = r.stamp
            /\ r.len <= c[2] /\ c[2] < r.len + MaxWidth
        BY <1>0, <2>1, <2>2, <2>4
      <3> QED BY <2>1, <3>1
    <2> QED BY <2>3, <2>4
  <1> QED BY <1>3, <1>4

----------------------------------------------------------------------------
(* Mapping a region, shared by SetHeapSize and MirrorStack.                *)

(* The new vector keeps its order.                                         *)
LEMMA AddStamped ==
    ASSUME TypeOK, StampsOK, NEW a \in Addr, NEW n \in Nat
    PROVE  /\ Stamped(regions) /\ Stamped(AddMemmap(a, n))
           /\ AddMemmap(a, n) \subseteq Region
           /\ \A r \in AddMemmap(a, n) : 0 < r.stamp /\ r.stamp < stamp + 1
           /\ \A r, q \in AddMemmap(a, n) : r.stamp = q.stamp => r = q
  <1> DEFINE new == NewRegion(a, n)
  <1>1. new \in Region /\ new.stamp = stamp
    BY NewRegionFacts DEF TypeOK
  <1>2. \A r \in regions : r.stamp \in Nat /\ 0 < r.stamp /\ r.stamp < stamp
    BY DEF TypeOK, StampsOK, Region
  <1>3. stamp \in Nat /\ 0 < stamp
    BY DEF TypeOK, StampsOK
  <1> QED BY <1>1, <1>2, <1>3 DEF AddMemmap, Stamped, TypeOK, StampsOK

(* A region without storage ends at or below heap_base, unless its end     *)
(* wrapped and it contains nothing (Memory.cpp:43-45, 77-82).              *)
LEMMA NewNullBlock ==
    ASSUME NEW a \in Addr, NEW n \in Nat, stamp \in Nat,
           NewRegion(a, n).kind # "block", NEW b \in Span(NewRegion(a, n))
    PROVE  b <= HeapBase
  <1> DEFINE r == NewRegion(a, n)
  <1>1. r \in Region /\ r.addr = a /\ r.len = UInt(n) /\ IsStraight(a, UInt(n))
    BY NewRegionFacts
  <1>2. End(r) <= HeapBase
    BY <1>1 DEF IsStraight, End
  <1>3. End(r) \in Addr /\ b \in Addr /\ b <= End(r)
    BY <1>1, SpanFacts DEF Span, Contains
  <1> QED BY <1>2, <1>3, SpaceAssumption DEF Addr

----------------------------------------------------------------------------
(* The inductive invariant, action by action.                              *)

(* The vector that InitMemmap and ARMv8::Init leave.                       *)
LEMMA InitIInv == Init => IInv
  <1> SUFFICES ASSUME Init PROVE IInv
    OBVIOUS
  <1> USE DEF Init
  <1>0. /\ AddrSpace \in Nat /\ LenSpace \in Nat /\ HeapBase \in Nat
        /\ 0 < LenSpace /\ Len(StaticMap) \in Nat
    <2>1. StaticMap \in Seq([addr : 0..(AddrSpace - 1), len : 0..(LenSpace - 1)])
      BY MapAssumption
    <2>2. Len(StaticMap) \in Nat
      BY <2>1
    <2> QED BY <2>2, SpaceAssumption
  <1>1. \A i \in 1..Len(StaticMap) :
            /\ StaticMap[i].addr \in Addr /\ StaticMap[i].len \in 0..(LenSpace - 1)
            /\ StaticMap[i].addr + StaticMap[i].len < HeapBase
    <2> DEFINE T == [addr : 0..(AddrSpace - 1), len : 0..(LenSpace - 1)]
    <2>1. StaticMap \in Seq(T)
      BY MapAssumption
    <2> HIDE DEF T
    <2>2. \A i \in 1..Len(StaticMap) : StaticMap[i] \in T
      BY <2>1
    <2> QED BY <2>2, MapAssumption DEF Addr, T
  <1>2. /\ Tls.addr \in Addr /\ Tls.len \in 0..(LenSpace - 1)
        /\ Tls.addr + Tls.len < HeapBase
    BY MapAssumption DEF Addr
  <1>3. ASSUME NEW r \in regions
        PROVE  /\ r \in Region /\ r.kind # "block"
               /\ r.addr + r.len < HeapBase
               /\ 0 < r.stamp /\ r.stamp < stamp
    <2>1. CASE r \in StaticRegions
      <3>1. PICK i \in 1..Len(StaticMap) :
                r = [stamp |-> i, addr |-> StaticMap[i].addr,
                     len |-> StaticMap[i].len, kind |-> "static"]
        BY <2>1 DEF StaticRegions
      <3> QED BY <3>1, <1>0, <1>1 DEF Region
    <2>2. CASE r = TlsRegion
      BY <2>2, <1>0, <1>2 DEF TlsRegion, Region
    <2> QED BY <2>1, <2>2
  <1>4. \A r, q \in regions : r.stamp = q.stamp => r = q
    <2>1. \A r \in StaticRegions : r.stamp \in 1..Len(StaticMap)
      BY DEF StaticRegions
    <2>2. TlsRegion.stamp = Len(StaticMap) + 1
      BY DEF TlsRegion
    <2>3. \A r, q \in StaticRegions : r.stamp = q.stamp => r = q
      BY DEF StaticRegions
    <2> QED BY <1>0, <2>1, <2>2, <2>3
  <1>5. Cells(regions) = RamCells
    BY <1>3 DEF Cells
  <1>6. TypeOK
    <2>1. regions \subseteq Region
      BY <1>3
    <2>2. mem \in [Cells(regions) -> Value]
      BY <1>5 DEF Value
    <2>3. heap_size \in Addr /\ stamp \in Nat
      BY <1>0, SpaceAssumption DEF Addr
    <2> QED BY <2>1, <2>2, <2>3 DEF TypeOK
  <1>7. StampsOK
    BY <1>0, <1>3, <1>4 DEF StampsOK
  <1>8. NullBlocksBelowHeap
    <2> SUFFICES ASSUME NEW r \in regions, NEW a \in Span(r) PROVE a <= HeapBase
      BY DEF NullBlocksBelowHeap
    <2>1. r \in Region /\ r.addr + r.len < HeapBase
      BY <1>3
    <2>2. End(r) \in Addr /\ End(r) <= r.addr + r.len /\ a \in Addr /\ a <= End(r)
      BY <2>1, SpanFacts DEF Span, Contains
    <2> QED BY <2>1, <2>2, <1>0 DEF Region, Addr
  <1>9. HeapMapped
    <2>1. HeapRange = {}
      BY <1>0, SpaceAssumption DEF HeapRange, Addr
    <2> QED BY <2>1 DEF HeapMapped
  <1> QED BY <1>6, <1>7, <1>8, <1>9 DEF IInv

(* Nothing a step that keeps the vector, the sizes and the history does    *)
(* can break more than the type of the variables it writes.                *)
LEMMA FrameIInv ==
    ASSUME IInv, UNCHANGED <<regions, stamp, unmapped>>,
           heap_size' \in 0..heap_size,
           mem' \in [Cells(regions) -> Value],
           overrun' \in BOOLEAN, running' \in BOOLEAN
    PROVE  IInv'
  <1>0. heap_size \in Nat /\ heap_size < AddrSpace /\ AddrSpace \in Nat /\ HeapBase \in Nat
    BY SpaceAssumption DEF IInv, TypeOK, Addr
  <1>1. TypeOK'
    <2>1. heap_size' \in Addr
      BY <1>0 DEF Addr
    <2> QED BY <2>1 DEF IInv, TypeOK
  <1>2. StampsOK' /\ NullBlocksBelowHeap'
    BY DEF IInv, StampsOK, NullBlocksBelowHeap
  <1>3. HeapRange' \subseteq HeapRange
    BY <1>0 DEF HeapRange, Addr
  <1>4. HeapMapped'
    BY <1>3 DEF IInv, HeapMapped
  <1> QED BY <1>1, <1>2, <1>4 DEF IInv

(* Pushing a region keeps everything but the heap's own growth, which the  *)
(* caller shows mapped, or cut off.                                        *)
LEMMA AddIInv ==
    ASSUME IInv, NEW a \in Addr, NEW n \in Nat, NEW off \in SUBSET Addr,
           regions' = AddMemmap(a, n), stamp' = stamp + 1,
           unmapped' = (unmapped \cup off) \ Span(NewRegion(a, n)),
           mem' \in [Cells(regions') -> Value],
           heap_size' \in Addr, overrun' \in BOOLEAN, running' \in BOOLEAN,
           HeapRange' \subseteq HeapRange \cup Span(NewRegion(a, n)) \cup off
    PROVE  IInv'
  <1> DEFINE new == NewRegion(a, n)
  <1>0. stamp \in Nat /\ TypeOK /\ StampsOK
    BY DEF IInv, TypeOK
  <1>1. /\ Stamped(AddMemmap(a, n)) /\ AddMemmap(a, n) \subseteq Region
        /\ \A r \in AddMemmap(a, n) : 0 < r.stamp /\ r.stamp < stamp + 1
        /\ \A r, q \in AddMemmap(a, n) : r.stamp = q.stamp => r = q
    BY <1>0, AddStamped
  <1>2. TypeOK'
    BY <1>0, <1>1 DEF TypeOK
  <1>3. StampsOK'
    BY <1>0, <1>1 DEF StampsOK
  <1>4. NullBlocksBelowHeap'
    BY <1>0, NewNullBlock DEF IInv, NullBlocksBelowHeap, AddMemmap
  <1>5. HeapMapped'
    <2> SUFFICES ASSUME NEW b \in HeapRange'
                 PROVE  b \in unmapped' \/ Hits(regions', b) # {}
      BY DEF HeapMapped
    <2>1. CASE b \in Span(new)
      BY <2>1 DEF Span, Hits, AddMemmap
    <2>2. CASE b \in HeapRange /\ b \notin Span(new)
      BY <2>2 DEF IInv, HeapMapped, Hits, AddMemmap
    <2>3. CASE b \in off /\ b \notin Span(new)
      BY <2>3
    <2> QED BY <2>1, <2>2, <2>3
  <1> QED BY <1>2, <1>3, <1>4, <1>5 DEF IInv

(* Growing the heap (Svc.cpp:106-116): the new region spans exactly what   *)
(* was added, or the growth did not fit and all of it counts as cut off.   *)
LEMMA GrowIInv == ASSUME IInv, NEW size \in HeapSizes, GrowHeap(size) PROVE IInv'
  <1> DEFINE a == Wrap(HeapBase + heap_size)
             n == size - heap_size - 1
             new == NewRegion(a, n)
             off == CutOff(size)
  <1>0. /\ AddrSpace \in Nat /\ LenSpace \in Nat /\ HeapBase \in Nat /\ 0 < LenSpace
        /\ heap_size \in Nat /\ size \in Nat /\ heap_size < size /\ size \in Addr
        /\ stamp \in Nat
    BY SpaceAssumption, InputAssumption DEF IInv, TypeOK, GrowHeap, Addr
  <1>1. a \in Addr /\ n \in Nat
    BY <1>0, WrapFacts
  <1>2. off \in SUBSET Addr
    BY DEF CutOff, Announced
  <1>3. heap_size' = size
    BY DEF GrowHeap
  <1>4. HeapRange' \subseteq HeapRange \cup Span(new) \cup off
    <2> SUFFICES ASSUME NEW b \in HeapRange', b \notin HeapRange
                 PROVE  b \in Span(new) \cup off
      OBVIOUS
    <2>1. /\ b \in Addr /\ b \in Nat /\ b < AddrSpace
          /\ HeapBase + heap_size <= b /\ b < HeapBase + size
      BY <1>0, <1>3 DEF HeapRange, Addr
    <2>2. CASE Fits(size)
      <3>1. n < LenSpace /\ HeapBase + size <= AddrSpace
        BY <1>0, <2>2 DEF Fits
      <3>2. a = HeapBase + heap_size
        BY <1>0, <2>1, WrapFacts
      <3>3. new \in Region /\ new.addr = a /\ new.len = n
        BY <1>0, <1>1, <3>1, NewRegionFacts, UIntFacts
      <3>4. new.addr + new.len = HeapBase + size - 1 /\ new.addr + new.len < AddrSpace
        BY <1>0, <3>1, <3>2, <3>3
      <3>5. End(new) = HeapBase + size - 1
        BY <3>3, <3>4, SpanFacts
      <3>6. a <= b /\ b <= End(new)
        BY <1>0, <2>1, <3>2, <3>5
      <3> QED BY <2>1, <3>3, <3>6 DEF Span, Contains
    <2>3. CASE ~Fits(size)
      BY <2>1, <2>3 DEF CutOff, Announced
    <2> QED BY <2>2, <2>3
  <1>5. /\ regions' = AddMemmap(a, n) /\ stamp' = stamp + 1
        /\ unmapped' = (unmapped \cup off) \ Span(new)
        /\ overrun' \in BOOLEAN /\ running' \in BOOLEAN
        /\ mem' = Extended(regions')
    BY DEF GrowHeap, IInv, TypeOK
  <1>6. mem' \in [Cells(regions') -> Value]
    BY <1>5, ExtendedType DEF IInv, TypeOK
  <1>7. heap_size' \in Addr
    BY <1>0, <1>3
  <1> HIDE DEF a, n, off
  <1> QED BY <1>1, <1>2, <1>4, <1>5, <1>6, <1>7, AddIInv

(* Mirroring (Svc.cpp:122-130).                                            *)
LEMMA MirrorIInv ==
    ASSUME IInv, NEW m \in Mirrors, MirrorStack(m[1], m[2], m[3])
    PROVE  IInv'
  <1> DEFINE a == m[1]
             n == m[3]
             rs == AddMemmap(a, n)
  <1>1. a \in Addr /\ n \in Nat
    BY InputAssumption DEF Addr
  <1>2. /\ regions' = rs /\ stamp' = stamp + 1 /\ heap_size' = heap_size
        /\ unmapped' = unmapped \ Span(NewRegion(a, n))
        /\ running' = running
        /\ mem' = Copied(rs, a, m[2], n)
    BY DEF MirrorStack
  <1>3. overrun' \in BOOLEAN
    BY DEF MirrorStack, IInv, TypeOK
  <1>4. mem' \in [Cells(regions') -> Value]
    BY <1>2, CopiedType DEF IInv, TypeOK
  <1>5. HeapRange' = HeapRange
    BY <1>2 DEF HeapRange
  <1>6. heap_size' \in Addr /\ running' \in BOOLEAN
    BY <1>2 DEF IInv, TypeOK
  <1>7. unmapped' = (unmapped \cup {}) \ Span(NewRegion(a, n)) /\ {} \in SUBSET Addr
    BY <1>2
  <1> HIDE DEF a, n
  <1> QED BY <1>1, <1>2, <1>3, <1>4, <1>5, <1>6, <1>7, AddIInv

(* Unmapping (Svc.cpp:132-136): what is still mapped keeps its region, and *)
(* the history has the rest.                                               *)
LEMMA UnmapIInv ==
    ASSUME IInv, NEW u \in Unmaps, UnmapMemory(u[1], u[2])
    PROVE  IInv'
  <1> DEFINE del == Deleted(u[1], u[2])
  <1>1. /\ regions' = regions \ del /\ del \subseteq regions
        /\ unmapped' = unmapped \cup UNION {Span(r) : r \in del}
        /\ mem' = [c \in Cells(regions') |-> mem[c]]
        /\ stamp' = stamp /\ heap_size' = heap_size
        /\ overrun' = overrun /\ running' = running
    BY DEF UnmapMemory, Deleted
  <1>2. regions' \subseteq regions
    BY <1>1
  <1>3. Cells(regions') \subseteq Cells(regions)
    BY <1>2 DEF Cells
  <1>4. TypeOK'
    <2>1. mem' \in [Cells(regions') -> Value]
      BY <1>1, <1>3 DEF IInv, TypeOK
    <2>2. unmapped' \subseteq Addr
      BY <1>1 DEF IInv, TypeOK, Span
    <2> QED BY <1>1, <1>2, <2>1, <2>2 DEF IInv, TypeOK
  <1>5. StampsOK' /\ NullBlocksBelowHeap'
    BY <1>1, <1>2 DEF IInv, StampsOK, NullBlocksBelowHeap
  <1>6. HeapMapped'
    <2>0. HeapRange' = HeapRange
      BY <1>1 DEF HeapRange
    <2> SUFFICES ASSUME NEW b \in HeapRange, b \notin unmapped'
                 PROVE  Hits(regions', b) # {}
      BY <2>0 DEF HeapMapped
    <2>1. PICK r \in regions : Contains(r, b)
      BY <1>1 DEF IInv, HeapMapped, Hits
    <2>2. b \in Addr
      BY DEF HeapRange
    <2>3. r \notin del
      BY <1>1, <2>1, <2>2 DEF Span
    <2> QED BY <1>1, <2>1, <2>3 DEF Hits
  <1> QED BY <1>4, <1>5, <1>6 DEF IInv

(* Every step.                                                             *)
LEMMA NextIInv == IInv /\ [Next]_vars => IInv'
  <1> SUFFICES ASSUME IInv, [Next]_vars PROVE IInv'
    OBVIOUS
  <1>0. /\ heap_size \in Nat /\ mem \in [Cells(regions) -> Value]
        /\ overrun \in BOOLEAN /\ running \in BOOLEAN
    BY SpaceAssumption DEF IInv, TypeOK, Addr
  <1>1. ASSUME Halt PROVE IInv'
    <2>1. heap_size' \in 0..heap_size
      BY <1>0, <1>1 DEF Halt
    <2>2. /\ UNCHANGED <<regions, stamp, unmapped>> /\ mem' = mem
          /\ overrun' = overrun /\ running' = FALSE
      BY <1>1 DEF Halt
    <2> QED BY <1>0, <2>1, <2>2, FrameIInv
  <1>2. ASSUME NEW size \in HeapSizes, SetHeapSize(size) PROVE IInv'
    <2>1. CASE GrowHeap(size)
      BY <2>1, GrowIInv
    <2>2. CASE ShrinkHeap(size)
      <3>1. size \in 0..heap_size
        BY <1>0, <2>2, InputAssumption, SpaceAssumption DEF ShrinkHeap
      <3> QED BY <1>0, <2>2, <3>1, FrameIInv DEF ShrinkHeap
    <2> QED BY <1>2, <2>1, <2>2 DEF SetHeapSize
  <1>3. ASSUME NEW m \in Mirrors,
               MirrorStack(m[1], m[2], m[3]) \/ MirrorFails(m[1], m[2], m[3])
        PROVE  IInv'
    BY <1>1, <1>3, MirrorIInv DEF MirrorFails
  <1>4. ASSUME NEW u \in Unmaps, UnmapMemory(u[1], u[2]) \/ UnmapFails(u[1], u[2])
        PROVE  IInv'
    BY <1>1, <1>4, UnmapIInv DEF UnmapFails
  <1>5. ASSUME NEW q \in Queries, QueryMemory(q[1], q[2]) \/ QueryFaults(q[1], q[2])
        PROVE  IInv'
    <2>1. CASE QueryMemory(q[1], q[2])
      <3>2. mem' \in [Cells(regions) -> Value]
        BY <1>0, <2>1 DEF QueryMemory, Value
      <3> QED BY <1>0, <2>1, <3>2, FrameIInv DEF QueryMemory
    <2>2. CASE QueryFaults(q[1], q[2])
      BY <1>1, <2>2 DEF QueryFaults
    <2> QED BY <1>5, <2>1, <2>2
  <1>6. ASSUME NEW x \in Accesses, NEW v \in Byte, Store(x[1], x[2], v)
        PROVE  IInv'
    <2>1. mem' \in [Cells(regions) -> Value]
      BY <1>0, <1>6 DEF Store, Value
    <2>2. overrun' \in BOOLEAN
      BY <1>0, <1>6 DEF Store
    <2>3. heap_size' \in 0..heap_size
      BY <1>0, <1>6 DEF Store
    <2> QED BY <1>0, <1>6, <2>1, <2>2, <2>3, FrameIInv DEF Store
  <1>7. ASSUME NEW x \in Accesses, AccessFails(x[1], x[2]) PROVE IInv'
    BY <1>1, <1>7 DEF AccessFails
  <1>9. ASSUME AllocatorAborts PROVE IInv'
    BY <1>1, <1>9 DEF AllocatorAborts
  <1>8. ASSUME UNCHANGED vars PROVE IInv'
    BY <1>0, <1>8, FrameIInv DEF vars
  <1> QED BY <1>2, <1>3, <1>4, <1>5, <1>6, <1>7, <1>8, <1>9 DEF Next

----------------------------------------------------------------------------
(* The theorems.                                                           *)

(* The inductive invariant holds of every state.                           *)
THEOREM Inductive == Spec => []IInv
  <1> QED BY InitIInv, NextIInv, PTL DEF Spec

(* The variables keep their types and the storage matches the vector: each *)
(* mapped block is allocated, each unmapped one is freed                   *)
(* (Memory.cpp:61-101).                                                    *)
THEOREM TypeCorrect == Spec => []TypeOK
  <1>1. IInv => TypeOK
    BY DEF IInv
  <1> QED BY <1>1, Inductive, PTL

(* The announced heap is mapped but for what UnmapMemory took away and     *)
(* what was cut off a growth, for sizes of any width (Svc.cpp:106-116).    *)
THEOREM HeapStaysMapped == Spec => []HeapMapped
  <1>1. IInv => HeapMapped
    BY DEF IInv
  <1> QED BY <1>1, Inductive, PTL

(* heap_base is the only looked-up address a null block holds              *)
(* (Memory.cpp:61-82).                                                     *)
THEOREM NullBlocksHarmless == Spec => []NullBlocksBelowHeap
  <1>1. IInv => NullBlocksBelowHeap
    BY DEF IInv
  <1> QED BY <1>1, Inductive, PTL

(* An access touches live storage, or runs behind the block it was found   *)
(* in by less than its width (Memory.cpp:135-149, ARMv8/MMU.cpp:15-43).    *)
THEOREM NoWildAccess == Spec => []AccessInBounds
  <1>1. IInv => AccessInBounds
    <2> SUFFICES ASSUME IInv, NEW a \in Addr, NEW n \in 1..MaxWidth,
                        Reachable(regions, a, n), NEW c \in Touched(regions, a, n)
                 PROVE  c \in DOMAIN mem \/ BehindBlock(c)
      BY DEF AccessInBounds
    <2>1. Stamped(regions) /\ DOMAIN mem = Cells(regions)
      BY DEF IInv, TypeOK, StampsOK, Stamped
    <2> QED BY <2>1, CellFacts DEF BehindBlock
  <1> QED BY <1>1, Inductive, PTL

(* A step pushes regions behind the others, or none.                       *)
LEMMA StepsPushBehind ==
    ASSUME IInv, [Next]_vars
    PROVE  \A q \in regions' \ regions : \A r \in regions : r.stamp < q.stamp
  <1>0. stamp \in Nat /\ TypeOK /\ StampsOK /\ \A r \in regions : r.stamp < stamp
    BY DEF IInv, TypeOK, StampsOK
  <1>1. \A a, n : \A q \in AddMemmap(a, n) \ regions : q.stamp = stamp
    BY DEF AddMemmap, NewRegion
  <1>2. \/ regions' \subseteq regions
        \/ \E a, n : regions' = AddMemmap(a, n)
    <2>1. ASSUME NEW size \in HeapSizes, SetHeapSize(size)
          PROVE  regions' = regions \/ \E a, n : regions' = AddMemmap(a, n)
      BY <2>1 DEF SetHeapSize, GrowHeap, ShrinkHeap
    <2>2. ASSUME NEW m \in Mirrors,
                 MirrorStack(m[1], m[2], m[3]) \/ MirrorFails(m[1], m[2], m[3])
          PROVE  regions' = regions \/ \E a, n : regions' = AddMemmap(a, n)
      BY <2>2 DEF MirrorStack, MirrorFails, Halt
    <2>3. ASSUME NEW u \in Unmaps, UnmapMemory(u[1], u[2]) \/ UnmapFails(u[1], u[2])
          PROVE  regions' \subseteq regions
      BY <2>3 DEF UnmapMemory, UnmapFails, Halt
    <2>4. ASSUME NEW q \in Queries, QueryMemory(q[1], q[2]) \/ QueryFaults(q[1], q[2])
          PROVE  regions' = regions
      BY <2>4 DEF QueryMemory, QueryFaults, Halt
    <2>5. ASSUME NEW x \in Accesses,
                 AccessFails(x[1], x[2]) \/ \E v \in Byte : Store(x[1], x[2], v)
          PROVE  regions' = regions
      BY <2>5 DEF AccessFails, Store, Halt
    <2>6. ASSUME UNCHANGED vars \/ AllocatorAborts PROVE regions' = regions
      BY <2>6 DEF vars, AllocatorAborts, Halt
    <2> QED BY <2>1, <2>2, <2>3, <2>4, <2>5, <2>6 DEF Next
  <1> QED BY <1>0, <1>1, <1>2

(* A step that keeps the region of an address keeps its cell.              *)
LEMMA StepKeepsCells == IInv /\ IInv' /\ [Next]_vars => ResolutionKept
  <1> SUFFICES ASSUME IInv, IInv', [Next]_vars, NEW a \in Addr,
                      Reachable(regions, a, 1),
                      IsStraight(a, 1) \/ FindRamBlock(regions, a) \in regions'
               PROVE  /\ Reachable(regions', a, 1)
                      /\ Cell(regions', a, 1) = Cell(regions, a, 1)
    BY DEF ResolutionKept
  <1>1. Stamped(regions) /\ Stamped(regions')
    BY DEF IInv, TypeOK, StampsOK, Stamped
  <1>2. \A q \in regions' \ regions : \A r \in regions : r.stamp < q.stamp
    BY StepsPushBehind
  <1>3. CASE IsStraight(a, 1)
    BY <1>3 DEF Reachable, Cell
  <1>4. CASE ~IsStraight(a, 1)
    <2>1. Hits(regions, a) # {} /\ FindRamBlock(regions, a) \in regions'
      BY <1>4 DEF Reachable
    <2>2. Hits(regions', a) # {} /\ FindRamBlock(regions', a) = FindRamBlock(regions, a)
      BY <1>1, <1>2, <2>1, FindKept
    <2> QED BY <1>4, <2>2 DEF Reachable, Cell
  <1> QED BY <1>3, <1>4

(* An address keeps its cell while its region is mapped, whatever is       *)
(* mapped over it or unmapped beside it (Memory.cpp:47-59).                *)
THEOREM ResolutionIsStable == Spec => ResolutionStable
  <1>1. IInv /\ IInv' /\ [Next]_vars => [ResolutionKept]_vars
    BY StepKeepsCells
  <1> QED BY <1>1, Inductive, PTL DEF Spec, ResolutionStable

(* An address that keeps its region keeps its byte of storage, if that     *)
(* keeps its contents.                                                     *)
LEMMA ByteKept ==
    ASSUME IInv, IInv', [Next]_vars, NEW a \in Addr, HasByte(regions, a),
           IsStraight(a, 1) \/ FindRamBlock(regions, a) \in regions'
    PROVE  /\ HasByte(regions', a)
           /\ Cell(regions', a, 1) = Cell(regions, a, 1)
           /\ Cell(regions, a, 1) \in Cells(regions) /\ Cell(regions, a, 1) \in Cells(regions')
  <1> DEFINE c == Cell(regions, a, 1)
  <1>1. Stamped(regions) /\ Reachable(regions, a, 1) /\ c \in Cells(regions) /\ a + 1 < AddrSpace
    BY DEF IInv, TypeOK, StampsOK, Stamped, HasByte
  <1>2. Reachable(regions', a, 1) /\ Cell(regions', a, 1) = c
    BY <1>1, StepKeepsCells DEF ResolutionKept
  <1>3. c \in Cells(regions')
    <2>1. CASE IsStraight(a, 1)
      <3>1. c[1] = 0
        BY <2>1 DEF Cell
      <3>2. \A r \in regions : 0 < r.stamp /\ r.stamp \in Nat
        BY DEF IInv, StampsOK, TypeOK, Region
      <3>3. c \in RamCells
        BY <1>1, <3>1, <3>2 DEF Cells, BlockCells
      <3> QED BY <3>3 DEF Cells
    <2>2. CASE ~IsStraight(a, 1)
      <3> DEFINE r == FindRamBlock(regions, a)
      <3>1. r \in regions' /\ r \in regions /\ r.kind = "block" /\ c[1] = r.stamp
        BY <1>1, <2>2, BlockCell
      <3>2. c \in BlockCells(r)
        <4>1. 0 < r.stamp /\ r.stamp \in Nat
          BY <3>1 DEF IInv, StampsOK, TypeOK, Region
        <4>2. c \notin RamCells
          BY <3>1, <4>1 DEF RamCells
        <4>3. PICK q \in regions : q.kind = "block" /\ c \in BlockCells(q)
          BY <1>1, <4>2 DEF Cells
        <4>4. q.stamp = r.stamp
          BY <3>1, <4>3 DEF BlockCells
        <4>5. q = r
          BY <3>1, <4>3, <4>4 DEF IInv, StampsOK
        <4> QED BY <4>3, <4>5
      <3> QED BY <3>1, <3>2 DEF Cells
    <2> QED BY <2>1, <2>2
  <1> QED BY <1>1, <1>2, <1>3 DEF HasByte

(* The region of an address that has a byte is in the vector.              *)
LEMMA RegionOfByte ==
    ASSUME NEW rs, Stamped(rs), NEW a, HasByte(rs, a)
    PROVE  IsStraight(a, 1) \/ FindRamBlock(rs, a) \in Hits(rs, a)
  BY FindFacts DEF HasByte, Reachable

(* Growing the heap copies no data and loses none, and shrinking it        *)
(* touches neither the vector nor the storage (Svc.cpp:106-116).           *)
THEOREM ResizingKeepsData == Spec => ResizeKeepsData
  <1> DEFINE Resized == \A size \in HeapSizes : SetHeapSize(size) =>
                          \A a \in Addr : (a \in HeapRange => a \in HeapRange') => KeepsByte(a)
  <1>1. ASSUME IInv, IInv', [Next]_vars, NEW size \in HeapSizes, SetHeapSize(size),
               NEW a \in Addr
        PROVE  KeepsByte(a)
    <2> SUFFICES ASSUME HasByte(regions, a)
                 PROVE  /\ HasByte(regions', a)
                        /\ mem'[Cell(regions', a, 1)] = mem[Cell(regions, a, 1)]
      BY DEF KeepsByte
    <2> DEFINE c == Cell(regions, a, 1)
    <2>1. Stamped(regions) /\ DOMAIN mem = Cells(regions)
      BY <1>1 DEF IInv, TypeOK, StampsOK, Stamped
    <2>2. regions \subseteq regions'
      BY <1>1 DEF SetHeapSize, GrowHeap, ShrinkHeap, AddMemmap
    <2>3. IsStraight(a, 1) \/ FindRamBlock(regions, a) \in regions'
      BY <2>1, <2>2, RegionOfByte DEF Hits
    <2>4. /\ HasByte(regions', a) /\ Cell(regions', a, 1) = c
          /\ c \in Cells(regions) /\ c \in Cells(regions')
      BY <1>1, <2>3, ByteKept
    <2>6. CASE GrowHeap(size)
      BY <2>1, <2>4, <2>6 DEF GrowHeap, Extended
    <2>7. CASE ShrinkHeap(size)
      BY <2>4, <2>7 DEF ShrinkHeap
    <2> QED BY <1>1, <2>6, <2>7 DEF SetHeapSize
  <1>2. IInv /\ IInv' /\ [Next]_vars => [Resized]_vars
    BY <1>1
  <1> QED BY <1>2, Inductive, PTL DEF Spec, ResizeKeepsData

(* UnmapMemory erases only regions that end within its range, so that an   *)
(* address outside resolves as before (Svc.cpp:132-136, Memory.cpp:90-101).*)
THEOREM UnmappingKeepsOutside == Spec => UnmapKeepsOutside
  <1> DEFINE Unmapped == \A u \in Unmaps : UnmapMemory(u[1], u[2]) =>
                           \A a \in Addr \ (u[1]..(u[1] + u[2])) : KeepsByte(a)
  <1>1. ASSUME IInv, IInv', [Next]_vars, NEW u \in Unmaps, UnmapMemory(u[1], u[2]),
               NEW a \in Addr, a \notin u[1]..(u[1] + u[2])
        PROVE  KeepsByte(a)
    <2> SUFFICES ASSUME HasByte(regions, a)
                 PROVE  /\ HasByte(regions', a)
                        /\ mem'[Cell(regions', a, 1)] = mem[Cell(regions, a, 1)]
      BY DEF KeepsByte
    <2> DEFINE del == Deleted(u[1], u[2])
    <2>0. u[1] \in Nat /\ u[2] \in Nat /\ a \in Nat
      BY SpaceAssumption, InputAssumption DEF Addr
    <2>1. Stamped(regions)
      BY <1>1 DEF IInv, TypeOK, StampsOK, Stamped
    <2>2. /\ regions' = regions \ del
          /\ mem' = [d \in Cells(regions') |-> mem[d]]
      BY <1>1 DEF UnmapMemory
    <2>3. ASSUME NEW r \in regions, Contains(r, a), r \in del PROVE FALSE
      <3>1. UInt(u[2]) \in Nat /\ UInt(u[2]) <= u[2]
        BY <2>0, UIntBound
      <3>2. Wrap(u[1] + UInt(u[2])) \in Nat /\ Wrap(u[1] + UInt(u[2])) <= u[1] + UInt(u[2])
        BY <2>0, <3>1, WrapFacts, SpaceAssumption DEF Addr
      <3>3. u[1] <= r.addr /\ End(r) <= Wrap(u[1] + UInt(u[2]))
        BY <2>3 DEF Deleted
      <3>4. r.addr \in Nat /\ End(r) \in Nat /\ r.addr <= a /\ a <= End(r)
        BY <1>1, <2>3, SpanFacts, SpaceAssumption DEF IInv, TypeOK, Region, Addr, Contains
      <3>5. u[1] <= a /\ a <= u[1] + u[2]
        BY <2>0, <3>1, <3>2, <3>3, <3>4
      <3> QED BY <1>1, <2>0, <3>5
    <2>4. IsStraight(a, 1) \/ FindRamBlock(regions, a) \in regions'
      BY <2>1, <2>2, <2>3, RegionOfByte DEF Hits
    <2>5. /\ HasByte(regions', a) /\ Cell(regions', a, 1) = Cell(regions, a, 1)
          /\ Cell(regions, a, 1) \in Cells(regions')
      BY <1>1, <2>4, ByteKept
    <2> QED BY <2>2, <2>5
  <1>2. IInv /\ IInv' /\ [Next]_vars => [Unmapped]_vars
    BY <1>1
  <1> QED BY <1>2, Inductive, PTL DEF Spec, UnmapKeepsOutside

(* Wrapped sums from one start are distinct over less than the space.      *)
LEMMA WrapDistinct ==
    ASSUME NEW d \in Addr, NEW i \in Nat, NEW j \in Nat,
           i < AddrSpace, j < AddrSpace, Wrap(d + i) = Wrap(d + j)
    PROVE  i = j
  <1>0. AddrSpace \in Nat /\ 0 < AddrSpace /\ d \in Nat /\ d < AddrSpace
    BY SpaceAssumption DEF Addr
  <1>1. ASSUME NEW k \in Nat, k < AddrSpace
        PROVE  Wrap(d + k) = IF d + k < AddrSpace THEN d + k ELSE d + k - AddrSpace
    <2>1. CASE d + k < AddrSpace
      BY <1>0, <1>1, <2>1, WrapFacts
    <2>2. CASE ~(d + k < AddrSpace)
      <3>1. d + k - AddrSpace \in 0..(AddrSpace - 1)
        BY <1>0, <1>1, <2>2
      <3>2. (d + k) % AddrSpace = (d + k - AddrSpace) % AddrSpace
        BY <1>0, <1>1, <3>1, SMT
      <3>3. (d + k - AddrSpace) % AddrSpace = d + k - AddrSpace
        BY <1>0, <3>1, SMT
      <3> QED BY <2>2, <3>2, <3>3 DEF Wrap
    <2> QED BY <2>1, <2>2
  <1>2. Wrap(d + i) = IF d + i < AddrSpace THEN d + i ELSE d + i - AddrSpace
    BY <1>1
  <1>3. Wrap(d + j) = IF d + j < AddrSpace THEN d + j ELSE d + j - AddrSpace
    BY <1>1
  <1> QED BY <1>0, <1>2, <1>3

(* Distinct addresses have distinct cells (Memory.cpp:135-149).            *)
LEMMA CellDistinct ==
    ASSUME NEW rs, Stamped(rs), \A r \in rs : 0 < r.stamp,
           NEW a \in Addr, NEW b \in Addr, Reachable(rs, a, 1), Reachable(rs, b, 1),
           Cell(rs, a, 1) = Cell(rs, b, 1)
    PROVE  a = b
  <1>0. AddrSpace \in Nat /\ a \in Nat /\ b \in Nat
    BY SpaceAssumption DEF Addr
  <1>1. ASSUME NEW x \in Addr, Reachable(rs, x, 1), ~IsStraight(x, 1)
        PROVE  /\ FindRamBlock(rs, x) \in rs
               /\ FindRamBlock(rs, x).stamp \in Nat /\ 0 < FindRamBlock(rs, x).stamp
               /\ FindRamBlock(rs, x).addr \in Nat
               /\ Cell(rs, x, 1) = <<FindRamBlock(rs, x).stamp, x - FindRamBlock(rs, x).addr>>
    <2>1. FindRamBlock(rs, x) \in rs /\ FindRamBlock(rs, x) \in Region
      BY <1>1, FindFacts DEF Reachable, Hits, Stamped
    <2>2. Cell(rs, x, 1) = <<FindRamBlock(rs, x).stamp, x - FindRamBlock(rs, x).addr>>
      BY <1>1 DEF Cell
    <2> QED BY <1>0, <2>1, <2>2 DEF Region, Addr
  <1>2. ASSUME NEW x \in Addr, IsStraight(x, 1) PROVE Cell(rs, x, 1) = <<0, x>>
    BY <1>2 DEF Cell
  <1>3. CASE IsStraight(a, 1) /\ IsStraight(b, 1)
    BY <1>2, <1>3
  <1>4. CASE IsStraight(a, 1) /\ ~IsStraight(b, 1)
    BY <1>1, <1>2, <1>4
  <1>5. CASE ~IsStraight(a, 1) /\ IsStraight(b, 1)
    BY <1>1, <1>2, <1>5
  <1>6. CASE ~IsStraight(a, 1) /\ ~IsStraight(b, 1)
    <2>1. FindRamBlock(rs, a).stamp = FindRamBlock(rs, b).stamp
      BY <1>1, <1>6
    <2>2. FindRamBlock(rs, a) = FindRamBlock(rs, b)
      BY <1>1, <1>6, <2>1 DEF Stamped
    <2>3. a - FindRamBlock(rs, a).addr = b - FindRamBlock(rs, a).addr
      BY <1>1, <1>6, <2>2
    <2> QED BY <1>0, <1>1, <1>6, <2>3
  <1> QED BY <1>3, <1>4, <1>5, <1>6

(* The lengths of MirrorStack: the unsigned int of the map, and the int of  *)
(* the copy, which is the size when that is below half the width           *)
(* (Memory.cpp:77, ARMv8/MMU.cpp:46-65).                                   *)
LEMMA CopyLength ==
    ASSUME NEW n \in Nat
    PROVE  /\ IntSize(n) \in Nat /\ IntSize(n) <= n /\ IntSize(n) < LenSpace
           /\ 2 * n < LenSpace => IntSize(n) = n
  <1>0. LenSpace \in Nat /\ 0 < LenSpace
    BY SpaceAssumption
  <1>1. UInt(n) \in Nat /\ UInt(n) <= n /\ UInt(n) < LenSpace /\ (n < LenSpace => UInt(n) = n)
    BY <1>0, UIntFacts, UIntBound
  <1> QED BY <1>0, <1>1 DEF IntSize

(* Each byte of the copy of MirrorStack is read through the new map and    *)
(* written without another one overwriting it (Svc.cpp:122-130).           *)
LEMMA MirrorLoads ==
    ASSUME IInv, NEW m \in Mirrors, MirrorStack(m[1], m[2], m[3]),
           NEW i \in CopyDomain(m[3]), HasByte(regions', Wrap(m[1] + i))
    PROVE  mem'[Cell(regions', Wrap(m[1] + i), 1)] =
               Loaded(regions', Extended(regions'), Wrap(m[2] + i))
  <1> DEFINE rs == AddMemmap(m[1], m[3])
             from == Wrap(m[2] + i)
             to == Wrap(m[1] + i)
             c == Cell(rs, to, 1)
             To(d) == {k \in CopyDomain(m[3]) : d \in Touched(rs, Wrap(m[1] + k), 1)}
  <1>0. /\ AddrSpace \in Nat /\ LenSpace \in Nat /\ LenSpace <= AddrSpace
        /\ m[1] \in Addr /\ m[1] \in Nat /\ m[2] \in Nat /\ m[3] \in Nat
    BY SpaceAssumption, InputAssumption DEF Addr
  <1>1. ASSUME NEW k \in CopyDomain(m[3]) PROVE k \in Nat /\ k < AddrSpace
    BY <1>0, CopyLength DEF CopyDomain
  <1>2. /\ Stamped(rs) /\ \A r \in rs : 0 < r.stamp
    BY <1>0, AddStamped DEF IInv, TypeOK
  <1>3. /\ regions' = rs /\ mem' = Copied(rs, m[1], m[2], m[3])
        /\ CopyReachable(rs, m[1], m[2], m[3])
    BY DEF MirrorStack
  <1>4. ASSUME NEW k \in CopyDomain(m[3])
        PROVE  Wrap(m[1] + k) \in Addr /\ Reachable(rs, Wrap(m[1] + k), 1)
    <2>1. m[1] + k \in Nat
      BY <1>0, <1>1
    <2>2. Wrap(m[1] + k) \in Addr
      BY <2>1, WrapFacts
    <2>3. Wrap(m[1] + k) \in Writes(m[1], m[3])
      BY DEF Writes
    <2>4. Reachable(rs, Wrap(m[1] + k), 1)
      BY <1>3, <2>3 DEF CopyReachable
    <2> QED BY <2>2, <2>4
  <1>5. to \in Addr /\ Reachable(rs, to, 1) /\ c \in Cells(rs) /\ c \in Touched(rs, to, 1)
    <2>1. to \in Addr /\ Reachable(rs, to, 1)
      BY <1>4
    <2>2. c \in Cells(rs) /\ to + 1 < AddrSpace
      BY <1>3 DEF HasByte
    <2>3. Touched(rs, to, 1) = {c}
      BY <1>2, <2>1, <2>2, ByteTouched
    <2> QED BY <2>1, <2>2, <2>3
  <1>6. To(c) = {i}
    <2>1. ASSUME NEW k \in CopyDomain(m[3]), c \in Touched(rs, Wrap(m[1] + k), 1) PROVE k = i
      <3>1. Wrap(m[1] + k) \in Addr /\ Reachable(rs, Wrap(m[1] + k), 1)
        BY <1>4
      <3>2. Cell(rs, Wrap(m[1] + k), 1) = c
        BY <1>2, <2>1, <3>1, ByteTouched
      <3>3. Wrap(m[1] + k) = Wrap(m[1] + i)
        BY <1>2, <1>5, <3>1, <3>2, CellDistinct
      <3>4. k \in Nat /\ i \in Nat /\ k < AddrSpace /\ i < AddrSpace
        BY <1>1
      <3> QED BY <1>0, <3>3, <3>4, WrapDistinct
    <2>2. i \in To(c)
      BY <1>5
    <2> QED BY <2>1, <2>2
  <1>7. Copied(rs, m[1], m[2], m[3])[c] =
          IF To(c) = {} THEN Extended(rs)[c]
          ELSE Loaded(rs, Extended(rs), Wrap(m[2] + (CHOOSE k \in To(c) : TRUE)))
    BY <1>5 DEF Copied
  <1>8. (CHOOSE k \in To(c) : TRUE) = i
    BY <1>6
  <1> HIDE DEF To, c, rs
  <1>9. mem'[c] = Loaded(rs, Extended(rs), from)
    BY <1>3, <1>6, <1>7, <1>8
  <1> QED BY <1>3, <1>9 DEF c

(* Where the source has a byte before the call it still resolves to it in  *)
(* the new map.                                                            *)
LEMMA MirrorStepCopies ==
    ASSUME IInv, IInv', [Next]_vars, NEW m \in Mirrors, MirrorStack(m[1], m[2], m[3]),
           NEW i \in CopyDomain(m[3]),
           HasByte(regions, Wrap(m[2] + i)), HasByte(regions', Wrap(m[1] + i))
    PROVE  mem'[Cell(regions', Wrap(m[1] + i), 1)] = mem[Cell(regions, Wrap(m[2] + i), 1)]
  <1> DEFINE rs == AddMemmap(m[1], m[3])
             from == Wrap(m[2] + i)
  <1>1. m[1] \in Addr /\ m[2] \in Nat /\ m[3] \in Nat /\ i \in Nat
    BY SpaceAssumption, InputAssumption, CopyLength DEF Addr, CopyDomain
  <1>2. Stamped(regions) /\ DOMAIN mem = Cells(regions)
    BY <1>1, AddStamped DEF IInv, TypeOK
  <1>3. regions' = rs
    BY DEF MirrorStack
  <1>4. /\ HasByte(rs, from) /\ Cell(rs, from, 1) = Cell(regions, from, 1)
        /\ Cell(rs, from, 1) \in Cells(regions) /\ Cell(rs, from, 1) \in Cells(rs)
    <2>1. from \in Addr
      BY <1>1, WrapFacts
    <2>2. IsStraight(from, 1) \/ FindRamBlock(regions, from) \in regions'
      BY <1>2, <1>3, RegionOfByte DEF Hits, AddMemmap
    <2> QED BY <1>3, <2>1, <2>2, ByteKept
  <1>5. Loaded(rs, Extended(rs), from) = Extended(rs)[Cell(rs, from, 1)]
    BY <1>4 DEF Loaded, Width, HasByte
  <1>6. Extended(rs)[Cell(rs, from, 1)] = mem[Cell(rs, from, 1)]
    BY <1>2, <1>4 DEF Extended
  <1> QED BY <1>3, <1>4, <1>5, <1>6, MirrorLoads

(* After MirrorStack the destination reads what the source read.           *)
THEOREM MirroringCopies == Spec => MirrorCopies
  <1> DEFINE Mirrored == \A m \in Mirrors : MirrorStack(m[1], m[2], m[3]) /\ 2 * m[3] < LenSpace =>
                           \A i \in 0..(m[3] - 1) :
                             LET to == Wrap(m[1] + i)
                                 from == Wrap(m[2] + i)
                             IN  HasByte(regions, from) /\ HasByte(regions', to) =>
                                   mem'[Cell(regions', to, 1)] = mem[Cell(regions, from, 1)]
  <1>1. \A m \in Mirrors : 2 * m[3] < LenSpace => CopyDomain(m[3]) = 0..(m[3] - 1)
    <2>1. \A m \in Mirrors : m[3] \in Nat
      BY InputAssumption
    <2> QED BY <2>1, CopyLength DEF CopyDomain
  <1>2. ASSUME IInv, IInv', [Next]_vars, NEW m \in Mirrors,
               MirrorStack(m[1], m[2], m[3]), 2 * m[3] < LenSpace, NEW i \in 0..(m[3] - 1),
               HasByte(regions, Wrap(m[2] + i)), HasByte(regions', Wrap(m[1] + i))
        PROVE  mem'[Cell(regions', Wrap(m[1] + i), 1)] = mem[Cell(regions, Wrap(m[2] + i), 1)]
    <2>1. i \in CopyDomain(m[3])
      BY <1>1, <1>2
    <2> QED BY <1>2, <2>1, MirrorStepCopies
  <1>3. IInv /\ IInv' /\ [Next]_vars => [Mirrored]_vars
    BY <1>2
  <1> QED BY <1>3, Inductive, PTL DEF Spec, MirrorCopies

----------------------------------------------------------------------------
(***************************************************************************)
(* The list of GetRegions.  Before is a total order of the regions, and a  *)
(* set of them has a first and a last in it: the stamps are distinct, and  *)
(* the addresses and stamps are bounded.                                   *)
(***************************************************************************)
LEMMA FirstRegion ==
    ASSUME IInv, NEW rs \in SUBSET regions, rs # {}
    PROVE  \E r \in rs : \A q \in rs : q = r \/ Before(r, q)
<1>1. \A r \in rs : r.addr \in Nat /\ r.stamp \in Nat
  BY DEF IInv, TypeOK, Region, Addr
<1> DEFINE A == {r.addr : r \in rs}
<1>2. PICK m \in A : \A n \in A : m <= n
  <2>1. A \in SUBSET Nat /\ A # {}
    BY <1>1
  <2> HIDE DEF A
  <2> QED
    BY <2>1, LeastNat
<1> DEFINE S == {r.stamp : r \in {q \in rs : q.addr = m}}
<1>3. PICK k \in S : \A n \in S : k <= n
  <2>1. S \in SUBSET Nat /\ S # {}
    BY <1>1, <1>2
  <2> HIDE DEF S
  <2> QED
    BY <2>1, LeastNat
<1>4. PICK r \in rs : r.addr = m /\ r.stamp = k
  BY <1>3
<1>5. ASSUME NEW q \in rs, q # r PROVE Before(r, q)
  <2>1. m <= q.addr /\ (q.addr = m => k <= q.stamp)
    BY <1>2, <1>3
  <2>2. q.stamp # r.stamp
    BY <1>5 DEF IInv, StampsOK
  <2> QED
    BY <1>1, <1>4, <2>1, <2>2 DEF Before
<1> QED
  BY <1>5

(* The last of a set of regions.                                           *)
LEMMA LastRegion ==
    ASSUME IInv, NEW rs \in SUBSET regions, rs # {}
    PROVE  \E r \in rs : \A q \in rs : q = r \/ Before(q, r)
<1>1. AddrSpace \in Nat
  BY SpaceAssumption
<1>2. \A r \in rs : /\ r.addr \in Nat /\ r.addr <= AddrSpace
                    /\ r.stamp \in Nat /\ r.stamp <= stamp
  BY <1>1 DEF IInv, TypeOK, StampsOK, Region, Addr
<1> DEFINE A == {r.addr : r \in rs}
<1>3. PICK m \in A : \A n \in A : n <= m
  <2>1. A \in SUBSET Nat /\ A # {} /\ \A n \in A : n <= AddrSpace
    BY <1>2
  <2> HIDE DEF A
  <2> QED
    BY <1>1, <2>1, GreatestNat
<1> DEFINE S == {r.stamp : r \in {q \in rs : q.addr = m}}
<1>4. PICK k \in S : \A n \in S : n <= k
  <2>1. S \in SUBSET Nat /\ S # {} /\ \A n \in S : n <= stamp
    BY <1>2, <1>3
  <2>2. stamp \in Nat
    BY DEF IInv, TypeOK
  <2> HIDE DEF S
  <2> QED
    BY <2>1, <2>2, GreatestNat
<1>5. PICK r \in rs : r.addr = m /\ r.stamp = k
  BY <1>4
<1>6. ASSUME NEW q \in rs, q # r PROVE Before(q, r)
  <2>1. q.addr <= m /\ (q.addr = m => q.stamp <= k)
    BY <1>3, <1>4
  <2>2. q.stamp # r.stamp
    BY <1>6 DEF IInv, StampsOK
  <2> QED
    BY <1>2, <1>5, <2>1, <2>2 DEF Before
<1> QED
  BY <1>6

(* Where the list stands after the regions rs: at 0, or behind the end of  *)
(* the last of them (Memory.cpp:114-133).                                  *)
LEMMA ListPosition ==
    ASSUME IInv, NEW rs \in SUBSET regions
    PROVE  \/ rs = {} /\ LastBefore(rs) = 0
           \/ \E r \in rs : /\ \A q \in rs : q = r \/ Before(q, r)
                            /\ LastBefore(rs) = Wrap(End(r) + 1)
<1>1. CASE rs = {}
  BY <1>1 DEF LastBefore
<1>2. CASE rs # {}
  <2> DEFINE top == CHOOSE r \in rs : \A q \in rs : q = r \/ Before(q, r)
  <2>1. top \in rs /\ \A q \in rs : q = top \/ Before(q, top)
    BY <1>2, LastRegion
  <2>2. LastBefore(rs) = Wrap(End(top) + 1)
    BY <1>2 DEF LastBefore
  <2> HIDE DEF top
  <2> QED
    BY <2>1, <2>2
<1> QED
  BY <1>1, <1>2

(* The region that is first in the list among those listed for an address. *)
LEMMA FirstListedFacts ==
    ASSUME IInv, NEW a, Listed(a) # {}
    PROVE  /\ FirstListed(a) \in Listed(a)
           /\ \A q \in Listed(a) : q = FirstListed(a) \/ Before(FirstListed(a), q)
<1>1. Listed(a) \in SUBSET regions
  BY DEF Listed
<1>2. \E r \in Listed(a) : \A q \in Listed(a) : q = r \/ Before(r, q)
  BY <1>1, FirstRegion
<1> HIDE DEF Listed
<1> QED
  BY <1>2 DEF FirstListed

(* The end of a region is an address, and so is the one before its begin.  *)
LEMMA EntryBounds ==
    ASSUME IInv, NEW r \in regions
    PROVE  /\ r.addr \in Addr /\ End(r) \in Addr /\ r.stamp \in Nat
           /\ End(r) + 1 < AddrSpace => Wrap(End(r) + 1) = End(r) + 1
           /\ ~(End(r) + 1 < AddrSpace) => Wrap(End(r) + 1) = 0 /\ End(r) = AddrSpace - 1
           /\ 0 < r.addr => GapEnd(r) = r.addr - 1
           /\ r.addr = 0 => GapEnd(r) = AddrSpace - 1
<1>1. AddrSpace \in Nat /\ 0 < AddrSpace
  BY SpaceAssumption
<1>2. r.addr \in Addr /\ r.len \in Nat /\ r.stamp \in Nat
  BY SpaceAssumption DEF IInv, TypeOK, Region
<1>3. End(r) \in Addr
  BY <1>2, WrapFacts DEF End, Addr
<1>4. End(r) + 1 < AddrSpace => Wrap(End(r) + 1) = End(r) + 1
  BY <1>3, WrapFacts DEF Addr
<1>5. AddrSpace % AddrSpace = 0
  BY <1>1
<1>6. ~(End(r) + 1 < AddrSpace) => Wrap(End(r) + 1) = 0 /\ End(r) = AddrSpace - 1
  BY <1>1, <1>3, <1>5 DEF Addr, Wrap
<1>7. 0 < r.addr => GapEnd(r) = r.addr - 1
  <2>1. r.addr \in 0..(AddrSpace - 1)
    BY <1>2 DEF Addr
  <2>2. \A x \in 0..(AddrSpace - 1) : (AddrSpace + x) % AddrSpace = x
    BY <1>1
  <2>3. 0 < r.addr => r.addr - 1 \in 0..(AddrSpace - 1)
    BY <1>1, <2>1
  <2>4. AddrSpace + r.addr - 1 = AddrSpace + (r.addr - 1)
    BY <1>1, <2>1
  <2> QED
    BY <2>2, <2>3, <2>4 DEF GapEnd, Wrap
<1>8. r.addr = 0 => GapEnd(r) = AddrSpace - 1
  <2>1. AddrSpace - 1 \in Nat /\ AddrSpace - 1 < AddrSpace /\ AddrSpace + 0 - 1 = AddrSpace - 1
    BY <1>1
  <2> QED
    BY <2>1, WrapFacts DEF GapEnd
<1> QED
  BY <1>2, <1>3, <1>4, <1>6, <1>7, <1>8

(* A region that begins at 0 has no gap before it, if it is the only one.  *)
LEMMA NoGapAtZero ==
    ASSUME IInv, NEW r \in regions, r.addr = 0,
           \A q \in regions : q.addr = 0 => q = r
    PROVE  GapStart(r) = 0
<1>1. ASSUME NEW q \in regions PROVE ~Before(q, r)
  <2>1. q.addr \in Nat /\ q.stamp \in Nat /\ ~(q.stamp < q.stamp)
    BY EntryBounds DEF Addr
  <2>2. q.addr = 0 => q = r
    OBVIOUS
  <2> QED
    BY <2>1, <2>2 DEF Before
<1>2. {q \in regions : Before(q, r)} = {}
  BY <1>1
<1> QED
  BY <1>2 DEF GapStart, LastBefore

(***************************************************************************)
(* A region whose gap begins above an unlisted address below it has one    *)
(* like itself before it: the last region before it ends at the address or *)
(* above and does not contain it, so begins above it too, and the gap      *)
(* before that one does not hold the address either.                       *)
(***************************************************************************)
LEMMA GapDescends ==
    ASSUME IInv, NEW a \in Addr, Listed(a) = {},
           NEW rs \in SUBSET regions, a < LastBefore(rs)
    PROVE  \E r \in rs : a < r.addr /\ a < GapStart(r)
<1>1. AddrSpace \in Nat /\ a \in Nat /\ a <= AddrSpace - 1
  BY SpaceAssumption DEF Addr
<1>2. PICK r \in rs : LastBefore(rs) = Wrap(End(r) + 1)
  BY <1>1, ListPosition
<1>3. r \in regions /\ r.addr \in Nat /\ End(r) \in Nat
  BY EntryBounds DEF Addr
<1>4. a <= End(r)
  BY <1>1, <1>2, <1>3, EntryBounds
<1>5. ~Contains(r, a) /\ ~InGap(r, a)
  BY <1>3 DEF Listed
<1>6. a < r.addr
  BY <1>1, <1>3, <1>4, <1>5 DEF Contains
<1>7. GapEnd(r) = r.addr - 1
  BY <1>1, <1>3, <1>6, EntryBounds
<1>8. GapStart(r) = r.addr \/ ~(GapStart(r) <= a)
  BY <1>1, <1>3, <1>5, <1>6, <1>7 DEF InGap
<1>9. GapStart(r) \in Nat
  <2>1. {q \in regions : Before(q, r)} \in SUBSET regions
    OBVIOUS
  <2>2. \A q \in regions : Wrap(End(q) + 1) \in Nat
    BY EntryBounds, WrapFacts DEF Addr
  <2> QED
    BY <2>1, <2>2, ListPosition DEF GapStart
<1> QED
  BY <1>1, <1>3, <1>6, <1>8, <1>9

(* An address that no region and no gap before a region holds lies behind  *)
(* the end of the last one.                                                *)
LEMMA UnlistedIsLast ==
    ASSUME IInv, NEW a \in Addr, Listed(a) = {}
    PROVE  ~(a < LastBefore(regions))
<1> DEFINE D == {r \in regions : a < r.addr /\ a < GapStart(r)}
<1> SUFFICES ASSUME a < LastBefore(regions) PROVE FALSE
  OBVIOUS
<1>1. D # {}
  BY GapDescends
<1>2. PICK r \in D : \A q \in D : q = r \/ Before(r, q)
  BY <1>1, FirstRegion
<1>3. PICK q \in {p \in regions : Before(p, r)} : a < q.addr /\ a < GapStart(q)
  <2>1. {p \in regions : Before(p, r)} \in SUBSET regions
    OBVIOUS
  <2>2. a < LastBefore({p \in regions : Before(p, r)})
    BY DEF GapStart
  <2> QED
    BY <2>1, <2>2, GapDescends
<1>4. q \in D /\ Before(q, r)
  BY <1>3
<1>5. q = r \/ Before(r, q)
  BY <1>2, <1>4
<1>6. /\ r.addr \in Nat /\ r.stamp \in Nat
      /\ q.addr \in Nat /\ q.stamp \in Nat
  BY <1>4, EntryBounds DEF Addr
<1> QED
  BY <1>4, <1>5, <1>6 DEF Before

(* With at most one region at 0, the first entry that holds an address is  *)
(* a gap exactly when no region contains the address.                      *)
LEMMA FreeIsUnmapped ==
    ASSUME IInv, NEW a \in Addr,
           \A r, q \in regions : r.addr = 0 /\ q.addr = 0 => r = q
    PROVE  Entry(a).free <=> Hits(regions, a) = {}
<1>1. AddrSpace \in Nat /\ a \in Nat
  BY SpaceAssumption DEF Addr
<1>2. CASE Listed(a) = {}
  BY <1>2 DEF Entry, Listed, Hits
<1>3. CASE Listed(a) # {}
  <2> DEFINE r == FirstListed(a)
  <2>1. r \in Listed(a) /\ \A q \in Listed(a) : q = r \/ Before(r, q)
    BY <1>3, FirstListedFacts
  <2>2. r \in regions /\ (InGap(r, a) \/ Contains(r, a))
    BY <2>1 DEF Listed
  <2>3. Entry(a).free <=> InGap(r, a)
    BY <1>3 DEF Entry
  <2> HIDE DEF r
  <2>4. CASE ~InGap(r, a)
    BY <2>2, <2>3, <2>4 DEF Hits
  <2>5. CASE InGap(r, a)
    <3>1. r.addr \in Nat /\ GapStart(r) # r.addr /\ a <= GapEnd(r)
      BY <2>2, <2>5, EntryBounds DEF InGap, Addr
    <3>2. 0 < r.addr
      BY <2>2, <3>1, NoGapAtZero
    <3>3. a < r.addr
      BY <1>1, <2>2, <3>1, <3>2, EntryBounds
    <3>4. ASSUME NEW q \in regions, Contains(q, a) PROVE FALSE
      <4>1. q = r \/ Before(r, q)
        BY <2>1, <3>4 DEF Listed
      <4>2. q.addr \in Nat /\ q.addr <= a
        BY <3>4, EntryBounds DEF Contains, Addr
      <4> QED
        BY <1>1, <3>1, <3>3, <4>1, <4>2 DEF Before
    <3> QED
      BY <2>3, <2>5, <3>4 DEF Hits
  <2> QED
    BY <2>4, <2>5
<1> QED
  BY <1>2, <1>3

(* The vector is finite: its stamps are below the next one.                *)
LEMMA RegionsFinite ==
    ASSUME IInv
    PROVE  IsFiniteSet(regions)
<1> DEFINE f == [r \in regions |-> r.stamp]
<1>1. stamp \in Nat /\ \A r \in regions : r.stamp \in 0..stamp
  BY DEF IInv, TypeOK, StampsOK, Region
<1>2. f \in Injection(regions, 0..stamp)
  BY <1>1 DEF IInv, StampsOK, Injection, IsInjective
<1>3. IsFiniteSet(0..stamp)
  BY <1>1, FS_Interval
<1> HIDE DEF f
<1> QED
  BY <1>2, <1>3, FS_Injection

(***************************************************************************)
(* QueryMemory tells the truth about every address, whatever regions       *)
(* overlap, nest or wrap: ListTruthful (Memory.cpp:114-133,                *)
(* Svc.cpp:149-177).                                                       *)
(***************************************************************************)
THEOREM ListIsTruthful == Spec => []ListTruthful
<1>1. IInv => ListTruthful
  <2> SUFFICES ASSUME IInv,
                      Cardinality({r \in regions : r.addr = 0}) <= 1,
                      \A r \in regions : End(r) # AddrSpace - 2,
                      NEW a \in Addr
               PROVE  /\ Covered(a)
                      /\ Entry(a).begin <= a /\ a <= Entry(a).end
                      /\ Entry(a).free <=> Hits(regions, a) = {}
    BY DEF ListTruthful
  <2> DEFINE zeros == {r \in regions : r.addr = 0}
  <2>1. \A r, q \in regions : r.addr = 0 /\ q.addr = 0 => r = q
    <3>1. IsFiniteSet(zeros) /\ Cardinality(zeros) \in Nat
      BY RegionsFinite, FS_Subset, FS_CardinalityType
    <3>2. Cardinality(zeros) = 0 => zeros = {}
      BY <3>1, FS_EmptySet
    <3>3. Cardinality(zeros) = 1 => \E x : zeros = {x}
      BY <3>1, FS_Singleton
    <3>4. Cardinality(zeros) = 0 \/ Cardinality(zeros) = 1
      BY <3>1
    <3> QED
      BY <3>2, <3>3, <3>4
  <2>2. Entry(a).free <=> Hits(regions, a) = {}
    BY <2>1, FreeIsUnmapped
  <2>3. AddrSpace \in Nat /\ 1 < AddrSpace /\ a \in Nat /\ a <= AddrSpace - 1
    BY SpaceAssumption, MapAssumption DEF Addr
  <2>4. CASE Listed(a) = {}
    <3>1. LastBefore(regions) \in Nat /\ LastBefore(regions) # AddrSpace - 1
      <4>1. CASE LastBefore(regions) = 0
        BY <2>3, <4>1
      <4>2. CASE \E r \in regions : LastBefore(regions) = Wrap(End(r) + 1)
        <5>1. PICK r \in regions : LastBefore(regions) = Wrap(End(r) + 1)
          BY <4>2
        <5>2. End(r) \in Nat /\ End(r) # AddrSpace - 2
          BY EntryBounds DEF Addr
        <5> QED
          BY <2>3, <5>1, <5>2, EntryBounds
      <4> QED
        BY <4>1, <4>2, ListPosition
    <3>2. LastBefore(regions) <= a
      BY <2>3, <2>4, <3>1, UnlistedIsLast
    <3> QED
      BY <2>2, <2>3, <2>4, <3>1, <3>2 DEF Covered, Entry
  <2>5. CASE Listed(a) # {}
    <3> DEFINE r == FirstListed(a)
    <3>1. r \in Listed(a)
      BY <2>5, FirstListedFacts
    <3>2. Entry(a) = IF InGap(r, a)
                     THEN [begin |-> GapStart(r), end |-> GapEnd(r), free |-> TRUE]
                     ELSE [begin |-> r.addr, end |-> End(r), free |-> FALSE]
      BY <2>5 DEF Entry
    <3> HIDE DEF r
    <3>3. Entry(a).begin <= a /\ a <= Entry(a).end
      BY <3>1, <3>2 DEF Listed, InGap, Contains
    <3> QED
      BY <2>2, <2>5, <3>3 DEF Covered
  <2> QED
    BY <2>4, <2>5
<1> QED
  BY <1>1, Inductive, PTL
============================================================================
