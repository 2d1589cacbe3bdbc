-------------------------- MODULE IpcMessageProofs --------------------------
(***************************************************************************)
(* ParseMessage finds what the client wrote, and the client finds what     *)
(* GenBuf wrote, for every interface whose commands are well-formed and    *)
(* every size of the message.  A byte of a message is what the one piece   *)
(* that covers it says (OverAt); the rest is that no other piece does.     *)
(***************************************************************************)
EXTENDS IpcMessage, Induction, FiniteSetTheorems, TLAPS

(* A byte that one piece covers comes from that piece.                     *)
LEMMA OverAt ==
    ASSUME NEW b, NEW pieces, NEW p \in pieces, NEW k \in Address, Covers(p, k),
           \A q \in pieces : Covers(q, k) => q = p
    PROVE  Over(b, pieces)[k] = Byte(p.thing, k - p.at)
<1>1. (CHOOSE q \in pieces : Covers(q, k)) = p
  OBVIOUS
<1> QED
  BY <1>1 DEF Over

(* A byte that no piece covers stays what it was.                          *)
LEMMA OverElsewhere ==
    ASSUME NEW b, NEW pieces, NEW k \in Address, \A q \in pieces : ~Covers(q, k)
    PROVE  Over(b, pieces)[k] = b[k]
  BY DEF Over

(* Four bytes that one word covers are that word.                          *)
LEMMA OverWord ==
    ASSUME NEW b, NEW pieces, NEW at \in Nat, NEW thing, Word(at, thing) \in pieces,
           at + 3 \in Address,
           \A q \in pieces : q # Word(at, thing) => \A k \in at .. at + 3 : ~Covers(q, k)
    PROVE  Bytes(Over(b, pieces), at, 4) = Whole(thing, 4)
<1> DEFINE w == Word(at, thing)
<1>1. w.at = at /\ w.thing = thing /\ w.size = 4
  BY DEF Word, Piece
<1>2. ASSUME NEW j \in 0 .. 3
      PROVE  at + j \in Address /\ Over(b, pieces)[at + j] = Byte(thing, j)
  <2>1. at + j \in Address /\ at + j \in at .. at + 3 /\ (at + j) - at = j
    BY SizeAssumption DEF Address
  <2>2. Covers(w, at + j)
    BY <1>1, <2>1 DEF Covers
  <2>3. \A q \in pieces : Covers(q, at + j) => q = w
    BY <2>1
  <2>4. w \in pieces
    OBVIOUS
  <2>5. Over(b, pieces)[at + j] = Byte(w.thing, (at + j) - w.at)
    BY ONLY <2>1, <2>2, <2>3, <2>4, OverAt
  <2> QED
    BY <1>1, <2>1, <2>5
<1> QED
  BY <1>2 DEF Bytes, Whole

(* Alignment to sixteen moves up by less than sixteen.                     *)
LEMMA AlignUp16 ==
    ASSUME NEW n \in Nat
    PROVE  AlignUp(n, 16) \in Nat /\ n <= AlignUp(n, 16) /\ AlignUp(n, 16) <= n + 15
  BY DEF AlignUp

(* Alignment moves up by less than what it aligns to.                      *)
LEMMA AlignUpMoves ==
    ASSUME NEW n \in Nat, NEW align \in Nat \ {0}
    PROVE  AlignUp(n, align) \in Nat /\ n <= AlignUp(n, align)
<1> DEFINE m == n + align - 1
           q == m \div align
<1>1. m \in Nat /\ align \in Nat /\ align > 0
  OBVIOUS
<1>2. q \in Nat
  <2> HIDE DEF m
  <2> QED
    BY <1>1
<1>3. m = align * q + (m % align) /\ m % align \in 0 .. (align - 1)
  <2> HIDE DEF m
  <2> QED
    BY <1>1
<1>4. AlignUp(n, align) = q * align
  BY DEF AlignUp
<1> HIDE DEF q
<1>5. q * align = align * q /\ q * align \in Nat
  BY <1>1, <1>2
<1> QED
  BY <1>3, <1>4, <1>5

LEMMA LateType ==
    ASSUME NEW p, p.align \in Nat \ {0}
    PROVE  Late(p) \in Nat
<1>1. AlignUp(8, p.align) \in Nat /\ 8 <= AlignUp(8, p.align)
  BY AlignUpMoves
<1> QED
  BY <1>1 DEF Late

(* A number of bytes is so many words and a rest.                          *)
LEMMA DivMod4 ==
    ASSUME NEW n \in Nat
    PROVE  n \div 4 \in Nat /\ n % 4 \in 0 .. 3 /\ n = (n \div 4) * 4 + (n % 4)
<1>1. n \div 4 \in Nat
  OBVIOUS
<1>2. n % 4 \in 0 .. 3
  OBVIOUS
<1>3. n = (n \div 4) * 4 + (n % 4)
  OBVIOUS
<1> QED
  BY <1>1, <1>2, <1>3

(* Fewer elements of a set precede one of its own than it has.             *)
LEMMA BeforeBound ==
    ASSUME NEW S, IsFiniteSet(S), NEW i \in S, S \subseteq Nat
    PROVE  Before(S, i) \in Nat /\ Before(S, i) < Cardinality(S)
<1> DEFINE T == {j \in S : j < i}
<1>1. T \subseteq S \ {i}
  OBVIOUS
<1>2. IsFiniteSet(S \ {i}) /\ Cardinality(S \ {i}) = Cardinality(S) - 1
  BY FS_RemoveElement
<1>3. IsFiniteSet(T) /\ Cardinality(T) <= Cardinality(S) - 1
  BY <1>1, <1>2, FS_Subset
<1>4. Cardinality(T) \in Nat /\ Cardinality(S) \in Nat
  BY <1>3, FS_CardinalityType
<1> QED
  BY <1>3, <1>4 DEF Before

(* The more precede an element of a set the greater it is.                 *)
LEMMA BeforeOrder ==
    ASSUME NEW S, IsFiniteSet(S), S \subseteq Nat, NEW i \in S, NEW j \in S, i < j
    PROVE  Before(S, i) \in Nat /\ Before(S, j) \in Nat /\ Before(S, i) < Before(S, j)
<1> DEFINE T == {k \in S : k < i}
           U == {k \in S : k < j}
<1>1. i \in Nat /\ j \in Nat
  OBVIOUS
<1>2. IsFiniteSet(T) /\ IsFiniteSet(U)
  BY FS_Subset
<1>3. i \notin T /\ T \cup {i} \subseteq U
  <2>1. \A k \in T : k \in S /\ k \in Nat /\ k < i
    OBVIOUS
  <2>2. \A k \in T : k < j
    BY <1>1, <2>1
  <2>3. i \notin T
    BY <1>1, <2>1
  <2>4. T \subseteq U
    BY <2>1, <2>2
  <2>5. i \in U
    OBVIOUS
  <2> HIDE DEF T, U
  <2> QED
    BY <2>3, <2>4, <2>5
<1> HIDE DEF T, U
<1>4. IsFiniteSet(T \cup {i}) /\ Cardinality(T \cup {i}) = Cardinality(T) + 1
  BY <1>2, <1>3, FS_AddElement
<1>5. Cardinality(T \cup {i}) <= Cardinality(U)
  BY <1>2, <1>3, FS_Subset
<1>6. Cardinality(T) \in Nat /\ Cardinality(U) \in Nat
  BY <1>2, FS_CardinalityType
<1>7. Before(S, i) = Cardinality(T) /\ Before(S, j) = Cardinality(U)
  BY DEF Before, T, U
<1> QED
  BY <1>4, <1>5, <1>6, <1>7

(* Only one element of a set has so many before it.                        *)
LEMMA BeforeApart ==
    ASSUME NEW S, IsFiniteSet(S), S \subseteq Nat, NEW i \in S, NEW j \in S, i # j
    PROVE  /\ Before(S, i) \in Nat /\ Before(S, j) \in Nat
           /\ Before(S, i) + 1 <= Before(S, j) \/ Before(S, j) + 1 <= Before(S, i)
<1>1. i \in Nat /\ j \in Nat
  OBVIOUS
<1>2. CASE i < j
  <2>1. Before(S, i) \in Nat /\ Before(S, j) \in Nat /\ Before(S, i) < Before(S, j)
    BY <1>2, BeforeOrder
  <2> QED
    BY <2>1
<1>3. CASE j < i
  <2>1. Before(S, i) \in Nat /\ Before(S, j) \in Nat /\ Before(S, j) < Before(S, i)
    BY <1>3, BeforeOrder
  <2> QED
    BY <2>1
<1> QED
  BY <1>1, <1>2, <1>3

(* A set has a first element.                                              *)
LEMMA FirstExists ==
    ASSUME NEW S, S \subseteq Nat, S # {}
    PROVE  First(S) \in S /\ Before(S, First(S)) = 0
<1>1. PICK m \in S : \A n \in S : m <= n
  BY LeastNat
<1>2. {n \in S : n < m} = {}
  <2>1. ASSUME NEW n \in S PROVE ~(n < m)
    <3>1. n \in Nat /\ m \in Nat /\ m <= n
      BY <1>1
    <3> QED
      BY <3>1
  <2> QED
    BY <2>1
<1>3. Before(S, m) = 0
  <2>1. Before(S, m) = Cardinality({n \in S : n < m})
    BY DEF Before
  <2>2. Before(S, m) = Cardinality({})
    BY <1>2, <2>1
  <2> QED
    BY <2>2, FS_EmptySet
<1> QED
  BY <1>3 DEF First

(* Places in a sequence of parameters are finitely many numbers.           *)
LEMMA PlacesFinite ==
    ASSUME NEW ps \in Seq(Parameter), NEW S, S \subseteq DOMAIN ps
    PROVE  IsFiniteSet(S) /\ S \subseteq Nat /\ Cardinality(S) \in Nat
<1>1. DOMAIN ps = 1 .. Len(ps) /\ Len(ps) \in Nat
  OBVIOUS
<1>2. IsFiniteSet(1 .. Len(ps))
  BY <1>1, FS_Interval
<1> QED
  BY <1>1, <1>2, FS_Subset, FS_CardinalityType

(* The parts of a parameter that its kind gives it.                        *)
LEMMA ParameterParts ==
    ASSUME NEW p \in Parameter
    PROVE  /\ p.kind = "data" => p.at \in Nat /\ p.size \in Nat /\ p.align \in Nat \ {0}
           /\ p.kind \in {"move", "copy", "buffer"} => p.num \in Nat
  BY DEF Parameter

(* All parameters of a well-formed command.                                *)
LEMMA ParamsType ==
    ASSUME NEW shape, WellFormed(shape)
    PROVE  Params(shape) \in Seq(Parameter)
  BY DEF WellFormed, Params
-----------------------------------------------------------------------------
(* Data goes behind what has been placed.                                  *)
LEMMA BehindMoves ==
    ASSUME NEW p \in Parameter, NEW n \in Nat
    PROVE  /\ Behind(n, p) \in Nat /\ n <= Behind(n, p)
           /\ p.kind = "data" =>
                /\ AlignUp(n, p.align) \in Nat /\ n <= AlignUp(n, p.align)
                /\ p.size \in Nat /\ Behind(n, p) = AlignUp(n, p.align) + p.size
<1>1. CASE p.kind = "data"
  <2>1. p.size \in Nat /\ p.align \in Nat \ {0}
    BY <1>1, ParameterParts
  <2>2. AlignUp(n, p.align) \in Nat /\ n <= AlignUp(n, p.align)
    BY <2>1, AlignUpMoves
  <2>3. Behind(n, p) = AlignUp(n, p.align) + p.size
    BY <1>1 DEF Behind
  <2> QED
    BY <2>1, <2>2, <2>3
<1>2. CASE p.kind # "data"
  BY <1>2 DEF Behind
<1> QED
  BY <1>1, <1>2

(* End is the function that its equation describes.                        *)
LEMMA EndDef ==
    ASSUME NEW ps \in Seq(Parameter)
    PROVE  /\ End(ps) \in [0 .. Len(ps) -> Nat]
           /\ End(ps)[0] = 0
           /\ \A i \in 1 .. Len(ps) : End(ps)[i] = Behind(End(ps)[i - 1], ps[i])
<1> DEFINE Rule(f) == [i \in 0 .. Len(ps) |-> IF i = 0 THEN 0 ELSE Behind(f[i - 1], ps[i])]
           step == [p \in Nat \X (1 .. Len(ps)) |-> Behind(p[1], ps[p[2]])]
<1>1. Len(ps) \in Nat /\ 0 \in Nat
  OBVIOUS
<1>2. ASSUME NEW n \in Nat, NEW i \in 1 .. Len(ps)
      PROVE  Behind(n, ps[i]) \in Nat
  BY BehindMoves
<1>3. step \in [Nat \X (1 .. Len(ps)) -> Nat]
  BY <1>2
<1>4. PICK f : DefinedFrom(f, Len(ps), Nat, 0, step)
  <2> HIDE DEF step
  <2> QED
    BY <1>1, <1>3, IntervalRecursion
<1>5. f = Rule(f)
  <2>1. ASSUME NEW i \in 0 .. Len(ps)
        PROVE  f[i] = IF i = 0 THEN 0 ELSE Behind(f[i - 1], ps[i])
    <3>1. CASE i = 0
      BY <1>4, <3>1 DEF DefinedFrom
    <3>2. CASE i \in 1 .. Len(ps)
      <4>1. f[i - 1] \in Nat
        BY <1>1, <1>4, <3>2 DEF DefinedFrom
      <4>2. f[i] = step[<<f[i - 1], i>>]
        <5> HIDE DEF step
        <5> QED
          BY <1>4, <3>2 DEF DefinedFrom
      <4> QED
        BY <3>2, <4>1, <4>2
    <3> QED
      BY <1>1, <3>1, <3>2
  <2>2. f = [i \in 0 .. Len(ps) |-> f[i]]
    BY <1>4 DEF DefinedFrom
  <2> QED
    BY <2>1, <2>2
<1>6. End(ps) = CHOOSE g : g = Rule(g)
  BY DEF End
<1>7. End(ps) = Rule(End(ps))
  <2> HIDE DEF Rule
  <2> QED
    BY <1>5, <1>6
<1> HIDE DEF step
<1>8. /\ DOMAIN End(ps) = 0 .. Len(ps)
      /\ \A i \in 0 .. Len(ps) : End(ps)[i] = IF i = 0 THEN 0 ELSE Behind(End(ps)[i - 1], ps[i])
  BY <1>7
<1> DEFINE Typed == {i \in 0 .. Len(ps) : End(ps)[i] \in Nat}
<1>9. 0 .. Len(ps) \subseteq Typed
  <2>1. 0 \in Typed
    BY <1>1, <1>8
  <2>2. ASSUME NEW i \in 0 .. (Len(ps) - 1), i \in Typed PROVE i + 1 \in Typed
    <3>1. i + 1 \in 1 .. Len(ps) /\ (i + 1) - 1 = i /\ i + 1 \in 0 .. Len(ps) /\ i + 1 # 0
      BY <1>1
    <3>2. End(ps)[i + 1] = Behind(End(ps)[i], ps[i + 1])
      BY <1>8, <3>1
    <3>3. Behind(End(ps)[i], ps[i + 1]) \in Nat
      BY <1>2, <2>2, <3>1
    <3> QED
      BY <3>1, <3>2, <3>3
  <2> HIDE DEF Typed
  <2> QED
    BY <1>1, <2>1, <2>2, IntervalInduction
<1>10. End(ps) \in [0 .. Len(ps) -> Nat]
  BY <1>7, <1>9
<1> QED
  BY <1>1, <1>8, <1>10

(* What is placed later ends later.                                        *)
LEMMA EndGrows ==
    ASSUME NEW ps \in Seq(Parameter), NEW i \in 0 .. Len(ps), NEW j \in 0 .. Len(ps), i <= j
    PROVE  End(ps)[i] <= End(ps)[j] /\ End(ps)[i] \in Nat /\ End(ps)[j] \in Nat
<1> DEFINE n == Len(ps)
           S == {k \in 0 .. n : i <= k => End(ps)[i] <= End(ps)[k]}
<1>1. n \in Nat /\ End(ps) \in [0 .. n -> Nat]
  BY EndDef
<1>2. 0 \in S
  BY <1>1
<1>3. ASSUME NEW k \in 0 .. (n - 1), k \in S PROVE k + 1 \in S
  <2>1. k + 1 \in 1 .. n /\ (k + 1) - 1 = k /\ k \in 0 .. n
    BY <1>1
  <2>2. ps[k + 1] \in Parameter /\ End(ps)[k] \in Nat
    BY <1>1, <2>1
  <2>3. End(ps)[k + 1] = Behind(End(ps)[k], ps[k + 1])
    BY <2>1, EndDef
  <2>4. End(ps)[k] <= End(ps)[k + 1] /\ End(ps)[k + 1] \in Nat
    BY <2>2, <2>3, BehindMoves
  <2>5. End(ps)[i] \in Nat
    BY <1>1
  <2> QED
    BY <1>1, <1>3, <2>1, <2>2, <2>4, <2>5
<1>4. 0 .. n \subseteq S
  <2> HIDE DEF S
  <2> QED
    BY <1>1, <1>2, <1>3, IntervalInduction
<1>5. j \in S
  BY <1>4
<1> QED
  BY <1>1, <1>5

(* The places of data do not overlap, and all are within DataBytes.        *)
LEMMA DataPlaces ==
    ASSUME NEW ps \in Seq(Parameter), NEW i \in Of(ps, "data")
    PROVE  /\ i \in 1 .. Len(ps)
           /\ ps[i].size \in Nat /\ ps[i].at \in Nat /\ ps[i].align \in Nat \ {0}
           /\ Start(ps, i) \in Nat
           /\ DataBytes(ps) \in Nat /\ Start(ps, i) + ps[i].size <= DataBytes(ps)
           /\ \A j \in Of(ps, "data") : i < j => Start(ps, i) + ps[i].size <= Start(ps, j)
<1>1. ASSUME NEW k \in Of(ps, "data")
      PROVE  /\ k \in 1 .. Len(ps) /\ k - 1 \in 0 .. Len(ps) /\ Len(ps) \in Nat
             /\ ps[k].size \in Nat /\ Start(ps, k) \in Nat
             /\ End(ps)[k - 1] \in Nat /\ End(ps)[k - 1] <= Start(ps, k)
             /\ End(ps)[k] = Start(ps, k) + ps[k].size
  <2>1. k \in 1 .. Len(ps) /\ ps[k] \in Parameter /\ ps[k].kind = "data" /\ Len(ps) \in Nat
    BY DEF Of
  <2>2. k - 1 \in 0 .. Len(ps)
    BY <2>1
  <2>3. End(ps)[k - 1] \in Nat /\ End(ps)[k] = Behind(End(ps)[k - 1], ps[k])
    BY <2>1, <2>2, EndDef
  <2>4. /\ AlignUp(End(ps)[k - 1], ps[k].align) \in Nat
        /\ End(ps)[k - 1] <= AlignUp(End(ps)[k - 1], ps[k].align)
        /\ ps[k].size \in Nat
        /\ Behind(End(ps)[k - 1], ps[k]) = AlignUp(End(ps)[k - 1], ps[k].align) + ps[k].size
    BY <2>1, <2>3, BehindMoves
  <2> QED
    BY <2>1, <2>2, <2>3, <2>4 DEF Start
<1>2. ps[i] \in Parameter /\ ps[i].kind = "data"
  BY DEF Of
<1>3. ps[i].at \in Nat /\ ps[i].align \in Nat \ {0}
  BY <1>2, ParameterParts
<1>4. Len(ps) \in 0 .. Len(ps) /\ i \in 0 .. Len(ps) /\ i <= Len(ps)
  BY <1>1
<1>5. DataBytes(ps) \in Nat /\ End(ps)[i] <= DataBytes(ps)
  BY <1>4, EndGrows DEF DataBytes
<1>6. ASSUME NEW j \in Of(ps, "data"), i < j
      PROVE  Start(ps, i) + ps[i].size <= Start(ps, j)
  <2>1. i <= j - 1 /\ i \in 0 .. Len(ps) /\ j - 1 \in 0 .. Len(ps)
    BY <1>1, <1>6
  <2>2. End(ps)[i] <= End(ps)[j - 1] /\ End(ps)[i] \in Nat /\ End(ps)[j - 1] \in Nat
    BY <2>1, EndGrows
  <2>3. End(ps)[j - 1] <= Start(ps, j) /\ Start(ps, j) \in Nat /\ End(ps)[i] = Start(ps, i) + ps[i].size
    BY <1>1
  <2> QED
    BY <2>2, <2>3
<1> QED
  BY <1>1, <1>3, <1>5, <1>6
-----------------------------------------------------------------------------
(* A call that a client can make.                                          *)
Sendable(c) ==
  /\ WellFormed(c.shape)
  /\ c.type \in {2, 4, 5} /\ c.domain \in BOOLEAN
  /\ Fits(c)

Uses(c, d) == Cardinality(Using(Params(c.shape), d))

(* The places of a request are in the order of the message.                *)
LEMMA LayoutOrder ==
    ASSUME NEW c, Sendable(c), NEW at, at = Layout(c)
    PROVE  /\ at.hd \in BOOLEAN /\ at.pid \in BOOLEAN
           /\ at.copies = Cardinality(Of(c.shape.ins, "copy")) /\ at.copies \in Nat
           /\ at.moves = Cardinality(Of(c.shape.ins, "move")) /\ at.moves \in Nat
           /\ at.hd <=> at.pid \/ at.copies + at.moves > 0
           /\ at.copy_at = IF at.pid THEN 20 ELSE 12
           /\ at.move_at = at.copy_at + 4 * at.copies
           /\ at.X = IF at.hd THEN at.copy_at + 4 * (at.copies + at.moves) ELSE 8
           /\ at.A = at.X + 8 * Uses(c, "X") /\ Uses(c, "X") \in Nat
           /\ at.B = at.A + 12 * Uses(c, "A") /\ Uses(c, "A") \in Nat
           /\ at.raw_at = at.B + 12 * Uses(c, "B") /\ Uses(c, "B") \in Nat
           /\ at.words \in Nat /\ at.words >= 8 + (IF Framed(c) THEN 4 ELSE 0)
           /\ at.C = at.raw_at + 4 * at.words
           /\ at.payload = AlignUp(at.raw_at, 16) + (IF Framed(c) THEN 16 ELSE 0)
           /\ at.payload \in Nat /\ at.raw_at <= at.payload - (IF Framed(c) THEN 16 ELSE 0)
           /\ at.payload + 12 <= at.C /\ at.C <= Size
<1> DEFINE ps == Params(c.shape)
           ins == c.shape.ins
           f == IF Framed(c) THEN 4 ELSE 0
<1>1a. ps \in Seq(Parameter) /\ ins \in Seq(Parameter)
  BY ParamsType DEF Sendable, WellFormed
<1>1. ps \in Seq(Parameter) /\ ins \in Seq(Parameter) /\ DataBytes(ins) \in Nat
  BY <1>1a, EndDef DEF DataBytes
<1>2. \A d : Using(ps, d) \subseteq DOMAIN ps
  BY DEF Using, Of
<1>3. \A d : Uses(c, d) \in Nat
  BY <1>1, <1>2, PlacesFinite DEF Uses
<1>4. \A kind : Of(ins, kind) \subseteq DOMAIN ins
  BY DEF Of
<1>5. \A kind : Cardinality(Of(ins, kind)) \in Nat
  BY <1>1, <1>4, PlacesFinite
<1>6. f \in {0, 4} /\ 4 * f = IF Framed(c) THEN 16 ELSE 0
  OBVIOUS
<1>7. /\ at.hd \in BOOLEAN /\ at.pid \in BOOLEAN
      /\ at.copies = Cardinality(Of(ins, "copy")) /\ at.moves = Cardinality(Of(ins, "move"))
      /\ at.pid = (Of(ins, "pid") # {})
      /\ at.hd = (at.pid \/ at.copies + at.moves > 0)
      /\ at.copy_at = IF at.pid THEN 20 ELSE 12
      /\ at.move_at = at.copy_at + 4 * at.copies
      /\ at.X = IF at.hd THEN at.copy_at + 4 * (at.copies + at.moves) ELSE 8
      /\ at.A = at.X + 8 * Uses(c, "X")
      /\ at.B = at.A + 12 * Uses(c, "A")
      /\ at.raw_at = at.B + 12 * Uses(c, "B")
      /\ at.words = 8 + f + (DataBytes(ins) + 3) \div 4
      /\ at.C = at.raw_at + 4 * at.words
      /\ at.payload = AlignUp(at.raw_at, 16) + (IF Framed(c) THEN 16 ELSE 0)
  BY DEF Layout, Uses
<1>8. at.raw_at \in Nat
  BY <1>3, <1>5, <1>7
<1>9. (DataBytes(ins) + 3) \div 4 \in Nat
  BY <1>1
<1>10. at.words \in Nat /\ at.words >= 8 + f
  BY <1>6, <1>7, <1>9
<1>11. /\ AlignUp(at.raw_at, 16) \in Nat
       /\ at.raw_at <= AlignUp(at.raw_at, 16) /\ AlignUp(at.raw_at, 16) <= at.raw_at + 15
  BY <1>8, AlignUp16
<1>12. at.C + 8 * Uses(c, "C") <= Size
  BY DEF Sendable, Fits, Uses
<1>13. at.C <= Size
  BY <1>3, <1>7, <1>8, <1>10, <1>12, SizeAssumption
<1>6a. /\ at.payload \in Nat /\ at.payload = AlignUp(at.raw_at, 16) + 4 * f
       /\ at.payload + 12 <= at.C
  BY <1>6, <1>7, <1>8, <1>10, <1>11
<1>15. at.raw_at <= at.payload - (IF Framed(c) THEN 16 ELSE 0)
  BY <1>6, <1>8, <1>11, <1>6a
<1> QED
  BY <1>3, <1>5, <1>6, <1>7, <1>10, <1>13, <1>6a, <1>15
-----------------------------------------------------------------------------

Span(q, from, to) ==
  q.at \in Nat /\ q.size \in Nat /\ from <= q.at /\ q.at + q.size <= to

(* Handles lie between the handle descriptor and the buffer descriptors.   *)
LEMMA HandlesSpan ==
    ASSUME NEW c, Sendable(c), NEW at, at = Layout(c), NEW q \in RequestHandles(c, at)
    PROVE  at.hd /\ Span(q, 12, at.X)
<1> DEFINE ins == c.shape.ins
<1>1. ins \in Seq(Parameter)
  BY DEF Sendable, WellFormed
<1>2. PICK kind \in {"copy", "move"} : \E i \in Of(ins, kind) :
         q = Word((IF kind = "copy" THEN at.copy_at ELSE at.move_at) + 4 * Before(Of(ins, kind), i),
                  Thing("handle", i))
  BY DEF RequestHandles
<1>3. PICK i \in Of(ins, kind) :
         q = Word((IF kind = "copy" THEN at.copy_at ELSE at.move_at) + 4 * Before(Of(ins, kind), i),
                  Thing("handle", i))
  BY <1>2
<1> DEFINE n == Before(Of(ins, kind), i)
           k == Cardinality(Of(ins, kind))
<1>4. Of(ins, kind) \subseteq DOMAIN ins
  BY DEF Of
<1>5. IsFiniteSet(Of(ins, kind)) /\ Of(ins, kind) \subseteq Nat /\ k \in Nat
  BY <1>1, <1>4, PlacesFinite
<1>6. n \in Nat /\ n < k
  BY <1>5, BeforeBound
<1>7. q.at = (IF kind = "copy" THEN at.copy_at ELSE at.move_at) + 4 * n /\ q.size = 4
  BY <1>3 DEF Word, Piece
<1>8. k = IF kind = "copy" THEN at.copies ELSE at.moves
  BY LayoutOrder
<1> HIDE DEF n, k
<1>9. /\ at.copies \in Nat /\ at.moves \in Nat /\ (at.copies + at.moves > 0 => at.hd)
      /\ at.copy_at = IF at.pid THEN 20 ELSE 12
      /\ at.move_at = at.copy_at + 4 * at.copies
      /\ at.X = IF at.hd THEN at.copy_at + 4 * (at.copies + at.moves) ELSE 8
  BY LayoutOrder
<1>10. at.hd
  <2>1. k > 0
    BY <1>5, <1>6
  <2>2. at.copies + at.moves > 0
    BY <1>8, <1>9, <2>1
  <2> QED
    BY <1>9, <2>2
<1>11. CASE kind = "copy"
  BY <1>6, <1>7, <1>8, <1>9, <1>10, <1>11 DEF Span
<1>12. CASE kind = "move"
  BY <1>6, <1>7, <1>8, <1>9, <1>10, <1>12 DEF Span
<1> QED
  BY <1>10, <1>11, <1>12

(* X, A and B descriptors lie before the raw data, C descriptors behind.   *)
LEMMA DescriptorsSpan ==
    ASSUME NEW c, Sendable(c), NEW at, at = Layout(c), NEW q \in RequestDescriptors(c, at)
    PROVE  Span(q, at.X, at.raw_at) \/ (q.at \in Nat /\ q.size \in Nat /\ at.C <= q.at)
<1> DEFINE ps == Params(c.shape)
<1>1. PICK d \in {"X", "A", "B", "C"} : \E i \in Using(ps, d) :
         q = Piece(at[d] + DescriptorSize(d) * Before(Using(ps, d), i), DescriptorSize(d), Described(c, d, i))
  BY DEF RequestDescriptors
<1>2. PICK i \in Using(ps, d) :
         q = Piece(at[d] + DescriptorSize(d) * Before(Using(ps, d), i), DescriptorSize(d), Described(c, d, i))
  BY <1>1
<1> DEFINE n == Before(Using(ps, d), i)
<1>3. ps \in Seq(Parameter) /\ Using(ps, d) \subseteq DOMAIN ps
  BY ParamsType DEF Sendable, Using, Of
<1>4. IsFiniteSet(Using(ps, d)) /\ Using(ps, d) \subseteq Nat
  BY <1>3, PlacesFinite
<1>5. n \in Nat /\ n < Uses(c, d)
  BY <1>4, BeforeBound DEF Uses
<1>6. q.at = at[d] + DescriptorSize(d) * n /\ q.size = DescriptorSize(d)
  BY <1>2 DEF Piece
<1> HIDE DEF n
<1>7. /\ at.copies \in Nat /\ at.moves \in Nat
      /\ at.copy_at = IF at.pid THEN 20 ELSE 12
      /\ at.X = IF at.hd THEN at.copy_at + 4 * (at.copies + at.moves) ELSE 8
      /\ at.A = at.X + 8 * Uses(c, "X") /\ Uses(c, "X") \in Nat
      /\ at.B = at.A + 12 * Uses(c, "A") /\ Uses(c, "A") \in Nat
      /\ at.raw_at = at.B + 12 * Uses(c, "B") /\ Uses(c, "B") \in Nat
      /\ at.words \in Nat /\ at.C = at.raw_at + 4 * at.words
  BY LayoutOrder
<1>8. at.X \in Nat
  BY <1>7
<1>9. CASE d = "X"
  <2>1. q.at = at.X + 8 * n /\ q.size = 8
    BY <1>6, <1>9 DEF DescriptorSize
  <2> QED
    BY <2>1, <1>5, <1>7, <1>8, <1>9 DEF Span
<1>10. CASE d = "A"
  <2>1. q.at = at.A + 12 * n /\ q.size = 12
    BY <1>6, <1>10 DEF DescriptorSize
  <2> QED
    BY <2>1, <1>5, <1>7, <1>8, <1>10 DEF Span
<1>11. CASE d = "B"
  <2>1. q.at = at.B + 12 * n /\ q.size = 12
    BY <1>6, <1>11 DEF DescriptorSize
  <2> QED
    BY <2>1, <1>5, <1>7, <1>8, <1>11 DEF Span
<1>12. CASE d = "C"
  <2>1. q.at = at.C + 8 * n /\ q.size = 8
    BY <1>6, <1>12 DEF DescriptorSize
  <2> QED
    BY <2>1, <1>5, <1>7, <1>8, <1>12
<1> QED
  BY <1>9, <1>10, <1>11, <1>12

Command(c, at) == Word(at.payload + 8, Thing("command", c.id))
Handles(at) == Word(8, HandleCounts(at.pid, at.copies, at.moves))
Opening(c, at) ==
  {Word(0, Header(c)), Word(4, Sizes(at.words, at.hd))} \cup (IF at.hd THEN {Handles(at)} ELSE {})

RequestPieces(c, at) ==
  RequestHead(c, at) \cup RequestHandles(c, at) \cup RequestDescriptors(c, at) \cup RequestPayload(c, at)

(* What is neither the head nor the command lies between the two or behind *)
(* the command.                                                            *)
LEMMA RequestSpans ==
    ASSUME NEW c, Sendable(c), NEW at, at = Layout(c), NEW q \in RequestPieces(c, at)
    PROVE  \/ q \in Opening(c, at)
           \/ Span(q, IF at.hd THEN 12 ELSE 8, at.payload + 8)
           \/ q = Command(c, at)
           \/ q.at \in Nat /\ q.size \in Nat /\ at.payload + 12 <= q.at
<1>1. /\ at.hd \in BOOLEAN /\ at.pid \in BOOLEAN
      /\ at.pid => at.hd
      /\ at.copies \in Nat /\ at.moves \in Nat
      /\ at.copy_at = IF at.pid THEN 20 ELSE 12
      /\ at.X = IF at.hd THEN at.copy_at + 4 * (at.copies + at.moves) ELSE 8
      /\ at.A = at.X + 8 * Uses(c, "X") /\ Uses(c, "X") \in Nat
      /\ at.B = at.A + 12 * Uses(c, "A") /\ Uses(c, "A") \in Nat
      /\ at.raw_at = at.B + 12 * Uses(c, "B") /\ Uses(c, "B") \in Nat
      /\ at.payload \in Nat /\ at.raw_at <= at.payload - (IF Framed(c) THEN 16 ELSE 0)
      /\ at.payload + 12 <= at.C
  BY LayoutOrder
<1>2. at.X \in Nat /\ at.raw_at \in Nat /\ at.X <= at.raw_at
      /\ (IF at.hd THEN 12 ELSE 8) <= at.X
      /\ at.raw_at <= at.payload /\ (Framed(c) => at.raw_at + 16 <= at.payload)
  BY <1>1
<1>3. CASE q \in RequestHead(c, at)
  <2>1. CASE q \in Opening(c, at)
    BY <2>1
  <2>2. CASE at.pid /\ q = Piece(12, 8, Thing("pid", 0))
    <3>1. q.at = 12 /\ q.size = 8
      BY <2>2 DEF Piece
    <3>2. 20 <= at.X
      BY <1>1, <2>2
    <3> QED
      BY <1>1, <1>2, <3>1, <3>2 DEF Span
  <2> QED
    BY <1>3, <2>1, <2>2 DEF RequestHead, Opening, Handles
<1>4. CASE q \in RequestHandles(c, at)
  <2>1. at.hd /\ Span(q, 12, at.X)
    BY <1>4, HandlesSpan
  <2> QED
    BY <1>1, <1>2, <2>1 DEF Span
<1>5. CASE q \in RequestDescriptors(c, at)
  <2>1. Span(q, at.X, at.raw_at) \/ (q.at \in Nat /\ q.size \in Nat /\ at.C <= q.at)
    BY <1>5, DescriptorsSpan
  <2>2. CASE Span(q, at.X, at.raw_at)
    BY <1>1, <1>2, <2>2 DEF Span
  <2>3. CASE q.at \in Nat /\ q.size \in Nat /\ at.C <= q.at
    <3>1. at.C \in Nat
      <4>1. at.C = at.raw_at + 4 * at.words /\ at.words \in Nat
        BY LayoutOrder
      <4> QED
        BY <1>2, <4>1
    <3> QED
      BY <1>1, <2>3, <3>1
  <2> QED
    BY <2>1, <2>2, <2>3
<1>6. CASE q \in RequestPayload(c, at)
  <2> DEFINE ins == c.shape.ins
  <2>1. CASE q = Word(at.payload, Thing("SFCI", 0))
    <3>1. q.at = at.payload /\ q.size = 4
      BY <2>1 DEF Word, Piece
    <3> QED
      BY <1>1, <1>2, <3>1 DEF Span
  <2>2. CASE q = Command(c, at)
    BY <2>2
  <2>3. CASE Framed(c) /\ q \in {Word(at.payload - 16, Thing("domain command", 1)),
                                   Word(at.payload - 12, Thing("object", 0))}
    <3>1. (q.at = at.payload - 16 \/ q.at = at.payload - 12) /\ q.size = 4
      <4>1. CASE q = Word(at.payload - 16, Thing("domain command", 1))
        BY <4>1 DEF Word, Piece
      <4>2. CASE q = Word(at.payload - 12, Thing("object", 0))
        BY <4>2 DEF Word, Piece
      <4> QED
        BY <2>3, <4>1, <4>2
    <3>2. at.X + 16 <= at.payload /\ at.payload \in Nat
      <4>1. Framed(c)
        BY <2>3
      <4>2. at.payload \in Nat
        BY <1>1
      <4> QED
        BY <1>2, <4>1, <4>2
    <3> QED
      BY <1>2, <3>1, <3>2 DEF Span
  <2>4. CASE q \in {Piece(at.payload + 16 + Start(ins, i), ins[i].size, Thing("argument", i)) : i \in Of(ins, "data")}
    <3>1. PICK i \in Of(ins, "data") :
             q = Piece(at.payload + 16 + Start(ins, i), ins[i].size, Thing("argument", i))
      BY <2>4
    <3>2. q.at = at.payload + 16 + Start(ins, i) /\ q.size = ins[i].size
      BY <3>1 DEF Piece
    <3>3. ins \in Seq(Parameter)
      BY DEF Sendable, WellFormed
    <3>5. Start(ins, i) \in Nat /\ ins[i].size \in Nat
      BY <3>3, DataPlaces
    <3>6. at.payload \in Nat
      BY <1>1
    <3> QED
      BY <3>2, <3>3, <3>5, <3>6
  <2> QED
    BY <1>6, <2>1, <2>2, <2>3, <2>4 DEF RequestPayload, Command
<1> QED
  BY <1>3, <1>4, <1>5, <1>6 DEF RequestPieces

(* The first twelve bytes and the command of a request are what the client *)
(* wrote there.                                                            *)
LEMMA RequestReads ==
    ASSUME NEW c, Sendable(c), NEW at, at = Layout(c), NEW b, b = Request(c)
    PROVE  /\ b[0].thing = Header(c)
           /\ b[4].thing = Sizes(at.words, at.hd)
           /\ at.hd => b[8].thing = HandleCounts(at.pid, at.copies, at.moves)
           /\ b[at.payload + 8].thing = Thing("command", c.id)
<1> DEFINE pieces == RequestPieces(c, at)
<1>1. b = Over(Filled(Stale), pieces)
  BY DEF Request, RequestPieces
<1>2. /\ at.hd \in BOOLEAN /\ at.payload \in Nat /\ at.raw_at \in Nat /\ 8 <= at.raw_at
      /\ at.raw_at <= at.payload /\ at.payload + 12 <= Size
  <2>1. /\ at.hd \in BOOLEAN /\ at.copies \in Nat /\ at.moves \in Nat
        /\ at.copy_at = IF at.pid THEN 20 ELSE 12
        /\ at.X = IF at.hd THEN at.copy_at + 4 * (at.copies + at.moves) ELSE 8
        /\ at.A = at.X + 8 * Uses(c, "X") /\ Uses(c, "X") \in Nat
        /\ at.B = at.A + 12 * Uses(c, "A") /\ Uses(c, "A") \in Nat
        /\ at.raw_at = at.B + 12 * Uses(c, "B") /\ Uses(c, "B") \in Nat
        /\ at.payload \in Nat /\ at.raw_at <= at.payload - (IF Framed(c) THEN 16 ELSE 0)
        /\ at.words \in Nat /\ at.C = at.raw_at + 4 * at.words
        /\ at.payload + 12 <= at.C /\ at.C <= Size
    BY LayoutOrder
  <2> QED
    BY <2>1, SizeAssumption
<1>3. 16 <= at.payload
  <2>1. at.payload = AlignUp(at.raw_at, 16) + (IF Framed(c) THEN 16 ELSE 0)
    BY LayoutOrder
  <2>2. AlignUp(at.raw_at, 16) \in Nat /\ 16 <= AlignUp(at.raw_at, 16)
    BY <1>2 DEF AlignUp
  <2> QED
    BY <2>1, <2>2
<1>4. \A q \in pieces : \/ q \in Opening(c, at)
                        \/ Span(q, IF at.hd THEN 12 ELSE 8, at.payload + 8)
                        \/ q = Command(c, at)
                        \/ q.at \in Nat /\ q.size \in Nat /\ at.payload + 12 <= q.at
  BY RequestSpans
<1>5. /\ Opening(c, at) \subseteq pieces /\ Command(c, at) \in pieces
      /\ Word(0, Header(c)) \in pieces /\ Word(4, Sizes(at.words, at.hd)) \in pieces
      /\ (at.hd => Handles(at) \in pieces)
  BY DEF RequestPieces, RequestHead, RequestPayload, Opening, Handles, Command
<1>6. /\ Word(0, Header(c)).at = 0 /\ Word(0, Header(c)).size = 4
      /\ Word(4, Sizes(at.words, at.hd)).at = 4 /\ Word(4, Sizes(at.words, at.hd)).size = 4
      /\ Handles(at).at = 8 /\ Handles(at).size = 4
      /\ Command(c, at).at = at.payload + 8 /\ Command(c, at).size = 4
  BY DEF Handles, Command, Word, Piece
<1> HIDE DEF pieces
<1>7. \A q \in pieces : Covers(q, 0) => q = Word(0, Header(c))
  BY <1>2, <1>3, <1>4, <1>6 DEF Covers, Span, Opening
<1>8. \A q \in pieces : Covers(q, 4) => q = Word(4, Sizes(at.words, at.hd))
  BY <1>2, <1>3, <1>4, <1>6 DEF Covers, Span, Opening
<1>9. ASSUME at.hd, NEW q \in pieces, Covers(q, 8)
      PROVE  q = Handles(at)
  <2>1. CASE q \in Opening(c, at)
    <3>1. 8 < q.at + q.size
      BY <1>9 DEF Covers
    <3>2. q # Word(0, Header(c))
      BY <1>6, <3>1
    <3>3. q # Word(4, Sizes(at.words, at.hd))
      BY <1>6, <3>1
    <3> QED
      BY <1>9, <2>1, <3>2, <3>3 DEF Opening
  <2>2. CASE Span(q, IF at.hd THEN 12 ELSE 8, at.payload + 8)
    BY <1>9, <2>2 DEF Covers, Span
  <2>3. CASE q = Command(c, at)
    BY <1>2, <1>3, <1>6, <1>9, <2>3 DEF Covers
  <2>4. CASE q.at \in Nat /\ q.size \in Nat /\ at.payload + 12 <= q.at
    BY <1>2, <1>9, <2>4 DEF Covers
  <2> QED
    BY <1>4, <2>1, <2>2, <2>3, <2>4
<1>10. \A q \in pieces : Covers(q, at.payload + 8) => q = Command(c, at)
  BY <1>2, <1>3, <1>4, <1>6 DEF Covers, Span, Opening
<1>11. 0 \in Address /\ 4 \in Address /\ 8 \in Address /\ at.payload + 8 \in Address
  BY <1>2, SizeAssumption DEF Address
<1>12. /\ Covers(Word(0, Header(c)), 0) /\ Covers(Word(4, Sizes(at.words, at.hd)), 4)
       /\ Covers(Handles(at), 8) /\ Covers(Command(c, at), at.payload + 8)
  BY <1>2, <1>6 DEF Covers
<1>13. b[0].thing = Header(c)
  <2>1. b[0] = Byte(Word(0, Header(c)).thing, 0 - 0)
    BY <1>1, <1>5, <1>6, <1>7, <1>11, <1>12, OverAt
  <2> QED
    BY <2>1 DEF Byte, Word, Piece
<1>6a. b[4].thing = Sizes(at.words, at.hd)
  <2>1. b[4] = Byte(Word(4, Sizes(at.words, at.hd)).thing, 4 - 4)
    BY <1>1, <1>5, <1>6, <1>8, <1>11, <1>12, OverAt
  <2> QED
    BY <2>1 DEF Byte, Word, Piece
<1>15. ASSUME at.hd PROVE b[8].thing = HandleCounts(at.pid, at.copies, at.moves)
  <2>1. b[8] = Byte(Handles(at).thing, 8 - 8)
    BY <1>1, <1>5, <1>6, <1>9, <1>11, <1>12, <1>15, OverAt
  <2> QED
    BY <2>1 DEF Byte, Handles, Word, Piece
<1>16. b[at.payload + 8].thing = Thing("command", c.id)
  <2>1. b[at.payload + 8] = Byte(Command(c, at).thing, (at.payload + 8) - Command(c, at).at)
    BY <1>1, <1>5, <1>10, <1>11, <1>12, OverAt
  <2> QED
    BY <2>1 DEF Byte, Command, Word, Piece
<1> QED
  BY <1>13, <1>6a, <1>15, <1>16

(* A request is parsed to the places the client laid it out in.            *)
LEMMA RequestParsed ==
    ASSUME NEW c, Sendable(c), c.domain = is_domainobj
    PROVE  LET at == Layout(c)
               req == ParseMessage(Request(c))
           IN /\ req.type = c.type /\ req.desc_off = at.X /\ req.raw_off = at.raw_at
              /\ req.payload_off = at.payload /\ req.cmd_id = Thing("command", c.id)
<1> DEFINE at == Layout(c)
           b == Request(c)
           req == ParseMessage(b)
<1>1. /\ b[0].thing = Header(c)
      /\ b[4].thing = Sizes(at.words, at.hd)
      /\ at.hd => b[8].thing = HandleCounts(at.pid, at.copies, at.moves)
      /\ b[at.payload + 8].thing = Thing("command", c.id)
  BY RequestReads
<1>2. /\ at.copy_at = IF at.pid THEN 20 ELSE 12
      /\ at.X = IF at.hd THEN at.copy_at + 4 * (at.copies + at.moves) ELSE 8
      /\ at.raw_at = at.X + 8 * Uses(c, "X") + 12 * Uses(c, "A") + 12 * Uses(c, "B")
      /\ at.payload = AlignUp(at.raw_at, 16) + (IF Framed(c) THEN 16 ELSE 0)
  <2>1. /\ at.copy_at = IF at.pid THEN 20 ELSE 12
        /\ at.X = IF at.hd THEN at.copy_at + 4 * (at.copies + at.moves) ELSE 8
        /\ at.A = at.X + 8 * Uses(c, "X") /\ Uses(c, "X") \in Nat
        /\ at.B = at.A + 12 * Uses(c, "A") /\ Uses(c, "A") \in Nat
        /\ at.raw_at = at.B + 12 * Uses(c, "B") /\ Uses(c, "B") \in Nat
        /\ at.payload = AlignUp(at.raw_at, 16) + (IF Framed(c) THEN 16 ELSE 0)
    BY LayoutOrder
  <2> QED
    BY <2>1
<1>3. /\ b[0].thing.type = c.type
      /\ b[0].thing.x = Uses(c, "X") /\ b[0].thing.a = Uses(c, "A") /\ b[0].thing.b = Uses(c, "B")
  BY <1>1 DEF Header, Uses
<1>4. b[4].thing.hd = at.hd
  BY <1>1 DEF Sizes
<1>5. at.hd => /\ b[8].thing.pid = at.pid /\ b[8].thing.copies = at.copies /\ b[8].thing.moves = at.moves
  BY <1>1 DEF HandleCounts
<1>6. (is_domainobj /\ c.type = 4) <=> Framed(c)
  BY DEF Framed
<1> HIDE DEF at, b
<1>7. /\ req.type = c.type
      /\ req.desc_off = IF at.hd THEN (IF b[8].thing.pid THEN 20 ELSE 12) + 4 * (b[8].thing.copies + b[8].thing.moves) ELSE 8
      /\ req.raw_off = req.desc_off + 8 * Uses(c, "X") + 12 * Uses(c, "A") + 12 * Uses(c, "B")
      /\ req.payload_off = AlignUp(req.raw_off, 16) + DomainHeader(c.type)
      /\ req.cmd_id = b[req.payload_off + 8].thing
  BY <1>3, <1>4 DEF ParseMessage
<1> HIDE DEF req
<1>8. req.desc_off = at.X
  BY <1>2, <1>5, <1>7
<1>9. req.raw_off = at.raw_at
  BY <1>2, <1>7, <1>8
<1>10. DomainHeader(c.type) = IF Framed(c) THEN 16 ELSE 0
  BY <1>6 DEF DomainHeader
<1>11. req.payload_off = at.payload
  BY <1>2, <1>7, <1>9, <1>10
<1> QED
  BY <1>1, <1>7, <1>8, <1>9, <1>11 DEF at, req, b
-----------------------------------------------------------------------------
(* What GenBuf told of a reply, and where its payload is.                  *)
HandlesOf(shape) == HandlesFollow(shape.moves, shape.copies)
WordsOf(shape) == ReplyWords(shape.moves, shape.bytes)
AlignedStart(shape) == AlignUp(ReplyStart(shape.moves, shape.copies), 16)
PayloadOf(shape) == AlignedStart(shape) + (IF is_domainobj THEN 16 ELSE 0)

(* The payload lies behind the handles and fits into the message.          *)
LEMMA ReplyPlaces ==
    ASSUME NEW shape, WellFormed(shape), is_domainobj \in BOOLEAN
    PROVE  /\ shape.moves \in 0 .. 2 /\ shape.copies \in Nat /\ shape.bytes \in Nat
           /\ ReplyStart(shape.moves, shape.copies) \in Nat
           /\ ReplyStart(shape.moves, shape.copies) <= AlignedStart(shape)
           /\ AlignedStart(shape) <= ReplyStart(shape.moves, shape.copies) + 15
           /\ AlignedStart(shape) \in Nat /\ 16 <= AlignedStart(shape)
           /\ PayloadOf(shape) \in Nat /\ AlignedStart(shape) <= PayloadOf(shape)
           /\ PayloadOf(shape) + 12 <= Size /\ PayloadOf(shape) + 16 + shape.bytes <= Size
<1> DEFINE m == shape.moves
           n == shape.copies
           s == ReplyStart(m, n)
<1>1. m \in 0 .. 2 /\ n \in Nat /\ shape.bytes \in Nat
      /\ AlignUp(12 + 4 * (m + n), 16) + 32 + shape.bytes <= Size
  BY DEF WellFormed
<1>2. s \in Nat /\ 8 <= s /\ s <= 12 + 4 * (m + n)
  <2>1. s = 8 \/ s = 8 + 4 * (1 + m + n)
    BY DEF ReplyStart
  <2> QED
    BY <1>1, <2>1
<1> HIDE DEF s
<1>3. AlignUp(s, 16) \in Nat /\ s <= AlignUp(s, 16) /\ AlignUp(s, 16) <= s + 15
  BY <1>2, AlignUp16
<1>4. 16 <= AlignUp(s, 16)
  BY <1>2 DEF AlignUp
<1>5. AlignUp(s, 16) <= AlignUp(12 + 4 * (m + n), 16) /\ AlignUp(12 + 4 * (m + n), 16) \in Nat
  <2> DEFINE t == 12 + 4 * (m + n)
  <2>1. t \in Nat /\ s <= t
    BY <1>1, <1>2
  <2> HIDE DEF t
  <2>2. (s + 15) \div 16 <= (t + 15) \div 16
    BY <1>2, <2>1
  <2>3. AlignUp(s, 16) <= AlignUp(t, 16) /\ AlignUp(t, 16) \in Nat
    BY <1>2, <2>1, <2>2 DEF AlignUp
  <2> QED
    BY <2>3 DEF t
<1>6. AlignedStart(shape) = AlignUp(s, 16)
  BY DEF AlignedStart, s
<1>7. PayloadOf(shape) \in Nat /\ AlignUp(s, 16) <= PayloadOf(shape) /\ PayloadOf(shape) <= AlignUp(s, 16) + 16
  BY <1>3, <1>6 DEF PayloadOf
<1>8. PayloadOf(shape) + 12 <= Size /\ PayloadOf(shape) + 16 + shape.bytes <= Size
  BY <1>1, <1>3, <1>5, <1>7, SizeAssumption
<1> QED
  BY <1>1, <1>2, <1>3, <1>4, <1>6, <1>7, <1>8 DEF s

(* The four layers of a reply.                                             *)
GenBufPieces(shape) == GenBuf(shape.moves, shape.copies, shape.bytes).pieces
DataPieces(shape) ==
  {Piece(PayloadOf(shape) + 8 + shape.outs[i].at, shape.outs[i].size, Thing("value", i)) : i \in Of(shape.outs, "data")}
HandlePieces(shape, set) ==
  LET resp == GenBuf(shape.moves, shape.copies, shape.bytes)
  IN {SetMove(resp, shape.outs[i].num, Thing("object", i)) : i \in Of(shape.outs, "move") \cap set}
     \cup {SetCopy(shape.outs[i].num, Thing("object", i)) : i \in Of(shape.outs, "copy") \cap set}
Result(shape) == Word(PayloadOf(shape) + 8, Thing("result", 0))

LEMMA ReplyLayers ==
    ASSUME NEW shape, NEW set
    PROVE  /\ Reply(shape, set) =
                Over(Over(Over(Over(Filled(Zero), GenBufPieces(shape)), DataPieces(shape)),
                          HandlePieces(shape, set)), {Result(shape)})
           /\ GenBufPieces(shape) =
                {Word(4, Sizes(WordsOf(shape), HandlesOf(shape))), Word(PayloadOf(shape), Thing("SFCO", 0))}
                  \cup (IF HandlesOf(shape)
                        THEN {Word(8, HandleCounts(FALSE, shape.copies, IF is_domainobj THEN 0 ELSE shape.moves))} ELSE {})
                  \cup (IF is_domainobj THEN {Word(AlignedStart(shape), Thing("objects", shape.moves))} ELSE {})
           /\ GenBuf(shape.moves, shape.copies, shape.bytes).payload_off = PayloadOf(shape)
           /\ GenBuf(shape.moves, shape.copies, shape.bytes).copy_cnt = shape.copies
<1>1. GenBuf(shape.moves, shape.copies, shape.bytes).payload_off = PayloadOf(shape)
  BY DEF GenBuf, PayloadOf, AlignedStart
<1>2. GenBuf(shape.moves, shape.copies, shape.bytes).copy_cnt = shape.copies
  BY DEF GenBuf
<1>3. GenBufPieces(shape) =
        {Word(4, Sizes(WordsOf(shape), HandlesOf(shape))), Word(PayloadOf(shape), Thing("SFCO", 0))}
          \cup (IF HandlesOf(shape)
                THEN {Word(8, HandleCounts(FALSE, shape.copies, IF is_domainobj THEN 0 ELSE shape.moves))} ELSE {})
          \cup (IF is_domainobj THEN {Word(AlignedStart(shape), Thing("objects", shape.moves))} ELSE {})
  BY DEF GenBufPieces, GenBuf, WordsOf, HandlesOf, PayloadOf, AlignedStart
<1>4. Reply(shape, set) =
        Over(Over(Over(Over(Filled(Zero), GenBufPieces(shape)), DataPieces(shape)),
                  HandlePieces(shape, set)), {Result(shape)})
  BY <1>1 DEF Reply, GenBufPieces, DataPieces, HandlePieces, Result
<1> QED
  BY <1>1, <1>2, <1>3, <1>4

(* Data lies behind the result.                                            *)
LEMMA DataSpans ==
    ASSUME NEW shape, WellFormed(shape), is_domainobj \in BOOLEAN, NEW q \in DataPieces(shape)
    PROVE  Span(q, PayloadOf(shape) + 16, PayloadOf(shape) + 16 + shape.bytes)
<1> DEFINE outs == shape.outs
<1>1. PICK i \in Of(outs, "data") :
         q = Piece(PayloadOf(shape) + 8 + outs[i].at, outs[i].size, Thing("value", i))
  BY DEF DataPieces
<1>2. q.at = PayloadOf(shape) + 8 + outs[i].at /\ q.size = outs[i].size
  BY <1>1 DEF Piece
<1>3. /\ outs \in Seq(Parameter) /\ outs[i].at + outs[i].size <= 8 + shape.bytes
      /\ outs[i].at = 8 + Start(outs, i) + Late(outs[i])
  BY DEF WellFormed, Placed
<1>4. /\ Start(outs, i) \in Nat /\ outs[i].align \in Nat \ {0}
      /\ outs[i].at \in Nat /\ outs[i].size \in Nat
  BY <1>3, DataPlaces
<1>5. Late(outs[i]) \in Nat
  BY <1>4, LateType
<1>6. PayloadOf(shape) \in Nat /\ shape.bytes \in Nat
  BY ReplyPlaces
<1>7. outs[i].at >= 8
  BY <1>3, <1>4, <1>5
<1> DEFINE P == PayloadOf(shape)
           a == outs[i].at
           n == outs[i].size
<1>8. /\ q.at = P + 8 + a /\ q.size = n /\ P \in Nat /\ a \in Nat /\ n \in Nat
      /\ a >= 8 /\ a + n <= 8 + shape.bytes /\ shape.bytes \in Nat
  BY <1>2, <1>3, <1>4, <1>6, <1>7
<1> HIDE DEF P, a, n
<1>9. q.at \in Nat /\ q.size \in Nat /\ P + 16 <= q.at /\ q.at + q.size <= P + 16 + shape.bytes
  BY <1>8
<1> QED
  BY <1>9 DEF Span, P

(* The handles of a reply are numbered in their order.                     *)
LEMMA OutHandles ==
    ASSUME NEW shape, WellFormed(shape), NEW kind \in {"move", "copy"},
           NEW S, S = Of(shape.outs, kind), NEW i \in S
    PROVE  /\ IsFiniteSet(S) /\ S \subseteq Nat
           /\ shape.outs[i].num \in Nat /\ shape.outs[i].num = Before(S, i)
           /\ shape.outs[i].num < IF kind = "move" THEN shape.moves ELSE shape.copies
<1> DEFINE outs == shape.outs
<1>1. outs \in Seq(Parameter) /\ S \subseteq DOMAIN outs
  BY DEF WellFormed, Of
<1>2. IsFiniteSet(S) /\ S \subseteq Nat
  BY <1>1, PlacesFinite
<1>3. Counted(outs, S)
  BY DEF WellFormed
<1>4. outs[i].num = Before(S, i)
  BY <1>3 DEF Counted
<1>5. Cardinality(S) = IF kind = "move" THEN shape.moves ELSE shape.copies
  BY DEF WellFormed
<1>6. Before(S, i) \in Nat /\ Before(S, i) < Cardinality(S)
  BY <1>2, BeforeBound
<1> QED
  BY <1>2, <1>4, <1>5, <1>6

(* Handles lie before the payload, objects of a domain behind the result.  *)
LEMMA HandleSpans ==
    ASSUME NEW shape, WellFormed(shape), is_domainobj \in BOOLEAN,
           NEW set, NEW q \in HandlePieces(shape, set)
    PROVE  \/ HandlesOf(shape) /\ Span(q, 12, ReplyStart(shape.moves, shape.copies))
           \/ is_domainobj /\ Span(q, PayloadOf(shape) + 16, PayloadOf(shape) + 16 + 4 * shape.moves)
<1> DEFINE outs == shape.outs
           m == shape.moves
           n == shape.copies
           resp == GenBuf(m, n, shape.bytes)
<1>1. m \in 0 .. 2 /\ n \in Nat /\ PayloadOf(shape) \in Nat
  BY ReplyPlaces
<1>2. outs \in Seq(Parameter)
  BY DEF WellFormed
<1>4. CASE \E i \in Of(outs, "move") \cap set : q = SetMove(resp, outs[i].num, Thing("object", i))
  <2>1. PICK i \in Of(outs, "move") \cap set : q = SetMove(resp, outs[i].num, Thing("object", i))
    BY <1>4
  <2>2. outs[i].num \in Nat /\ outs[i].num < m
    BY OutHandles
  <2>3. q.size = 4 /\ q.at = IF is_domainobj THEN PayloadOf(shape) + 16 + 4 * outs[i].num
                                             ELSE 12 + 4 * (n + outs[i].num)
    BY <2>1, ReplyLayers DEF SetMove, Word, Piece
  <2>4. CASE is_domainobj
    BY <1>1, <2>2, <2>3, <2>4 DEF Span
  <2>5. CASE ~is_domainobj
    <3>1. m # 0
      BY <1>1, <2>2
    <3>2. HandlesOf(shape) /\ ReplyStart(m, n) = 8 + 4 * (1 + m + n)
      BY <2>5, <3>1 DEF HandlesOf, HandlesFollow, ReplyStart
    <3> QED
      BY <1>1, <2>2, <2>3, <2>5, <3>2 DEF Span
  <2> QED
    BY <2>4, <2>5
<1>5. CASE \E i \in Of(outs, "copy") \cap set : q = SetCopy(outs[i].num, Thing("object", i))
  <2>1. PICK i \in Of(outs, "copy") \cap set : q = SetCopy(outs[i].num, Thing("object", i))
    BY <1>5
  <2>2. outs[i].num \in Nat /\ outs[i].num < n
    BY OutHandles
  <2>3. q.size = 4 /\ q.at = 12 + 4 * outs[i].num
    BY <2>1 DEF SetCopy, Word, Piece
  <2>4. n # 0
    BY <1>1, <2>2
  <2>5. HandlesOf(shape) /\ ReplyStart(m, n) = 8 + 4 * (1 + m + n)
    BY <2>4 DEF HandlesOf, HandlesFollow, ReplyStart
  <2> QED
    BY <1>1, <2>2, <2>3, <2>5 DEF Span
<1> QED
  BY <1>4, <1>5 DEF HandlePieces

(* Pieces elsewhere leave four bytes alone.                                *)
LEMMA WordElsewhere ==
    ASSUME NEW b, NEW pieces, NEW at \in Nat, at + 3 \in Address,
           \A q \in pieces : \A k \in at .. at + 3 : ~Covers(q, k)
    PROVE  Bytes(Over(b, pieces), at, 4) = Bytes(b, at, 4)
<1>1. ASSUME NEW j \in 0 .. 3
      PROVE  at + j \in Address /\ Over(b, pieces)[at + j] = b[at + j]
  <2>1. at + j \in Address /\ at + j \in at .. at + 3
    BY SizeAssumption DEF Address
  <2> QED
    BY <2>1, OverElsewhere
<1> QED
  BY <1>1 DEF Bytes

(* What is covered by no handle and no data of a reply.                    *)
LEMMA ReplyGaps ==
    ASSUME NEW shape, WellFormed(shape), is_domainobj \in BOOLEAN, NEW set,
           NEW q \in DataPieces(shape) \cup HandlePieces(shape, set), NEW k \in Nat,
           k < 12 \/ (AlignedStart(shape) <= k /\ k < PayloadOf(shape) + 16)
    PROVE  ~Covers(q, k)
<1>1. /\ PayloadOf(shape) \in Nat /\ ReplyStart(shape.moves, shape.copies) \in Nat
      /\ ReplyStart(shape.moves, shape.copies) <= AlignedStart(shape)
      /\ AlignedStart(shape) \in Nat /\ AlignedStart(shape) <= PayloadOf(shape) /\ 16 <= AlignedStart(shape)
  BY ReplyPlaces
<1>2. Span(q, 12, ReplyStart(shape.moves, shape.copies)) \/ (q.at \in Nat /\ PayloadOf(shape) + 16 <= q.at)
  <2>1. CASE q \in DataPieces(shape)
    BY <2>1, DataSpans DEF Span
  <2>2. CASE q \in HandlePieces(shape, set)
    <3>1. \/ Span(q, 12, ReplyStart(shape.moves, shape.copies))
          \/ Span(q, PayloadOf(shape) + 16, PayloadOf(shape) + 16 + 4 * shape.moves)
      BY <2>2, HandleSpans
    <3> QED
      BY <3>1 DEF Span
  <2> QED
    BY <2>1, <2>2
<1> QED
  BY <1>1, <1>2 DEF Span, Covers

(* The counts, the magic word and the result of a reply stand where GenBuf *)
(* and SetErrorCode put them.                                              *)
LEMMA ReplyReads ==
    ASSUME NEW shape, WellFormed(shape), is_domainobj \in BOOLEAN, NEW set,
           NEW r, r = Reply(shape, set)
    PROVE  /\ r[4].thing = Sizes(WordsOf(shape), HandlesOf(shape))
           /\ HandlesOf(shape) =>
                r[8].thing = HandleCounts(FALSE, shape.copies, IF is_domainobj THEN 0 ELSE shape.moves)
           /\ is_domainobj => r[AlignedStart(shape)].thing = Thing("objects", shape.moves)
           /\ Bytes(r, PayloadOf(shape), 4) = Whole(Thing("SFCO", 0), 4)
           /\ Bytes(r, PayloadOf(shape) + 8, 4) = Whole(Thing("result", 0), 4)
<1> DEFINE P == PayloadOf(shape)
           A == AlignedStart(shape)
           size == Sizes(WordsOf(shape), HandlesOf(shape))
           counts == HandleCounts(FALSE, shape.copies, IF is_domainobj THEN 0 ELSE shape.moves)
           sfco == Thing("SFCO", 0)
           r1 == Over(Filled(Zero), GenBufPieces(shape))
           r2 == Over(r1, DataPieces(shape))
           r3 == Over(r2, HandlePieces(shape, set))
<1>1. r = Over(r3, {Result(shape)})
  BY ReplyLayers
<1>2. P \in Nat /\ A \in Nat /\ 16 <= A /\ A <= P /\ P + 12 <= Size /\ (is_domainobj => P = A + 16)
  <2>1. is_domainobj => P = A + 16
    BY DEF PayloadOf
  <2> QED
    BY <2>1, ReplyPlaces
<1>3. Result(shape).at = P + 8 /\ Result(shape).size = 4
  BY DEF Result, Word, Piece
<1>4. \A q \in GenBufPieces(shape) :
         \/ q = Word(4, size) \/ q = Word(P, sfco)
         \/ HandlesOf(shape) /\ q = Word(8, counts)
         \/ is_domainobj /\ q = Word(A, Thing("objects", shape.moves))
  BY ReplyLayers
<1>5. /\ Word(4, size) \in GenBufPieces(shape) /\ Word(P, sfco) \in GenBufPieces(shape)
      /\ HandlesOf(shape) => Word(8, counts) \in GenBufPieces(shape)
  BY ReplyLayers
<1>6. \A at, thing : Word(at, thing).at = at /\ Word(at, thing).size = 4 /\ Word(at, thing).thing = thing
  BY DEF Word, Piece
<1> DEFINE objects == Thing("objects", shape.moves)
<1>6a. /\ Word(4, size).at = 4 /\ Word(4, size).size = 4 /\ Word(4, size).thing = size
      /\ Word(8, counts).at = 8 /\ Word(8, counts).size = 4 /\ Word(8, counts).thing = counts
      /\ Word(P, sfco).at = P /\ Word(P, sfco).size = 4
      /\ Word(A, objects).at = A /\ Word(A, objects).size = 4
  <2> HIDE DEF size, counts, sfco, objects, P, A
  <2> QED
    BY <1>6
<1> HIDE DEF size, counts, sfco, objects
<1>7. \A q \in DataPieces(shape) : \A k \in Nat :
         k < 12 \/ (A <= k /\ k < P + 16) => ~Covers(q, k)
  BY ReplyGaps
<1>8. \A q \in HandlePieces(shape, set) : \A k \in Nat :
         k < 12 \/ (A <= k /\ k < P + 16) => ~Covers(q, k)
  BY ReplyGaps
<1>9. ASSUME NEW k \in Nat, k < 12
      PROVE  k \in Address /\ r[k] = r1[k]
  <2>1. k \in Address
    BY <1>9, SizeAssumption DEF Address
  <2>2. ~Covers(Result(shape), k)
    BY <1>2, <1>3, <1>9 DEF Covers
  <2>3. r[k] = r3[k]
    BY <1>1, <2>1, <2>2, OverElsewhere
  <2>4. r3[k] = r2[k]
    BY <1>8, <1>9, <2>1, OverElsewhere
  <2>5. r2[k] = r1[k]
    BY <1>7, <1>9, <2>1, OverElsewhere
  <2> QED
    BY <2>1, <2>3, <2>4, <2>5
<1>10. r[4].thing = size
  <2>1. ASSUME NEW q \in GenBufPieces(shape), Covers(q, 4) PROVE q = Word(4, size)
    <3>1. q.at <= 4
      BY <2>1 DEF Covers
    <3>2. q # Word(P, sfco)
      BY <1>2, <1>6a, <3>1
    <3>3. q # Word(8, counts)
      BY <1>6a, <3>1
    <3>4. q # Word(A, objects)
      BY <1>2, <1>6a, <3>1
    <3> QED
      BY <1>4, <3>2, <3>3, <3>4 DEF objects
  <2>2. Covers(Word(4, size), 4)
    BY <1>6a DEF Covers
  <2>3. 4 \in Address
    BY <1>9
  <2>4. r1[4] = Byte(Word(4, size).thing, 4 - Word(4, size).at)
    BY <1>5, <2>1, <2>2, <2>3, OverAt
  <2> QED
    BY <1>6, <1>9, <2>4 DEF Byte
<1>11. ASSUME HandlesOf(shape)
       PROVE  r[8].thing = counts
  <2>1. ASSUME NEW q \in GenBufPieces(shape), Covers(q, 8) PROVE q = Word(8, counts)
    <3>1. q.at <= 8 /\ 8 < q.at + q.size
      BY <2>1 DEF Covers
    <3>2. q # Word(P, sfco) /\ q # Word(A, objects)
      BY <1>2, <1>6a, <3>1
    <3>3. q # Word(4, size)
      BY <1>6a, <3>1
    <3> QED
      BY <1>4, <3>2, <3>3 DEF objects
  <2>2. Covers(Word(8, counts), 8)
    BY <1>6a DEF Covers
  <2>3. 8 \in Address
    BY <1>9
  <2>4. r1[8] = Byte(Word(8, counts).thing, 8 - Word(8, counts).at)
    <3>1. Word(8, counts) \in GenBufPieces(shape)
      BY <1>5, <1>11
    <3> QED
      BY <3>1, <2>1, <2>2, <2>3, OverAt
  <2>5. r1[8].thing = counts
    BY <1>6a, <2>4 DEF Byte
  <2> QED
    BY <1>9, <2>5
<1>12. Bytes(r, P, 4) = Whole(sfco, 4)
  <2>1. P + 3 \in Address
    BY <1>2, SizeAssumption DEF Address
  <2>2. ASSUME NEW q \in GenBufPieces(shape), q # Word(P, sfco), NEW k \in P .. P + 3
        PROVE  ~Covers(q, k)
    <3>1. q = Word(4, size) \/ q = Word(8, counts) \/ (q = Word(A, objects) /\ P = A + 16)
      BY <1>2, <1>4, <2>2 DEF objects
    <3>2. q.at + q.size \in Nat /\ q.at + q.size <= P
      <4>1. CASE q = Word(4, size)
        BY <1>2, <1>6a, <4>1
      <4>2. CASE q = Word(8, counts)
        BY <1>2, <1>6a, <4>2
      <4>3. CASE q = Word(A, objects) /\ P = A + 16
        BY <1>2, <1>6a, <4>3
      <4> QED
        BY <3>1, <4>1, <4>2, <4>3
    <3> QED
      BY <1>2, <3>2 DEF Covers
  <2>3. Bytes(r1, P, 4) = Whole(sfco, 4)
    BY <1>2, <1>5, <2>1, <2>2, OverWord
  <2>4. Bytes(r2, P, 4) = Bytes(r1, P, 4)
    BY <1>2, <1>7, <2>1, WordElsewhere
  <2>5. Bytes(r3, P, 4) = Bytes(r2, P, 4)
    BY <1>2, <1>8, <2>1, WordElsewhere
  <2>6. \A k \in P .. P + 3 : ~Covers(Result(shape), k)
    BY <1>2, <1>3 DEF Covers
  <2>7. Bytes(r, P, 4) = Bytes(r3, P, 4)
    BY <1>1, <1>2, <2>1, <2>6, WordElsewhere
  <2> QED
    BY <2>3, <2>4, <2>5, <2>7
<1>13. Bytes(r, P + 8, 4) = Whole(Thing("result", 0), 4)
  <2>1. P + 8 \in Nat /\ (P + 8) + 3 \in Address
    BY <1>2, SizeAssumption DEF Address
  <2>2. Word(P + 8, Thing("result", 0)) = Result(shape)
    BY DEF Result
  <2> QED
    BY <1>1, <2>1, <2>2, OverWord
<1>14. ASSUME is_domainobj PROVE r[A].thing = objects
  <2>1. A \in Address /\ P = A + 16 /\ A <= A /\ A < P + 16
    BY <1>2, <1>14, SizeAssumption DEF Address
  <2>2. ~Covers(Result(shape), A)
    BY <1>2, <1>3, <2>1 DEF Covers
  <2>3. r[A] = r3[A]
    BY <1>1, <2>1, <2>2, OverElsewhere
  <2>4. r3[A] = r2[A]
    BY <1>2, <1>8, <2>1, OverElsewhere
  <2>5. r2[A] = r1[A]
    BY <1>2, <1>7, <2>1, OverElsewhere
  <2>6. Word(A, objects) \in GenBufPieces(shape)
    BY <1>14, ReplyLayers DEF objects
  <2>7. Covers(Word(A, objects), A)
    BY <1>2, <1>6a DEF Covers
  <2>8. ASSUME NEW q \in GenBufPieces(shape), Covers(q, A) PROVE q = Word(A, objects)
    <3>1. q.at <= A /\ A < q.at + q.size
      BY <2>8 DEF Covers
    <3>2. q # Word(P, sfco)
      BY <1>2, <1>6a, <2>1, <3>1
    <3>3. q # Word(4, size) /\ q # Word(8, counts)
      BY <1>2, <1>6a, <3>1
    <3> QED
      BY <1>4, <3>2, <3>3 DEF objects
  <2>9. r1[A] = Byte(Word(A, objects).thing, A - Word(A, objects).at)
    BY <2>1, <2>6, <2>7, <2>8, OverAt
  <2>10. Word(A, objects).thing = objects
    BY <1>6
  <2> QED
    BY <2>3, <2>4, <2>5, <2>9, <2>10 DEF Byte
<1> QED
  BY <1>10, <1>11, <1>12, <1>13, <1>14 DEF size, counts, sfco, objects

(* Each value stands where the handler put it, unless the objects of a     *)
(* domain replace it.                                                      *)
LEMMA ReplyData ==
    ASSUME NEW shape, WellFormed(shape), is_domainobj \in BOOLEAN, NEW set,
           NEW i \in Of(shape.outs, "data"), NEW k \in 0 .. shape.outs[i].size - 1,
           NEW a, a = PayloadOf(shape) + 8 + shape.outs[i].at + k,
           is_domainobj => PayloadOf(shape) + 16 + 4 * shape.moves <= a
    PROVE  Reply(shape, set)[a] = Byte(Thing("value", i), k)
<1> DEFINE outs == shape.outs
           P == PayloadOf(shape)
           q == Piece(P + 8 + outs[i].at, outs[i].size, Thing("value", i))
           r1 == Over(Filled(Zero), GenBufPieces(shape))
           r2 == Over(r1, DataPieces(shape))
           r3 == Over(r2, HandlePieces(shape, set))
<1>1. q \in DataPieces(shape) /\ q.at = P + 8 + outs[i].at /\ q.size = outs[i].size /\ q.thing = Thing("value", i)
  BY DEF DataPieces, Piece
<1>2. Span(q, P + 16, P + 16 + shape.bytes)
  BY <1>1, DataSpans
<1>3. /\ P \in Nat /\ shape.bytes \in Nat /\ P + 16 + shape.bytes <= Size
      /\ ReplyStart(shape.moves, shape.copies) \in Nat /\ ReplyStart(shape.moves, shape.copies) <= P
  BY ReplyPlaces
<1>4. a = q.at + k /\ k \in Nat /\ k < q.size /\ a \in Nat /\ P + 16 <= a /\ a < P + 16 + shape.bytes
  <2> HIDE DEF q
  <2>1. a = q.at + k /\ k \in 0 .. (q.size - 1) /\ q.at \in Nat /\ q.size \in Nat
    BY <1>1, <1>2 DEF Span
  <2> QED
    BY <1>2, <1>3, <2>1 DEF Span
<1>5. a \in Address
  BY <1>3, <1>4, SizeAssumption DEF Address
<1>6. Covers(q, a)
  BY <1>2, <1>4 DEF Span, Covers
<1>7. ASSUME NEW p \in DataPieces(shape), Covers(p, a) PROVE p = q
  <2>1. PICK j \in Of(outs, "data") : p = Piece(P + 8 + outs[j].at, outs[j].size, Thing("value", j))
    BY DEF DataPieces
  <2>2. p.at = P + 8 + outs[j].at /\ p.size = outs[j].size
    BY <2>1 DEF Piece
  <2>3. outs \in Seq(Parameter) /\ Placed(outs)
    BY DEF WellFormed
  <2>4. /\ i \in 1 .. Len(outs) /\ outs[i].at \in Nat /\ outs[i].size \in Nat
        /\ j \in 1 .. Len(outs) /\ outs[j].at \in Nat /\ outs[j].size \in Nat
    BY <2>3, DataPlaces
  <2>5. i < j => outs[i].at + outs[i].size <= outs[j].at
    BY <2>3 DEF Placed
  <2>6. j < i => outs[j].at + outs[j].size <= outs[i].at
    BY <2>3 DEF Placed
  <2>7. p.at <= a /\ a < p.at + p.size
    BY <1>7 DEF Covers
  <2>8. q.at <= a /\ a < q.at + q.size
    BY <1>6 DEF Covers
  <2> DEFINE x == outs[i].at
             y == outs[j].at
             u == outs[i].size
             v == outs[j].size
  <2>9. /\ x \in Nat /\ y \in Nat /\ u \in Nat /\ v \in Nat /\ P \in Nat /\ a \in Nat
        /\ P + 8 + x <= a /\ a < P + 8 + x + u /\ P + 8 + y <= a /\ a < P + 8 + y + v
        /\ (i < j => x + u <= y) /\ (j < i => y + v <= x)
    BY <1>1, <1>3, <1>4, <2>2, <2>4, <2>5, <2>6, <2>7, <2>8
  <2>10. ~(i < j) /\ ~(j < i)
    <3> HIDE DEF x, y, u, v, P
    <3> QED
      BY <2>9
  <2>11. i = j
    BY <2>4, <2>10
  <2> QED
    BY <2>1, <2>11
<1>8. ASSUME NEW p \in HandlePieces(shape, set) PROVE ~Covers(p, a)
  <2>1. \/ Span(p, 12, ReplyStart(shape.moves, shape.copies))
        \/ is_domainobj /\ Span(p, P + 16, P + 16 + 4 * shape.moves)
    BY HandleSpans
  <2>2. CASE Span(p, 12, ReplyStart(shape.moves, shape.copies))
    BY <1>3, <1>4, <2>2 DEF Span, Covers
  <2>3. CASE is_domainobj /\ Span(p, P + 16, P + 16 + 4 * shape.moves)
    <3>1. shape.moves \in Nat /\ P + 16 + 4 * shape.moves <= a
      BY <2>3, ReplyPlaces
    <3> QED
      BY <1>3, <1>4, <2>3, <3>1 DEF Span, Covers
  <2> QED
    BY <2>1, <2>2, <2>3
<1>9. ~Covers(Result(shape), a)
  <2>1. Result(shape).at = P + 8 /\ Result(shape).size = 4
    BY DEF Result, Word, Piece
  <2> QED
    BY <1>3, <1>4, <2>1 DEF Covers
<1>10. Reply(shape, set) = Over(r3, {Result(shape)})
  BY ReplyLayers
<1> HIDE DEF q
<1>11. r2[a] = Byte(q.thing, a - q.at)
  BY <1>1, <1>5, <1>6, <1>7, OverAt
<1>12. r3[a] = r2[a]
  BY <1>5, <1>8, OverElsewhere
<1>13. Over(r3, {Result(shape)})[a] = r3[a]
  BY <1>5, <1>9, OverElsewhere
<1>14. a - q.at = k
  BY <1>2, <1>4 DEF Span
<1> QED
  BY <1>1, <1>10, <1>11, <1>12, <1>13, <1>14

(* Where a handle or an object goes.                                       *)
HandleAt(shape, kind, num) ==
  IF kind = "copy" THEN 12 + 4 * num
  ELSE IF is_domainobj THEN PayloadOf(shape) + 16 + 4 * num ELSE 12 + 4 * (shape.copies + num)

HandlePiece(shape, kind, i) == Word(HandleAt(shape, kind, shape.outs[i].num), Thing("object", i))

LEMMA HandlePiecesAre ==
    ASSUME NEW shape, NEW set, NEW q
    PROVE  q \in HandlePieces(shape, set) <=>
             \E kind \in {"move", "copy"} : \E i \in Of(shape.outs, kind) \cap set : q = HandlePiece(shape, kind, i)
<1> DEFINE resp == GenBuf(shape.moves, shape.copies, shape.bytes)
<1>1. resp.payload_off = PayloadOf(shape) /\ resp.copy_cnt = shape.copies
  BY ReplyLayers
<1>2. \A num, thing : SetMove(resp, num, thing) = Word(HandleAt(shape, "move", num), thing)
  BY <1>1 DEF SetMove, HandleAt
<1>3. \A num, thing : SetCopy(num, thing) = Word(HandleAt(shape, "copy", num), thing)
  BY DEF SetCopy, HandleAt
<1> HIDE DEF resp
<1>4. HandlePieces(shape, set) =
        {SetMove(resp, shape.outs[i].num, Thing("object", i)) : i \in Of(shape.outs, "move") \cap set}
          \cup {SetCopy(shape.outs[i].num, Thing("object", i)) : i \in Of(shape.outs, "copy") \cap set}
  BY DEF HandlePieces, resp
<1> QED
  BY <1>2, <1>3, <1>4, Zenon DEF HandlePiece

(* Handles and objects lie apart from each other.                          *)
LEMMA HandlesApart ==
    ASSUME NEW shape, WellFormed(shape), is_domainobj \in BOOLEAN,
           NEW kind \in {"move", "copy"}, NEW i \in Of(shape.outs, kind),
           NEW other \in {"move", "copy"}, NEW j \in Of(shape.outs, other),
           NEW a \in Nat, Covers(HandlePiece(shape, kind, i), a), Covers(HandlePiece(shape, other, j), a)
    PROVE  kind = other /\ i = j
<1> DEFINE outs == shape.outs
           p == HandlePiece(shape, kind, i)
           q == HandlePiece(shape, other, j)
<1>1. /\ outs[i].num \in Nat /\ outs[i].num = Before(Of(outs, kind), i)
      /\ outs[i].num < IF kind = "move" THEN shape.moves ELSE shape.copies
      /\ IsFiniteSet(Of(outs, kind)) /\ Of(outs, kind) \subseteq Nat
  BY OutHandles
<1>2. /\ outs[j].num \in Nat /\ outs[j].num = Before(Of(outs, other), j)
      /\ outs[j].num < IF other = "move" THEN shape.moves ELSE shape.copies
  BY OutHandles
<1>3. shape.moves \in Nat /\ shape.copies \in Nat /\ (shape.moves = 0 \/ shape.copies = 0)
  BY DEF WellFormed
<1>4. kind = other
  BY <1>1, <1>2, <1>3
<1>5. PayloadOf(shape) \in Nat
  BY ReplyPlaces
<1>6. /\ p.at = HandleAt(shape, kind, outs[i].num) /\ p.size = 4
      /\ q.at = HandleAt(shape, kind, outs[j].num) /\ q.size = 4
  BY <1>4 DEF HandlePiece, Word, Piece
<1>7. p.at <= a /\ a < p.at + p.size /\ q.at <= a /\ a < q.at + q.size
  BY DEF Covers
<1>8. ASSUME i # j PROVE FALSE
  <2>1. outs[i].num + 1 <= outs[j].num \/ outs[j].num + 1 <= outs[i].num
    BY <1>1, <1>2, <1>4, <1>8, BeforeApart
  <2> HIDE DEF p, q
  <2> QED
    BY <1>1, <1>2, <1>3, <1>5, <1>6, <1>7, <2>1 DEF HandleAt
<1> QED
  BY <1>4, <1>8

(* What else a reply holds lies elsewhere.                                 *)
LEMMA HandlePlace ==
    ASSUME NEW shape, WellFormed(shape), is_domainobj \in BOOLEAN,
           NEW kind \in {"move", "copy"}, NEW i \in Of(shape.outs, kind),
           NEW at, at = HandleAt(shape, kind, shape.outs[i].num),
           is_domainobj /\ kind = "move" => DataBytes(shape.outs) = 0
    PROVE  /\ at \in Nat /\ at + 3 \in Address
           /\ \A q \in GenBufPieces(shape) \cup DataPieces(shape) \cup {Result(shape)} :
                \A a \in at .. at + 3 : ~Covers(q, a)
<1> DEFINE outs == shape.outs
           P == PayloadOf(shape)
           A == AlignedStart(shape)
           m == shape.moves
           n == shape.copies
           num == outs[i].num
<1>1. num \in Nat /\ num < IF kind = "move" THEN m ELSE n
  BY OutHandles
<1>2. /\ m \in 0 .. 2 /\ n \in Nat /\ shape.bytes \in Nat /\ P \in Nat /\ A \in Nat /\ 16 <= A /\ A <= P
      /\ ReplyStart(m, n) \in Nat /\ ReplyStart(m, n) <= A /\ P + 16 + shape.bytes <= Size
  BY ReplyPlaces
<1>3. m = 0 \/ n = 0
  BY DEF WellFormed
<1>4. at \in Nat /\ 12 <= at /\ (at + 4 <= A \/ P + 16 <= at) /\ at + 4 <= Size
  <2>1. CASE is_domainobj /\ kind = "move"
    <3>1. n = 0
      BY <1>1, <1>2, <1>3, <2>1
    <3>2. A = 16
      <4>1. ReplyStart(m, n) = 8
        BY <2>1, <3>1 DEF ReplyStart, HandlesFollow
      <4> QED
        BY <4>1 DEF AlignedStart, AlignUp
    <3>3. P = 32
      BY <2>1, <3>2 DEF PayloadOf
    <3>4. at = P + 16 + 4 * num
      BY <2>1 DEF HandleAt
    <3>5. num \in 0 .. 1
      BY <1>1, <1>2, <2>1
    <3> QED
      BY <3>3, <3>4, <3>5, SizeAssumption
  <2>2. CASE ~(is_domainobj /\ kind = "move")
    <3>1. HandlesFollow(m, n)
      BY <1>1, <1>2, <2>2 DEF HandlesFollow
    <3>2. ReplyStart(m, n) = 8 + 4 * (1 + m + n)
      BY <3>1 DEF ReplyStart
    <3>3. at = IF kind = "copy" THEN 12 + 4 * num ELSE 12 + 4 * (n + num)
      BY <2>2 DEF HandleAt
    <3>4. at \in Nat /\ 12 <= at /\ at + 4 <= ReplyStart(m, n)
      BY <1>1, <1>2, <3>2, <3>3
    <3> QED
      BY <1>2, <3>4, SizeAssumption
  <2> QED
    BY <2>1, <2>2
<1>5. at + 3 \in Address
  BY <1>4, SizeAssumption DEF Address
<1>6. ASSUME NEW q \in GenBufPieces(shape), NEW a \in at .. at + 3 PROVE ~Covers(q, a)
  <2>1. \A x, thing : Word(x, thing).at = x /\ Word(x, thing).size = 4
    BY DEF Word, Piece
  <2>2. \E x, thing : q = Word(x, thing) /\ (x = 4 \/ x = 8 \/ x = A \/ x = P)
    BY ReplyLayers, ZenonT(60)
  <2>3. q.size = 4 /\ (q.at = 4 \/ q.at = 8 \/ q.at = A \/ q.at = P)
    BY <2>1, <2>2
  <2>4. P = A \/ P = A + 16
    BY <1>2 DEF PayloadOf
  <2> HIDE DEF P, A
  <2> QED
    BY <1>2, <1>4, <2>3, <2>4 DEF Covers
<1>7. ASSUME NEW q \in DataPieces(shape), NEW a \in at .. at + 3 PROVE ~Covers(q, a)
  <2>1. PICK j \in Of(outs, "data") : q = Piece(P + 8 + outs[j].at, outs[j].size, Thing("value", j))
    BY DEF DataPieces
  <2>2. Span(q, P + 16, P + 16 + shape.bytes) /\ q.size = outs[j].size
    BY <2>1, DataSpans DEF Piece
  <2>3. CASE at + 4 <= A
    <3> HIDE DEF P, A
    <3> QED
      BY <1>2, <1>4, <2>2, <2>3 DEF Span, Covers
  <2>4. CASE ~(at + 4 <= A)
    <3>1. is_domainobj /\ kind = "move"
      <4>1. SUFFICES ASSUME ~(is_domainobj /\ kind = "move") PROVE at + 4 <= A
        BY <2>4
      <4>2. HandlesFollow(m, n)
        BY <1>1, <1>2, <4>1 DEF HandlesFollow
      <4>3. ReplyStart(m, n) = 8 + 4 * (1 + m + n)
        BY <4>2 DEF ReplyStart
      <4>4. at = IF kind = "copy" THEN 12 + 4 * num ELSE 12 + 4 * (n + num)
        BY <4>1 DEF HandleAt
      <4>5. at + 4 <= ReplyStart(m, n)
        BY <1>1, <1>2, <4>3, <4>4
      <4> QED
        BY <1>2, <1>4, <4>5
    <3>2. outs \in Seq(Parameter) /\ DataBytes(outs) = 0
      BY <3>1 DEF WellFormed
    <3>3. outs[j].size \in Nat /\ Start(outs, j) \in Nat /\ Start(outs, j) + outs[j].size <= DataBytes(outs)
      BY <3>2, DataPlaces
    <3>4. q.size = 0
      BY <2>2, <3>2, <3>3
    <3> QED
      BY <1>4, <2>2, <3>4 DEF Span, Covers
  <2> QED
    BY <2>3, <2>4
<1>8. ASSUME NEW a \in at .. at + 3 PROVE ~Covers(Result(shape), a)
  <2>1. Result(shape).at = P + 8 /\ Result(shape).size = 4
    BY DEF Result, Word, Piece
  <2> HIDE DEF P, A
  <2> QED
    BY <1>2, <1>4, <2>1 DEF Covers
<1> QED
  BY <1>4, <1>5, <1>6, <1>7, <1>8

(* A handle or an object that was returned stands in its place, and the    *)
(* place of one that was not is zero.                                      *)
LEMMA ReplyHandle ==
    ASSUME NEW shape, WellFormed(shape), is_domainobj \in BOOLEAN, NEW set,
           NEW kind \in {"move", "copy"}, NEW i \in Of(shape.outs, kind),
           NEW at, at = HandleAt(shape, kind, shape.outs[i].num),
           is_domainobj /\ kind = "move" => DataBytes(shape.outs) = 0
    PROVE  Bytes(Reply(shape, set), at, 4) =
             IF i \in set THEN Whole(Thing("object", i), 4) ELSE [k \in 0 .. 3 |-> Byte(Zero, 0)]
<1> DEFINE q == HandlePiece(shape, kind, i)
           r1 == Over(Filled(Zero), GenBufPieces(shape))
           r2 == Over(r1, DataPieces(shape))
           r3 == Over(r2, HandlePieces(shape, set))
           r == Reply(shape, set)
<1>1. /\ at \in Nat /\ at + 3 \in Address
      /\ \A p \in GenBufPieces(shape) \cup DataPieces(shape) \cup {Result(shape)} :
           \A a \in at .. at + 3 : ~Covers(p, a)
  BY HandlePlace
<1>2. q.at = at /\ q.size = 4 /\ q.thing = Thing("object", i)
  BY DEF HandlePiece, Word, Piece
<1>3. r = Over(r3, {Result(shape)})
  BY ReplyLayers
<1> HIDE DEF q, r
<1>4. ASSUME NEW k \in 0 .. 3
      PROVE  /\ at + k \in Address
             /\ r[at + k] = IF i \in set THEN Byte(Thing("object", i), k) ELSE Byte(Zero, 0)
  <2> DEFINE a == at + k
  <2>1. a \in Address /\ a \in at .. at + 3 /\ a \in Nat /\ a - at = k
    BY <1>1, SizeAssumption DEF Address
  <2>2. Covers(q, a)
    BY <1>1, <1>2, <2>1 DEF Covers
  <2> HIDE DEF a
  <2>3. \A p \in HandlePieces(shape, set) : Covers(p, a) => p = q /\ i \in set
    <3> SUFFICES ASSUME NEW p \in HandlePieces(shape, set), Covers(p, a) PROVE p = q /\ i \in set
      OBVIOUS
    <3>1. PICK other \in {"move", "copy"} : \E j \in Of(shape.outs, other) \cap set : p = HandlePiece(shape, other, j)
      BY HandlePiecesAre
    <3>2. PICK j \in Of(shape.outs, other) \cap set : p = HandlePiece(shape, other, j)
      BY <3>1
    <3>3. kind = other /\ i = j
      <4>1. Covers(HandlePiece(shape, kind, i), a) /\ Covers(HandlePiece(shape, other, j), a)
        BY <2>2, <3>2 DEF q
      <4> QED
        BY <2>1, <4>1, HandlesApart
    <3> QED
      BY <3>2, <3>3 DEF q
  <2>4. r[a] = r3[a]
    BY <1>1, <1>3, <2>1, OverElsewhere
  <2>5. CASE i \in set
    <3>1. q \in HandlePieces(shape, set)
      <4>1. i \in Of(shape.outs, kind) \cap set
        BY <2>5
      <4> QED
        BY <4>1, HandlePiecesAre DEF q
    <3>2. r3[a] = Byte(q.thing, a - q.at)
      BY <2>1, <2>2, <2>3, <3>1, OverAt
    <3> QED
      BY <1>2, <2>1, <2>4, <2>5, <3>2 DEF a
  <2>6. CASE i \notin set
    <3>1. r3[a] = r2[a]
      BY <2>1, <2>3, <2>6, OverElsewhere
    <3>2. r2[a] = r1[a]
      BY <1>1, <2>1, OverElsewhere
    <3>3. r1[a] = Filled(Zero)[a]
      BY <1>1, <2>1, OverElsewhere
    <3> QED
      BY <2>1, <2>4, <2>6, <3>1, <3>2, <3>3 DEF Filled, a
  <2> QED
    BY <2>1, <2>5, <2>6 DEF a
<1>5. Bytes(r, at, 4) = [k \in 0 .. 3 |-> r[at + k]]
  BY <1>4 DEF Bytes
<1>6. CASE i \in set
  BY <1>4, <1>5, <1>6 DEF Whole, r
<1>7. CASE i \notin set
  BY <1>4, <1>5, <1>7 DEF r
<1> QED
  BY <1>6, <1>7

(* Nothing of a reply lies behind what its header announces.               *)
LEMMA ReplyEnds ==
    ASSUME NEW shape, WellFormed(shape), is_domainobj \in BOOLEAN, NEW set,
           NEW q \in GenBufPieces(shape) \cup DataPieces(shape) \cup HandlePieces(shape, set) \cup {Result(shape)}
    PROVE  /\ q.at \in Nat /\ q.size \in Nat /\ WordsOf(shape) \in Nat
           /\ q.at + q.size <= ReplyStart(shape.moves, shape.copies) + 4 * WordsOf(shape)
<1> DEFINE m == shape.moves
           n == shape.copies
           bytes == shape.bytes
           S == ReplyStart(m, n)
           A == AlignedStart(shape)
           P == PayloadOf(shape)
           words == WordsOf(shape)
           f == IF is_domainobj THEN 4 ELSE 0
<1>1. /\ m \in 0 .. 2 /\ n \in Nat /\ bytes \in Nat
      /\ S \in Nat /\ A \in Nat /\ P \in Nat
      /\ S <= A /\ A <= S + 15 /\ 16 <= A
  BY ReplyPlaces
<1>2. f \in {0, 4} /\ P = A + 4 * f
  BY DEF PayloadOf
<1>3. /\ words \in Nat /\ words >= 8 + f
      /\ 4 * words >= 32 + 4 * f + bytes
      /\ (is_domainobj /\ m # 0 => words >= 9 + f)
  <2> DEFINE h == (IF is_domainobj THEN 4 * m ELSE 0) \div 4
             d == bytes \div 4
             e == bytes % 4
             dw == IF h + e # 0 THEN d + 1 ELSE d
  <2>1. words = 8 + f + dw
    BY DEF WordsOf, ReplyWords
  <2>2. h = IF is_domainobj THEN m ELSE 0
    BY <1>1
  <2>3. d \in Nat /\ e \in 0 .. 3 /\ bytes = d * 4 + e
    BY <1>1, DivMod4
  <2> HIDE DEF h, d, e
  <2>4. h \in Nat /\ (is_domainobj /\ m # 0 => h # 0)
    BY <1>1, <2>2
  <2>5. dw \in Nat /\ 4 * dw >= bytes
    BY <2>3, <2>4
  <2>6. h # 0 => dw >= 1
    BY <2>3, <2>4
  <2> HIDE DEF dw, words, f
  <2>7. words \in Nat /\ words >= 8 + f
    BY <1>2, <2>1, <2>5
  <2>8. 4 * words >= 32 + 4 * f + bytes
    BY <1>1, <1>2, <2>1, <2>5
  <2>9. is_domainobj /\ m # 0 => words >= 9 + f
    BY <1>2, <2>1, <2>4, <2>5, <2>6
  <2> QED
    BY <2>7, <2>8, <2>9
<1>4. S >= 8
  BY <1>1 DEF ReplyStart
<1> HIDE DEF S, A, P, words, f
<1>5. CASE q \in GenBufPieces(shape)
  <2>1. q.size = 4 /\ (q.at = 4 \/ q.at = 8 \/ q.at = A \/ q.at = P)
    <3>1. \A at, thing : Word(at, thing).at = at /\ Word(at, thing).size = 4
      BY DEF Word, Piece
    <3>2. \E at, thing : q = Word(at, thing) /\ (at = 4 \/ at = 8 \/ at = A \/ at = P)
      BY <1>5, ReplyLayers, ZenonT(60) DEF A, P
    <3> QED
      BY <3>1, <3>2
  <2> QED
    BY <1>1, <1>2, <1>3, <1>4, <2>1 DEF S, words
<1>6. CASE q \in DataPieces(shape)
  <2>1. Span(q, P + 16, P + 16 + bytes)
    BY <1>6, DataSpans DEF P
  <2> QED
    BY <1>1, <1>2, <1>3, <2>1 DEF Span, S, words
<1>7. CASE q \in HandlePieces(shape, set)
  <2>1. \/ Span(q, 12, S)
        \/ is_domainobj /\ Span(q, P + 16, P + 16 + 4 * m)
    BY <1>7, HandleSpans DEF S, P
  <2>2. CASE Span(q, 12, S)
    BY <1>1, <1>3, <2>2 DEF Span, S, words
  <2>3. CASE is_domainobj /\ Span(q, P + 16, P + 16 + 4 * m)
    <3>1. CASE m = 0
      BY <1>1, <1>2, <1>3, <2>3, <3>1 DEF Span, S, words
    <3>2. CASE m # 0
      <4>1. n = 0
        BY <3>2 DEF WellFormed
      <4>2. S = 8
        BY <2>3, <4>1 DEF S, ReplyStart, HandlesFollow
      <4>3. A = 16
        BY <4>2 DEF A, S, AlignedStart, AlignUp
      <4>4. words >= 9 + f
        BY <1>3, <2>3, <3>2
      <4> QED
        BY <1>1, <1>2, <1>3, <2>3, <4>2, <4>3, <4>4 DEF Span, S, words
    <3> QED
      BY <3>1, <3>2
  <2> QED
    BY <2>1, <2>2, <2>3
<1>8. CASE q = Result(shape)
  <2>1. q.at = P + 8 /\ q.size = 4
    BY <1>8 DEF Result, Word, Piece, P
  <2> QED
    BY <1>1, <1>2, <1>3, <2>1 DEF S, words
<1> QED
  BY <1>5, <1>6, <1>7, <1>8

LEMMA ReplyBehind ==
    ASSUME NEW shape, WellFormed(shape), is_domainobj \in BOOLEAN, NEW set,
           NEW k \in Address, ReplyStart(shape.moves, shape.copies) + 4 * WordsOf(shape) <= k
    PROVE  Reply(shape, set)[k].thing = Zero
<1> DEFINE r1 == Over(Filled(Zero), GenBufPieces(shape))
           r2 == Over(r1, DataPieces(shape))
           r3 == Over(r2, HandlePieces(shape, set))
<1>1. ASSUME NEW q \in GenBufPieces(shape) \cup DataPieces(shape) \cup HandlePieces(shape, set) \cup {Result(shape)}
      PROVE  ~Covers(q, k)
  <2>1. /\ q.at \in Nat /\ q.size \in Nat /\ WordsOf(shape) \in Nat
        /\ q.at + q.size <= ReplyStart(shape.moves, shape.copies) + 4 * WordsOf(shape)
    BY ReplyEnds
  <2>2. k \in Nat /\ ReplyStart(shape.moves, shape.copies) \in Nat
    BY ReplyPlaces, SizeAssumption DEF Address
  <2> QED
    BY <2>1, <2>2 DEF Covers
<1>2. Reply(shape, set)[k] = r3[k]
  <2>1. Reply(shape, set) = Over(r3, {Result(shape)})
    BY ReplyLayers
  <2> HIDE DEF r3
  <2> QED
    BY <1>1, <2>1, OverElsewhere
<1>3. r3[k] = r2[k]
  BY <1>1, OverElsewhere
<1>4. r2[k] = r1[k]
  BY <1>1, OverElsewhere
<1>5. r1[k] = Filled(Zero)[k]
  BY <1>1, OverElsewhere
<1> QED
  BY <1>2, <1>3, <1>4, <1>5 DEF Filled, Byte

(* The client recomputes from the counts where the payload starts.         *)
LEMMA ReplyFound ==
    ASSUME NEW shape, WellFormed(shape), is_domainobj \in BOOLEAN, NEW set,
           NEW b, b = Reply(shape, set), NEW c, NEW at, at = ReplyLayout(b, c)
    PROVE  /\ at.raw_at = ReplyStart(shape.moves, shape.copies)
           /\ at.end = ReplyStart(shape.moves, shape.copies) + 4 * WordsOf(shape)
           /\ at.payload = AlignedStart(shape) + (IF Framed(c) THEN 16 ELSE 0)
           /\ at.copies = shape.copies /\ (~is_domainobj => at.moves = shape.moves)
           /\ at.copy_at = 12 /\ at.move_at = 12 + 4 * shape.copies
<1> DEFINE m == shape.moves
           n == shape.copies
           hd == HandlesOf(shape)
<1>1. /\ b[4].thing = Sizes(WordsOf(shape), hd)
      /\ hd => b[8].thing = HandleCounts(FALSE, n, IF is_domainobj THEN 0 ELSE m)
  BY ReplyReads
<1>2. m \in 0 .. 2 /\ n \in Nat /\ (m = 0 \/ n = 0)
  BY ReplyPlaces DEF WellFormed
<1>3. b[4].thing.hd = hd /\ b[4].thing.words = WordsOf(shape)
  BY <1>1 DEF Sizes
<1>4. hd => b[8].thing.copies = n /\ b[8].thing.moves = IF is_domainobj THEN 0 ELSE m
  BY <1>1 DEF HandleCounts
<1>5. hd <=> (m # 0 /\ ~is_domainobj) \/ n # 0
  BY DEF HandlesOf, HandlesFollow
<1>6. ReplyStart(m, n) = 8 + (IF hd THEN 4 * (1 + m + n) ELSE 0)
  BY DEF ReplyStart, HandlesOf
<1> HIDE DEF hd
<1>7. /\ at.copies = IF hd THEN b[8].thing.copies ELSE 0
      /\ at.moves = IF hd THEN b[8].thing.moves ELSE 0
      /\ at.raw_at = IF hd THEN 12 + 4 * (at.copies + at.moves) ELSE 8
      /\ at.end = at.raw_at + 4 * b[4].thing.words
      /\ at.copy_at = 12 /\ at.move_at = 12 + 4 * at.copies
      /\ at.payload = AlignUp(at.raw_at, 16) + (IF Framed(c) THEN 16 ELSE 0)
  BY <1>3 DEF ReplyLayout
<1>8. at.copies = n /\ at.moves = IF is_domainobj THEN 0 ELSE m
  BY <1>2, <1>4, <1>5, <1>7
<1>9. at.raw_at = ReplyStart(m, n)
  <2>1. CASE hd
    <3>1. is_domainobj => m = 0
      BY <1>2, <1>5, <2>1
    <3>2. at.raw_at = 12 + 4 * (n + m)
      BY <1>2, <1>7, <1>8, <2>1, <3>1
    <3> QED
      BY <1>2, <1>6, <2>1, <3>2
  <2>2. CASE ~hd
    BY <1>6, <1>7, <2>2
  <2> QED
    BY <2>1, <2>2
<1> QED
  BY <1>3, <1>7, <1>8, <1>9 DEF AlignedStart
-----------------------------------------------------------------------------
(* While a request is on its way the message is what the client wrote.     *)
SentIsRequest ==
  phase = "sent" => /\ Sendable(call) /\ call.domain = is_domainobj
                    /\ buf = Request(call)

(* What Dispatch takes out of a request.                                   *)
Taken(c) ==
  LET req == ParseMessage(Request(c))
  IN [i \in Requested(c.shape) |-> Handed(Request(c), req, Params(c.shape)[i])]

(* An answered command has been taken from its request, and the message is *)
(* the reply.                                                              *)
AnsweredIsReply ==
  phase = "answered" /\ call.type = 4 =>
    /\ Sendable(call) /\ call.domain = is_domainobj
    /\ got = Taken(call)
    /\ buf = Reply(call.shape, returned)

IInv == TypeOK /\ SentIsRequest /\ AnsweredIsReply

(* The shapes of all calls are well-formed.                                *)
LEMMA ShapesWellFormed ==
    /\ \A shape \in Commands : WellFormed(shape)
    /\ \A id \in 0 .. 4 : WellFormed(ControlShape(id))
    /\ WellFormed(Plain({}).shape) /\ WellFormed(Opens({}).shape) /\ WellFormed(Returns({}, 4).shape)
<1>1. \A shape \in Commands : WellFormed(shape)
  BY ShapesAssumption
<1>2. \A id \in 0 .. 4 : WellFormed(ControlShape(id))
  BY ShapesAssumption
<1>3. ControlShape(1) = Plain({}).shape /\ ControlShape(2) = Opens({}).shape /\ ControlShape(3) = Returns({}, 4).shape
  BY DEF ControlShape
<1> QED
  BY <1>1, <1>2, <1>3

(* Sending keeps the invariant.                                            *)
LEMMA SendKeeps ==
    ASSUME IInv, NEW type \in {4, 2, 5}, NEW id, NEW shape, WellFormed(shape), NEW pointed,
           Send(Call(type, id, shape, pointed))
    PROVE  IInv'
<1> DEFINE c == Call(type, id, shape, pointed)
<1>1. /\ Fits(c) /\ phase' = "sent" /\ call' = c /\ buf' = Request(c)
      /\ is_domainobj' = is_domainobj /\ is_domainobj \in BOOLEAN
  BY DEF Send, IInv, TypeOK
<1>2. c.type = type /\ c.shape = shape /\ c.domain = is_domainobj
  BY DEF Call
<1>3. Sendable(c)
  BY <1>1, <1>2 DEF Sendable
<1>4. DOMAIN Request(c) = Address
  BY DEF Request, Over
<1> HIDE DEF c
<1>5. TypeOK'
  BY <1>1, <1>2, <1>4 DEF TypeOK
<1>6. SentIsRequest'
  <2>1. Sendable(call') /\ call'.domain = is_domainobj'
    BY <1>1, <1>2, <1>3
  <2>2. buf' = Request(call')
    BY <1>1
  <2> QED
    BY <2>1, <2>2 DEF SentIsRequest, Sendable
<1>7. AnsweredIsReply'
  BY <1>1 DEF AnsweredIsReply
<1> QED
  BY <1>5, <1>6, <1>7 DEF IInv

(* A request that has arrived is of the type it was sent with.             *)
LEMMA ReceivedType ==
    ASSUME IInv, NEW type, Received(type)
    PROVE  /\ phase = "sent" /\ Sendable(call) /\ call.domain = is_domainobj
           /\ call.type = type /\ is_domainobj \in BOOLEAN
<1>1. phase = "sent" /\ Sendable(call) /\ call.domain = is_domainobj /\ buf = Request(call)
  BY DEF Received, IInv, SentIsRequest
<1>2. ParseMessage(Request(call)).type = call.type
  BY <1>1, RequestParsed
<1> QED
  BY <1>1, <1>2 DEF Received, IInv, TypeOK

(* Each step keeps the invariant.                                          *)
LEMMA StepKeeps ==
    ASSUME IInv, [Next]_vars
    PROVE  IInv'
<1>1. CASE SendCommand
  <2>1. PICK shape \in Commands : \E pointed : Send(Call(4, 0, shape, pointed))
    BY <1>1 DEF SendCommand
  <2>2. PICK pointed : Send(Call(4, 0, shape, pointed))
    BY <2>1
  <2>3. WellFormed(shape)
    BY ShapesWellFormed
  <2> QED
    BY <2>2, <2>3, SendKeeps
<1>2. CASE SendUnknown
  BY <1>2, ShapesWellFormed, SendKeeps DEF SendUnknown
<1>3. CASE SendControl
  BY <1>3, ShapesWellFormed, SendKeeps DEF SendControl
<1>4. CASE SendClose
  BY <1>4, ShapesWellFormed, SendKeeps DEF SendClose
<1>5. ASSUME NEW shape, NEW set, Answer(shape, set), call' = call, is_domainobj' \in BOOLEAN,
             call.type = 4 => /\ Of(Params(call.shape), "buffer") \subseteq DOMAIN got'
                              /\ AnsweredIsReply'
      PROVE  IInv'
  <2>1. phase' = "answered" /\ buf' = Reply(shape, set)
    BY <1>5 DEF Answer
  <2>2. DOMAIN Reply(shape, set) = Address
    BY DEF Reply, Over
  <2>3. TypeOK'
    BY <1>5, <2>1, <2>2 DEF IInv, TypeOK
  <2>4. SentIsRequest'
    BY <2>1 DEF SentIsRequest
  <2>5. AnsweredIsReply'
    BY <1>5 DEF AnsweredIsReply
  <2> QED
    BY <2>3, <2>4, <2>5 DEF IInv
<1>6. CASE Normal
  <2>1. PICK set : Answer(call.shape, set)
    BY <1>6 DEF Normal
  <2>2. DOMAIN got' = Requested(call.shape)
    BY <1>6 DEF Normal
  <2>3. Of(Params(call.shape), "buffer") \subseteq Requested(call.shape)
    BY DEF Of, Requested
  <2>4. call' = call /\ is_domainobj' \in BOOLEAN
    BY <1>6 DEF Normal, IInv, TypeOK
  <2>5. Sendable(call) /\ call.domain = is_domainobj /\ buf = Request(call)
    BY <1>6 DEF Normal, Received, IInv, SentIsRequest
  <2>6. got' = Taken(call) /\ is_domainobj' = is_domainobj
    BY <1>6, <2>5 DEF Normal, Taken
  <2>7. buf' = Reply(call.shape, set) /\ returned' = set
    BY <2>1 DEF Answer
  <2>8. AnsweredIsReply'
    <3>1. Sendable(call)' /\ call'.domain = is_domainobj'
      BY <2>4, <2>5, <2>6 DEF Sendable, Fits, Layout
    <3>2. got' = Taken(call)'
      BY <2>4, <2>6 DEF Taken, ParseMessage, DomainHeader
    <3>3. buf' = Reply(call.shape, returned)'
      BY <2>4, <2>6, <2>7 DEF Reply, GenBuf, HandlesFollow, ReplyStart, ReplyWords, SetMove
    <3> QED
      BY <3>1, <3>2, <3>3 DEF AnsweredIsReply
  <2> QED
    BY <1>5, <2>1, <2>2, <2>3, <2>4, <2>8
<1>7. CASE DuplicateSession
  <2>1. Received(5) /\ Answer(Opens({}).shape, {1}) /\ call' = call /\ is_domainobj' = FALSE
    BY <1>7 DEF DuplicateSession
  <2>2. call.type = 5
    BY <2>1, ReceivedType
  <2>3. is_domainobj' \in BOOLEAN
    BY <2>1
  <2> QED
    BY <1>5, <2>1, <2>2, <2>3
<1>8. CASE QueryPointerBufferSize
  <2>1. Received(5) /\ Answer(Returns({}, 4).shape, {}) /\ call' = call /\ is_domainobj' = is_domainobj
    BY <1>8 DEF QueryPointerBufferSize
  <2> QED
    BY <1>5, <2>1, ReceivedType
<1>9. ASSUME phase' \in {"echoed", "aborted"}, UNCHANGED <<call, buf, got>>, is_domainobj' \in BOOLEAN
      PROVE  IInv'
  BY <1>9 DEF IInv, TypeOK, SentIsRequest, AnsweredIsReply
<1>10. CASE NormalFails
  BY <1>9, <1>10 DEF NormalFails, Abort, IInv, TypeOK
<1>11. CASE ControlFails
  BY <1>9, <1>11 DEF ControlFails, Abort, IInv, TypeOK
<1>12. CASE ConvertSessionToDomain
  BY <1>9, <1>12 DEF ConvertSessionToDomain, Echo
<1>13. CASE Close
  BY <1>9, <1>13 DEF Close, Echo, IInv, TypeOK
<1>14. CASE Receive
  <2>1. DOMAIN Filled(Stale) = Address /\ NoCall.type = 2 /\ NoCall.domain = FALSE
    BY DEF Filled, NoCall
  <2> QED
    BY <1>14, <2>1 DEF Receive, IInv, TypeOK, SentIsRequest, AnsweredIsReply
<1>15. CASE UNCHANGED vars
  <2>1. TypeOK'
    BY <1>15 DEF vars, IInv, TypeOK
  <2>2. SentIsRequest'
    BY <1>15 DEF vars, IInv, SentIsRequest
  <2>3. AnsweredIsReply'
    <3>1. UNCHANGED <<phase, call, got, buf, returned, is_domainobj>>
      BY <1>15 DEF vars
    <3>2. UNCHANGED Taken(call)
      BY <3>1 DEF Taken, ParseMessage, DomainHeader
    <3>3. UNCHANGED Reply(call.shape, returned)
      BY <3>1 DEF Reply, GenBuf, HandlesFollow, ReplyStart, ReplyWords, SetMove
    <3>4. UNCHANGED Sendable(call)
      BY <3>1 DEF Sendable, Fits, Layout
    <3> QED
      BY <3>1, <3>2, <3>3, <3>4 DEF IInv, AnsweredIsReply
  <2> QED
    BY <2>1, <2>2, <2>3 DEF IInv
<1>16. CASE Aborted
  BY <1>15, <1>16 DEF Aborted
<1> QED
  BY <1>1, <1>2, <1>3, <1>4, <1>6, <1>7, <1>8, <1>10, <1>11, <1>12, <1>13, <1>14, <1>15, <1>16 DEF Next

(* The invariant holds initially.                                          *)
LEMMA InitHolds ==
    ASSUME Init
    PROVE  IInv
<1>1. DOMAIN Filled(Stale) = Address /\ NoCall.type = 2 /\ NoCall.domain = FALSE
  BY DEF Filled, NoCall
<1> QED
  BY <1>1 DEF Init, IInv, TypeOK, SentIsRequest, AnsweredIsReply

LEMMA Invariant == Spec => []IInv
<1>1. Init => IInv
  BY InitHolds
<1>2. IInv /\ [Next]_vars => IInv'
  BY StepKeeps
<1> QED
  BY <1>1, <1>2, PTL DEF Spec

(* A reply is written by the process, in the framing of the call.          *)
LEMMA AnsweredByReply ==
    ASSUME IInv, Next, phase' = "answered"
    PROVE  /\ call.domain = is_domainobj /\ is_domainobj \in BOOLEAN /\ call' = call
           /\ \E shape, set : WellFormed(shape) /\ buf' = Reply(shape, set)
<1>1. CASE Normal
  <2>1. PICK set : Answer(call.shape, set)
    BY <1>1 DEF Normal
  <2>2. Sendable(call) /\ call.domain = is_domainobj /\ is_domainobj \in BOOLEAN /\ call' = call
    BY <1>1, ReceivedType DEF Normal
  <2> QED
    BY <2>1, <2>2 DEF Answer, Sendable
<1>2. CASE DuplicateSession
  <2>1. Received(5) /\ Answer(Opens({}).shape, {1}) /\ call' = call
    BY <1>2 DEF DuplicateSession
  <2> QED
    BY <2>1, ReceivedType, ShapesWellFormed DEF Answer
<1>3. CASE QueryPointerBufferSize
  <2>1. Received(5) /\ Answer(Returns({}, 4).shape, {}) /\ call' = call
    BY <1>3 DEF QueryPointerBufferSize
  <2> QED
    BY <2>1, ReceivedType, ShapesWellFormed DEF Answer
<1>4. ~(SendCommand \/ SendUnknown \/ SendControl \/ SendClose)
  BY DEF SendCommand, SendUnknown, SendControl, SendClose, Send
<1>5. ~(NormalFails \/ ControlFails \/ ConvertSessionToDomain \/ Close \/ Receive \/ Aborted)
  BY DEF NormalFails, ControlFails, ConvertSessionToDomain, Close, Receive, Aborted, Abort, Echo, vars
<1> QED
  BY <1>1, <1>2, <1>3, <1>4, <1>5 DEF Next
-----------------------------------------------------------------------------
(* The variables hold what their comments say (Ipc.cpp, ProcMessage).      *)
THEOREM TypeCorrect == Spec => []TypeOK
<1>1. IInv => TypeOK
  BY DEF IInv
<1> QED
  BY <1>1, Invariant, PTL

(* ParseMessage finds the descriptors, the raw data, the payload and the   *)
(* command of every request where the client put them (Ipc.cpp 6-46).      *)
THEOREM RequestsFramed == Spec => []RequestFramed
<1>1. IInv => RequestFramed
  <2> SUFFICES ASSUME IInv, phase = "sent"
               PROVE  LET at == Layout(call)
                          req == ParseMessage(buf)
                      IN /\ req.type = call.type /\ req.desc_off = at.X /\ req.raw_off = at.raw_at
                         /\ req.payload_off = at.payload /\ req.cmd_id = Thing("command", call.id)
    BY DEF RequestFramed
  <2>1. Sendable(call) /\ call.domain = is_domainobj /\ buf = Request(call)
    BY DEF IInv, SentIsRequest
  <2> QED
    BY <2>1, RequestParsed
<1> QED
  BY <1>1, Invariant, PTL

(* The client finds the magic word and the result of every reply by the    *)
(* counts in its header (Ipc.cpp 48-80).                                   *)
THEOREM RepliesFramed == Spec => []ReplyFramed
<1>1. Init => ReplyFramed
  BY DEF Init, ReplyFramed
<1>2. IInv /\ ReplyFramed /\ [Next]_vars => ReplyFramed'
  <2> SUFFICES ASSUME IInv, ReplyFramed, [Next]_vars, phase' = "answered"
               PROVE  LET payload == ReplyLayout(buf', call').payload + Shift'
                      IN /\ Bytes(buf', payload, 4) = Whole(Thing("SFCO", 0), 4)
                         /\ Bytes(buf', payload + 8, 4) = Whole(Thing("result", 0), 4)
    BY DEF ReplyFramed, Bytes, ReplyLayout, Framed
  <2>1. CASE Next
    <3>1. call.domain = is_domainobj /\ is_domainobj \in BOOLEAN /\ call' = call
      BY <2>1, AnsweredByReply
    <3>2. PICK shape, set : WellFormed(shape) /\ buf' = Reply(shape, set)
      BY <2>1, AnsweredByReply
    <3>3. ReplyLayout(buf', call').payload = AlignedStart(shape) + (IF Framed(call) THEN 16 ELSE 0)
      BY <3>1, <3>2, ReplyFound
    <3>4. Shift' = IF is_domainobj /\ ~Framed(call) THEN 16 ELSE 0
      BY <3>1 DEF Shift
    <3>5. AlignedStart(shape) \in Nat
      BY <3>1, <3>2, ReplyPlaces
    <3>6. Framed(call) => is_domainobj
      BY <3>1 DEF Framed
    <3>7. ReplyLayout(buf', call').payload + Shift' = PayloadOf(shape)
      BY <3>1, <3>3, <3>4, <3>5, <3>6 DEF PayloadOf
    <3>8. /\ Bytes(buf', PayloadOf(shape), 4) = Whole(Thing("SFCO", 0), 4)
          /\ Bytes(buf', PayloadOf(shape) + 8, 4) = Whole(Thing("result", 0), 4)
      BY <3>1, <3>2, ReplyReads
    <3> QED
      BY <3>7, <3>8
  <2>2. CASE UNCHANGED vars
    BY <2>2 DEF vars, ReplyFramed, ReplyLayout, Shift, Framed, Bytes
  <2> QED
    BY <2>1, <2>2
<1> QED
  BY <1>1, <1>2, Invariant, PTL DEF Spec

(* The size in the header of a reply covers all that was written (Ipc.cpp  *)
(* 66-69), although the sum in it is tested and not added.                 *)
THEOREM RepliesSized == Spec => []ReplySized
<1>1. Init => ReplySized
  BY DEF Init, ReplySized
<1>2. IInv /\ ReplySized /\ [Next]_vars => ReplySized'
  <2> SUFFICES ASSUME IInv, ReplySized, [Next]_vars, phase' = "answered",
                      NEW k \in Address, buf'[k].thing # Zero
               PROVE  k < ReplyLayout(buf', call').end
    BY DEF ReplySized
  <2>1. CASE Next
    <3>1. call.domain = is_domainobj /\ is_domainobj \in BOOLEAN /\ call' = call
      BY <2>1, AnsweredByReply
    <3>2. PICK shape, set : WellFormed(shape) /\ buf' = Reply(shape, set)
      BY <2>1, AnsweredByReply
    <3> DEFINE end == ReplyStart(shape.moves, shape.copies) + 4 * WordsOf(shape)
    <3>3. ReplyLayout(buf', call').end = end
      BY <3>1, <3>2, ReplyFound
    <3>4. ~(end <= k)
      BY <3>1, <3>2, ReplyBehind
    <3>5. end \in Nat
      <4>1. Result(shape) \in GenBufPieces(shape) \cup DataPieces(shape) \cup HandlePieces(shape, set) \cup {Result(shape)}
        OBVIOUS
      <4>2. WordsOf(shape) \in Nat
        BY <3>1, <3>2, <4>1, ReplyEnds
      <4>3. ReplyStart(shape.moves, shape.copies) \in Nat
        BY <3>1, <3>2, ReplyPlaces
      <4> QED
        BY <4>2, <4>3
    <3>6. k \in Nat
      BY SizeAssumption DEF Address
    <3> HIDE DEF end
    <3> QED
      BY <3>3, <3>4, <3>5, <3>6
  <2>2. CASE UNCHANGED vars
    BY <2>2 DEF vars, ReplySized, ReplyLayout, Framed
  <2> QED
    BY <2>1, <2>2
<1> QED
  BY <1>1, <1>2, Invariant, PTL DEF Spec

(* A reply carries every value, copied handle and moved object to where    *)
(* the client reads it, but for what the objects of a domain replace       *)
(* (Ipc.cpp 48-80, include/Ipc.hpp 75-104, GenIpcStubs.py 195-254).        *)
THEOREM RepliesUnderstood == Spec => []ReplyUnderstood
<1>1. IInv => ReplyUnderstood
  <2> SUFFICES ASSUME IInv, phase = "answered", call.type = 4
               PROVE  ReplyUnderstood
    BY DEF ReplyUnderstood
  <2> DEFINE shape == call.shape
             outs == shape.outs
             set == returned
             at == ReplyLayout(buf, call)
             P == PayloadOf(shape)
             A == AlignedStart(shape)
             handle(i, place) ==
               Bytes(buf, place, 4) =
                 IF i \in returned THEN Whole(Thing("object", i), 4) ELSE [k \in 0 .. 3 |-> Byte(Zero, 0)]
  <2>1. /\ WellFormed(shape) /\ call.domain = is_domainobj /\ is_domainobj \in BOOLEAN
        /\ buf = Reply(shape, set)
    BY DEF IInv, TypeOK, AnsweredIsReply, Sendable
  <2>2. Framed(call) <=> is_domainobj
    BY <2>1 DEF Framed
  <2>3. /\ at.payload = A + (IF is_domainobj THEN 16 ELSE 0)
        /\ at.copies = shape.copies /\ (~is_domainobj => at.moves = shape.moves)
        /\ at.copy_at = 12 /\ at.move_at = 12 + 4 * shape.copies
    BY <2>1, <2>2, ReplyFound
  <2>4. at.payload = P
    BY <2>3 DEF PayloadOf
  <2>5. P \in Nat /\ A \in Nat /\ shape.moves \in Nat /\ shape.copies \in Nat
    BY <2>1, ReplyPlaces
  <2>6. /\ outs \in Seq(Parameter) /\ Placed(outs)
        /\ shape.moves = Cardinality(Of(outs, "move")) /\ shape.copies = Cardinality(Of(outs, "copy"))
    BY <2>1 DEF WellFormed
  <2> HIDE DEF at
  <2>7. ASSUME NEW i \in Of(outs, "data"), NEW k \in Late(outs[i]) .. outs[i].size - 1
        PROVE  \/ Replaced(Start(outs, i) + k)
               \/ buf[at.payload + 16 + Start(outs, i) + k] = Byte(Thing("value", i), k - Late(outs[i]))
    <3> DEFINE late == Late(outs[i])
               a == P + 16 + Start(outs, i) + k
    <3>1. /\ Start(outs, i) \in Nat /\ outs[i].size \in Nat /\ outs[i].align \in Nat \ {0}
          /\ outs[i].at = 8 + Start(outs, i) + late
      BY <2>6, DataPlaces DEF Placed
    <3>2. late \in Nat
      BY <3>1, LateType
    <3> HIDE DEF late
    <3>3. k - late \in 0 .. outs[i].size - 1 /\ k \in Nat
      BY <3>1, <3>2, <2>7 DEF late
    <3>4. a = P + 8 + outs[i].at + (k - late)
      BY <2>5, <3>1, <3>2, <3>3
    <3>5. CASE is_domainobj /\ ~(P + 16 + 4 * shape.moves <= a)
      <4>1. Start(outs, i) + k < 4 * shape.moves
        BY <2>5, <3>1, <3>3, <3>5
      <4> QED
        BY <2>2, <3>5, <4>1 DEF Replaced
    <3>6. CASE is_domainobj => P + 16 + 4 * shape.moves <= a
      <4>1. Reply(shape, set)[a] = Byte(Thing("value", i), k - late)
        BY <2>1, <3>3, <3>4, <3>6, ReplyData
      <4> QED
        BY <2>1, <2>4, <4>1 DEF late
    <3> QED
      BY <3>5, <3>6
  <2>8. ASSUME NEW i \in Of(outs, "copy")
        PROVE  handle(i, at.copy_at + 4 * Before(Of(outs, "copy"), i))
    <3>1. outs[i].num = Before(Of(outs, "copy"), i)
      BY <2>1, OutHandles
    <3>2. HandleAt(shape, "copy", outs[i].num) = at.copy_at + 4 * Before(Of(outs, "copy"), i)
      BY <2>3, <3>1 DEF HandleAt
    <3>3. Bytes(Reply(shape, set), HandleAt(shape, "copy", outs[i].num), 4) =
            IF i \in set THEN Whole(Thing("object", i), 4) ELSE [k \in 0 .. 3 |-> Byte(Zero, 0)]
      BY <2>1, ReplyHandle
    <3> QED
      BY <2>1, <3>2, <3>3
  <2>9. ASSUME NEW i \in Of(outs, "move"), is_domainobj => DataBytes(outs) = 0
        PROVE  handle(i, (IF is_domainobj THEN at.payload + 16 ELSE at.move_at) + 4 * Before(Of(outs, "move"), i))
    <3> DEFINE n == Before(Of(outs, "move"), i)
    <3>1. outs[i].num = n /\ n \in Nat
      BY <2>1, OutHandles
    <3> HIDE DEF n
    <3>2. HandleAt(shape, "move", outs[i].num) = (IF is_domainobj THEN at.payload + 16 ELSE at.move_at) + 4 * n
      BY <2>3, <2>4, <2>5, <3>1 DEF HandleAt
    <3>3. Bytes(Reply(shape, set), HandleAt(shape, "move", outs[i].num), 4) =
            IF i \in set THEN Whole(Thing("object", i), 4) ELSE [k \in 0 .. 3 |-> Byte(Zero, 0)]
      BY <2>1, <2>9, ReplyHandle
    <3> QED
      BY <2>1, <3>2, <3>3 DEF n
  <2>10. is_domainobj => buf[at.payload - 16].thing = Thing("objects", Cardinality(Of(outs, "move")))
    <3> SUFFICES ASSUME is_domainobj PROVE buf[at.payload - 16].thing = Thing("objects", Cardinality(Of(outs, "move")))
      OBVIOUS
    <3>1. at.payload - 16 = A
      BY <2>3, <2>5
    <3>2. Reply(shape, set)[A].thing = Thing("objects", shape.moves)
      BY <2>1, ReplyReads, ZenonT(60)
    <3> QED
      BY <2>1, <2>6, <3>1, <3>2
  <2>11. ASSUME NEW i \in Of(outs, "move")
         PROVE  LET n == Before(Of(outs, "move"), i)
                IN IF Framed(call)
                   THEN /\ buf[at.payload - 16].thing = Thing("objects", Cardinality(Of(outs, "move")))
                        /\ DataBytes(outs) = 0 => handle(i, at.payload + 16 + 4 * n)
                   ELSE /\ at.moves = Cardinality(Of(outs, "move"))
                        /\ handle(i, at.move_at + 4 * n)
    <3> HIDE DEF handle, shape
    <3>1. CASE is_domainobj
      BY <2>2, <2>9, <2>10, <3>1
    <3>2. CASE ~is_domainobj
      BY <2>2, <2>3, <2>6, <2>9, <3>2
    <3> QED
      BY <3>1, <3>2
  <2> QED
    BY <2>3, <2>6, <2>7, <2>8, <2>11 DEF ReplyUnderstood, at
<1> QED
  BY <1>1, Invariant, PTL
-----------------------------------------------------------------------------
(* A request is read as it was written: its pieces lie apart, each in its  *)
(* zone of the message and, where a zone holds several, in its slot there. *)

Apart(p, q) == p.at + p.size <= q.at \/ q.at + q.size <= p.at

(* A piece that lies apart from all others is read whole.                  *)
LEMMA PieceWhole ==
    ASSUME NEW b, NEW pieces, NEW p \in pieces, Span(p, 0, Size),
           \A q \in pieces : q # p => q.at \in Nat /\ q.size \in Nat /\ Apart(p, q),
           NEW k \in Nat, k < p.size
    PROVE  p.at + k \in Address /\ Over(b, pieces)[p.at + k] = Byte(p.thing, k)
<1>1. p.at \in Nat /\ p.size \in Nat /\ p.at + p.size <= Size
  BY DEF Span
<1>2. p.at + k \in Address /\ p.at + k \in Nat /\ (p.at + k) - p.at = k
  BY <1>1, SizeAssumption DEF Address
<1>3. Covers(p, p.at + k)
  BY <1>1 DEF Covers
<1>4. ASSUME NEW q \in pieces, Covers(q, p.at + k) PROVE q = p
  <2>1. q.at <= p.at + k /\ p.at + k < q.at + q.size
    BY <1>4 DEF Covers
  <2>2. q # p => q.at \in Nat /\ q.size \in Nat /\ (p.at + p.size <= q.at \/ q.at + q.size <= p.at)
    BY DEF Apart
  <2> QED
    BY <1>1, <2>1, <2>2
<1>5. Over(b, pieces)[p.at + k] = Byte(p.thing, (p.at + k) - p.at)
  BY <1>2, <1>3, <1>4, OverAt
<1> QED
  BY <1>2, <1>5

LEMMA PieceBytes ==
    ASSUME NEW b, NEW pieces, NEW p \in pieces, Span(p, 0, Size),
           \A q \in pieces : q # p => q.at \in Nat /\ q.size \in Nat /\ Apart(p, q),
           NEW n \in Nat, n <= p.size
    PROVE  Bytes(Over(b, pieces), p.at, n) = Whole(p.thing, n)
<1>1. p.at \in Nat /\ p.size \in Nat
  BY DEF Span
<1>2. ASSUME NEW k \in 0 .. n - 1
      PROVE  p.at + k \in Address /\ Over(b, pieces)[p.at + k] = Byte(p.thing, k)
  <2>1. k \in Nat /\ k < p.size
    BY <1>1
  <2> QED
    BY <2>1, PieceWhole
<1> QED
  BY <1>2 DEF Bytes, Whole

(* The slot of the i-th parameter among those in S, each of w bytes.       *)
Slot(base, w, S, i) == base + w * Before(S, i)

LEMMA SlotSpan ==
    ASSUME NEW base \in Nat, NEW w \in {4, 8, 12}, NEW S, IsFiniteSet(S), S \subseteq Nat, NEW i \in S
    PROVE  Slot(base, w, S, i) \in Nat /\ base <= Slot(base, w, S, i)
           /\ Slot(base, w, S, i) + w <= base + w * Cardinality(S)
<1>1. Before(S, i) \in Nat /\ Before(S, i) < Cardinality(S) /\ Cardinality(S) \in Nat
  BY BeforeBound, FS_CardinalityType
<1> DEFINE n == Before(S, i)
           m == Cardinality(S)
<1>2. Slot(base, w, S, i) = base + w * n
  BY DEF Slot
<1>3. n \in Nat /\ m \in Nat /\ n < m
  BY <1>1
<1> HIDE DEF n, m
<1>4. CASE w = 4
  BY <1>2, <1>3, <1>4 DEF m
<1>5. CASE w = 8
  BY <1>2, <1>3, <1>5 DEF m
<1>6. CASE w = 12
  BY <1>2, <1>3, <1>6 DEF m
<1> QED
  BY <1>4, <1>5, <1>6

LEMMA SlotsApart ==
    ASSUME NEW base \in Nat, NEW w \in {4, 8, 12}, NEW S, IsFiniteSet(S), S \subseteq Nat,
           NEW i \in S, NEW j \in S, i # j
    PROVE  \/ Slot(base, w, S, i) + w <= Slot(base, w, S, j)
           \/ Slot(base, w, S, j) + w <= Slot(base, w, S, i)
<1> DEFINE n == Before(S, i)
           m == Before(S, j)
<1>1. n \in Nat /\ m \in Nat /\ (n + 1 <= m \/ m + 1 <= n)
  BY BeforeApart
<1>2. Slot(base, w, S, i) = base + w * n /\ Slot(base, w, S, j) = base + w * m
  BY DEF Slot
<1> HIDE DEF n, m
<1>4. CASE w = 4
  BY <1>1, <1>2, <1>4
<1>5. CASE w = 8
  BY <1>1, <1>2, <1>5
<1>6. CASE w = 12
  BY <1>1, <1>2, <1>6
<1> QED
  BY <1>4, <1>5, <1>6

(* A function that grows from each place to the next grows.                *)
LEMMA Grows ==
    ASSUME NEW n \in Nat, NEW f \in [0 .. n -> Nat], \A i \in 0 .. (n - 1) : f[i] <= f[i + 1],
           NEW i \in 0 .. n, NEW j \in 0 .. n, i <= j
    PROVE  f[i] <= f[j]
<1> DEFINE S == {k \in 0 .. n : i <= k => f[i] <= f[k]}
<1>1. 0 \in S
  OBVIOUS
<1>2. ASSUME NEW k \in 0 .. (n - 1), k \in S PROVE k + 1 \in S
  <2>1. k \in 0 .. n /\ k + 1 \in 0 .. n /\ f[k] <= f[k + 1]
    OBVIOUS
  <2>2. f[i] \in Nat /\ f[k] \in Nat /\ f[k + 1] \in Nat
    BY <2>1
  <2> QED
    BY <1>2, <2>1, <2>2
<1>3. 0 .. n \subseteq S
  <2> HIDE DEF S
  <2> QED
    BY <1>1, <1>2, IntervalInduction
<1>4. j \in S
  BY <1>3
<1> QED
  BY <1>4

(* The zones of a request: the head, the process number, copied and moved  *)
(* handles, X, A and B descriptors, the payload up to the command, the     *)
(* arguments, and C descriptors.  Zone z lies between its edge and the     *)
(* next.                                                                   *)
Edge(at) ==
  [z \in 0 .. 10 |->
     CASE z = 0 -> 0
       [] z = 1 -> IF at.hd THEN 12 ELSE 8
       [] z = 2 -> IF at.hd THEN at.copy_at ELSE 8
       [] z = 3 -> IF at.hd THEN at.move_at ELSE 8
       [] z = 4 -> at.X
       [] z = 5 -> at.A
       [] z = 6 -> at.B
       [] z = 7 -> at.raw_at
       [] z = 8 -> at.payload + 12
       [] z = 9 -> at.C
       [] z = 10 -> Size]

InZone(q, at, z) == Span(q, Edge(at)[z], Edge(at)[z + 1])

(* What LayoutOrder does not say of the places of a request.               *)
LEMMA LayoutEnds ==
    ASSUME NEW c, Sendable(c), NEW at, at = Layout(c)
    PROVE  /\ at.pid = (Of(c.shape.ins, "pid") # {})
           /\ DataBytes(c.shape.ins) \in Nat /\ at.payload + 16 + DataBytes(c.shape.ins) <= at.C
           /\ Uses(c, "C") \in Nat /\ at.C + 8 * Uses(c, "C") <= Size
<1> DEFINE ps == Params(c.shape)
           ins == c.shape.ins
           D == DataBytes(ins)
           f == IF Framed(c) THEN 4 ELSE 0
<1>1. ps \in Seq(Parameter) /\ ins \in Seq(Parameter)
  BY ParamsType DEF Sendable, WellFormed
<1>2. D \in Nat
  BY <1>1, EndDef DEF DataBytes
<1>3. Using(ps, "C") \subseteq DOMAIN ps
  BY DEF Using, Of
<1>4. Uses(c, "C") \in Nat
  BY <1>1, <1>3, PlacesFinite DEF Uses
<1>5. at.C + 8 * Uses(c, "C") <= Size
  BY DEF Sendable, Fits, Uses
<1>6. /\ at.pid = (Of(ins, "pid") # {})
      /\ at.words = 8 + f + (D + 3) \div 4
      /\ at.C = at.raw_at + 4 * at.words
      /\ at.payload = AlignUp(at.raw_at, 16) + 4 * f
  BY DEF Layout
<1>7. f \in {0, 4}
  OBVIOUS
<1>8. at.raw_at \in Nat
  <2>1. /\ at.copies \in Nat /\ at.moves \in Nat
        /\ at.copy_at = IF at.pid THEN 20 ELSE 12
        /\ at.X = IF at.hd THEN at.copy_at + 4 * (at.copies + at.moves) ELSE 8
        /\ at.A = at.X + 8 * Uses(c, "X") /\ Uses(c, "X") \in Nat
        /\ at.B = at.A + 12 * Uses(c, "A") /\ Uses(c, "A") \in Nat
        /\ at.raw_at = at.B + 12 * Uses(c, "B") /\ Uses(c, "B") \in Nat
    BY LayoutOrder
  <2> QED
    BY <2>1
<1> HIDE DEF D, f
<1>9. AlignUp(at.raw_at, 16) \in Nat /\ AlignUp(at.raw_at, 16) <= at.raw_at + 15
  BY <1>8, AlignUp16
<1>10. 4 * ((D + 3) \div 4) >= D /\ (D + 3) \div 4 \in Nat
  BY <1>2
<1>11. at.payload + 16 + D <= at.C
  BY <1>2, <1>6, <1>7, <1>8, <1>9, <1>10
<1> QED
  BY <1>2, <1>4, <1>5, <1>6, <1>11 DEF D

LEMMA EdgesGrow ==
    ASSUME NEW c, Sendable(c), NEW at, at = Layout(c)
    PROVE  /\ Edge(at) \in [0 .. 10 -> Nat]
           /\ \A z \in 0 .. 9 : Edge(at)[z] <= Edge(at)[z + 1]
<1>1. /\ at.hd \in BOOLEAN /\ at.pid \in BOOLEAN
      /\ at.copies \in Nat /\ at.moves \in Nat
      /\ at.copy_at = IF at.pid THEN 20 ELSE 12
      /\ at.move_at = at.copy_at + 4 * at.copies
      /\ at.X = IF at.hd THEN at.copy_at + 4 * (at.copies + at.moves) ELSE 8
      /\ at.A = at.X + 8 * Uses(c, "X") /\ Uses(c, "X") \in Nat
      /\ at.B = at.A + 12 * Uses(c, "A") /\ Uses(c, "A") \in Nat
      /\ at.raw_at = at.B + 12 * Uses(c, "B") /\ Uses(c, "B") \in Nat
      /\ at.words \in Nat /\ at.C = at.raw_at + 4 * at.words
      /\ at.payload \in Nat /\ at.raw_at <= at.payload - (IF Framed(c) THEN 16 ELSE 0)
      /\ at.payload + 12 <= at.C /\ at.C <= Size
  BY LayoutOrder
<1>2. /\ at.copy_at \in Nat /\ at.move_at \in Nat /\ at.X \in Nat /\ at.A \in Nat /\ at.B \in Nat
      /\ at.raw_at \in Nat /\ at.C \in Nat /\ at.payload \in Nat /\ Size \in Nat
      /\ 12 <= at.copy_at /\ at.copy_at <= at.move_at /\ (at.hd => at.move_at <= at.X) /\ 8 <= at.X
      /\ at.X <= at.A /\ at.A <= at.B /\ at.B <= at.raw_at /\ at.raw_at <= at.payload
      /\ at.payload + 12 <= at.C /\ at.C <= Size
  BY <1>1, SizeAssumption
<1>3. Edge(at) \in [0 .. 10 -> Nat]
  BY <1>1, <1>2 DEF Edge
<1> DEFINE e == Edge(at)
<1>4. /\ e[0] = 0 /\ e[1] = (IF at.hd THEN 12 ELSE 8) /\ e[2] = (IF at.hd THEN at.copy_at ELSE 8)
      /\ e[3] = (IF at.hd THEN at.move_at ELSE 8) /\ e[4] = at.X /\ e[5] = at.A /\ e[6] = at.B
      /\ e[7] = at.raw_at /\ e[8] = at.payload + 12 /\ e[9] = at.C /\ e[10] = Size
  BY DEF Edge
<1> HIDE DEF e
<1>5. /\ e[0] <= e[1] /\ e[1] <= e[2] /\ e[2] <= e[3] /\ e[3] <= e[4] /\ e[4] <= e[5]
      /\ e[5] <= e[6] /\ e[6] <= e[7] /\ e[7] <= e[8] /\ e[8] <= e[9] /\ e[9] <= e[10]
  BY <1>1, <1>2, <1>4
<1>6. \A z \in 0 .. 9 : e[z] <= e[z + 1]
  BY <1>5
<1> QED
  BY <1>3, <1>6 DEF e

(* Pieces of two zones lie apart.                                          *)
LEMMA ZonesApart ==
    ASSUME NEW c, Sendable(c), NEW at, at = Layout(c),
           NEW y \in 0 .. 9, NEW z \in 0 .. 9, y # z,
           NEW p, InZone(p, at, y), NEW q, InZone(q, at, z)
    PROVE  Apart(p, q)
<1> DEFINE e == Edge(at)
<1>1. e \in [0 .. 10 -> Nat] /\ \A x \in 0 .. 9 : e[x] <= e[x + 1]
  BY EdgesGrow
<1>7. 10 \in Nat /\ \A x \in 0 .. (10 - 1) : e[x] <= e[x + 1]
  BY <1>1
<1>2. /\ p.at \in Nat /\ p.size \in Nat /\ e[y] <= p.at /\ p.at + p.size <= e[y + 1]
      /\ q.at \in Nat /\ q.size \in Nat /\ e[z] <= q.at /\ q.at + q.size <= e[z + 1]
  BY DEF InZone, Span
<1>3. y \in 0 .. 10 /\ y + 1 \in 0 .. 10 /\ z \in 0 .. 10 /\ z + 1 \in 0 .. 10
  OBVIOUS
<1> HIDE DEF e
<1>4. e[y] \in Nat /\ e[y + 1] \in Nat /\ e[z] \in Nat /\ e[z + 1] \in Nat
  BY <1>1, <1>3
<1>5. CASE y < z
  <2>1. y + 1 <= z
    BY <1>5
  <2>2. e[y + 1] <= e[z]
    BY <1>1, <1>7, <1>3, <2>1, Grows
  <2> QED
    BY <1>2, <1>4, <2>2 DEF Apart
<1>6. CASE z < y
  <2>1. z + 1 <= y
    BY <1>6
  <2>2. e[z + 1] <= e[y]
    BY <1>1, <1>7, <1>3, <2>1, Grows
  <2> QED
    BY <1>2, <1>4, <2>2 DEF Apart
<1> QED
  BY <1>5, <1>6

SentPid == Piece(12, 8, Thing("pid", 0))
HandleBase(at, kind) == IF kind = "copy" THEN at.copy_at ELSE at.move_at
SentHandle(c, at, kind, i) ==
  Word(Slot(HandleBase(at, kind), 4, Of(c.shape.ins, kind), i), Thing("handle", i))
SentDescriptor(c, at, d, i) ==
  Piece(Slot(at[d], DescriptorSize(d), Using(Params(c.shape), d), i), DescriptorSize(d), Described(c, d, i))
SentArgument(c, at, i) ==
  Piece(at.payload + 16 + Start(c.shape.ins, i), c.shape.ins[i].size, Thing("argument", i))

HandleZone(kind) == IF kind = "copy" THEN 2 ELSE 3
DescriptorZone(d) == IF d = "X" THEN 4 ELSE IF d = "A" THEN 5 ELSE IF d = "B" THEN 6 ELSE 9

(* The edges as LayoutOrder gives them.                                    *)
LEMMA EdgesAre ==
    ASSUME NEW c, Sendable(c), NEW at, at = Layout(c)
    PROVE  /\ Edge(at)[0] = 0 /\ Edge(at)[1] = (IF at.hd THEN 12 ELSE 8)
           /\ Edge(at)[2] = (IF at.hd THEN at.copy_at ELSE 8)
           /\ Edge(at)[3] = (IF at.hd THEN at.move_at ELSE 8)
           /\ Edge(at)[4] = at.X /\ Edge(at)[5] = at.A /\ Edge(at)[6] = at.B
           /\ Edge(at)[7] = at.raw_at /\ Edge(at)[8] = at.payload + 12
           /\ Edge(at)[9] = at.C /\ Edge(at)[10] = Size
           /\ at.X \in Nat /\ at.A \in Nat /\ at.B \in Nat /\ at.C \in Nat
           /\ at.copy_at \in Nat /\ at.move_at \in Nat /\ at.raw_at \in Nat /\ at.payload \in Nat
<1>1. /\ at.copies \in Nat /\ at.moves \in Nat
      /\ at.copy_at = IF at.pid THEN 20 ELSE 12
      /\ at.move_at = at.copy_at + 4 * at.copies
      /\ at.X = IF at.hd THEN at.copy_at + 4 * (at.copies + at.moves) ELSE 8
      /\ at.A = at.X + 8 * Uses(c, "X") /\ Uses(c, "X") \in Nat
      /\ at.B = at.A + 12 * Uses(c, "A") /\ Uses(c, "A") \in Nat
      /\ at.raw_at = at.B + 12 * Uses(c, "B") /\ Uses(c, "B") \in Nat
      /\ at.words \in Nat /\ at.C = at.raw_at + 4 * at.words
      /\ at.payload \in Nat
  BY LayoutOrder
<1>2. /\ at.copy_at \in Nat /\ at.move_at \in Nat /\ at.X \in Nat /\ at.A \in Nat /\ at.B \in Nat
      /\ at.raw_at \in Nat /\ at.C \in Nat
  BY <1>1
<1> QED
  BY <1>1, <1>2 DEF Edge

LEMMA HandleInZone ==
    ASSUME NEW c, Sendable(c), NEW at, at = Layout(c),
           NEW kind \in {"copy", "move"}, NEW i \in Of(c.shape.ins, kind)
    PROVE  /\ InZone(SentHandle(c, at, kind, i), at, HandleZone(kind))
           /\ SentHandle(c, at, kind, i).size = 4
           /\ SentHandle(c, at, kind, i).at = Slot(HandleBase(at, kind), 4, Of(c.shape.ins, kind), i)
           /\ SentHandle(c, at, kind, i).thing = Thing("handle", i)
           /\ IsFiniteSet(Of(c.shape.ins, kind)) /\ Of(c.shape.ins, kind) \subseteq Nat
           /\ HandleBase(at, kind) \in Nat /\ at.hd
<1> DEFINE ins == c.shape.ins
           S == Of(ins, kind)
           s == Slot(HandleBase(at, kind), 4, S, i)
           q == SentHandle(c, at, kind, i)
           e == Edge(at)
<1>1. ins \in Seq(Parameter) /\ S \subseteq DOMAIN ins
  BY DEF Sendable, WellFormed, Of
<1>2. IsFiniteSet(S) /\ S \subseteq Nat /\ Cardinality(S) \in Nat
  BY <1>1, PlacesFinite
<1>3. /\ at.hd \in BOOLEAN
      /\ at.copies = Cardinality(Of(ins, "copy")) /\ at.copies \in Nat
      /\ at.moves = Cardinality(Of(ins, "move")) /\ at.moves \in Nat
      /\ at.hd <=> at.pid \/ at.copies + at.moves > 0
      /\ at.copy_at = IF at.pid THEN 20 ELSE 12
      /\ at.move_at = at.copy_at + 4 * at.copies
      /\ at.X = IF at.hd THEN at.copy_at + 4 * (at.copies + at.moves) ELSE 8
  BY LayoutOrder
<1>4. q.at = s /\ q.size = 4 /\ q.thing = Thing("handle", i)
  BY DEF SentHandle, Word, Piece
<1>5. HandleBase(at, kind) \in Nat
  BY <1>3 DEF HandleBase
<1>6. s \in Nat /\ HandleBase(at, kind) <= s /\ s + 4 <= HandleBase(at, kind) + 4 * Cardinality(S)
  BY <1>2, <1>5, SlotSpan
<1>7. at.hd
  <2>1. Cardinality(S) > 0
    BY <1>2, <1>5, <1>6
  <2>2. Cardinality(S) = at.copies \/ Cardinality(S) = at.moves
    BY <1>3
  <2>3. at.copies + at.moves > 0
    BY <1>3, <2>1, <2>2
  <2> QED
    BY <1>3, <2>3
<1>8. e[2] = at.copy_at /\ e[3] = at.move_at /\ e[4] = at.X
  BY <1>7, EdgesAre
<1> HIDE DEF s, q, e
<1>9. CASE kind = "copy"
  <2>1. HandleBase(at, kind) = at.copy_at /\ HandleZone(kind) = 2 /\ Cardinality(S) = at.copies
    BY <1>3, <1>9 DEF HandleBase, HandleZone
  <2>2. at.copy_at <= s /\ s + 4 <= at.move_at
    BY <1>3, <1>6, <2>1
  <2> QED
    BY <1>2, <1>4, <1>5, <1>6, <1>7, <1>8, <2>1, <2>2 DEF InZone, Span, e, s, q
<1>10. CASE kind = "move"
  <2>1. HandleBase(at, kind) = at.move_at /\ HandleZone(kind) = 3 /\ Cardinality(S) = at.moves
    BY <1>3, <1>10 DEF HandleBase, HandleZone
  <2>2. at.move_at <= s /\ s + 4 <= at.X
    BY <1>3, <1>6, <1>7, <2>1
  <2> QED
    BY <1>2, <1>4, <1>5, <1>6, <1>7, <1>8, <2>1, <2>2 DEF InZone, Span, e, s, q
<1> QED
  BY <1>9, <1>10

LEMMA DescriptorInZone ==
    ASSUME NEW c, Sendable(c), NEW at, at = Layout(c),
           NEW d \in {"X", "A", "B", "C"}, NEW i \in Using(Params(c.shape), d)
    PROVE  /\ InZone(SentDescriptor(c, at, d, i), at, DescriptorZone(d))
           /\ SentDescriptor(c, at, d, i).size = DescriptorSize(d)
           /\ SentDescriptor(c, at, d, i).at = Slot(at[d], DescriptorSize(d), Using(Params(c.shape), d), i)
           /\ SentDescriptor(c, at, d, i).thing = Described(c, d, i)
           /\ IsFiniteSet(Using(Params(c.shape), d)) /\ Using(Params(c.shape), d) \subseteq Nat
           /\ at[d] \in Nat
<1> DEFINE ps == Params(c.shape)
           S == Using(ps, d)
           w == DescriptorSize(d)
           s == Slot(at[d], w, S, i)
           q == SentDescriptor(c, at, d, i)
           e == Edge(at)
           z == DescriptorZone(d)
<1>1. ps \in Seq(Parameter) /\ S \subseteq DOMAIN ps
  BY ParamsType DEF Sendable, Using, Of
<1>2. IsFiniteSet(S) /\ S \subseteq Nat
  BY <1>1, PlacesFinite
<1>3. w \in {4, 8, 12} /\ w \in Nat
  BY DEF DescriptorSize
<1>4. /\ at.X \in Nat /\ at.A \in Nat /\ at.B \in Nat /\ at.C \in Nat /\ at.raw_at \in Nat
      /\ e[4] = at.X /\ e[5] = at.A /\ e[6] = at.B /\ e[7] = at.raw_at /\ e[9] = at.C /\ e[10] = Size
  BY EdgesAre
<1>5. at[d] \in Nat
  BY <1>4
<1>6. s \in Nat /\ at[d] <= s /\ s + w <= at[d] + w * Uses(c, d)
  BY <1>2, <1>3, <1>5, SlotSpan DEF Uses
<1>7. q.at = s /\ q.size = w /\ q.thing = Described(c, d, i)
  BY DEF SentDescriptor, Piece
<1>8. /\ at.A = at.X + 8 * Uses(c, "X") /\ at.B = at.A + 12 * Uses(c, "A")
      /\ at.raw_at = at.B + 12 * Uses(c, "B")
  BY LayoutOrder
<1>9. Uses(c, "C") \in Nat /\ at.C + 8 * Uses(c, "C") <= Size
  BY LayoutEnds
<1>10. e[z] = at[d] /\ at[d] + w * Uses(c, d) <= e[z + 1]
  <2> HIDE DEF e
  <2>1. CASE d = "X"
    <3>1. z = 4 /\ z + 1 = 5 /\ w = 8 /\ at[d] = at.X
      BY <2>1 DEF DescriptorZone, DescriptorSize
    <3> QED
      BY <1>4, <1>8, <2>1, <3>1
  <2>2. CASE d = "A"
    <3>1. z = 5 /\ z + 1 = 6 /\ w = 12 /\ at[d] = at.A
      BY <2>2 DEF DescriptorZone, DescriptorSize
    <3> QED
      BY <1>4, <1>8, <2>2, <3>1
  <2>3. CASE d = "B"
    <3>1. z = 6 /\ z + 1 = 7 /\ w = 12 /\ at[d] = at.B
      BY <2>3 DEF DescriptorZone, DescriptorSize
    <3> QED
      BY <1>4, <1>8, <2>3, <3>1
  <2>4. CASE d = "C"
    <3>1. z = 9 /\ z + 1 = 10 /\ w = 8 /\ at[d] = at.C
      BY <2>4 DEF DescriptorZone, DescriptorSize
    <3> QED
      BY <1>4, <1>9, <2>4, <3>1
  <2> QED
    BY <2>1, <2>2, <2>3, <2>4
<1>11. Uses(c, d) \in Nat /\ e[z + 1] \in Nat
  <2>1. Uses(c, d) \in Nat
    BY <1>1, PlacesFinite DEF Uses
  <2>2. e \in [0 .. 10 -> Nat]
    BY EdgesGrow
  <2>3. z + 1 \in 0 .. 10
    BY DEF DescriptorZone
  <2> HIDE DEF e, z
  <2> QED
    BY <2>1, <2>2, <2>3
<1>12. w * Uses(c, d) \in Nat
  BY <1>3, <1>11
<1> HIDE DEF s, q, e, z, w
<1>13. e[z] <= s /\ s + w <= e[z + 1]
  BY <1>3, <1>5, <1>6, <1>10, <1>11, <1>12
<1>14. Span(q, e[z], e[z + 1])
  BY <1>3, <1>6, <1>7, <1>13 DEF Span
<1> QED
  BY <1>2, <1>5, <1>7, <1>14 DEF InZone, e, z, q, s, w

LEMMA ArgumentInZone ==
    ASSUME NEW c, Sendable(c), NEW at, at = Layout(c), NEW i \in Of(c.shape.ins, "data")
    PROVE  /\ InZone(SentArgument(c, at, i), at, 8)
           /\ SentArgument(c, at, i).size = c.shape.ins[i].size
           /\ SentArgument(c, at, i).at = at.payload + 16 + Start(c.shape.ins, i)
           /\ SentArgument(c, at, i).thing = Thing("argument", i)
           /\ at.payload \in Nat /\ Start(c.shape.ins, i) \in Nat
<1> DEFINE ins == c.shape.ins
           q == SentArgument(c, at, i)
           t == Start(ins, i)
           u == ins[i].size
           D == DataBytes(ins)
<1>1. ins \in Seq(Parameter)
  BY DEF Sendable, WellFormed
<1>2. u \in Nat /\ t \in Nat /\ D \in Nat /\ t + u <= D
  BY <1>1, DataPlaces
<1>3. at.payload + 16 + D <= at.C
  BY LayoutEnds
<1>4. /\ at.payload \in Nat /\ at.C \in Nat
      /\ Edge(at)[8] = at.payload + 12 /\ Edge(at)[8 + 1] = at.C
  BY EdgesAre
<1>5. q.at = at.payload + 16 + t /\ q.size = u /\ q.thing = Thing("argument", i)
  BY DEF SentArgument, Piece
<1> HIDE DEF q, t, u, D
<1>6. InZone(q, at, 8)
  BY <1>2, <1>3, <1>4, <1>5 DEF InZone, Span
<1> QED
  BY <1>2, <1>4, <1>5, <1>6 DEF q, t, u

(* Each piece of a request is in a zone and, but for the head and the      *)
(* payload's own words, is the piece of one parameter.                     *)
InItsZone(c, at, q, z) ==
  /\ InZone(q, at, z)
  /\ z = 1 => at.pid /\ q = SentPid
  /\ z \in {2, 3} => \E kind \in {"copy", "move"} :
                       \E i \in Of(c.shape.ins, kind) : z = HandleZone(kind) /\ q = SentHandle(c, at, kind, i)
  /\ z \in {4, 5, 6, 9} => \E d \in {"X", "A", "B", "C"} :
                       \E i \in Using(Params(c.shape), d) :
                         z = DescriptorZone(d) /\ q = SentDescriptor(c, at, d, i)
  /\ z = 8 => \E i \in Of(c.shape.ins, "data") : q = SentArgument(c, at, i)

LEMMA PidInZone ==
    ASSUME NEW c, Sendable(c), NEW at, at = Layout(c), at.pid
    PROVE  InZone(SentPid, at, 1) /\ SentPid.at = 12 /\ SentPid.size = 8 /\ SentPid.thing = Thing("pid", 0)
<1>1. SentPid.at = 12 /\ SentPid.size = 8 /\ SentPid.thing = Thing("pid", 0)
  BY DEF SentPid, Piece
<1>2. at.hd /\ at.copy_at = 20
  BY LayoutOrder
<1>3. Edge(at)[1] = 12 /\ Edge(at)[1 + 1] = 20
  BY <1>2, EdgesAre
<1> QED
  BY <1>1, <1>3 DEF InZone, Span

LEMMA RequestZones ==
    ASSUME NEW c, Sendable(c), NEW at, at = Layout(c), NEW q \in RequestPieces(c, at)
    PROVE  \E z \in 0 .. 9 : InItsZone(c, at, q, z)
<1>1. /\ at.hd \in BOOLEAN /\ at.pid \in BOOLEAN
      /\ at.raw_at <= at.payload - (IF Framed(c) THEN 16 ELSE 0)
  BY LayoutOrder
<1>2. /\ at.raw_at \in Nat /\ at.payload \in Nat
      /\ Edge(at)[0] = 0 /\ Edge(at)[0 + 1] = (IF at.hd THEN 12 ELSE 8)
      /\ Edge(at)[7] = at.raw_at /\ Edge(at)[7 + 1] = at.payload + 12
  BY EdgesAre
<1>3. CASE q \in Opening(c, at)
  <2>1. q.size = 4 /\ (q.at = 0 \/ q.at = 4 \/ (at.hd /\ q.at = 8))
    BY <1>3 DEF Opening, Handles, Word, Piece
  <2>2. InZone(q, at, 0)
    BY <1>1, <1>2, <2>1 DEF InZone, Span
  <2>3. InItsZone(c, at, q, 0)
    BY <2>2 DEF InItsZone
  <2> QED
    BY <2>3
<1>4. CASE at.pid /\ q = SentPid
  <2>1. InItsZone(c, at, q, 1)
    BY <1>4, PidInZone DEF InItsZone
  <2> QED
    BY <2>1
<1>5. CASE \E kind \in {"copy", "move"} : \E i \in Of(c.shape.ins, kind) : q = SentHandle(c, at, kind, i)
  <2>1. PICK kind \in {"copy", "move"} : \E i \in Of(c.shape.ins, kind) : q = SentHandle(c, at, kind, i)
    BY <1>5
  <2>2. PICK i \in Of(c.shape.ins, kind) : q = SentHandle(c, at, kind, i)
    BY <2>1
  <2>3. InZone(q, at, HandleZone(kind))
    BY <2>2, HandleInZone
  <2>4. HandleZone(kind) \in {2, 3}
    BY DEF HandleZone
  <2>5. InItsZone(c, at, q, HandleZone(kind))
    BY <2>2, <2>3, <2>4 DEF InItsZone
  <2> QED
    BY <2>4, <2>5
<1>6. CASE \E d \in {"X", "A", "B", "C"} : \E i \in Using(Params(c.shape), d) : q = SentDescriptor(c, at, d, i)
  <2>1. PICK d \in {"X", "A", "B", "C"} : \E i \in Using(Params(c.shape), d) : q = SentDescriptor(c, at, d, i)
    BY <1>6
  <2>2. PICK i \in Using(Params(c.shape), d) : q = SentDescriptor(c, at, d, i)
    BY <2>1
  <2>3. InZone(q, at, DescriptorZone(d))
    BY <2>2, DescriptorInZone
  <2>4. DescriptorZone(d) \in {4, 5, 6, 9}
    BY DEF DescriptorZone
  <2>5. InItsZone(c, at, q, DescriptorZone(d))
    BY <2>2, <2>3, <2>4 DEF InItsZone
  <2> QED
    BY <2>4, <2>5
<1>7. CASE q \in RequestPayload(c, at)
  <2>1. CASE \E i \in Of(c.shape.ins, "data") : q = SentArgument(c, at, i)
    <3>1. InZone(q, at, 8)
      BY <2>1, ArgumentInZone
    <3>2. InItsZone(c, at, q, 8)
      BY <2>1, <3>1 DEF InItsZone
    <3> QED
      BY <3>2
  <2>2. CASE \/ q = Word(at.payload, Thing("SFCI", 0)) \/ q = Word(at.payload + 8, Thing("command", c.id))
             \/ Framed(c) /\ (\/ q = Word(at.payload - 16, Thing("domain command", 1))
                              \/ q = Word(at.payload - 12, Thing("object", 0)))
    <3>1. /\ q.size = 4
          /\ \/ q.at = at.payload \/ q.at = at.payload + 8
             \/ Framed(c) /\ (q.at = at.payload - 16 \/ q.at = at.payload - 12)
      <4>1. CASE q = Word(at.payload, Thing("SFCI", 0))
        BY <4>1 DEF Word, Piece
      <4>2. CASE q = Word(at.payload + 8, Thing("command", c.id))
        BY <4>2 DEF Word, Piece
      <4>3. CASE Framed(c) /\ q = Word(at.payload - 16, Thing("domain command", 1))
        BY <4>3 DEF Word, Piece
      <4>4. CASE Framed(c) /\ q = Word(at.payload - 12, Thing("object", 0))
        BY <4>4 DEF Word, Piece
      <4> QED
        BY <2>2, <4>1, <4>2, <4>3, <4>4
    <3>2. InZone(q, at, 7)
      BY <1>1, <1>2, <3>1 DEF InZone, Span
    <3>3. InItsZone(c, at, q, 7)
      BY <3>2 DEF InItsZone
    <3> QED
      BY <3>3
  <2> QED
    BY <1>7, <2>1, <2>2 DEF RequestPayload, SentArgument
<1>8. CASE q \in RequestHead(c, at)
  BY <1>3, <1>4, <1>8 DEF RequestHead, Opening, Handles, SentPid
<1>9. CASE q \in RequestHandles(c, at)
  <2>1. CASE \E i \in Of(c.shape.ins, "copy") : q = SentHandle(c, at, "copy", i)
    BY <1>5, <2>1
  <2>2. CASE \E i \in Of(c.shape.ins, "move") : q = SentHandle(c, at, "move", i)
    BY <1>5, <2>2
  <2> QED
    BY <1>9, <2>1, <2>2 DEF RequestHandles, SentHandle, HandleBase, Slot
<1>10. CASE q \in RequestDescriptors(c, at)
  <2>1. \E d \in {"X", "A", "B", "C"} : \E i \in Using(Params(c.shape), d) : q = SentDescriptor(c, at, d, i)
    BY <1>10 DEF RequestDescriptors, SentDescriptor, Slot
  <2> QED
    BY <1>6, <2>1
<1> QED
  BY <1>7, <1>8, <1>9, <1>10 DEF RequestPieces

(* The pieces of the parameters lie apart from all others.                 *)
LEMMA PidApart ==
    ASSUME NEW c, Sendable(c), NEW at, at = Layout(c), at.pid, NEW q \in RequestPieces(c, at), q # SentPid
    PROVE  q.at \in Nat /\ q.size \in Nat /\ Apart(SentPid, q)
<1>1. PICK z \in 0 .. 9 : InItsZone(c, at, q, z)
  BY RequestZones
<1>2. z # 1 /\ InZone(q, at, z)
  BY <1>1 DEF InItsZone
<1>3. InZone(SentPid, at, 1) /\ 1 \in 0 .. 9
  BY PidInZone
<1>4. Apart(SentPid, q)
  BY <1>2, <1>3, ZonesApart
<1> QED
  BY <1>2, <1>4 DEF InZone, Span

LEMMA HandleApart ==
    ASSUME NEW c, Sendable(c), NEW at, at = Layout(c),
           NEW kind \in {"copy", "move"}, NEW i \in Of(c.shape.ins, kind),
           NEW p, p = SentHandle(c, at, kind, i),
           NEW q \in RequestPieces(c, at), q # p
    PROVE  q.at \in Nat /\ q.size \in Nat /\ Apart(p, q)
<1>1. PICK z \in 0 .. 9 : InItsZone(c, at, q, z)
  BY RequestZones
<1>2. InZone(q, at, z) /\ q.at \in Nat /\ q.size \in Nat
  BY <1>1 DEF InItsZone, InZone, Span
<1> DEFINE S == Of(c.shape.ins, kind)
           y == HandleZone(kind)
<1>3. /\ InZone(p, at, y) /\ p.size = 4 /\ p.at = Slot(HandleBase(at, kind), 4, S, i)
      /\ IsFiniteSet(S) /\ S \subseteq Nat /\ HandleBase(at, kind) \in Nat
  BY HandleInZone
<1>4. y \in 0 .. 9 /\ y \in {2, 3}
  BY DEF HandleZone
<1> HIDE DEF y
<1>5. CASE z # y
  BY <1>2, <1>3, <1>4, <1>5, ZonesApart
<1>6. CASE z = y
  <2>1. PICK other \in {"copy", "move"} :
           \E j \in Of(c.shape.ins, other) : y = HandleZone(other) /\ q = SentHandle(c, at, other, j)
    BY <1>1, <1>4, <1>6 DEF InItsZone
  <2>2. other = kind
    BY <2>1 DEF HandleZone, y
  <2>3. PICK j \in S : q = SentHandle(c, at, kind, j)
    BY <2>1, <2>2
  <2>4. i # j
    BY <2>3
  <2>5. q.size = 4 /\ q.at = Slot(HandleBase(at, kind), 4, S, j)
    BY <2>3, HandleInZone
  <2>6. \/ Slot(HandleBase(at, kind), 4, S, i) + 4 <= Slot(HandleBase(at, kind), 4, S, j)
        \/ Slot(HandleBase(at, kind), 4, S, j) + 4 <= Slot(HandleBase(at, kind), 4, S, i)
    BY <1>3, <2>3, <2>4, SlotsApart
  <2> QED
    BY <1>2, <1>3, <2>5, <2>6 DEF Apart
<1> QED
  BY <1>5, <1>6

LEMMA DescriptorApart ==
    ASSUME NEW c, Sendable(c), NEW at, at = Layout(c),
           NEW d \in {"X", "A", "B", "C"}, NEW i \in Using(Params(c.shape), d),
           NEW p, p = SentDescriptor(c, at, d, i),
           NEW q \in RequestPieces(c, at), q # p
    PROVE  q.at \in Nat /\ q.size \in Nat /\ Apart(p, q)
<1>1. PICK z \in 0 .. 9 : InItsZone(c, at, q, z)
  BY RequestZones
<1>2. InZone(q, at, z) /\ q.at \in Nat /\ q.size \in Nat
  BY <1>1 DEF InItsZone, InZone, Span
<1> DEFINE S == Using(Params(c.shape), d)
           y == DescriptorZone(d)
           w == DescriptorSize(d)
<1>3. /\ InZone(p, at, y) /\ p.size = w /\ p.at = Slot(at[d], w, S, i)
      /\ IsFiniteSet(S) /\ S \subseteq Nat /\ at[d] \in Nat
  BY DescriptorInZone
<1>4. y \in 0 .. 9 /\ y \in {4, 5, 6, 9} /\ w \in {4, 8, 12}
  BY DEF DescriptorZone, DescriptorSize
<1> HIDE DEF y, w
<1>5. CASE z # y
  BY <1>2, <1>3, <1>4, <1>5, ZonesApart
<1>6. CASE z = y
  <2>1. PICK other \in {"X", "A", "B", "C"} :
           \E j \in Using(Params(c.shape), other) : y = DescriptorZone(other) /\ q = SentDescriptor(c, at, other, j)
    BY <1>1, <1>4, <1>6 DEF InItsZone
  <2>2. other = d
    BY <2>1 DEF DescriptorZone, y
  <2>3. PICK j \in S : q = SentDescriptor(c, at, d, j)
    BY <2>1, <2>2
  <2>4. i # j
    BY <2>3
  <2>5. q.size = w /\ q.at = Slot(at[d], w, S, j)
    BY <2>3, DescriptorInZone DEF w
  <2>6. \/ Slot(at[d], w, S, i) + w <= Slot(at[d], w, S, j)
        \/ Slot(at[d], w, S, j) + w <= Slot(at[d], w, S, i)
    BY <1>3, <1>4, <2>3, <2>4, SlotsApart
  <2> QED
    BY <1>2, <1>3, <2>5, <2>6 DEF Apart
<1> QED
  BY <1>5, <1>6

LEMMA ArgumentApart ==
    ASSUME NEW c, Sendable(c), NEW at, at = Layout(c), NEW i \in Of(c.shape.ins, "data"),
           NEW p, p = SentArgument(c, at, i),
           NEW q \in RequestPieces(c, at), q # p
    PROVE  q.at \in Nat /\ q.size \in Nat /\ Apart(p, q)
<1> DEFINE ins == c.shape.ins
<1>1. PICK z \in 0 .. 9 : InItsZone(c, at, q, z)
  BY RequestZones
<1>2. InZone(q, at, z) /\ q.at \in Nat /\ q.size \in Nat
  BY <1>1 DEF InItsZone, InZone, Span
<1>3. /\ InZone(p, at, 8) /\ p.size = ins[i].size /\ p.at = at.payload + 16 + Start(ins, i)
      /\ at.payload \in Nat /\ 8 \in 0 .. 9
  BY ArgumentInZone
<1>5. CASE z # 8
  BY <1>2, <1>3, <1>5, ZonesApart
<1>6. CASE z = 8
  <2>1. PICK j \in Of(ins, "data") : q = SentArgument(c, at, j)
    BY <1>1, <1>6 DEF InItsZone
  <2>2. i # j
    BY <2>1
  <2>3. q.size = ins[j].size /\ q.at = at.payload + 16 + Start(ins, j)
    BY <2>1, ArgumentInZone
  <2>4. ins \in Seq(Parameter)
    BY DEF Sendable, WellFormed
  <2>5. /\ i \in 1 .. Len(ins) /\ Start(ins, i) \in Nat /\ ins[i].size \in Nat
        /\ i < j => Start(ins, i) + ins[i].size <= Start(ins, j)
    BY <2>4, DataPlaces
  <2>6. /\ j \in 1 .. Len(ins) /\ Start(ins, j) \in Nat /\ ins[j].size \in Nat
        /\ j < i => Start(ins, j) + ins[j].size <= Start(ins, i)
    BY <2>4, DataPlaces
  <2>7. i < j \/ j < i
    BY <2>2, <2>5, <2>6
  <2> DEFINE x == Start(ins, i)
             y == Start(ins, j)
             u == ins[i].size
             v == ins[j].size
  <2>8. /\ x \in Nat /\ y \in Nat /\ u \in Nat /\ v \in Nat /\ (x + u <= y \/ y + v <= x)
        /\ p.at = at.payload + 16 + x /\ p.size = u /\ q.at = at.payload + 16 + y /\ q.size = v
    BY <1>3, <2>3, <2>5, <2>6, <2>7
  <2> HIDE DEF x, y, u, v
  <2> QED
    BY <1>2, <1>3, <2>8 DEF Apart
<1> QED
  BY <1>5, <1>6

(* What is in a zone is within the message.                                *)
LEMMA ZoneSpan ==
    ASSUME NEW c, Sendable(c), NEW at, at = Layout(c), NEW z \in 0 .. 9, NEW p, InZone(p, at, z)
    PROVE  Span(p, 0, Size)
<1> DEFINE e == Edge(at)
<1>1. e \in [0 .. 10 -> Nat] /\ \A x \in 0 .. (10 - 1) : e[x] <= e[x + 1]
  BY EdgesGrow
<1>2. e[10] = Size
  BY EdgesAre
<1>3. z \in 0 .. 10 /\ z + 1 \in 0 .. 10 /\ 10 \in 0 .. 10 /\ z + 1 <= 10 /\ 10 \in Nat
  OBVIOUS
<1>4. Span(p, e[z], e[z + 1])
  BY DEF InZone
<1> HIDE DEF e
<1>5. e[z + 1] <= e[10]
  BY <1>1, <1>3, Grows
<1>6. e[z] \in Nat /\ e[z + 1] \in Nat
  BY <1>1, <1>3
<1> QED
  BY <1>2, <1>4, <1>5, <1>6, SizeAssumption DEF Span

(* A process number, a handle, a descriptor and an argument is read as it  *)
(* was written.                                                            *)
LEMMA PidRead ==
    ASSUME NEW c, Sendable(c), NEW at, at = Layout(c), at.pid
    PROVE  Bytes(Request(c), 12, 4) = Whole(Thing("pid", 0), 4)
<1> DEFINE pieces == RequestPieces(c, at)
<1>1. Request(c) = Over(Filled(Stale), pieces) /\ SentPid \in pieces
  BY DEF Request, RequestPieces, RequestHead, SentPid
<1>2. InZone(SentPid, at, 1) /\ SentPid.at = 12 /\ SentPid.size = 8 /\ SentPid.thing = Thing("pid", 0)
  BY PidInZone
<1>3. Span(SentPid, 0, Size)
  BY <1>2, ZoneSpan
<1>4. \A q \in pieces : q # SentPid => q.at \in Nat /\ q.size \in Nat /\ Apart(SentPid, q)
  BY PidApart
<1>5. 4 \in Nat /\ 4 <= SentPid.size
  BY <1>2
<1> HIDE DEF pieces
<1>6. Bytes(Over(Filled(Stale), pieces), SentPid.at, 4) = Whole(SentPid.thing, 4)
  BY <1>1, <1>3, <1>4, <1>5, PieceBytes
<1> QED
  BY <1>1, <1>2, <1>6

LEMMA HandleRead ==
    ASSUME NEW c, Sendable(c), NEW at, at = Layout(c),
           NEW kind \in {"copy", "move"}, NEW i \in Of(c.shape.ins, kind)
    PROVE  at.hd /\ Bytes(Request(c), HandleBase(at, kind) + 4 * Before(Of(c.shape.ins, kind), i), 4)
                      = Whole(Thing("handle", i), 4)
<1> DEFINE pieces == RequestPieces(c, at)
           p == SentHandle(c, at, kind, i)
<1>1. Request(c) = Over(Filled(Stale), pieces) /\ p \in pieces
  BY DEF Request, RequestPieces, RequestHandles, SentHandle, HandleBase, Slot
<1>2. /\ InZone(p, at, HandleZone(kind)) /\ p.size = 4 /\ p.thing = Thing("handle", i) /\ at.hd
      /\ p.at = HandleBase(at, kind) + 4 * Before(Of(c.shape.ins, kind), i)
  BY HandleInZone DEF Slot
<1>3. HandleZone(kind) \in 0 .. 9
  BY DEF HandleZone
<1>4. Span(p, 0, Size)
  BY <1>2, <1>3, ZoneSpan
<1>5. \A q \in pieces : q # p => q.at \in Nat /\ q.size \in Nat /\ Apart(p, q)
  BY HandleApart
<1>6. 4 \in Nat /\ 4 <= p.size
  BY <1>2
<1> HIDE DEF pieces, p
<1>7. Bytes(Over(Filled(Stale), pieces), p.at, 4) = Whole(p.thing, 4)
  BY <1>1, <1>4, <1>5, <1>6, PieceBytes
<1> QED
  BY <1>1, <1>2, <1>7

LEMMA DescriptorRead ==
    ASSUME NEW c, Sendable(c), NEW at, at = Layout(c),
           NEW d \in {"X", "A", "B", "C"}, NEW i \in Using(Params(c.shape), d)
    PROVE  Bytes(Request(c), at[d] + DescriptorSize(d) * Before(Using(Params(c.shape), d), i), DescriptorSize(d))
             = Whole(Described(c, d, i), DescriptorSize(d))
<1> DEFINE pieces == RequestPieces(c, at)
           p == SentDescriptor(c, at, d, i)
<1>1. Request(c) = Over(Filled(Stale), pieces) /\ p \in pieces
  <2>1. p \in RequestDescriptors(c, at)
    BY DEF RequestDescriptors, SentDescriptor, Slot
  <2> QED
    BY <2>1 DEF Request, RequestPieces
<1>2. /\ InZone(p, at, DescriptorZone(d)) /\ p.size = DescriptorSize(d) /\ p.thing = Described(c, d, i)
      /\ p.at = at[d] + DescriptorSize(d) * Before(Using(Params(c.shape), d), i)
  BY DescriptorInZone DEF Slot
<1>3. DescriptorZone(d) \in 0 .. 9
  BY DEF DescriptorZone
<1>4. Span(p, 0, Size)
  BY <1>2, <1>3, ZoneSpan
<1>5. \A q \in pieces : q # p => q.at \in Nat /\ q.size \in Nat /\ Apart(p, q)
  BY DescriptorApart
<1>6. p.size \in Nat /\ p.size <= p.size
  BY <1>4 DEF Span
<1> HIDE DEF pieces, p
<1>7. Bytes(Over(Filled(Stale), pieces), p.at, p.size) = Whole(p.thing, p.size)
  BY <1>1, <1>4, <1>5, <1>6, PieceBytes
<1> QED
  BY <1>1, <1>2, <1>7

LEMMA ArgumentRead ==
    ASSUME NEW c, Sendable(c), NEW at, at = Layout(c), NEW i \in Of(c.shape.ins, "data"),
           NEW k \in Nat, k < c.shape.ins[i].size
    PROVE  /\ at.payload + 16 + Start(c.shape.ins, i) + k \in Address
           /\ Request(c)[at.payload + 16 + Start(c.shape.ins, i) + k] = Byte(Thing("argument", i), k)
<1> DEFINE pieces == RequestPieces(c, at)
           p == SentArgument(c, at, i)
<1>1. Request(c) = Over(Filled(Stale), pieces) /\ p \in pieces
  BY DEF Request, RequestPieces, RequestPayload, SentArgument
<1>2. /\ InZone(p, at, 8) /\ p.size = c.shape.ins[i].size /\ p.thing = Thing("argument", i)
      /\ p.at = at.payload + 16 + Start(c.shape.ins, i) /\ 8 \in 0 .. 9
  BY ArgumentInZone
<1>4. Span(p, 0, Size)
  BY <1>2, ZoneSpan
<1>5. \A q \in pieces : q # p => q.at \in Nat /\ q.size \in Nat /\ Apart(p, q)
  BY ArgumentApart
<1>6. k < p.size
  BY <1>2
<1> HIDE DEF pieces, p
<1>7. p.at + k \in Address /\ Over(Filled(Stale), pieces)[p.at + k] = Byte(p.thing, k)
  BY <1>1, <1>4, <1>5, <1>6, PieceWhole
<1> QED
  BY <1>1, <1>2, <1>7

(* The rest of what ParseMessage finds.                                    *)
LEMMA RequestFields ==
    ASSUME NEW c, Sendable(c), c.domain = is_domainobj, NEW at, at = Layout(c),
           NEW req, req = ParseMessage(Request(c))
    PROVE  /\ req.desc_off = at.X /\ req.raw_off = at.raw_at /\ req.payload_off = at.payload
           /\ req.x_cnt = Uses(c, "X") /\ req.a_cnt = Uses(c, "A") /\ req.w_cnt = at.words
           /\ at.hd => req.copy_off = at.copy_at /\ req.move_off = at.move_at
           /\ at.pid => req.pid = Bytes(Request(c), 12, 4)
<1> DEFINE b == Request(c)
<1>1. /\ b[0].thing = Header(c)
      /\ b[4].thing = Sizes(at.words, at.hd)
      /\ at.hd => b[8].thing = HandleCounts(at.pid, at.copies, at.moves)
  BY RequestReads
<1>2. req.desc_off = at.X /\ req.raw_off = at.raw_at /\ req.payload_off = at.payload
  BY RequestParsed
<1>3. /\ b[0].thing.x = Uses(c, "X") /\ b[0].thing.a = Uses(c, "A")
      /\ b[4].thing.words = at.words /\ b[4].thing.hd = at.hd
  BY <1>1 DEF Header, Uses, Sizes
<1>4. at.hd => /\ b[8].thing.pid = at.pid /\ b[8].thing.copies = at.copies /\ b[8].thing.moves = at.moves
  BY <1>1 DEF HandleCounts
<1>5. /\ at.hd \in BOOLEAN /\ at.pid \in BOOLEAN /\ (at.pid => at.hd)
      /\ at.copy_at = IF at.pid THEN 20 ELSE 12
      /\ at.move_at = at.copy_at + 4 * at.copies
  BY LayoutOrder
<1> HIDE DEF b
<1>6. /\ req.x_cnt = b[0].thing.x /\ req.a_cnt = b[0].thing.a /\ req.w_cnt = b[4].thing.words
      /\ req.copy_off = IF b[4].thing.hd THEN (IF b[8].thing.pid THEN 20 ELSE 12) ELSE Size
      /\ req.move_off = IF b[4].thing.hd THEN (IF b[8].thing.pid THEN 20 ELSE 12) + 4 * b[8].thing.copies ELSE Size
      /\ req.pid = Bytes(b, IF b[4].thing.hd /\ b[8].thing.pid THEN 12 ELSE Size, 4)
  BY DEF ParseMessage, b
<1>7. req.x_cnt = Uses(c, "X") /\ req.a_cnt = Uses(c, "A") /\ req.w_cnt = at.words
  BY <1>3, <1>6
<1>8. at.hd => req.copy_off = at.copy_at /\ req.move_off = at.move_at
  BY <1>3, <1>4, <1>5, <1>6
<1>9. at.pid => req.pid = Bytes(b, 12, 4)
  BY <1>3, <1>4, <1>5, <1>6
<1> QED
  BY <1>2, <1>7, <1>8, <1>9 DEF b

(* What an implementation is handed for an argument, but for its lateness. *)
LEMMA DataHanded ==
    ASSUME NEW c, Sendable(c), c.domain = is_domainobj, NEW req, req = ParseMessage(Request(c)),
           NEW i \in Of(c.shape.ins, "data"),
           NEW k \in 0 .. c.shape.ins[i].size - 1 - Late(c.shape.ins[i])
    PROVE  Handed(Request(c), req, c.shape.ins[i])[k]
             = Byte(Thing("argument", i), k + Late(c.shape.ins[i]))
<1> DEFINE at == Layout(c)
           p == c.shape.ins[i]
           t == Start(c.shape.ins, i)
           late == Late(p)
           u == p.size
<1>1. c.shape.ins \in Seq(Parameter) /\ Placed(c.shape.ins)
  BY DEF Sendable, WellFormed
<1>2. u \in Nat /\ t \in Nat /\ p.align \in Nat \ {0}
  BY <1>1, DataPlaces
<1>3. late \in Nat
  BY <1>2, LateType
<1>4. p.at = 8 + t + late
  BY <1>1 DEF Placed
<1>5. p.kind = "data"
  BY DEF Of
<1>6. req.payload_off = at.payload /\ at.payload \in Nat
  BY RequestFields, EdgesAre
<1>7. Handed(Request(c), req, p) = Bytes(Request(c), at.payload + 8 + p.at, u)
  BY <1>5, <1>6 DEF Handed
<1>8. k \in 0 .. (u - 1) - late
  OBVIOUS
<1> DEFINE P == at.payload
           a == p.at
<1> HIDE DEF u, t, late, P, a
<1>9. k \in 0 .. u - 1 /\ k + late \in Nat /\ k + late < u
  BY <1>2, <1>3, <1>8
<1>10. P + 8 + a + k = P + 16 + t + (k + late)
  BY <1>2, <1>3, <1>4, <1>6, <1>9 DEF P, a
<1>11. /\ P + 16 + t + (k + late) \in Address
       /\ Request(c)[P + 16 + t + (k + late)] = Byte(Thing("argument", i), k + late)
  BY <1>9, ArgumentRead DEF P, t, u
<1>12. Bytes(Request(c), P + 8 + a, u)[k] = Request(c)[P + 8 + a + k]
  BY <1>9, <1>10, <1>11 DEF Bytes
<1> QED
  BY <1>7, <1>10, <1>11, <1>12 DEF P, a, late

(* A handle is that of the first parameter that shares its number.         *)
LEMMA HandleHanded ==
    ASSUME NEW c, Sendable(c), c.domain = is_domainobj, NEW req, req = ParseMessage(Request(c)),
           NEW kind \in {"copy", "move"}, NEW i \in Of(c.shape.ins, kind)
    PROVE  Handed(Request(c), req, c.shape.ins[i])
             = Whole(Thing("handle", First(Sharing(c.shape.ins, Of(c.shape.ins, kind), i))), 4)
<1> DEFINE at == Layout(c)
           p == c.shape.ins[i]
           S == Of(c.shape.ins, kind)
           T == Sharing(c.shape.ins, S, i)
           o == First(T)
<1>1. c.shape.ins \in Seq(Parameter) /\ Shared(c.shape.ins, S)
  BY DEF Sendable, WellFormed
<1>2. p.num = Before(S, o)
  BY <1>1 DEF Shared
<1>3. T \subseteq S /\ T # {} /\ S \subseteq Nat
  <2>1. S \subseteq DOMAIN c.shape.ins
    BY DEF Of
  <2>2. S \subseteq Nat
    BY <1>1, <2>1, PlacesFinite
  <2> QED
    BY <2>2 DEF Sharing
<1>4. o \in S
  <2>1. T \subseteq Nat
    BY <1>3
  <2>2. First(T) \in T
    BY <1>3, <2>1, FirstExists
  <2> QED
    BY <1>3, <2>2
<1>5. at.hd /\ Bytes(Request(c), HandleBase(at, kind) + 4 * Before(S, o), 4) = Whole(Thing("handle", o), 4)
  BY <1>4, HandleRead
<1>6. req.copy_off = at.copy_at /\ req.move_off = at.move_at
  BY <1>5, RequestFields
<1>7. p.kind = kind
  BY DEF Of
<1> HIDE DEF at, p, o
<1>8. Handed(Request(c), req, p) = Bytes(Request(c), HandleBase(at, kind) + 4 * p.num, 4)
  <2>1. CASE kind = "copy"
    BY <1>6, <1>7, <2>1 DEF Handed, HandleBase
  <2>2. CASE kind = "move"
    BY <1>6, <1>7, <2>2 DEF Handed, HandleBase
  <2> QED
    BY <2>1, <2>2
<1> QED
  BY <1>2, <1>5, <1>8 DEF p, o

(* The descriptor that GetBuffer takes: the parameter's own, or the first  *)
(* of the C descriptors.                                                   *)
LEMMA DescriptorTaken ==
    ASSUME NEW c, Sendable(c), c.domain = is_domainobj, NEW req, req = ParseMessage(Request(c)),
           NEW d \in {"X", "A", "B", "C"}, NEW i \in Using(Params(c.shape), d),
           NEW o, o = IF d = "C" THEN First(Using(Params(c.shape), "C")) ELSE i
    PROVE  Bytes(Request(c), DescriptorAt(req, d, Params(c.shape)[i].num), DescriptorSize(d))
             = Whole(Described(c, d, o), DescriptorSize(d))
<1> DEFINE at == Layout(c)
           ps == Params(c.shape)
           S == Using(ps, d)
           num == ps[i].num
<1>1. ps \in Seq(Parameter) /\ S \subseteq DOMAIN ps
  BY ParamsType DEF Sendable, Using, Of
<1>2. IsFiniteSet(S) /\ S \subseteq Nat
  BY <1>1, PlacesFinite
<1>3. o \in S /\ (d = "C" => Before(S, o) = 0)
  <2>1. d = "C" => First(S) \in S /\ Before(S, First(S)) = 0
    BY <1>2, FirstExists
  <2> QED
    BY <2>1
<1>4. d # "C" => num = Before(S, i)
  BY DEF Sendable, WellFormed, Counted
<1>5. Bytes(Request(c), at[d] + DescriptorSize(d) * Before(S, o), DescriptorSize(d))
        = Whole(Described(c, d, o), DescriptorSize(d))
  BY <1>3, DescriptorRead
<1>6. /\ req.desc_off = at.X /\ req.raw_off = at.raw_at
      /\ req.x_cnt = Uses(c, "X") /\ req.a_cnt = Uses(c, "A") /\ req.w_cnt = at.words
  BY RequestFields
<1>7. /\ at.A = at.X + 8 * Uses(c, "X") /\ at.B = at.A + 12 * Uses(c, "A")
      /\ at.C = at.raw_at + 4 * at.words
  BY LayoutOrder
<1>8. at.C \in Nat
  BY EdgesAre
<1> HIDE DEF at, S, num
<1>9. DescriptorAt(req, d, num) = at[d] + DescriptorSize(d) * Before(S, o)
  <2>1. CASE d = "X"
    BY <1>4, <1>6, <2>1 DEF DescriptorAt, DescriptorSize
  <2>2. CASE d = "A"
    BY <1>4, <1>6, <1>7, <2>2 DEF DescriptorAt, DescriptorSize
  <2>3. CASE d = "B"
    BY <1>4, <1>6, <1>7, <2>3 DEF DescriptorAt, DescriptorSize
  <2>4. CASE d = "C"
    <3>1. DescriptorAt(req, d, num) = at.C
      BY <1>6, <1>7, <2>4 DEF DescriptorAt
    <3>2. at[d] + DescriptorSize(d) * Before(S, o) = at.C
      BY <1>3, <1>8, <2>4 DEF DescriptorSize
    <3> QED
      BY <3>1, <3>2
  <2> QED
    BY <2>1, <2>2, <2>3, <2>4
<1> QED
  BY <1>5, <1>9 DEF S, num

(* The descriptor that the client used is the one that GetBuffer chooses.  *)
LEMMA BufferHanded ==
    ASSUME NEW c, Sendable(c), c.domain = is_domainobj, NEW req, req = ParseMessage(Request(c)),
           NEW i \in Of(Params(c.shape), "buffer")
    PROVE  Handed(Request(c), req, Params(c.shape)[i])
             = IF Used(c, i) = "C" THEN Whole(Described(c, "C", Origin(c, i)), 8)
               ELSE Whole(Thing("buffer", i), DescriptorSize(Used(c, i)))
<1> DEFINE ps == Params(c.shape)
           b == Request(c)
           type == ps[i].type
           num == ps[i].num
           own == Descriptor(Sends(type), ByPointer(type))
           near == Descriptor(Sends(type), FALSE)
           far == Descriptor(Sends(type), TRUE)
           choice == ChosenBySize(type)
           pointed == i \in c.pointed
           read(d) == Bytes(b, DescriptorAt(req, d, num), DescriptorSize(d))
           D == DescriptorsOf(type)
           says(d) == Described(c, d, i)
<1>1. ps[i].kind = "buffer"
  BY DEF Of
<1>2. Handed(b, req, ps[i]) = IF ~choice THEN read(own)
                              ELSE IF read(near)[0].thing.what # "null" THEN read(near) ELSE read(far)
  BY <1>1 DEF Handed, GetBuffer
<1>3. Origin(c, i) = First(Using(ps, "C"))
  BY <1>1 DEF Origin
<1>4. near \in {"A", "B"} /\ far \in {"X", "C"} /\ own \in {"X", "A", "B", "C"}
  BY DEF Descriptor
<1>5. D = IF choice THEN {near, far} ELSE {own}
  BY DEF DescriptorsOf
<1>6. ASSUME NEW d \in D
      PROVE  read(d) = Whole(IF d = "C" THEN Described(c, "C", Origin(c, i)) ELSE says(d), DescriptorSize(d))
  <2>1. d \in {"X", "A", "B", "C"}
    <3> HIDE DEF near, far, own, choice, D
    <3> QED
      BY <1>4, <1>5
  <2>2. i \in Using(ps, d)
    BY DEF Using
  <2>3. read(d) = Whole(Described(c, d, IF d = "C" THEN First(Using(ps, "C")) ELSE i), DescriptorSize(d))
    BY <2>1, <2>2, DescriptorTaken
  <2> HIDE DEF read, D
  <2> QED
    BY <1>3, <2>3
<1>7. \A d : says(d) = Thing(IF choice /\ (pointed # (d \in {"X", "C"})) THEN "null" ELSE "buffer", i)
  BY DEF Described
<1>8. DescriptorSize("A") = 12 /\ DescriptorSize("B") = 12 /\ DescriptorSize("X") = 8 /\ DescriptorSize("C") = 8
  BY DEF DescriptorSize
<1>9. Used(c, i) = CHOOSE d \in D : says(d).what = "buffer"
  BY DEF Used
<1>10. \A w, n : Thing(w, n).what = w
  BY DEF Thing
<1>11. ~choice => \A d : says(d) = Thing("buffer", i)
  BY <1>7
<1>12. choice => says(near) = Thing(IF pointed THEN "null" ELSE "buffer", i)
  <2>1. near \notin {"X", "C"}
    BY <1>4
  <2> HIDE DEF near, says, choice
  <2> QED
    BY <1>7, <2>1
<1>13. choice => says(far) = Thing(IF pointed THEN "buffer" ELSE "null", i)
  <2> HIDE DEF far, says, choice
  <2> QED
    BY <1>4, <1>7
<1> HIDE DEF type, num, own, near, far, choice, pointed, read, D, says
<1>14. ASSUME NEW d \in D, Used(c, i) = d, says(d) = Thing("buffer", i)
       PROVE  read(d) = IF Used(c, i) = "C" THEN Whole(Described(c, "C", Origin(c, i)), 8)
                        ELSE Whole(Thing("buffer", i), DescriptorSize(Used(c, i)))
  BY <1>6, <1>8, <1>14
<1>15. CASE ~choice
  <2>1. D = {own} /\ own \in D
    BY <1>5, <1>15
  <2>2. says(own).what = "buffer" /\ says(own) = Thing("buffer", i)
    BY <1>10, <1>11, <1>15
  <2>3. Used(c, i) = own
    BY <1>9, <2>1, <2>2
  <2> QED
    BY <1>2, <1>14, <1>15, <2>1, <2>2, <2>3
<1>16. CASE choice
  <2>1. D = {near, far} /\ near \in D /\ far \in D /\ near # "C" /\ near # far
    BY <1>4, <1>5, <1>16
  <2>2. read(near)[0].thing = says(near)
    <3>1. read(near) = Whole(says(near), 12)
      BY <1>4, <1>6, <1>8, <2>1
    <3>2. read(near)[0] = Byte(says(near), 0)
      BY <3>1 DEF Whole
    <3> QED
      BY <3>2 DEF Byte
  <2>3. CASE pointed
    <3>1. says(near) = Thing("null", i) /\ says(far) = Thing("buffer", i)
      BY <1>12, <1>13, <1>16, <2>3
    <3>2. Used(c, i) = far
      BY <1>9, <1>10, <2>1, <3>1
    <3>3. Handed(b, req, ps[i]) = read(far)
      BY <1>2, <1>10, <1>16, <2>2, <3>1
    <3> QED
      BY <1>14, <2>1, <3>1, <3>2, <3>3
  <2>4. CASE ~pointed
    <3>1. says(near) = Thing("buffer", i) /\ says(far) = Thing("null", i)
      BY <1>12, <1>13, <1>16, <2>4
    <3>2. Used(c, i) = near
      BY <1>9, <1>10, <2>1, <3>1
    <3>3. Handed(b, req, ps[i]) = read(near)
      BY <1>2, <1>10, <1>16, <2>2, <3>1
    <3> QED
      BY <1>14, <2>1, <3>1, <3>2, <3>3
  <2> QED
    BY <2>3, <2>4
<1> QED
  BY <1>15, <1>16

(* Every parameter is handed over as the client sent it, whatever handles, *)
(* descriptors and framing the command has, but for the exceptions         *)
(* RequestUnderstood names: the beginning of three- and six-byte values,   *)
(* parameters that share an origin, and the upper half of the process      *)
(* number (include/Ipc.hpp GetData, GetBuffer, GetMoved, GetCopied;        *)
(* Ipc.cpp:24; include/IpcStubs.hpp).                                      *)
THEOREM RequestsUnderstood == Spec => []RequestUnderstood
<1>1. IInv => RequestUnderstood
  <2> SUFFICES ASSUME IInv, phase = "answered", call.type = 4, NEW i \in Requested(call.shape)
               PROVE  LET p == Params(call.shape)[i]
                      IN CASE p.kind = "data" ->
                                \A k \in 0 .. p.size - 1 - Late(p) :
                                  got[i][k] = Byte(Thing("argument", i), k + Late(p))
                           [] p.kind = "pid" ->
                                got[i] = [k \in 0 .. 7 |-> IF k < 4 THEN Byte(Thing("pid", 0), k)
                                                            ELSE Byte(Zero, 0)]
                           [] p.kind \in {"copy", "move"} -> got[i] = Whole(Thing("handle", Origin(call, i)), 4)
                           [] p.kind = "buffer" ->
                                LET d == Used(call, i)
                                IN got[i] = IF d = "C" THEN Whole(Described(call, d, Origin(call, i)), 8)
                                            ELSE Whole(Thing("buffer", i), DescriptorSize(d))
    BY DEF RequestUnderstood
  <2> DEFINE ins == call.shape.ins
             ps == Params(call.shape)
             req == ParseMessage(Request(call))
             p == ps[i]
  <2>1. Sendable(call) /\ call.domain = is_domainobj /\ got = Taken(call)
    BY DEF IInv, AnsweredIsReply
  <2>2. got[i] = Handed(Request(call), req, p)
    BY <2>1 DEF Taken
  <2>3. ins \in Seq(Parameter) /\ call.shape.outs \in Seq(Parameter) /\ ps \in Seq(Parameter)
    BY <2>1, ParamsType DEF Sendable, WellFormed
  <2>4. i \in DOMAIN ps /\ (i <= Len(ins) \/ p.kind = "buffer")
    BY DEF Requested
  <2>5. p.kind \in {"data", "pid", "move", "copy", "buffer"}
    <3>1. p \in Parameter
      BY <2>3, <2>4
    <3> QED
      BY <3>1 DEF Parameter
  <2>6. p.kind # "buffer" => i \in DOMAIN ins /\ p = ins[i]
    <3>1. ps = ins \o call.shape.outs
      BY DEF Params
    <3> HIDE DEF ps
    <3> DEFINE outs == call.shape.outs
    <3>2. i \in 1 .. Len(ins) => ps[i] = ins[i]
      <4> HIDE DEF ins, outs
      <4> QED
        BY <2>3, <3>1 DEF outs
    <3>3. i \in Nat \ {0}
      BY <2>3, <2>4
    <3>4. i <= Len(ins) => i \in 1 .. Len(ins) /\ 1 .. Len(ins) = DOMAIN ins
      <4> HIDE DEF ins
      <4> QED
        BY <2>3, <3>3
    <3> QED
      BY <2>4, <3>2, <3>4
  <2>7. CASE p.kind = "data"
    <3>1. i \in Of(ins, "data") /\ p = ins[i]
      BY <2>6, <2>7 DEF Of
    <3>2. \A k \in 0 .. ins[i].size - 1 - Late(ins[i]) :
            Handed(Request(call), req, ins[i])[k] = Byte(Thing("argument", i), k + Late(ins[i]))
      BY <2>1, <3>1, DataHanded
    <3>3. \A k \in 0 .. p.size - 1 - Late(p) : got[i][k] = Byte(Thing("argument", i), k + Late(p))
      BY <2>2, <3>1, <3>2
    <3> QED
      BY <2>7, <3>3
  <2>8. CASE p.kind = "pid"
    <3>1. i \in Of(ins, "pid")
      BY <2>6, <2>8 DEF Of
    <3>2. Layout(call).pid
      BY <2>1, <3>1, LayoutEnds
    <3>3. req.pid = Whole(Thing("pid", 0), 4)
      BY <2>1, <3>2, RequestFields, PidRead
    <3>4. got[i] = Widened(req.pid)
      BY <2>2, <2>8 DEF Handed
    <3>5. \A k \in 0 .. 7 : k < 4 => req.pid[k] = Byte(Thing("pid", 0), k)
      BY <3>3 DEF Whole
    <3> QED
      BY <2>8, <3>4, <3>5 DEF Widened
  <2>9. CASE p.kind \in {"copy", "move"}
    <3> DEFINE kind == p.kind
    <3>1. i \in Of(ins, kind) /\ p = ins[i]
      BY <2>6, <2>9 DEF Of
    <3>2. Handed(Request(call), req, ins[i]) = Whole(Thing("handle", First(Sharing(ins, Of(ins, kind), i))), 4)
      <4> HIDE DEF kind
      <4>1. kind \in {"copy", "move"}
        BY <2>9 DEF kind
      <4> QED
        BY <2>1, <3>1, <4>1, HandleHanded
    <3>3. Origin(call, i) = First(Sharing(ins, Of(ins, kind), i))
      BY <2>9, <3>1 DEF Origin
    <3>4. got[i] = Whole(Thing("handle", Origin(call, i)), 4)
      BY <2>2, <3>1, <3>2, <3>3
    <3> QED
      BY <2>9, <3>4
  <2>10. CASE p.kind = "buffer"
    <3>1. i \in Of(ps, "buffer")
      BY <2>4, <2>10 DEF Of
    <3>2. Handed(Request(call), req, p)
             = IF Used(call, i) = "C" THEN Whole(Described(call, "C", Origin(call, i)), 8)
               ELSE Whole(Thing("buffer", i), DescriptorSize(Used(call, i)))
      BY <2>1, <3>1, BufferHanded
    <3> QED
      BY <2>2, <2>10, <3>2
  <2> QED
    BY <2>5, <2>7, <2>8, <2>9, <2>10
<1> QED
  BY <1>1, Invariant, PTL
=============================================================================
