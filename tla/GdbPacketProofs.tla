-------------------------- MODULE GdbPacketProofs --------------------------
(***************************************************************************)
(* Theorems about GdbPacket for every size of cmd_buf and every byte a     *)
(* client sends.  cmd_buf never overruns: the high digit of a checksum is  *)
(* kept apart in HighFirst, because checksum is a byte only if the low     *)
(* digit falls in cleared bits.  What is executed is what was sent: the    *)
(* receiver tracks the decoding of the payload byte by byte (Tracks).      *)
(***************************************************************************)
EXTENDS GdbPacket, Induction, SequenceTheorems, TLAPS

HighFirst == state = "CHKSUM2" => checksum <= 240

IInv == TypeOK /\ BufferBound /\ HighFirst

(* A digit is worth less than sixteen.                                     *)
LEMMA DigitRange ==
    ASSUME NEW ch \in HexDigit
    PROVE  FromHex(ch) \in 0..15
  BY DEF HexDigit, FromHex

(* Bit 5 of a byte is flipped within the byte.                             *)
LEMMA FlipRange ==
    ASSUME NEW ch \in Char
    PROVE  Flip(ch) \in Char
<1>1. CASE (ch \div 32) % 2 = 1
  <2>1. ch \div 32 >= 1
    BY <1>1 DEF Char
  <2>2. ch >= 32
    BY <2>1 DEF Char
  <2> QED
    BY <1>1, <2>2 DEF Flip, Char
<1>2. CASE (ch \div 32) % 2 # 1
  <2>1. ch < 224
    <3> SUFFICES ASSUME ch >= 224 PROVE FALSE
      BY DEF Char
    <3>1. ch \div 32 = 7
      BY DEF Char
    <3> QED
      BY <1>2, <3>1
  <2> QED
    BY <1>2, <2>1 DEF Flip, Char
<1> QED
  BY <1>1, <1>2

(* The checksum stays a byte.                                              *)
LEMMA AddRange ==
    ASSUME TypeOK, NEW ch \in Char
    PROVE  Add(ch) \in Char
  BY DEF TypeOK, Add, Char

(* The bytes a client sends are bytes, its digits too.                     *)
LEMMA InputRange ==
    ASSUME TypeOK
    PROVE  Input \subseteq Char
<1>1. line_sum \div 16 \in 0..15 /\ line_sum % 16 \in 0..15
  BY DEF TypeOK, Char
<1>2. \A n \in 0..15 : ToHex(n) \in Char
  BY DEF ToHex, Char
<1> QED
  BY <1>1, <1>2, PacketAssumption DEF Input

(* A byte keeps the bound in every state of the automaton.                 *)
LEMMA ByteInv ==
    ASSUME IInv, NEW ch \in Char,
           \/ IdleByte(ch) \/ ControlByte(ch) \/ EndByte(ch)
           \/ PlainByte(ch) \/ PlainOverrun(ch)
           \/ EscapedByte(ch) \/ EscapedOverrun(ch)
           \/ RepeatByte(ch) \/ RepeatInvalid(ch) \/ RepeatOverrun(ch)
           \/ NoDigit(ch) \/ HighDigit(ch) \/ Nak(ch) \/ Ack(ch)
    PROVE  IInv'
<1> USE DEF IInv
<1>1. Append(raw, ch) \in Seq(Char)
  BY DEF TypeOK
<1>2. CASE IdleByte(ch)
  <2>1. 0 \in Char /\ <<>> \in Seq(Char) /\ 0 <= BufSize - 1
    BY PacketAssumption DEF Char
  <2>2. CASE ch = Dollar
    BY <1>2, <2>1, <2>2 DEF IdleByte, TypeOK, BufferBound, HighFirst
  <2>3. CASE ch # Dollar
    BY <1>2, <2>3 DEF IdleByte, vars, TypeOK, BufferBound, HighFirst
  <2> QED
    BY <2>2, <2>3
<1>3. CASE ControlByte(ch) \/ EndByte(ch)
  BY <1>1, <1>3, AddRange, ZenonT(60) DEF ControlByte, EndByte, Log, TypeOK, BufferBound, HighFirst
<1>4. CASE PlainOverrun(ch) \/ EscapedOverrun(ch) \/ RepeatOverrun(ch)
  BY <1>1, <1>4 DEF PlainOverrun, EscapedOverrun, RepeatOverrun, Drop, Log, TypeOK,
                    BufferBound, HighFirst
<1>5. CASE RepeatInvalid(ch) \/ NoDigit(ch)
  BY <1>1, <1>5 DEF RepeatInvalid, NoDigit, Log, TypeOK, BufferBound, HighFirst
<1>6. CASE PlainByte(ch)
  <2>1. buf' \in Seq(Char) /\ Len(buf') = Len(buf) + 1
    BY <1>6 DEF PlainByte, TypeOK
  <2>2. Len(buf') <= BufSize - 1
    BY <1>6, <2>1, PacketAssumption DEF PlainByte, Full, TypeOK
  <2> QED
    BY <1>1, <1>6, <2>1, <2>2, AddRange DEF PlainByte, Log, TypeOK, BufferBound, HighFirst
<1>7. CASE EscapedByte(ch)
  <2>1. buf' \in Seq(Char) /\ Len(buf') = Len(buf) + 1
    BY <1>7, FlipRange DEF EscapedByte, TypeOK
  <2>2. Len(buf') <= BufSize - 1
    BY <1>7, <2>1, PacketAssumption DEF EscapedByte, Full, TypeOK
  <2> QED
    BY <1>1, <1>7, <2>1, <2>2, AddRange DEF EscapedByte, Log, TypeOK, BufferBound, HighFirst
<1>8. CASE RepeatByte(ch)
  <2>1. Repeat(ch) \in Nat
    BY <1>8 DEF RepeatByte, Repeat, Space, Char
  <2>2. buf \in Seq(Char) /\ Len(buf) \in 1..Len(buf)
    BY <1>8 DEF RepeatByte, TypeOK
  <2>3. buf[Len(buf)] \in Char
    BY <2>2
  <2> DEFINE run == [i \in 1..Repeat(ch) |-> buf[Len(buf)]]
  <2>4. run \in Seq(Char) /\ Len(run) = Repeat(ch)
    BY <2>1, <2>3
  <2>5. buf' \in Seq(Char) /\ Len(buf') = Len(buf) + Repeat(ch)
    <3>1. buf' = buf \o run
      BY <1>8 DEF RepeatByte
    <3> HIDE DEF run
    <3> QED
      BY <2>2, <2>4, <3>1
  <2>6. Len(buf') <= BufSize - 1
    BY <1>8, <2>1, <2>2, <2>5, PacketAssumption DEF RepeatByte
  <2> QED
    BY <1>1, <1>8, <2>5, <2>6, AddRange DEF RepeatByte, Log, TypeOK, BufferBound, HighFirst
<1>9. CASE HighDigit(ch)
  <2>1. checksum' \in Char /\ checksum' <= 240
    BY <1>9, DigitRange DEF HighDigit, Char
  <2> QED
    BY <1>9, <2>1 DEF HighDigit, TypeOK, BufferBound, HighFirst
<1>10. CASE Nak(ch) \/ Ack(ch)
  <2>1. checksum' \in Char
    <3>1. checksum \in Nat /\ checksum <= 240
      BY <1>10 DEF Nak, Ack, TypeOK, HighFirst, Char
    <3>2. FromHex(ch) \in 0..15 /\ checksum' = checksum + FromHex(ch)
      BY <1>10, DigitRange DEF Nak, Ack
    <3> QED
      BY <3>1, <3>2 DEF Char
  <2>2. \A len \in ReadSizes : MemToHex(len) \in Nat
    BY PacketAssumption DEF MemToHex
  <2>3. text' \in Nat
    BY <1>10, <2>2 DEF Nak, Ack, TypeOK
  <2> QED
    BY <1>10, <2>1, <2>3 DEF Nak, Ack, TypeOK, BufferBound, HighFirst
<1> QED
  BY <1>2, <1>3, <1>4, <1>5, <1>6, <1>7, <1>8, <1>9, <1>10

(* IInv is an invariant of every client.                                   *)
THEOREM Inductive == Spec => []IInv
<1>1. Init => IInv
  BY PacketAssumption DEF Init, IInv, TypeOK, BufferBound, HighFirst, Char
<1>2. IInv /\ [Next]_vars => IInv'
  <2> SUFFICES ASSUME IInv, [Next]_vars PROVE IInv'
    OBVIOUS
  <2>1. CASE Next
    BY <2>1, ByteInv, InputRange DEF Next, IInv
  <2>2. CASE UNCHANGED vars
    BY <2>2 DEF vars, IInv, TypeOK, BufferBound, HighFirst
  <2> QED
    BY <2>1, <2>2
<1> QED
  BY <1>1, <1>2, PTL DEF Spec

(* The variables keep their types: TypeOK.                                 *)
THEOREM TypeCorrect == Spec => []TypeOK
<1>1. IInv => TypeOK
  BY DEF IInv
<1> QED
  BY <1>1, Inductive, PTL

(* No frame overruns cmd_buf: BufferBound (GdbStub.cpp:430-536).           *)
THEOREM NoOverrun == Spec => []BufferBound
<1>1. IInv => BufferBound
  BY DEF IInv
<1> QED
  BY <1>1, Inductive, PTL

----------------------------------------------------------------------------
(***************************************************************************)
(* What a payload stands for grows with it.  The recursive functions of    *)
(* Roles, Texts and Sums exist because each step stays in a set of values; *)
(* a count with nothing to repeat repeats the value that TLA+ leaves       *)
(* open, which is a member of Text by name.                                *)
(***************************************************************************)
Role == {"char", "brace", "star", "escaped", "count"}
Piece == Char \cup {(<<>>)[0]}
Text == Seq(Piece)

(* Each byte has a role.                                                   *)
LEMMA NextRoleType ==
    ASSUME NEW r, NEW ch
    PROVE  NextRole(r, ch) \in Role
  BY DEF NextRole, Role

(* Each byte extends a text to a text.                                     *)
LEMMA ExtendType ==
    ASSUME NEW t \in Text, NEW r \in Role, NEW ch \in Char
    PROVE  Extend(t, r, ch) \in Text
<1>1. ch \in Piece /\ Flip(ch) \in Piece
  BY FlipRange DEF Piece
<1>2. CASE r = "char"
  BY <1>1, <1>2 DEF Extend, Text
<1>3. CASE r = "escaped"
  BY <1>1, <1>3 DEF Extend, Text
<1>4. CASE r = "count"
  <2>1. t[Len(t)] \in Piece
    <3>1. CASE t = <<>>
      BY <3>1 DEF Piece
    <3>2. CASE t # <<>>
      BY <3>2 DEF Text
    <3> QED
      BY <3>1, <3>2
  <2> DEFINE n == IF ch < 29 THEN 0 ELSE ch - 29
             run == [k \in 1..(ch - 29) |-> t[Len(t)]]
  <2>2. n \in Nat /\ 1..(ch - 29) = 1..n
    BY DEF Char
  <2>3. run \in Seq(Piece)
    BY <2>1, <2>2
  <2>4. Extend(t, r, ch) = t \o run
    BY <1>4 DEF Extend
  <2> HIDE DEF run
  <2> QED
    BY <2>3, <2>4 DEF Text
<1>5. CASE r \in {"brace", "star"}
  BY <1>5 DEF Extend
<1> QED
  BY <1>2, <1>3, <1>4, <1>5 DEF Role

(* Roles is the function that its equation describes.                      *)
LEMMA RolesDef ==
    ASSUME NEW s \in Seq(Char)
    PROVE  /\ Roles(s) \in [0..Len(s) -> Role]
           /\ Roles(s)[0] = "char"
           /\ \A i \in 1..Len(s) : Roles(s)[i] = NextRole(Roles(s)[i - 1], s[i])
<1> DEFINE Rule(f) == [i \in 0..Len(s) |-> IF i = 0 THEN "char" ELSE NextRole(f[i - 1], s[i])]
           step == [p \in Role \X (1..Len(s)) |-> NextRole(p[1], s[p[2]])]
<1>1. Len(s) \in Nat /\ "char" \in Role
  BY DEF Role
<1>2. step \in [Role \X (1..Len(s)) -> Role]
  BY NextRoleType
<1>3. PICK f : DefinedFrom(f, Len(s), Role, "char", step)
  <2> HIDE DEF step
  <2> QED
    BY <1>1, <1>2, IntervalRecursion
<1>4. f = Rule(f)
  <2>1. ASSUME NEW i \in 0..Len(s)
        PROVE  f[i] = IF i = 0 THEN "char" ELSE NextRole(f[i - 1], s[i])
    <3>1. CASE i = 0
      BY <1>3, <3>1 DEF DefinedFrom
    <3>2. CASE i \in 1..Len(s)
      <4>1. f[i - 1] \in Role
        BY <1>1, <1>3, <3>2 DEF DefinedFrom
      <4>2. f[i] = step[<<f[i - 1], i>>]
        <5> HIDE DEF step
        <5> QED
          BY <1>3, <3>2 DEF DefinedFrom
      <4> QED
        BY <3>2, <4>1, <4>2
    <3> QED
      BY <1>1, <3>1, <3>2
  <2>2. f = [i \in 0..Len(s) |-> f[i]]
    BY <1>3 DEF DefinedFrom
  <2> QED
    BY <2>1, <2>2
<1>5. Roles(s) = CHOOSE g : g = Rule(g)
  BY DEF Roles
<1>6. Roles(s) = Rule(Roles(s))
  <2> HIDE DEF Rule
  <2> QED
    BY <1>4, <1>5
<1> HIDE DEF step
<1>7. /\ DOMAIN Roles(s) = 0..Len(s)
      /\ \A i \in 0..Len(s) :
            Roles(s)[i] = IF i = 0 THEN "char" ELSE NextRole(Roles(s)[i - 1], s[i])
  BY <1>6
<1> QED
  BY <1>1, <1>6, <1>7, NextRoleType

(* Texts is the function that its equation describes.                      *)
LEMMA TextsDef ==
    ASSUME NEW s \in Seq(Char)
    PROVE  /\ Texts(s) \in [0..Len(s) -> Text]
           /\ Texts(s)[0] = <<>>
           /\ \A i \in 1..Len(s) : Texts(s)[i] = Extend(Texts(s)[i - 1], Roles(s)[i], s[i])
<1> DEFINE Rule(f) == [i \in 0..Len(s) |-> IF i = 0 THEN <<>> ELSE Extend(f[i - 1], Roles(s)[i], s[i])]
           step == [p \in Text \X (1..Len(s)) |-> Extend(p[1], Roles(s)[p[2]], s[p[2]])]
<1>1. Len(s) \in Nat /\ <<>> \in Text
  BY DEF Text
<1>2. ASSUME NEW v \in Text, NEW i \in 1..Len(s)
      PROVE  Extend(v, Roles(s)[i], s[i]) \in Text
  BY RolesDef, ExtendType
<1>3. step \in [Text \X (1..Len(s)) -> Text]
  BY <1>2
<1>4. PICK f : DefinedFrom(f, Len(s), Text, <<>>, step)
  <2> HIDE DEF step
  <2> QED
    BY <1>1, <1>3, IntervalRecursion
<1>5. f = Rule(f)
  <2>1. ASSUME NEW i \in 0..Len(s)
        PROVE  f[i] = IF i = 0 THEN <<>> ELSE Extend(f[i - 1], Roles(s)[i], s[i])
    <3>1. CASE i = 0
      BY <1>4, <3>1 DEF DefinedFrom
    <3>2. CASE i \in 1..Len(s)
      <4>1. f[i - 1] \in Text
        BY <1>1, <1>4, <3>2 DEF DefinedFrom
      <4>2. f[i] = step[<<f[i - 1], i>>]
        <5> HIDE DEF step
        <5> QED
          BY <1>4, <3>2 DEF DefinedFrom
      <4> QED
        BY <3>2, <4>1, <4>2
    <3> QED
      BY <1>1, <3>1, <3>2
  <2>2. f = [i \in 0..Len(s) |-> f[i]]
    BY <1>4 DEF DefinedFrom
  <2> QED
    BY <2>1, <2>2
<1>6. Texts(s) = CHOOSE g : g = Rule(g)
  BY DEF Texts
<1>7. Texts(s) = Rule(Texts(s))
  <2> HIDE DEF Rule
  <2> QED
    BY <1>5, <1>6
<1> HIDE DEF step
<1>8. /\ DOMAIN Texts(s) = 0..Len(s)
      /\ \A i \in 0..Len(s) :
            Texts(s)[i] = IF i = 0 THEN <<>> ELSE Extend(Texts(s)[i - 1], Roles(s)[i], s[i])
  BY <1>7
<1> DEFINE Typed == {i \in 0..Len(s) : Texts(s)[i] \in Text}
<1>9. 0..Len(s) \subseteq Typed
  <2>1. 0 \in Typed
    BY <1>1, <1>8
  <2>2. ASSUME NEW i \in 0..(Len(s) - 1), i \in Typed PROVE i + 1 \in Typed
    <3>1. i + 1 \in 1..Len(s) /\ (i + 1) - 1 = i
      BY <1>1
    <3> QED
      BY <1>2, <1>8, <2>2, <3>1
  <2> HIDE DEF Typed
  <2> QED
    BY <1>1, <2>1, <2>2, IntervalInduction
<1>10. Texts(s) \in [0..Len(s) -> Text]
  BY <1>7, <1>9
<1> QED
  BY <1>1, <1>8, <1>10

(* Sums is the function that its equation describes.                       *)
LEMMA SumsDef ==
    ASSUME NEW s \in Seq(Char)
    PROVE  /\ Sums(s) \in [0..Len(s) -> Nat]
           /\ Sums(s)[0] = 0
           /\ \A i \in 1..Len(s) : Sums(s)[i] = Sums(s)[i - 1] + s[i]
<1> DEFINE Rule(f) == [i \in 0..Len(s) |-> IF i = 0 THEN 0 ELSE f[i - 1] + s[i]]
           step == [p \in Nat \X (1..Len(s)) |-> p[1] + s[p[2]]]
<1>1. Len(s) \in Nat /\ 0 \in Nat
  OBVIOUS
<1>2. ASSUME NEW v \in Nat, NEW i \in 1..Len(s)
      PROVE  v + s[i] \in Nat
  <2>1. s[i] \in Char
    OBVIOUS
  <2>2. Char \subseteq Nat
    BY DEF Char
  <2>3. s[i] \in Nat
    BY <2>1, <2>2
  <2> QED
    BY <2>3
<1>3. step \in [Nat \X (1..Len(s)) -> Nat]
  BY <1>2
<1>4. PICK f : DefinedFrom(f, Len(s), Nat, 0, step)
  <2> HIDE DEF step
  <2> QED
    BY <1>1, <1>3, IntervalRecursion
<1>5. f = Rule(f)
  <2>1. ASSUME NEW i \in 0..Len(s)
        PROVE  f[i] = IF i = 0 THEN 0 ELSE f[i - 1] + s[i]
    <3>1. CASE i = 0
      BY <1>4, <3>1 DEF DefinedFrom
    <3>2. CASE i \in 1..Len(s)
      <4>1. f[i - 1] \in Nat
        BY <1>1, <1>4, <3>2 DEF DefinedFrom
      <4>2. f[i] = step[<<f[i - 1], i>>]
        <5> HIDE DEF step
        <5> QED
          BY <1>4, <3>2 DEF DefinedFrom
      <4> QED
        BY <3>2, <4>1, <4>2
    <3> QED
      BY <1>1, <3>1, <3>2
  <2>2. f = [i \in 0..Len(s) |-> f[i]]
    BY <1>4 DEF DefinedFrom
  <2> QED
    BY <2>1, <2>2
<1>6. Sums(s) = CHOOSE g : g = Rule(g)
  BY DEF Sums
<1>7. Sums(s) = Rule(Sums(s))
  <2> HIDE DEF Rule
  <2> QED
    BY <1>5, <1>6
<1> HIDE DEF step
<1>8. /\ DOMAIN Sums(s) = 0..Len(s)
      /\ \A i \in 0..Len(s) :
            Sums(s)[i] = IF i = 0 THEN 0 ELSE Sums(s)[i - 1] + s[i]
  BY <1>7
<1> DEFINE Typed == {i \in 0..Len(s) : Sums(s)[i] \in Nat}
<1>9. 0..Len(s) \subseteq Typed
  <2>1. 0 \in Typed
    BY <1>1, <1>8
  <2>2. ASSUME NEW i \in 0..(Len(s) - 1), i \in Typed PROVE i + 1 \in Typed
    <3>1. i + 1 \in 1..Len(s) /\ (i + 1) - 1 = i
      BY <1>1
    <3>2. Sums(s)[i] \in Nat /\ Sums(s)[i + 1] = Sums(s)[i] + s[i + 1]
      BY <1>8, <2>2, <3>1
    <3>3. Sums(s)[i + 1] \in Nat
      BY <1>2, <3>1, <3>2
    <3> QED
      BY <3>1, <3>3
  <2> HIDE DEF Typed
  <2> QED
    BY <1>1, <2>1, <2>2, IntervalInduction
<1>10. Sums(s) \in [0..Len(s) -> Nat]
  BY <1>7, <1>9
<1> QED
  BY <1>1, <1>8, <1>10

(* One byte more leaves what stands before it as it is.                    *)
LEMMA PrefixKept ==
    ASSUME NEW s \in Seq(Char), NEW ch \in Char, NEW i \in 0..Len(s)
    PROVE  /\ Roles(Append(s, ch))[i] = Roles(s)[i]
           /\ Texts(Append(s, ch))[i] = Texts(s)[i]
           /\ Sums(Append(s, ch))[i] = Sums(s)[i]
<1> DEFINE t == Append(s, ch)
           Kept == {j \in 0..Len(s) : /\ Roles(t)[j] = Roles(s)[j]
                                       /\ Texts(t)[j] = Texts(s)[j]
                                       /\ Sums(t)[j] = Sums(s)[j]}
<1>1. t \in Seq(Char) /\ Len(t) = Len(s) + 1 /\ Len(s) \in Nat
  OBVIOUS
<1>2. \A j \in 1..Len(s) : t[j] = s[j]
  OBVIOUS
<1> HIDE DEF t
<1>3. 0 \in Kept
  BY <1>1, RolesDef, TextsDef, SumsDef
<1>4. ASSUME NEW j \in 0..(Len(s) - 1), j \in Kept PROVE j + 1 \in Kept
  <2>1. j + 1 \in 1..Len(s) /\ j + 1 \in 1..Len(t) /\ (j + 1) - 1 = j /\ t[j + 1] = s[j + 1]
    BY <1>1, <1>2
  <2>2. Roles(t)[j + 1] = Roles(s)[j + 1]
    BY <1>1, <1>4, <2>1, RolesDef
  <2>3. Texts(t)[j + 1] = Texts(s)[j + 1]
    BY <1>1, <1>4, <2>1, <2>2, TextsDef
  <2>4. Sums(t)[j + 1] = Sums(s)[j + 1]
    BY <1>1, <1>4, <2>1, SumsDef, ZenonT(60)
  <2> QED
    BY <2>1, <2>2, <2>3, <2>4
<1>5. 0..Len(s) \subseteq Kept
  <2> HIDE DEF Kept
  <2> QED
    BY <1>1, <1>3, <1>4, IntervalInduction
<1> QED
  BY <1>5 DEF t

LastRole(s) == Roles(s)[Len(s)]

(* What one byte more makes of a payload.                                  *)
LEMMA ByteMore ==
    ASSUME NEW s \in Seq(Char), NEW ch \in Char
    PROVE  /\ LastRole(Append(s, ch)) = NextRole(LastRole(s), ch)
           /\ Decode(Append(s, ch)) = Extend(Decode(s), LastRole(Append(s, ch)), ch)
           /\ SumOf(Append(s, ch)) = (SumOf(s) + ch) % 256
<1> DEFINE t == Append(s, ch)
           n == Len(s)
<1>1. /\ t \in Seq(Char) /\ n \in Nat
      /\ Len(t) = n + 1 /\ t[n + 1] = ch
      /\ n \in 0..n /\ n + 1 \in 1..(n + 1) /\ (n + 1) - 1 = n
  OBVIOUS
<1>2. Roles(t)[n] = Roles(s)[n] /\ Texts(t)[n] = Texts(s)[n] /\ Sums(t)[n] = Sums(s)[n]
  BY <1>1, PrefixKept
<1>3. Sums(s)[n] \in Nat /\ ch \in Nat
  BY <1>1, SumsDef DEF Char
<1> HIDE DEF t, n
<1>4. /\ Roles(t)[n + 1] = NextRole(Roles(t)[n], ch)
      /\ Texts(t)[n + 1] = Extend(Texts(t)[n], Roles(t)[n + 1], ch)
      /\ Sums(t)[n + 1] = Sums(t)[n] + ch
  BY <1>1, RolesDef, TextsDef, SumsDef, SMTT(30)
<1>5. (Sums(s)[n] + ch) % 256 = ((Sums(s)[n] % 256) + ch) % 256
  BY <1>3
<1>6. SumOf(t) = (SumOf(s) + ch) % 256
  BY <1>1, <1>2, <1>4, <1>5 DEF SumOf, n
<1>7. LastRole(t) = NextRole(LastRole(s), ch)
  BY <1>1, <1>2, <1>4 DEF LastRole, n
<1>8. Decode(t) = Extend(Decode(s), LastRole(t), ch)
  BY <1>1, <1>2, <1>4 DEF Decode, LastRole, n
<1> QED
  BY <1>6, <1>7, <1>8 DEF t

(* The empty payload.                                                      *)
LEMMA NoByte == LastRole(<<>>) = "char" /\ Decode(<<>>) = <<>> /\ SumOf(<<>>) = 0
<1>1. <<>> \in Seq(Char) /\ Len(<<>>) = 0
  OBVIOUS
<1>2. Roles(<<>>)[0] = "char" /\ Texts(<<>>)[0] = <<>> /\ Sums(<<>>)[0] = 0
  BY <1>1, RolesDef, TextsDef, SumsDef
<1> QED
  BY <1>1, <1>2 DEF LastRole, Decode, SumOf

----------------------------------------------------------------------------
(***************************************************************************)
(* The automaton follows the protocol byte by byte: while a payload is     *)
(* clean, cmd_buf and line_sum are the text and the sum of the bytes so    *)
(* far, and the state remembers the role of the last one.  An answer       *)
(* outlives the frame, so what it was given for is kept with it.           *)
(***************************************************************************)
Told == buf = Decode(raw) /\ line_sum = SumOf(raw)

Awaits ==
    CASE state = "ESC" -> LastRole(raw) = "brace"
      [] state = "RLE" -> LastRole(raw) = "star"
      [] OTHER -> LastRole(raw) \notin {"brace", "star"}

Tracks ==
    /\ state # "IDLE" => reply = "none"
    /\ (clean /\ state # "IDLE") => Told /\ Awaits
    /\ (clean /\ reply # "none") => Told
    /\ reply = "+" => checksum = line_sum
    /\ reply = "-" => checksum # line_sum

(* Only a frame has a payload.                                             *)
LEMMA IdleTracks ==
    ASSUME IInv, Tracks, NEW ch \in Char, IdleByte(ch)
    PROVE  Tracks'
<1>1. CASE ch = Dollar
  BY <1>1, NoByte DEF IdleByte, Tracks, Told, Awaits
<1>2. CASE ch # Dollar
  BY <1>2 DEF IdleByte, Tracks, Told, Awaits, vars
<1> QED
  BY <1>1, <1>2

(* The bytes that are part of the payload.                                 *)
LEMMA PayloadTracks ==
    ASSUME IInv, Tracks, NEW ch \in Char,
           ControlByte(ch) \/ PlainByte(ch) \/ EscapedByte(ch) \/ RepeatByte(ch)
    PROVE  Tracks'
<1>1. raw \in Seq(Char) /\ line_sum \in Char
  BY DEF IInv, TypeOK
<1>2. /\ raw' = Append(raw, ch) /\ line_sum' = (line_sum + ch) % 256
      /\ state # "IDLE" /\ state' # "IDLE" /\ reply' = reply /\ clean' = clean
  BY DEF ControlByte, PlainByte, EscapedByte, RepeatByte, Log, Add
<1>3. reply' = "none"
  BY <1>2 DEF Tracks
<1> SUFFICES ASSUME clean PROVE Told' /\ Awaits'
  BY <1>2, <1>3 DEF Tracks
<1>4. buf = Decode(raw) /\ line_sum = SumOf(raw) /\ Awaits
  BY <1>2 DEF Tracks, Told
<1>5. line_sum' = SumOf(raw')
  BY <1>1, <1>2, <1>4, ByteMore
<1>6. /\ LastRole(raw') = NextRole(LastRole(raw), ch)
      /\ Decode(raw') = Extend(buf, LastRole(raw'), ch)
  BY <1>1, <1>2, <1>4, ByteMore
<1>7. CASE ControlByte(ch)
  <2>1. LastRole(raw) \notin {"brace", "star"}
    BY <1>4, <1>7 DEF ControlByte, Awaits
  <2>2. \/ ch = Brace /\ state' = "ESC" /\ LastRole(raw') = "brace"
        \/ ch = Star /\ state' = "RLE" /\ LastRole(raw') = "star"
    BY <1>6, <1>7, <2>1 DEF ControlByte, NextRole, Brace, Star
  <2>3. buf' = Decode(raw')
    BY <1>6, <1>7, <2>2 DEF ControlByte, Extend
  <2> QED
    BY <1>5, <2>2, <2>3 DEF Told, Awaits
<1>8. CASE PlainByte(ch)
  <2>1. LastRole(raw) \notin {"brace", "star"}
    BY <1>4, <1>8 DEF PlainByte, Awaits
  <2>2. LastRole(raw') = "char"
    BY <1>6, <1>8, <2>1 DEF PlainByte, NextRole
  <2>3. buf' = Decode(raw') /\ state' = "GETLINE"
    BY <1>6, <1>8, <2>2 DEF PlainByte, Extend
  <2> QED
    BY <1>5, <2>2, <2>3 DEF Told, Awaits
<1>9. CASE EscapedByte(ch)
  <2>1. LastRole(raw') = "escaped"
    BY <1>4, <1>6, <1>9 DEF EscapedByte, Awaits, NextRole
  <2>2. buf' = Decode(raw') /\ state' = "GETLINE"
    BY <1>6, <1>9, <2>1 DEF EscapedByte, Extend
  <2> QED
    BY <1>5, <2>1, <2>2 DEF Told, Awaits
<1>10. CASE RepeatByte(ch)
  <2>1. LastRole(raw') = "count"
    BY <1>4, <1>6, <1>10 DEF RepeatByte, Awaits, NextRole
  <2>2. Repeat(ch) = ch - 29
    BY DEF Repeat, Space, Char
  <2>3. buf' = Decode(raw') /\ state' = "GETLINE"
    BY <1>6, <1>10, <2>1, <2>2 DEF RepeatByte, Extend
  <2> QED
    BY <1>5, <2>1, <2>3 DEF Told, Awaits
<1> QED
  BY <1>7, <1>8, <1>9, <1>10

(* The bytes that end a payload, or spoil it.                              *)
LEMMA EndTracks ==
    ASSUME IInv, Tracks, NEW ch \in Char,
           \/ EndByte(ch) \/ RepeatInvalid(ch) \/ NoDigit(ch)
           \/ PlainOverrun(ch) \/ EscapedOverrun(ch) \/ RepeatOverrun(ch)
    PROVE  Tracks'
<1>1. CASE EndByte(ch)
  BY <1>1 DEF EndByte, Tracks, Told, Awaits
<1>2. CASE RepeatInvalid(ch) \/ NoDigit(ch)
  BY <1>2 DEF RepeatInvalid, NoDigit, Tracks
<1>3. CASE PlainOverrun(ch) \/ EscapedOverrun(ch) \/ RepeatOverrun(ch)
  BY <1>3 DEF PlainOverrun, EscapedOverrun, RepeatOverrun, Drop, Tracks
<1> QED
  BY <1>1, <1>2, <1>3

(* The digits of the checksum, and the answer.                             *)
LEMMA DigitTracks ==
    ASSUME IInv, Tracks, NEW ch \in Char, HighDigit(ch) \/ Nak(ch) \/ Ack(ch)
    PROVE  Tracks'
<1>1. CASE HighDigit(ch)
  BY <1>1 DEF HighDigit, Tracks, Told, Awaits
<1>2. CASE Nak(ch)
  BY <1>2 DEF Nak, Tracks, Told
<1>3. CASE Ack(ch)
  BY <1>3 DEF Ack, Tracks, Told
<1> QED
  BY <1>1, <1>2, <1>3

(* Tracks is an invariant of every client.                                 *)
THEOREM Tracking == Spec => []Tracks
<1>1. Init => Tracks
  BY DEF Init, Tracks
<1>2. IInv /\ Tracks /\ [Next]_vars => Tracks'
  <2> SUFFICES ASSUME IInv, Tracks, [Next]_vars PROVE Tracks'
    OBVIOUS
  <2>1. CASE Next
    BY <2>1, InputRange, IdleTracks, PayloadTracks, EndTracks, DigitTracks DEF Next, IInv
  <2>2. CASE UNCHANGED vars
    BY <2>2 DEF vars, Tracks, Told, Awaits
  <2> QED
    BY <2>1, <2>2
<1> QED
  BY <1>1, <1>2, Inductive, PTL DEF Spec

(***************************************************************************)
(* A command that is executed is the one the frame's payload stands for,   *)
(* and has its checksum: AcceptedIsDecoded (GdbStub.cpp:437-531).          *)
(***************************************************************************)
THEOREM AcceptedFrames == Spec => []AcceptedIsDecoded
<1>1. Tracks => AcceptedIsDecoded
  BY DEF Tracks, Told, AcceptedIsDecoded
<1> QED
  BY <1>1, Tracking, PTL

(* A frame that arrived as it was sent is not refused: RefusedIsDamaged    *)
(* (GdbStub.cpp:437-531).                                                  *)
THEOREM RefusedFrames == Spec => []RefusedIsDamaged
<1>1. Tracks => RefusedIsDamaged
  BY DEF Tracks, Told, RefusedIsDamaged
<1> QED
  BY <1>1, Tracking, PTL

(* A byte is refused only for want of room.                                *)
LEMMA OverrunIsFull ==
    ASSUME IInv, Tracks, clean, NEW ch \in Char,
           PlainOverrun(ch) \/ EscapedOverrun(ch) \/ RepeatOverrun(ch)
    PROVE  buf = <<>> \/ Len(Decode(raw')) >= BufSize - 1
<1>1. raw \in Seq(Char) /\ buf \in Seq(Char) /\ raw' = Append(raw, ch) 
  BY DEF IInv, TypeOK, PlainOverrun, EscapedOverrun, RepeatOverrun, Log
<1>2. Awaits /\ buf = Decode(raw)
  BY DEF Tracks, PlainOverrun, EscapedOverrun, RepeatOverrun, Told
<1>3. /\ LastRole(raw') = NextRole(LastRole(raw), ch)
      /\ Decode(raw') = Extend(buf, LastRole(raw'), ch)
  BY <1>1, <1>2, ByteMore
<1>4. CASE PlainOverrun(ch)
  <2>1. LastRole(raw') = "char"
    BY <1>2, <1>3, <1>4 DEF PlainOverrun, Awaits, NextRole
  <2>2. Decode(raw') = Append(buf, ch)
    BY <1>3, <2>1 DEF Extend
  <2>3. Len(Decode(raw')) = Len(buf) + 1 /\ Len(buf) >= BufSize - 1
    BY <1>1, <1>4, <2>2 DEF PlainOverrun, Full
  <2> QED
    BY <1>1, <2>3, PacketAssumption
<1>5. CASE EscapedOverrun(ch)
  <2>1. LastRole(raw') = "escaped"
    BY <1>2, <1>3, <1>5 DEF EscapedOverrun, Awaits, NextRole
  <2>2. Decode(raw') = Append(buf, Flip(ch)) /\ Flip(ch) \in Char
    BY <1>3, <2>1, FlipRange DEF Extend
  <2>3. Len(Decode(raw')) = Len(buf) + 1 /\ Len(buf) >= BufSize - 1
    BY <1>1, <1>5, <2>2 DEF EscapedOverrun, Full
  <2> QED
    BY <1>1, <2>3, PacketAssumption
<1>6. CASE RepeatOverrun(ch) /\ buf # <<>>
  <2>1. LastRole(raw') = "count"
    BY <1>2, <1>3, <1>6 DEF RepeatOverrun, Awaits, NextRole
  <2> DEFINE run == [k \in 1..(ch - 29) |-> buf[Len(buf)]]
  <2>2. Decode(raw') = buf \o run
    BY <1>3, <2>1 DEF Extend
  <2>3. ch - 29 \in Nat /\ Repeat(ch) = ch - 29
    BY <1>6 DEF RepeatOverrun, Repeat, Space, Char
  <2>4. buf[Len(buf)] \in Char
    BY <1>1, <1>6
  <2>5. run \in Seq(Char) /\ Len(run) = ch - 29
    BY <2>3, <2>4
  <2> HIDE DEF run
  <2>6. Len(Decode(raw')) = Len(buf) + Repeat(ch)
    <3>1. Len(buf \o run) = Len(buf) + Len(run)
      BY <1>1, <2>5, ConcatProperties
    <3> QED
      BY <2>2, <2>3, <2>5, <3>1
  <2>7. Len(buf) + Repeat(ch) >= BufSize - 1
    BY <1>6 DEF RepeatOverrun
  <2>8. Len(buf) \in Nat
    BY <1>1
  <2> QED
    BY <2>3, <2>6, <2>7, <2>8, PacketAssumption
<1> QED
  BY <1>4, <1>5, <1>6

(***************************************************************************)
(* A frame is dropped only for want of room: DropOnlyWhenFull              *)
(* (GdbStub.cpp:447-450, 461-464, 482-485).                                *)
(***************************************************************************)
THEOREM DropsAreFull == Spec => DropOnlyWhenFull
<1> DEFINE Dropped == state \notin {"IDLE", "CHKSUM2"} /\ state' = "IDLE" /\ clean
<1>1. ASSUME IInv, Next, Dropped, NEW ch \in Char,
             \/ IdleByte(ch) \/ ControlByte(ch) \/ EndByte(ch)
             \/ PlainByte(ch) \/ PlainOverrun(ch)
             \/ EscapedByte(ch) \/ EscapedOverrun(ch)
             \/ RepeatByte(ch) \/ RepeatInvalid(ch) \/ RepeatOverrun(ch)
             \/ NoDigit(ch) \/ HighDigit(ch) \/ Nak(ch) \/ Ack(ch)
      PROVE  PlainOverrun(ch) \/ EscapedOverrun(ch) \/ RepeatOverrun(ch)
  BY <1>1 DEF IdleByte, ControlByte, EndByte, PlainByte, EscapedByte, RepeatByte,
              RepeatInvalid, NoDigit, HighDigit, Nak, Ack
<1>2. IInv /\ Tracks /\ [Next]_vars =>
        [Dropped => (buf = <<>> \/ Len(Decode(raw')) >= BufSize - 1)]_vars
  <2> SUFFICES ASSUME IInv, Tracks, Next, Dropped
               PROVE  buf = <<>> \/ Len(Decode(raw')) >= BufSize - 1
    OBVIOUS
  <2> QED
    BY <1>1, InputRange, OverrunIsFull DEF Next, IInv
<1>3. IInv /\ Tracks /\ [Next]_vars =>
        [(state \notin {"IDLE", "CHKSUM2"} /\ state' = "IDLE" /\ clean)
           => (buf = <<>> \/ Len(Decode(raw')) >= BufSize - 1)]_vars
  BY <1>2
<1> QED
  BY <1>3, Inductive, Tracking, PTL DEF Spec, DropOnlyWhenFull
============================================================================
