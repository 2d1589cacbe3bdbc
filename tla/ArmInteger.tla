----------------------------- MODULE ArmInteger -----------------------------
(***************************************************************************)
(* The integer instructions and the branches.                              *)
(***************************************************************************)
EXTENDS ArmState

AddWithCarry(a, b, carry, n) ==
    LET sum == a + b + carry
        v == Low(sum, n)
    IN  [v |-> v,
         nzcv |-> {f \in {"N", "Z", "C", "V"} :
                     \/ f = "N" /\ Signed(v, n) < 0
                     \/ f = "Z" /\ v = 0
                     \/ f = "C" /\ v # sum
                     \/ f = "V" /\ Signed(v, n) # Signed(a, n) + Signed(b, n) + carry}]

AddSub(a, b, alu, n) ==
    IF alu = "SUB" THEN AddWithCarry(a, 2^n - 1 - b, 1, n) ELSE AddWithCarry(a, b, 0, n)

Holds(cond) ==
    CASE cond = 0 -> "Z" \in nzcv               \* EQ
      [] cond = 1 -> "Z" \notin nzcv            \* NE
      [] cond = 2 -> "C" \in nzcv               \* CS
      [] cond = 3 -> "C" \notin nzcv            \* CC
      [] cond = 4 -> "N" \in nzcv               \* MI
      [] cond = 5 -> "N" \notin nzcv            \* PL
      [] cond = 6 -> "V" \in nzcv               \* VS
      [] cond = 7 -> "V" \notin nzcv            \* VC
      [] cond = 8 -> "C" \in nzcv /\ "Z" \notin nzcv       \* HI
      [] cond = 9 -> "C" \notin nzcv \/ "Z" \in nzcv       \* LS
      [] cond = 10 -> ("N" \in nzcv) = ("V" \in nzcv)      \* GE
      [] cond = 11 -> ("N" \in nzcv) # ("V" \in nzcv)      \* LT
      [] cond = 12 -> ("N" \in nzcv) = ("V" \in nzcv) /\ "Z" \notin nzcv   \* GT
      [] cond = 13 -> (("N" \in nzcv) # ("V" \in nzcv)) \/ "Z" \in nzcv      \* LE
      [] OTHER -> TRUE

Shifted(w, type, k, n) ==
    CASE type = "LSL" -> Low(w * 2^k, n)
      [] type = "LSR" -> w \div 2^k
      [] type = "ASR" -> Low(Signed(w, n) \div 2^k, n)
      [] type = "ROR" -> Low(w * 2^(n - k), n) + w \div 2^k

Logic(a, b, alu) ==
    CASE alu = "AND" -> And(a, b) [] alu = "OR" -> Or(a, b) [] alu = "EOR" -> Xor(a, b)

(* The flags of a logical operation: no carry and no overflow.             *)
LogicFlags(v, n) == {f \in {"N", "Z"} : (f = "N" /\ Signed(v, n) < 0) \/ (f = "Z" /\ v = 0)}

(* A bitfield move takes bits ri .. si down to 0, or bits 0 .. si up to    *)
(* the place where ri rotates them.                                        *)
Field(w, ri, si, n) ==
    IF si >= ri THEN {b - ri : b \in Bits(w) \cap (ri .. si)}
                ELSE {b + n - ri : b \in Bits(w) \cap (0 .. si)}
Places(ri, si, n) == IF si >= ri THEN 0 .. si - ri ELSE n - ri .. n - ri + si
Signs(w, ri, si, n) ==
    IF si \in Bits(w) THEN Max(Places(ri, si, n)) + 1 .. n - 1 ELSE {}
Moved(d, w, ri, si, opc, n) ==
    Field(w, ri, si, n) \cup
        CASE opc = "UBFM" -> {}
          [] opc = "SBFM" -> Signs(w, ri, si, n)
          [] opc = "BFM" -> Bits(d) \ Places(ri, si, n)

Extended(w, option, n) ==
    LET bits == Byte * 2^option.size
    IN  Low(IF option.sign THEN Signed(w, bits) ELSE Low(w, bits), n)

(* The pieces of each block of bits in reverse order.                      *)
Mirror(b, block, piece) ==
    LET place == (b % block) \div piece
    IN  (b - (b % block)) + ((block \div piece) - 1 - place) * piece + (b % piece)
Reversed(w, n, block, piece) ==
    Num({b \in 0 .. n - 1 : Mirror(b, block, piece) \in Bits(w)})
LeadingZeros(w, n) == n - Cardinality({b \in 0 .. n - 1 : \E c \in Bits(w) : c >= b})
SameAsSign(w, n) == {b \in 0 .. n - 2 : (b \in Bits(w)) = (n - 1 \in Bits(w))}
LeadingSigns(w, n) ==
    Cardinality({b \in SameAsSign(w, n) : \A c \in b .. n - 2 : c \in SameAsSign(w, n)})

(* Integer division rounds towards zero; by zero it is zero.               *)
Quotient(a, b) ==
    CASE b = 0 -> 0
      [] b > 0 -> IF a >= 0 THEN a \div b ELSE -((-a) \div b)
      [] b < 0 -> IF a >= 0 THEN -(a \div (-b)) ELSE (-a) \div (-b)

N == Width(I.sf)

PCRelAddr ==
    /\ Fetched("PCRelAddr")
    /\ LET page == 2^PageBits
       IN  SetReg(I.rd, (IF I.page THEN pc - (pc % page) ELSE pc) + I.imm, TRUE)
    /\ NextPC /\ UNCHANGED nzcv

AddSubImm ==
    /\ Fetched("AddSubImm")
    /\ LET sum == AddSub(RegSP(I.rn, I.sf), I.imm, I.alu, N)
       IN  /\ IF I.setflags THEN SetReg(I.rd, sum.v, I.sf) ELSE SetRegSP(I.rd, sum.v, I.sf)
           /\ nzcv' = IF I.setflags THEN sum.nzcv ELSE nzcv
    /\ NextPC

(* Two registers, the second shifted, or extended (and then register 31 is *)
(* the stack pointer).                                                     *)
AddSubRegs(b, stack) ==
    LET sum == AddSub(Operand(I.rn, I.sf, stack), b, I.alu, N)
    IN  /\ IF stack /\ ~I.setflags THEN SetRegSP(I.rd, sum.v, I.sf)
                                   ELSE SetReg(I.rd, sum.v, I.sf)
        /\ nzcv' = IF I.setflags THEN sum.nzcv ELSE nzcv
        /\ NextPC

AddSubReg ==
    /\ Fetched("AddSubReg")
    /\ AddSubRegs(Shifted(RegZ(I.rm, I.sf), I.shift, I.amount, N), FALSE)
AddSubExtReg ==
    /\ Fetched("AddSubExtReg")
    /\ AddSubRegs(Low(Extended(RegZ(I.rm, TRUE), I.option, N) * 2^I.amount, N), TRUE)

AddSubcReg ==
    /\ Fetched("AddSubcReg")
    /\ LET b == RegZ(I.rm, I.sf)
           sum == AddWithCarry(RegZ(I.rn, I.sf), IF I.alu = "SUB" THEN 2^N - 1 - b ELSE b,
                               IF "C" \in nzcv THEN 1 ELSE 0, N)
       IN  /\ SetReg(I.rd, sum.v, I.sf)
           /\ nzcv' = IF I.setflags THEN sum.nzcv ELSE nzcv
    /\ NextPC

LogicOf(b, stack) ==
    LET v == Logic(RegZ(I.rn, I.sf), b, I.alu)
    IN  /\ IF stack /\ ~I.setflags THEN SetRegSP(I.rd, v, I.sf) ELSE SetReg(I.rd, v, I.sf)
        /\ nzcv' = IF I.setflags THEN LogicFlags(v, N) ELSE nzcv
        /\ NextPC

LogImm == Fetched("LogImm") /\ LogicOf(Low(I.imm, N), TRUE)
LogicReg ==
    /\ Fetched("LogicReg")
    /\ LET b == Shifted(RegZ(I.rm, I.sf), I.shift, I.amount, N)
       IN  LogicOf(IF I.invert THEN 2^N - 1 - b ELSE b, FALSE)

MovwImm ==
    /\ Fetched("MovwImm")
    /\ LET v == I.imm * 2^I.pos
           kept == Bits(RegZ(I.rd, I.sf)) \ (I.pos .. I.pos + 2 * Byte - 1)
       IN  SetReg(I.rd, CASE I.opc = "MOVZ" -> v
                          [] I.opc = "MOVN" -> 2^N - 1 - v
                          [] I.opc = "MOVK" -> v + Num(kept), I.sf)
    /\ NextPC /\ UNCHANGED nzcv

Bitfield ==
    /\ Fetched("Bitfield")
    /\ SetReg(I.rd, Num(Moved(RegZ(I.rd, I.sf), RegZ(I.rn, I.sf), I.ri, I.si, I.opc, N)), I.sf)
    /\ NextPC /\ UNCHANGED nzcv

(* The N bits from bit imm on of the pair rn:rm.                           *)
ExtractRegs ==
    /\ Fetched("Extract")
    /\ SetReg(I.rd, Low(RegZ(I.rn, I.sf) * 2^(N - I.imm) + RegZ(I.rm, I.sf) \div 2^I.imm, N), I.sf)
    /\ NextPC /\ UNCHANGED nzcv

Link == IF I.link THEN r' = [r EXCEPT ![30] = (pc + InstLen) % 2^Wide] ELSE UNCHANGED r
UncondBrImm ==
    Fetched("UncondBrImm") /\ Link /\ Goto(pc + I.offset) /\ UNCHANGED <<sp, nzcv>>
UncondBrReg ==
    Fetched("UncondBrReg") /\ Link /\ Goto(RegZ(I.rn, TRUE)) /\ UNCHANGED <<sp, nzcv>>
CompBrImm ==
    /\ Fetched("CompBrImm")
    /\ Branch((RegZ(I.rt, I.sf) = 0) = I.equal, I.offset) /\ KeepRegs /\ UNCHANGED nzcv
TestBrImm ==
    /\ Fetched("TestBrImm")
    /\ Branch((I.bit \notin Bits(RegZ(I.rt, TRUE))) = I.equal, I.offset)
    /\ KeepRegs /\ UNCHANGED nzcv
CondBrImm ==
    Fetched("CondBrImm") /\ Branch(Holds(I.cond), I.offset) /\ KeepRegs /\ UNCHANGED nzcv

DataProc3src ==
    /\ Fetched("DataProc3src")
    /\ LET n == IF I.long THEN Half ELSE N
           Val(m) == IF I.sign THEN Signed(RegZ(m, TRUE), n) ELSE Low(RegZ(m, TRUE), n)
           product == Val(I.rn) * Val(I.rm)
       IN  SetReg(I.rd, IF I.high THEN product \div 2^Wide
                        ELSE RegZ(I.ra, I.sf) + (IF I.alu = "SUB" THEN -product ELSE product),
                  I.sf)
    /\ NextPC /\ UNCHANGED nzcv

CompareIf ==
    /\ Fetched("CondCmp")
    /\ LET b == IF I.is_imm THEN I.imm ELSE RegZ(I.rm, I.sf)
       IN  nzcv' = IF Holds(I.cond) THEN AddSub(RegZ(I.rn, I.sf), b, I.alu, N).nzcv ELSE I.nzcv
    /\ NextPC /\ KeepRegs

CondSel ==
    /\ Fetched("CondSel")
    /\ LET b == RegZ(I.rm, I.sf)
           inv == IF I.else_inv THEN 2^N - 1 - b ELSE b
       IN  SetReg(I.rd, IF Holds(I.cond) THEN RegZ(I.rn, I.sf)
                        ELSE inv + (IF I.else_inc THEN 1 ELSE 0), I.sf)
    /\ NextPC /\ UNCHANGED nzcv

DataProc1src ==
    /\ Fetched("DataProc1src")
    /\ LET w == RegZ(I.rn, I.sf)
           Swap(bytes) == Reversed(w, N, bytes * Byte, Byte)
       IN  SetReg(I.rd, CASE I.opc = "RBIT" -> Reversed(w, N, N, 1)
                          [] I.opc = "REV16" -> Swap(2)
                          [] I.opc = "REV32" -> Swap(4)
                          [] I.opc = "REV64" -> Swap(8)
                          [] I.opc = "CLZ" -> LeadingZeros(w, N)
                          [] I.opc = "CLS" -> LeadingSigns(w, N), I.sf)
    /\ NextPC /\ UNCHANGED nzcv

DataProc2src ==
    /\ Fetched("DataProc2src")
    /\ LET a == RegZ(I.rn, I.sf)  b == RegZ(I.rm, I.sf)
       IN  SetReg(I.rd, CASE I.opc = "UDIV" -> Quotient(a, b)
                          [] I.opc = "SDIV" -> Quotient(Signed(a, N), Signed(b, N))
                          [] OTHER -> Shifted(a, I.opc, b % N, N), I.sf)
    /\ NextPC /\ UNCHANGED nzcv

Integer ==
    /\ UNCHANGED <<vr, mem, sysr, monitor>>
    /\ \/ PCRelAddr \/ AddSubImm \/ LogImm \/ MovwImm \/ Bitfield \/ ExtractRegs
       \/ UncondBrImm \/ UncondBrReg \/ CompBrImm \/ TestBrImm \/ CondBrImm
       \/ LogicReg \/ AddSubExtReg \/ AddSubReg \/ DataProc3src \/ AddSubcReg
       \/ CompareIf \/ CondSel \/ DataProc1src \/ DataProc2src
=============================================================================
