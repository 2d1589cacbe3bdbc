---------------------------- MODULE IntegerErrata ----------------------------
(***************************************************************************)
(* The interpreter beside the architecture: what a program sees of its     *)
(* state, and the instruction that comes next.  Then the departures of the *)
(* integer instructions and the branches.                                  *)
(***************************************************************************)
EXTENDS Cpu

Arm == INSTANCE Arm WITH
    r <- [g \in General \cup {GPR_LR} |-> gpr[g]], sp <- gpr[GPR_SP], pc <- PC,
    vr <- [n \in Vectors |-> vreg[n]]

I == code[PC]
Is(cls) == Fetched(cls)
IsW(cls) == Fetched(cls) /\ ~I.sf
N == Width(I.sf)
V(n, sf) == Low(gpr[n], Width(sf))

----------------------------------------------------------------------------
Upper(n) == gpr[n] \div 2^Half
Least == 2^(N - 1)
SetsFlags == I.setflags
Carry == IF "C" \in nzcv THEN 1 ELSE 0

(* The last operand of an addition or a comparison.                        *)
Addend ==
    CASE Is("AddSubImm") -> I.imm
      [] Is("AddSubReg") -> Arm!Shifted(V(I.rm, I.sf), I.shift, I.amount, N)
      [] Is("AddSubExtReg") -> Low(Arm!Extended(gpr[I.rm], I.option, N) * 2^I.amount, N)
      [] Is("CondCmp") -> IF I.is_imm THEN I.imm ELSE V(I.rm, I.sf)

(* Subtracting by adding the negated operand: the carry out of adding zero *)
(* to a W register is put right nowhere, and the least number is its own   *)
(* negation, so that V comes out the other way.                            *)
SubtractionFlags ==
    /\ \/ Is("AddSubImm") /\ SetsFlags
       \/ Is("AddSubReg") /\ SetsFlags
       \/ Is("AddSubExtReg") /\ SetsFlags
       \/ Is("CondCmp") /\ Arm!Holds(I.cond)
    /\ I.alu = "SUB"
    /\ Addend = Least \/ (Addend = 0 /\ ~I.sf)

(* With the carry: SBC adds the flag to a difference that already has it,  *)
(* and the forms that set flags set them, and add the carry, of the sum    *)
(* without it.                                                             *)
CarryChain ==
    /\ Is("AddSubcReg")
    /\ LET a == V(I.rn, I.sf)  b == V(I.rm, I.sf)
           without == Arm!AddWithCarry(a, b, 0, N)
           with == Arm!AddWithCarry(a, b, Carry, N)
       IN  CASE I.alu = "SUB" -> ~(SetsFlags /\ Carry = 1 /\ a < b /\ b # Least)
             [] I.alu = "ADD" /\ SetsFlags ->
                   \/ ("C" \in without.nzcv) # (Carry = 1)
                   \/ without.nzcv # with.nzcv
             [] OTHER -> FALSE

(* ANDS and BICS set C from the sum of their operands.                     *)
LogicCarry ==
    \/ /\ Is("LogImm") /\ SetsFlags
       /\ V(I.rn, I.sf) + Low(I.imm, N) >= 2^N
    \/ /\ Is("LogicReg") /\ SetsFlags
       /\ LET b == Arm!Shifted(V(I.rm, I.sf), I.shift, I.amount, N)
          IN  V(I.rn, I.sf) + (IF I.invert THEN 2^N - 1 - b ELSE b) >= 2^N

(* Register 31 taken for zero where it is the stack pointer, and the other *)
(* way round.                                                              *)
StackPointer ==
    \/ Is("AddSubExtReg") /\ I.rn = GPR_ZERO
    \/ Is("AddSubExtReg") /\ I.rd = GPR_ZERO /\ ~SetsFlags
       /\ Arm!AddSub(V(I.rn, I.sf), Addend, I.alu, N).v # gpr[GPR_SP]
    \/ Is("AddSubImm") /\ I.rn = GPR_ZERO /\ SetsFlags
    \/ Is("LogImm") /\ I.rd = GPR_ZERO /\ ~SetsFlags
       /\ Arm!Logic(V(I.rn, I.sf), Low(I.imm, N), I.alu) # gpr[GPR_SP]
    \/ /\ Is("LogicReg") /\ I.rd = GPR_ZERO /\ I.alu # "AND"
       /\ ~(I.alu = "OR" /\ I.rn = GPR_ZERO /\ I.shift = "LSL" /\ I.amount = 0)
       /\ LET b == Arm!Shifted(V(I.rm, I.sf), I.shift, I.amount, N)
          IN  Arm!Logic(V(I.rn, I.sf), IF I.invert THEN 2^N - 1 - b ELSE b, I.alu) # gpr[GPR_SP]

(* A W register whose upper half stays, or is filled.                      *)
UpperHalf ==
    \/ IsW("MovwImm") /\ I.opc = "MOVK" /\ Upper(I.rd) # 0
    \/ IsW("Bitfield") /\ I.opc = "SBFM" /\ I.si >= I.ri /\ I.si \in Bits(gpr[I.rn])
    \/ IsW("Bitfield") /\ I.opc = "BFM" /\ I.si >= I.ri /\ Upper(I.rd) # 0
    \/ IsW("DataProc1src") /\ I.opc = "RBIT" /\ V(I.rn, FALSE) # 0
    \/ /\ IsW("DataProc3src")
       /\ LET p == Low(V(I.rn, FALSE) * V(I.rm, FALSE), Half)
          IN  (gpr[I.ra] + (IF I.alu = "SUB" THEN -p ELSE p)) % 2^Wide >= 2^Half

(* A deposit keeps the source's bits beyond the field, and at length Wide  *)
(* the destination's.                                                      *)
Deposit ==
    /\ Is("Bitfield") /\ I.opc = "BFM"
    /\ IF I.si < I.ri
       THEN LET pos == N - I.ri
                beyond == {b + pos : b \in Bits(V(I.rn, I.sf)) \ (0 .. I.si)} \cap (0 .. Wide - 1)
                kept == Bits(gpr[I.rd]) \ (pos .. pos + I.si)
            IN  ~(beyond \subseteq kept /\ kept \subseteq 0 .. N - 1)
       ELSE I.sf /\ I.ri = 0 /\ I.si = Wide - 1 /\ ~(Bits(gpr[I.rd]) \subseteq Bits(gpr[I.rn]))

(* A rotation by k brings round one bit of the k, and for a W register     *)
(* none, as it puts it on top of the X register.                           *)
Dropped(w, k, bit64) ==
    (Bits(w) \cap (0 .. k - 1)) \ {b \in {(k - 1) % Half} : bit64} # {}
Rotation ==
    \/ Is("Extract") /\ I.imm # 0 /\ I.rm = I.rn /\ Dropped(V(I.rn, I.sf), I.imm, I.sf)
    \/ /\ Is("LogicReg") /\ I.shift = "ROR" /\ I.amount # 0
       /\ Dropped(V(I.rm, I.sf), I.amount, I.sf)
    \/ /\ Is("DataProc2src") /\ I.opc = "ROR"
       /\ LET k == V(I.rm, I.sf) % Wide  w == V(I.rn, I.sf)
          IN  IF I.sf \/ k < Half THEN Dropped(w, k, I.sf)
              ELSE Bits(w) \ {b \in {k - Half - 1} : k > Half} # {}

(* EXTR of two registers shifts both in place, and by the same amount.     *)
Extraction ==
    /\ Is("Extract") /\ I.imm # 0 /\ I.rm # I.rn
    /\ \E s \in {I.rn, I.rm} \ {I.rd} : gpr[s] # 0

(* Shifts of W registers take their amount modulo the width of an X.       *)
ShiftAmount ==
    /\ IsW("DataProc2src") /\ I.opc \in {"LSL", "LSR"}
    /\ V(I.rm, FALSE) % Wide >= Half
    /\ Arm!Shifted(V(I.rn, FALSE), I.opc, V(I.rm, FALSE) % Half, Half) # 0

(* Products and quotients without their sign, and the wrong half.          *)
Sign ==
    \/ /\ Is("DataProc3src") /\ I.sign /\ ~I.high
       /\ (Signed(gpr[I.rn], Half) * Signed(gpr[I.rm], Half)) % 2^Wide
          # V(I.rn, FALSE) * V(I.rm, FALSE)
    \/ /\ Is("DataProc3src") /\ I.sign /\ I.high
       /\ ((Signed(gpr[I.rn], Wide) * Signed(gpr[I.rm], Wide)) \div 2^Wide) % 2^Wide
          # (gpr[I.rn] * gpr[I.rm]) % 2^Wide
    \/ /\ IsW("DataProc2src") /\ I.opc = "SDIV"
       /\ Low(Arm!Quotient(Signed(gpr[I.rn], Half), Signed(gpr[I.rm], Half)), Half)
          # Arm!Quotient(V(I.rn, FALSE), V(I.rm, FALSE))

(* Bytes beyond the first two or four are lost, not reversed, and CLS      *)
(* counts the sign of zero.                                                *)
Reversal ==
    /\ Is("DataProc1src")
    /\ LET w == V(I.rn, I.sf)
       IN  \/ I.opc = "REV16" /\ w >= 2^(2 * Byte)
           \/ I.opc = "REV32" /\ w >= 2^(4 * Byte)
           \/ I.opc = "CLS" /\ w = 0

(* TBZ and TBNZ branch within the lower half of the addresses, and BLR X30 *)
(* goes to the address it has just put there.                              *)
Target ==
    \/ /\ Is("TestBrImm") /\ (I.bit \notin Bits(gpr[I.rt])) = I.equal
       /\ (PC + I.offset - InstLen) % 2^Wide >= 2^Half
    \/ Is("UncondBrReg") /\ I.link /\ I.rn = GPR_LR /\ gpr[GPR_LR] # PC + InstLen

IntegerDeparts ==
    \/ SubtractionFlags \/ CarryChain \/ LogicCarry \/ StackPointer \/ UpperHalf \/ Deposit
    \/ Rotation \/ Extraction \/ ShiftAmount \/ Sign \/ Reversal \/ Target
=============================================================================
