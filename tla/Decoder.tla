------------------------------ MODULE Decoder ------------------------------
(***************************************************************************)
(* The functions of the decoder (ARMv8/Disassembler.cpp).  Each composes   *)
(* callbacks into an instruction, in the order of the code.  An            *)
(* instruction is a record of the fields the function extracts; encodings  *)
(* that abort are left out.  A branch offset is in bytes here.             *)
(***************************************************************************)
EXTENDS Callbacks

PageMask == Not(2^PageBits - 1)
Backed(m, offset) == (X(m, PC_IDX) + offset - InstLen) % 2^Wide

DisasPCRelAddr(m, i) ==
    LET at == MovReg(m, GPR_DUMMY, PC_IDX, TRUE)
        base == IF i.page
                THEN LogicI64(at, GPR_DUMMY, GPR_DUMMY, PageMask, FALSE, TRUE, "AND")
                ELSE at
    IN  MovReg(AddI64(base, GPR_DUMMY, GPR_DUMMY, i.imm, FALSE, TRUE), i.rd, GPR_DUMMY, TRUE)

DisasAddSubImm(m, i) == ImmOp(m, i.rd, i.rn, i.imm, i.setflags, i.sf, i.alu)

DisasLogImm(m, i) == LogicI64(m, i.rd, i.rn, Low(i.imm, Width(i.sf)), i.setflags, i.sf, i.alu)

(* A MOV immediate has two bytes.                                          *)
DisasMovwImm(m, i) ==
    CASE i.opc = "MOVN" -> MoviI64(m, i.rd, Low(Not(Lsl(i.imm, i.pos)), Width(i.sf)))
      [] i.opc = "MOVZ" -> MoviI64(m, i.rd, Low(Lsl(i.imm, i.pos), Width(i.sf)))
      [] i.opc = "MOVK" -> DepositI64(m, i.rd, i.imm, i.pos, 2 * Byte)

(* SBFM, BFM and UBFM with rotation ri and last bit si: an extraction when *)
(* si >= ri, otherwise a deposit, of all the sign bits for SBFM.           *)
DisasBitfield(m, i) ==
    LET at == MovReg(m, GPR_DUMMY, i.rn, TRUE)
        len == i.si - i.ri + 1
        pos == (Width(i.sf) - i.ri) % Width(i.sf)
        signs == i.opc = "SBFM" /\ i.si + 1 < i.ri
        field == IF signs THEN SExtractI64(at, GPR_DUMMY, GPR_DUMMY, 0, i.si + 1, i.sf) ELSE at
        flen == IF signs THEN i.ri ELSE i.si + 1
    IN  CASE i.si >= i.ri /\ i.opc = "SBFM" -> SExtractI64(at, i.rd, GPR_DUMMY, i.ri, len, i.sf)
          [] i.si >= i.ri /\ i.opc = "UBFM" -> UExtractI64(at, i.rd, GPR_DUMMY, i.ri, len, i.sf)
          [] i.si >= i.ri /\ i.opc = "BFM" ->
                DepositReg(UExtractI64(at, GPR_DUMMY, GPR_DUMMY, i.ri, len, i.sf),
                           i.rd, GPR_DUMMY, 0, len, i.sf)
          [] i.si < i.ri /\ i.opc = "BFM" -> DepositReg(field, i.rd, GPR_DUMMY, pos, flen, i.sf)
          [] OTHER -> DepositZeroReg(field, i.rd, GPR_DUMMY, pos, flen, i.sf)

(* EXTR shifts its two source registers in place.                          *)
DisasExtract(m, i) ==
    CASE i.imm = 0 -> MovReg(m, i.rd, i.rm, i.sf)
      [] i.imm # 0 /\ i.rm = i.rn -> ShiftI64(m, i.rd, i.rm, "ROR", i.imm, i.sf)
      [] OTHER -> OrrReg(ShiftI64(ShiftI64(m, i.rm, i.rm, "LSR", i.imm, i.sf),
                                  i.rn, i.rn, "LSR", i.imm, i.sf),
                         i.rd, i.rm, i.rn, i.sf)

Linked(m, link) == IF link THEN AddI64(m, GPR_LR, PC_IDX, InstLen, FALSE, TRUE) ELSE m

DisasUncondBrImm(m, i) ==
    LET target == AddI64(m, GPR_DUMMY, PC_IDX, i.offset % 2^Wide, FALSE, TRUE)
    IN  SetPCReg(Linked(target, i.link), GPR_DUMMY)

(* BLR writes the link register before it reads its operand.               *)
DisasUncondBrReg(m, i) == SetPCReg(Linked(m, i.link), i.rn)

DisasCompBrImm(m, i) == BranchCondiI64(m, i.equal, i.rt, Backed(m, i.offset), i.sf)

(* The address goes through an unsigned int.                               *)
DisasTestBrImm(m, i) ==
    LET bit == LogicI64(m, GPR_DUMMY, i.rt, 2^i.bit, FALSE, TRUE, "AND")
    IN  BranchCondiI64(bit, i.equal, GPR_DUMMY, Low(Backed(m, i.offset), Half), TRUE)

DisasCondBrImm(m, i) ==
    IF i.cond < 14 THEN BranchFlag(m, i.cond, Backed(m, i.offset))
                   ELSE BranchI64(m, Backed(m, i.offset))

DisasLogicReg(m, i) ==
    LET mov == i.alu = "OR" /\ i.amount = 0 /\ i.shift = "LSL" /\ i.rn = GPR_ZERO
        at == MovReg(m, GPR_DUMMY, i.rm, TRUE)
        op2 == IF i.amount # 0
               THEN ShiftI64(at, GPR_DUMMY, i.rm, i.shift, i.amount, i.sf) ELSE at
        inv == NotReg(op2, GPR_DUMMY, GPR_DUMMY, i.sf)
        Orr(n) == IF i.alu = "OR" THEN OrrReg(n, i.rd, i.rn, GPR_DUMMY, i.sf)
                                  ELSE EorReg(n, i.rd, i.rn, GPR_DUMMY, i.sf)
    IN  CASE mov /\ i.invert -> NotReg(m, i.rd, i.rm, i.sf)
          [] mov /\ ~i.invert -> MovReg(m, i.rd, i.rm, i.sf)
          [] i.alu = "AND" /\ i.invert -> BicReg(op2, i.rd, i.rn, GPR_DUMMY, i.setflags, i.sf)
          [] i.alu = "AND" /\ ~i.invert -> AndReg(op2, i.rd, i.rn, GPR_DUMMY, i.setflags, i.sf)
          [] OTHER -> Orr(IF i.invert THEN inv ELSE op2)

DisasAddSubExtReg(m, i) ==
    LET ext == ExtendReg(m, GPR_DUMMY, i.rm, i.option, i.sf)
        op2 == ShiftI64(ext, GPR_DUMMY, GPR_DUMMY, "LSL", i.amount, i.sf)
    IN  RegOp(op2, i.rd, i.rn, GPR_DUMMY, i.setflags, i.sf, i.alu)

DisasAddSubReg(m, i) ==
    LET at == MovReg(m, GPR_DUMMY, i.rm, TRUE)
        op2 == ShiftI64(at, GPR_DUMMY, GPR_DUMMY, i.shift, i.amount, i.sf)
    IN  RegOp(op2, i.rd, i.rn, GPR_DUMMY, i.setflags, i.sf, i.alu)

(* The sum is always one of X registers.                                   *)
DisasDataProc3src(m, i) ==
    IF i.high
    THEN Mul2Reg(m, i.rd, GPR_DUMMY, i.rn, i.rm, i.sign)
    ELSE RegOp(MulReg(m, GPR_DUMMY, i.rn, i.rm, i.sf, ~i.long),
               i.rd, i.ra, GPR_DUMMY, FALSE, TRUE, i.alu)

DisasAddSubcReg(m, i) ==
    IF i.alu = "SUB" THEN SubcReg(m, i.rd, i.rn, i.rm, i.setflags, i.sf)
                     ELSE AddcReg(m, i.rd, i.rn, i.rm, i.setflags, i.sf)

DisasCondCmp(m, i) ==
    CondCmp(m, i.rn, IF i.is_imm THEN i.imm ELSE Read(m, i.rm, i.sf),
            i.cond, i.nzcv, i.alu, i.sf)

CondSelIncFirst(m, i) ==                            \* mutant
    LET at == MovReg(m, GPR_DUMMY, i.rm, TRUE)
        inc == IF i.else_inc THEN AddI64(at, GPR_DUMMY, GPR_DUMMY, 1, FALSE, i.sf) ELSE at
        inv == IF i.else_inv THEN NotReg(inc, GPR_DUMMY, GPR_DUMMY, i.sf) ELSE inc
    IN  CondMovReg(inv, i.cond, i.rd, i.rn, GPR_DUMMY, i.sf)

DisasCondSel(m, i) ==
    LET at == MovReg(m, GPR_DUMMY, i.rm, TRUE)
        inv == IF i.else_inv THEN NotReg(at, GPR_DUMMY, GPR_DUMMY, i.sf) ELSE at
        inc == IF i.else_inc THEN AddI64(inv, GPR_DUMMY, GPR_DUMMY, 1, FALSE, i.sf) ELSE inv
    IN  CondMovReg(inc, i.cond, i.rd, i.rn, GPR_DUMMY, i.sf)

DisasDataProc1src(m, i) ==
    LET w == Read(m, i.rn, i.sf)
    IN  Put(m, i.rd, CASE i.opc = "RBIT" -> ReverseBit64(w)
                       [] i.opc = "REV16" -> ByteSwap(w, 2)
                       [] i.opc = "REV32" -> ByteSwap(w, 4)
                       [] i.opc = "REV64" -> ByteSwap(X(m, i.rn), 8)
                       [] i.opc = "CLZ" -> Clz(w, Width(i.sf))
                       [] i.opc = "CLS" -> Cls(w, Width(i.sf)))

DisasDataProc2src(m, i) ==
    IF i.opc \in {"UDIV", "SDIV"}
    THEN DivReg(m, i.rd, i.rn, i.rm, i.opc = "SDIV", i.sf)
    ELSE ShiftReg(m, i.rd, i.rn, i.rm, i.opc, i.sf)
=============================================================================
