--------------------------- MODULE VectorDecoder ---------------------------
(***************************************************************************)
(* The decoder's functions on vector registers (ARMv8/Disassembler.cpp):   *)
(* copies, three registers of one kind, and the moves of floating point.   *)
(* The element size and index that imm5 encodes are fields here.           *)
(***************************************************************************)
EXTENDS VectorCallbacks

FullOr(i) == IF i.q THEN 16 ELSE 8
Elements(i) == FullOr(i) \div Bytes(i.size)
(* Op on elements 0, 1, ... in turn.                                       *)
EachElement(m, i, Op(_, _)) ==
    LET after[e \in 0 .. Elements(i)] == IF e = 0 THEN m ELSE Op(after[e - 1], e - 1)
    IN  after[Elements(i)]

DisasSimdInse(m, i) ==
    WriteVecElem(ReadVecElem(m, GPR_DUMMY, i.rn, i.src, i.size), i.rd, GPR_DUMMY, i.index, i.size)
DisasSimdInsg(m, i) == WriteVecElem(m, i.rd, i.rn, i.index, i.size)

(* The top bit of imm5, and not Q, says how much is written: it is set for *)
(* an element of the upper half.                                           *)
DisasSimdDupe(m, i) ==
    DupVecReg(m, i.rd, i.rn, i.index, i.size, IF i.index * Bytes(i.size) >= 8 THEN 16 ELSE 8)
DisasSimdDupg(m, i) == DupVecRegFromGen(m, i.rd, i.rn, i.size, FullOr(i))
DisasSimdModImm(m, i) == DupVecImm(m, i.rd, i.imm, 3, FullOr(i))

DisasSimdUmovSmov(m, i) ==
    LET elem == ReadVecElem(m, i.rd, i.rn, i.index, i.size)
    IN  IF i.op = "SMOV" /\ ~i.q THEN SExt32(elem, i.rd, i.rd) ELSE elem

DisasSimdScalarCopy(m, i) == ReadVecReg(m, i.rd, i.rn, i.index, i.size)

(* ORN goes through VREG_DUMMY; Q is ignored.                              *)
DisasSimd3SameLogic(m, i) ==
    CASE i.op = "AND" -> AndVecReg(m, i.rd, i.rn, i.rm)
      [] i.op = "BIC" -> BicVecReg(m, i.rd, i.rn, i.rm)
      [] i.op = "ORR" -> OrrVecReg(m, i.rd, i.rn, i.rm)
      [] i.op = "ORN" -> OrrVecReg(NotVecReg(m, VREG_DUMMY, i.rm), i.rd, i.rn, VREG_DUMMY)
      [] i.op = "EOR" -> EorVecReg(m, i.rd, i.rn, i.rm)

Handle3Same(m, i, e) ==
    IF i.op = "CMEQ" THEN CompareEqualVec(m, i.rd, i.rn, i.rm, e, i.size)
                     ELSE CompareTestBitsVec(m, i.rd, i.rn, i.rm, e, i.size)
DisasSimd3SameInt(m, i) == EachElement(m, i, LAMBDA n, e : Handle3Same(n, i, e))
DisasSimdScalarThreeRegSame(m, i) == Handle3Same(m, i, 0)

(* Pairs of elements, first of rn and then of rm, are combined in          *)
(* VREG_DUMMY, which is copied whole.  Only ADDP combines: the others take *)
(* the first of each pair.                                                 *)
Handle3SamePair(m, i) ==
    LET half == Elements(i) \div 2
        Pair(n, e) ==
            LET reg == IF e < half THEN i.rn ELSE i.rm
                base == 2 * (e % half)
                both == ReadVecElem(ReadVecElem(n, GPR_DUMMY, reg, base, i.size),
                                    GPR_DUMMY2, reg, base + 1, i.size)
                sum == IF i.op = "ADDP" THEN AddReg(both, GPR_DUMMY, GPR_DUMMY, GPR_DUMMY2, FALSE, TRUE)
                                        ELSE both
            IN  WriteVecElem(sum, VREG_DUMMY, GPR_DUMMY, e, i.size)
        CopyBack(n, d) == WriteVecElem(ReadVecElem(n, GPR_DUMMY, VREG_DUMMY, d, 3), i.rd, GPR_DUMMY, d, 3)
    IN  CopyBack(CopyBack(EachElement(m, i, Pair), 0), 1)

DisasSimdThreeRegSame(m, i) ==
    CASE i.op \in {"AND", "BIC", "ORR", "ORN", "EOR"} -> DisasSimd3SameLogic(m, i)
      [] i.op \in {"ADDP", "SMAXP", "UMAXP", "SMINP", "UMINP"} -> Handle3SamePair(m, i)
      [] i.op \in {"CMEQ", "CMTST"} -> DisasSimd3SameInt(m, i)

DisasSimdCopy(m, i) ==
    CASE i.op = "INS_element" -> DisasSimdInse(m, i)
      [] i.op = "INS_general" -> DisasSimdInsg(m, i)
      [] i.op = "DUP_element" -> DisasSimdDupe(m, i)
      [] i.op = "DUP_general" -> DisasSimdDupg(m, i)
      [] i.op \in {"UMOV", "SMOV"} -> DisasSimdUmovSmov(m, i)

(* FCVT and FRINTX, FRINTI are decoded and do nothing; what else is not a  *)
(* move ends the process.                                                  *)
DisasFp1Src(m, i) == IF i.op = "FMOV" THEN FMovReg(m, i.rd, i.rn, i.type) ELSE m
DisasFpIntConv(m, i) == FMovConv(m, i.rd, i.rn, i.type, i.itof)
=============================================================================
