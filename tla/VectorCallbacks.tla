-------------------------- MODULE VectorCallbacks --------------------------
(***************************************************************************)
(* The callbacks on vector registers (ARMv8/Interpreter.cpp).  A register  *)
(* is a number of 16 bytes, and element e of a size its e-th digit.        *)
(***************************************************************************)
EXTENDS MemoryCallbacks

VREG_DUMMY == 32
GPR_DUMMY2 == 35

(* DupVecImm: as many elements as dstsize bytes hold.                      *)
DupVecImm(m, vd, imm, size, dstsize) ==
    LET n == dstsize \div Bytes(size)
        kept == m.vreg[vd] - Low(m.vreg[vd], dstsize * Byte)
    IN  PutV(m, vd, kept + FromDigits([e \in 0 .. n - 1 |-> imm], n, BitsOf(size)))
DupVecReg(m, vd, vn, index, size, dstsize) ==
    DupVecImm(m, vd, Lane(m.vreg[vn], index, size), size, dstsize)
DupVecRegFromGen(m, vd, rn, size, dstsize) ==
    DupVecImm(m, vd, Low(X(m, rn), BitsOf(size)), size, dstsize)

(* The destination is cleared before the source is read.                   *)
ReadVecReg(m, rd, vn, index, size) ==
    LET clear == PutV(m, rd, 0) IN PutV(clear, rd, Lane(clear.vreg[vn], index, size))

ReadVecElem(m, rd, vn, index, size) == Put(m, rd, Lane(m.vreg[vn], index, size))
WriteVecElem(m, vd, rn, index, size) == PutLane(m, vd, index, size, Low(X(m, rn), BitsOf(size)))

(* FMovReg leaves the rest of the destination; type is a single, a double  *)
(* or (3) a half.                                                          *)
TypeSize(type) == IF type = 3 THEN 1 ELSE type + 2
FMovReg(m, fd, fn, type) ==
    PutLane(m, fd, 0, TypeSize(type), Lane(m.vreg[fn], 0, TypeSize(type)))

(* To a floating point register, which is cleared, a single as a half; or  *)
(* from one.  Type 2 is the upper double.                                  *)
FMovConv(m, rd, rn, type, itof) ==
    LET at == IF type = 2 THEN 1 ELSE 0
        size == CASE type \in {1, 2} -> 3 [] type = 3 \/ (type = 0 /\ itof) -> 1 [] OTHER -> 2
    IN  IF itof THEN PutLane(PutV(m, rd, 0), rd, at, size, Low(X(m, rn), BitsOf(size)))
                ELSE Put(m, rd, Lane(m.vreg[rn], at, size))

(* Both doubles of the register, one after the other.                      *)
Doubles(m, rd, Op(_)) == PutLane(PutLane(m, rd, 0, 3, Op(0)), rd, 1, 3, Op(1))
AndVecReg(m, rd, rn, rm) ==
    Doubles(m, rd, LAMBDA e : And(Lane(m.vreg[rn], e, 3), Lane(m.vreg[rm], e, 3)))
OrrVecReg(m, rd, rn, rm) ==
    Doubles(m, rd, LAMBDA e : Or(Lane(m.vreg[rn], e, 3), Lane(m.vreg[rm], e, 3)))
EorVecReg(m, rd, rn, rm) ==
    Doubles(m, rd, LAMBDA e : Xor(Lane(m.vreg[rn], e, 3), Lane(m.vreg[rm], e, 3)))
BicVecReg(m, rd, rn, rm) ==
    Doubles(m, rd, LAMBDA e : And(Lane(m.vreg[rn], e, 3), Not(Lane(m.vreg[rm], e, 3))))
NotVecReg(m, rd, rm) == Doubles(m, rd, LAMBDA e : Not(Lane(m.vreg[rm], e, 3)))

(* _CompareTest: != binds before &, so that a test looks at the lowest bit *)
(* of the first operand.                                                   *)
CompareTest(arg1, arg2, and_test) ==
    IF and_test THEN arg2 # 0 /\ arg1 % 2 = 1 ELSE arg1 = arg2
Compare(m, vd, vn, vm, index, size, and_test) ==
    PutLane(m, vd, index, size,
            IF CompareTest(Lane(m.vreg[vn], index, size), Lane(m.vreg[vm], index, size), and_test)
            THEN 2^BitsOf(size) - 1 ELSE 0)
CompareEqualVec(m, vd, vn, vm, index, size) == Compare(m, vd, vn, vm, index, size, FALSE)
CompareTestBitsVec(m, vd, vn, vm, index, size) == Compare(m, vd, vn, vm, index, size, TRUE)

SExt32(m, rd, rn) == Put(m, rd, Sext(W(m, rn), Half))
=============================================================================
