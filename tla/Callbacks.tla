----------------------------- MODULE Callbacks -----------------------------
(***************************************************************************)
(* The callbacks of the interpreter (ARMv8/Interpreter.cpp): what an       *)
(* instruction's work is made of.                                          *)
(*                                                                         *)
(* A machine is a record of the register files gpr and vreg, the flags     *)
(* nzcv, the memory mem and the system registers sysr.  A callback is a    *)
(* function from machines to machines; what one of them writes, a later    *)
(* one reads.                                                              *)
(*                                                                         *)
(* Where the code shifts by the width or more, or negates the least int,   *)
(* the outcome is the one of the host's instruction (the amount is taken   *)
(* modulo the width, the negation wraps).                                  *)
(***************************************************************************)
EXTENDS Words

GPR_LR == 30
GPR_ZERO == 31
GPR_SP == 32
PC_IDX == 33
GPR_DUMMY == 34
InstLen == 4
Flag == {"N", "Z", "C", "V"}

X(m, r) == m.gpr[r]
W(m, r) == Low(m.gpr[r], Half)
Read(m, r, bit64) == IF bit64 THEN X(m, r) ELSE W(m, r)
Put(m, r, v) == [m EXCEPT !.gpr[r] = v]
HandleAsSP(r) == IF r = GPR_ZERO THEN GPR_SP ELSE r

(***************************************************************************)
(* Conditions and flags.  The carry is taken from the half adder of the    *)
(* code, (x & y) + ((x ^ y) >> 1).                                         *)
(***************************************************************************)
CondHold(flags, cond) ==
    LET base == CASE cond \div 2 = 0 -> "Z" \in flags
                  [] cond \div 2 = 1 -> "C" \in flags
                  [] cond \div 2 = 2 -> "N" \in flags
                  [] cond \div 2 = 3 -> "V" \in flags
                  [] cond \div 2 = 4 -> "C" \in flags /\ "Z" \notin flags
                  [] cond \div 2 = 5 -> "N" \in flags <=> "V" \in flags
                  [] cond \div 2 = 6 -> ("N" \in flags <=> "V" \in flags) /\ "Z" \notin flags
                  [] OTHER -> TRUE
    IN  IF cond \div 2 # 7 /\ cond % 2 = 1 THEN ~base ELSE base

HalfAdderAnd(a, b) == And(a, b)                     \* mutant
HalfAdder(a, b) == And(a, b) + Xor(a, b) \div 2

UpdateFlag(res, arg1, arg2, n) ==
    LET r == Low(res, n)  a == Low(arg1, n)  b == Low(arg2, n)
        Negative(w) == w \div 2^(n - 1) = 1
    IN  {f \in Flag :
            \/ f = "N" /\ Negative(r)
            \/ f = "Z" /\ r = 0
            \/ f = "C" /\ Negative(HalfAdder(a, b))
            \/ f = "V" /\ Negative(a) = Negative(b) /\ Negative(r) # Negative(a)}

(***************************************************************************)
(* ALCalc and its helpers.                                                 *)
(***************************************************************************)
RotateRight(val, rot) ==
    Or(Lsl(And(val, Sext(2^((rot - 1) % Half), Half)), (Wide - rot) % Wide), Lsr(val, rot))

Udiv64(a, b) == IF b = 0 THEN 0 ELSE a \div b

(* Division truncates towards zero.                                        *)
Sdiv64(arg1, arg2) ==
    LET a == Signed(arg1, Wide)  b == Signed(arg2, Wide)
        Abs(i) == IF i < 0 THEN -i ELSE i
        q == IF b = 0 THEN 0 ELSE Abs(a) \div Abs(b)
    IN  (IF (a < 0) = (b < 0) THEN q ELSE -q) % 2^Wide

ALCalc(a, b, bit64, op) ==
    CASE op = "ADD" -> (a + b) % 2^Wide
      [] op = "AND" -> And(a, b)
      [] op = "OR" -> Or(a, b)
      [] op = "EOR" -> Xor(a, b)
      [] op = "LSL" -> Lsl(a, b % Wide)
      [] op = "LSR" -> Lsr(a, b % Wide)
      [] op = "ASR" -> Asr(a, b % Width(bit64), Width(bit64))
      [] op = "ROR" -> RotateRight(a, b % Wide)
      [] op = "UDIV" -> Udiv64(a, b)
      [] op = "SDIV" -> Sdiv64(a, b)

Negate(b, bit64) == Sext(-Signed(b, Width(bit64)), Width(bit64))

FlagsUnpatched(res, a, b, bit64, op) == UpdateFlag(res, a, b, Width(bit64))   \* mutant

(* _ArithmeticLogic: SUB adds the negated operand, whose carry is put      *)
(* right afterwards for zero, in the 64-bit case.                          *)
FlagsOf(res, a, b, bit64, op) ==
    UpdateFlag(res, a, b, Width(bit64))
        \cup {f \in {"C"} : op = "SUB" /\ bit64 /\ b = 0}

ArithmeticLogic(m, rd, a, arg2, setflags, bit64, op) ==
    LET b == IF op = "SUB" THEN Negate(arg2, bit64) ELSE arg2
        res == ALCalc(a, b, bit64, IF op = "SUB" THEN "ADD" ELSE op)
    IN  [m EXCEPT !.gpr[rd] = Low(res, Width(bit64)),
                  !.nzcv = IF setflags THEN FlagsOf(res, a, b, bit64, op) ELSE @]

(***************************************************************************)
(* The callbacks.                                                          *)
(***************************************************************************)
Mask(len) == 2^(len % Wide) - 1

MoviI64(m, rd, imm) == Put(m, rd, imm)
DepositI64(m, rd, imm, pos, len) ==
    Put(m, rd, Or(And(X(m, rd), Not(Lsl(Mask(len), pos))), Lsl(imm, pos)))
DepositReg(m, rd, rn, pos, len, bit64) == DepositI64(m, rd, Read(m, rn, bit64), pos, len)
DepositZeroReg(m, rd, rn, pos, len, bit64) ==
    Put(m, rd, Lsl(And(Read(m, rn, bit64), Mask(len)), pos))

MovReg(m, rd, rn, bit64) == Put(m, rd, Read(m, rn, bit64))
CondMovReg(m, cond, rd, rn, rm, bit64) ==
    MovReg(m, rd, IF CondHold(m.nzcv, cond) THEN rn ELSE rm, bit64)

(* AddI64 and SubI64 take register 31 for the stack pointer unless they    *)
(* set flags; AddReg and SubReg never do.                                  *)
ImmOp(m, rd, rn, imm, setflags, bit64, op) ==
    LET R(r) == IF setflags THEN r ELSE HandleAsSP(r)
    IN  ArithmeticLogic(m, R(rd), Read(m, R(rn), bit64), imm, setflags, bit64, op)
AddI64(m, rd, rn, imm, setflags, bit64) == ImmOp(m, rd, rn, imm, setflags, bit64, "ADD")
SubI64(m, rd, rn, imm, setflags, bit64) == ImmOp(m, rd, rn, imm, setflags, bit64, "SUB")

RegOp(m, rd, rn, rm, setflags, bit64, op) ==
    ArithmeticLogic(m, rd, Read(m, rn, bit64), Read(m, rm, bit64), setflags, bit64, op)
AddReg(m, rd, rn, rm, setflags, bit64) == RegOp(m, rd, rn, rm, setflags, bit64, "ADD")
SubReg(m, rd, rn, rm, setflags, bit64) == RegOp(m, rd, rn, rm, setflags, bit64, "SUB")

(* (int64_t)W and (uint64_t)W are the same number: the sign has no effect. *)
MulReg(m, rd, rn, rm, dst64, src64) ==
    Put(m, rd, IF dst64
               THEN (Read(m, rn, src64) * Read(m, rm, src64)) % 2^Wide
               ELSE Low(W(m, rn) * W(m, rm), Half))

(* Smul64 passes its two results to Umul64 in the other order, and its     *)
(* operands are unsigned, so that neither adjustment is ever made.         *)
Umul64(a, b) == [h |-> (a * b) \div 2^Wide, l |-> (a * b) % 2^Wide]
Smul64(a, b) == [h |-> Umul64(a, b).l, l |-> Umul64(a, b).h]
Mul2Reg(m, rh, rl, rn, rm, sign) ==
    LET p == IF sign THEN Smul64(X(m, rn), X(m, rm)) ELSE Umul64(X(m, rn), X(m, rm))
    IN  Put(Put(m, rl, p.l), rh, p.h)

WithCarry(m, rd, bit64) ==
    IF "C" \in m.nzcv THEN Put(m, rd, Low(Read(m, rd, bit64) + 1, Width(bit64))) ELSE m
AddcReg(m, rd, rn, rm, setflags, bit64) ==
    WithCarry(AddReg(m, rd, rn, rm, setflags, bit64), rd, bit64)
SubcReg(m, rd, rn, rm, setflags, bit64) ==
    WithCarry(SubReg(m, rd, rn, rm, setflags, bit64), rd, bit64)

(* AndI64, OrrI64 and EorI64 have an immediate operand.                    *)
LogicI64(m, rd, rn, wmask, setflags, bit64, op) ==
    ArithmeticLogic(m, rd, Read(m, rn, bit64), wmask, setflags, bit64, op)
ShiftI64(m, rd, rn, type, amount, bit64) ==
    ArithmeticLogic(m, rd, Read(m, rn, bit64), amount, FALSE, bit64, type)
ShiftReg(m, rd, rn, rm, type, bit64) == RegOp(m, rd, rn, rm, FALSE, bit64, type)
DivReg(m, rd, rn, rm, sign, bit64) ==
    RegOp(m, rd, rn, rm, FALSE, bit64, IF sign THEN "SDIV" ELSE "UDIV")

(* OrrReg and EorReg take rd 31 for the stack pointer; AndReg and BicReg   *)
(* do not.                                                                 *)
AndReg(m, rd, rn, rm, setflags, bit64) == RegOp(m, rd, rn, rm, setflags, bit64, "AND")
OrrReg(m, rd, rn, rm, bit64) == RegOp(m, HandleAsSP(rd), rn, rm, FALSE, bit64, "OR")
EorReg(m, rd, rn, rm, bit64) == RegOp(m, HandleAsSP(rd), rn, rm, FALSE, bit64, "EOR")
BicReg(m, rd, rn, rm, setflags, bit64) ==
    ArithmeticLogic(m, rd, Read(m, rn, bit64), Low(Not(X(m, rm)), Width(bit64)),
                    setflags, bit64, "AND")
NotReg(m, rd, rm, bit64) == Put(m, rd, Low(Not(X(m, rm)), Width(bit64)))

(* option is the signedness and the size: a byte, two, a W or an X.        *)
ExtendReg(m, rd, rn, option, bit64) ==
    LET imm == Read(m, rn, bit64)  n == Byte * 2^option.size
    IN  Put(m, rd, IF option.sign THEN Sext(imm, n) ELSE Low(imm, n))

(* The field goes to the top and back down, through GPR_DUMMY.             *)
Extract(m, rd, rn, pos, len, type) ==
    IF pos + len = Wide
    THEN ShiftI64(m, rd, rn, type, Wide - len, TRUE)
    ELSE ShiftI64(ShiftI64(m, GPR_DUMMY, rn, "LSL", Wide - len - pos, TRUE),
                  rd, GPR_DUMMY, type, Wide - len, TRUE)
SExtractI64(m, rd, rn, pos, len, bit64) ==
    LET e == Extract(m, rd, rn, pos, len, "ASR")
    IN  IF bit64 THEN e ELSE Put(e, rd, Sext(X(e, rd), Half))
UExtractI64(m, rd, rn, pos, len, bit64) ==
    LET e == Extract(m, rd, rn, pos, len, "LSR") IN Put(e, rd, Read(e, rd, bit64))

ReverseBit64(w) == Num({Wide - 1 - i : i \in Bits(w)})
(* byte_swap of the low n bytes; the result has no others.                 *)
ByteSwap(w, n) ==
    Num({((n - 1 - i \div Byte) * Byte) + (i % Byte) : i \in Bits(Low(w, n * Byte))})

Clz(w, n) == IF w = 0 THEN n ELSE n - 1 - Max(Bits(w))
(* __builtin_clrsb counts the bits after the sign that are equal to it.    *)
Cls(w, n) ==
    IF w = 0 THEN n
    ELSE LET sign == n - 1 \in Bits(w)
             odd == {i \in 0 .. n - 1 : (i \in Bits(w)) # sign}
         IN  IF odd = {} THEN n - 1 ELSE n - 2 - Max(odd)

CondCmp(m, rn, arg, cond, flags, op, bit64) ==
    IF CondHold(m.nzcv, cond)
    THEN ArithmeticLogic(m, GPR_ZERO, Read(m, rn, bit64), arg, TRUE, bit64, op)
    ELSE [m EXCEPT !.nzcv = flags]

(* Branches set PC to the instruction before their target.                 *)
BranchI64(m, addr) == Put(m, PC_IDX, addr)
BranchCondiI64(m, equal, rt, addr, bit64) ==
    IF (Read(m, rt, bit64) = 0) = equal THEN BranchI64(m, addr) ELSE m
BranchFlag(m, cond, addr) == IF CondHold(m.nzcv, cond) THEN BranchI64(m, addr) ELSE m
SetPCReg(m, rt) == Put(m, PC_IDX, (X(m, rt) - InstLen) % 2^Wide)
=============================================================================
