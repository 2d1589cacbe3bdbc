------------------------------ MODULE ArmState ------------------------------
(***************************************************************************)
(* What a program sees of the machine, as the architecture has it: the     *)
(* registers, the flags, the memory and the exclusive monitor.             *)
(***************************************************************************)
EXTENDS Words

CONSTANTS
    InstLen,     \* bytes of an instruction
    Data         \* the bytes of memory before the program stores

VARIABLES
    r,           \* the general registers and the link register, 30
    sp,          \* the stack pointer
    pc,          \* the program counter
    nzcv,        \* the flags that are set
    vr,          \* the vector registers, numbers of 16 bytes
    mem,         \* the bytes that have been stored
    sysr,        \* the system registers, by name
    monitor,     \* whether the exclusive monitor is armed
    code         \* the program

vars == <<r, sp, pc, nzcv, vr, mem, sysr, monitor, code>>

Fetched(cls) == pc \in DOMAIN code /\ code[pc].cls = cls
I == code[pc]

(* Register 31 is zero, or the stack pointer where an instruction says so. *)
RegZ(n, sf) == Low(IF n = 31 THEN 0 ELSE r[n], Width(sf))
RegSP(n, sf) == Low(IF n = 31 THEN sp ELSE r[n], Width(sf))
Operand(n, sf, stack) == IF stack THEN RegSP(n, sf) ELSE RegZ(n, sf)

(* The result of an instruction: a destination, always zero-extended.      *)
SetReg(n, w, sf) ==
    /\ r' = IF n = 31 THEN r ELSE [r EXCEPT ![n] = Low(w, Width(sf))]
    /\ UNCHANGED sp
SetRegSP(n, w, sf) ==
    IF n = 31 THEN sp' = Low(w, Width(sf)) /\ UNCHANGED r ELSE SetReg(n, w, sf)
KeepRegs == UNCHANGED <<r, sp>>

NextPC == pc' = (pc + InstLen) % 2^Wide
Goto(addr) == pc' = addr % 2^Wide
Branch(taken, offset) == IF taken THEN Goto(pc + offset) ELSE NextPC

(* Memory is little-endian.                                                *)
ByteAt(a) == IF a \in DOMAIN mem THEN mem[a] ELSE Data[a]
Load(a, bytes) == MapThenSumSet(LAMBDA k : ByteAt(a + k) * 2^(k * Byte), 0 .. bytes - 1)
Digit(w, k, bits) == Low(w \div 2^(k * bits), bits)
StoreEach(a, bytes, Value(_)) ==
    mem' = [b \in DOMAIN mem \cup (a .. a + bytes - 1) |->
               IF b \in a .. a + bytes - 1 THEN Value(b - a) ELSE mem[b]]
Store(a, bytes, w) == StoreEach(a, bytes, LAMBDA k : Digit(w, k, Byte))

(* The elements of a vector register: all of its 16 bytes, or of 8.        *)
ElemBytes == 2^I.size
Lanes == 0 .. (IF I.q THEN 16 ELSE 8) \div ElemBytes - 1
Elem(w, e, bytes) == Digit(w, e, bytes * Byte)
Vector(bytes, S, Value(_)) == MapThenSumSet(LAMBDA e : Value(e) * 2^(e * bytes * Byte), S)
SetV(n, w) == vr' = [vr EXCEPT ![n] = w]
=============================================================================
