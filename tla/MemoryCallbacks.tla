-------------------------- MODULE MemoryCallbacks --------------------------
(***************************************************************************)
(* The callbacks that load and store (ARMv8/Interpreter.cpp, MMU.cpp).     *)
(* A size is the logarithm of a number of bytes: 0 to 3, and 4 for a whole *)
(* vector register.  Every address has its byte: what an access does where *)
(* no region is mapped is the business of GuestMemory.                     *)
(***************************************************************************)
EXTENDS Callbacks

CONSTANT Data               \* the bytes of memory before the program stores

ASSUME DataAssumption == Data \in [Word -> 0 .. 2^Byte - 1]

Bytes(size) == 2^size
BitsOf(size) == Bytes(size) * Byte
(* The bytes of an access.  The loops of the code end before an end that   *)
(* wraps: an access that reaches the top of the address space finds zero,  *)
(* and stores nothing.                                                     *)
Span(addr, size) == addr .. ((addr + Bytes(size)) % 2^Wide) - 1

(* mem holds the bytes that have been stored.                              *)
ByteAt(mem, a) == IF a \in DOMAIN mem THEN mem[a] ELSE Data[a]

(* ReadFromRAM and WriteToRAM, least significant byte first.               *)
ReadFromRAM(m, addr, size) ==
    FromDigits([k \in 0 .. Bytes(size) - 1 |->
                   IF addr + k \in Span(addr, size) THEN ByteAt(m.mem, addr + k) ELSE 0],
               Bytes(size), Byte)
WriteToRAM(m, addr, size, val) ==
    [m EXCEPT !.mem = [a \in DOMAIN @ \cup Span(addr, size) |->
        IF a \in Span(addr, size) THEN (val \div 2^((a - addr) * Byte)) % 2^Byte ELSE @[a]]]

(* A whole vector register goes in two parts of an X register each.        *)
UpperPart(addr) == (addr + Bytes(3)) % 2^Wide
Fetch(m, addr, size) ==
    IF size = 4 THEN ReadFromRAM(m, addr, 3) + ReadFromRAM(m, UpperPart(addr), 3) * 2^Wide
                ELSE ReadFromRAM(m, addr, size)
Store(m, addr, size, val) ==
    IF size = 4 THEN WriteToRAM(WriteToRAM(m, addr, 3, val), UpperPart(addr), 3, val \div 2^Wide)
                ELSE WriteToRAM(m, addr, size, val)

(* The e-th element of a vector register, of Bytes(size) bytes.            *)
Lane(v, e, size) == Low(v \div 2^(e * BitsOf(size)), BitsOf(size))
WithLane(v, e, size, val) == v + (val - Lane(v, e, size)) * 2^(e * BitsOf(size))
PutV(m, vd, v) == [m EXCEPT !.vreg[vd] = v]
PutLane(m, vd, e, size, val) == PutV(m, vd, WithLane(m.vreg[vd], e, size, val))

(* _LoadReg and _StoreReg: size 4 is a vector register, and a sign is      *)
(* extended from bit 31 only.                                              *)
LoadFrom(m, rd, addr, size, is_sign, extend) ==
    LET val == Fetch(m, addr, size)
    IN  IF size = 4 THEN PutV(m, rd, val)
        ELSE Put(m, rd, IF extend /\ is_sign THEN Sext(val, Half) ELSE val)
StoreTo(m, rd, addr, size) ==
    Store(m, addr, size, IF size = 4 THEN m.vreg[rd] ELSE Low(X(m, rd), BitsOf(size)))

Indexed(m, base, rm, bit64) == (X(m, HandleAsSP(base)) + Read(m, rm, bit64)) % 2^Wide
LoadReg(m, rd, base, rm, size, is_sign, extend, bit64) ==
    LoadFrom(m, rd, Indexed(m, base, rm, bit64), size, is_sign, extend)
StoreReg(m, rd, base, rm, size, bit64) == StoreTo(m, rd, Indexed(m, base, rm, bit64), size)
LoadRegI64(m, rd, ad, size, is_sign, extend) == LoadFrom(m, rd, X(m, ad), size, is_sign, extend)
StoreRegI64(m, rd, ad, size) == StoreTo(m, rd, X(m, ad), size)

(* One element of a vector register; the others stay.                      *)
LoadVecReg(m, vd, e, rn, size) ==
    PutLane(m, vd, e, size, ReadFromRAM(m, X(m, HandleAsSP(rn)), size))
StoreVecReg(m, rd, e, vn, size) ==
    WriteToRAM(m, X(m, HandleAsSP(rd)), size, Lane(m.vreg[vn], e, size))

(* A floating point register is cleared before it is loaded.               *)
LoadFpFrom(m, fd, addr, size) == PutV(m, fd, Fetch(m, addr, size))
StoreFpTo(m, fd, addr, size) == Store(m, addr, size, Lane(m.vreg[fd], 0, size))
LoadFpReg(m, rd, base, rm, size, bit64) == LoadFpFrom(m, rd, Indexed(m, base, rm, bit64), size)
StoreFpReg(m, rd, base, rm, size, bit64) == StoreFpTo(m, rd, Indexed(m, base, rm, bit64), size)
LoadFpRegI64(m, fd, ad, size) == LoadFpFrom(m, fd, X(m, ad), size)
StoreFpRegI64(m, fd, ad, size) == StoreFpTo(m, fd, X(m, ad), size)

ReadWriteSysReg(m, rd, name, read) ==
    IF read THEN Put(m, rd, m.sysr[name]) ELSE [m EXCEPT !.sysr[name] = X(m, rd)]
=============================================================================
