--------------------------- MODULE MemoryDecoder ---------------------------
(***************************************************************************)
(* The decoder's functions for loads, stores and system registers          *)
(* (ARMv8/Disassembler.cpp).  An immediate is in the instruction's units.  *)
(***************************************************************************)
EXTENDS MemoryCallbacks, Sequences

Moved(m, reg, by) == AddI64(m, reg, reg, by % 2^Wide, FALSE, TRUE)
Based(m, rn, by) == AddI64(m, GPR_DUMMY, rn, by % 2^Wide, FALSE, TRUE)

(* opc 0 stores, 2 and 3 are signed; of a vector register 0 and 2 store,   *)
(* and 2 and 3 are the whole register.                                     *)
IsStore(i) == IF i.vector THEN i.opc % 2 = 0 ELSE i.opc = 0
IsSigned(i) == ~i.vector /\ i.opc >= 2
SizeOf(i) == IF i.vector /\ i.opc >= 2 THEN i.size + 4 ELSE i.size
IsPrefetch(i) == ~i.vector /\ i.size = 3 /\ i.opc = 2

AtDummy(m, i) ==
    CASE i.vector /\ IsStore(i) -> StoreFpRegI64(m, i.rt, GPR_DUMMY, SizeOf(i))
      [] i.vector /\ ~IsStore(i) -> LoadFpRegI64(m, i.rt, GPR_DUMMY, SizeOf(i))
      [] ~i.vector /\ IsStore(i) -> StoreRegI64(m, i.rt, GPR_DUMMY, i.size)
      [] OTHER -> LoadRegI64(m, i.rt, GPR_DUMMY, i.size, IsSigned(i), i.size < 3)

(* The base register with an offset, before the access or after it.        *)
FirstAddress(m, i, rn, offset) ==
    IF i.idx = "post" THEN MovReg(m, GPR_DUMMY, rn, TRUE)
    ELSE Based(MovReg(m, GPR_DUMMY, rn, TRUE), rn, offset)
WriteBack(m, i, rn, offset) == IF i.idx \in {"post", "pre"} THEN Moved(m, rn, offset) ELSE m

DisasLdstRegImm9(m, i) ==
    LET rn == HandleAsSP(i.rn)
    IN  IF IsPrefetch(i) THEN m
        ELSE WriteBack(AtDummy(FirstAddress(m, i, rn, i.imm), i), i, rn, i.imm)

DisasLdstRegUnsignedImm(m, i) ==
    IF IsPrefetch(i) THEN m
    ELSE AtDummy(Based(m, HandleAsSP(i.rn), i.imm * Bytes(SizeOf(i))), i)

(* The index register 31 is the stack pointer here, and the option decides *)
(* whether index and sum take an X or a W register.                        *)
DisasLdstRegRoffset(m, i) ==
    LET wide == i.option.size = 3
        at == ShiftI64(ExtendReg(m, GPR_DUMMY, HandleAsSP(i.rm), i.option, wide),
                       GPR_DUMMY, GPR_DUMMY, "LSL", IF i.shift THEN SizeOf(i) ELSE 0, wide)
    IN  CASE IsPrefetch(i) -> m
          [] i.vector /\ IsStore(i) -> StoreFpReg(at, i.rt, i.rn, GPR_DUMMY, SizeOf(i), wide)
          [] i.vector /\ ~IsStore(i) -> LoadFpReg(at, i.rt, i.rn, GPR_DUMMY, SizeOf(i), wide)
          [] ~i.vector /\ IsStore(i) -> StoreReg(at, i.rt, i.rn, GPR_DUMMY, i.size, wide)
          [] ~IsPrefetch(i) /\ ~i.vector /\ ~IsStore(i) ->
                LoadReg(at, i.rt, i.rn, GPR_DUMMY, i.size, IsSigned(i), i.size < 3, wide)

(* The address is the one of a branch, four less, and goes through the     *)
(* destination, which is a general register also for a vector.             *)
DisasLdLit(m, i) ==
    LET size == IF i.vector THEN i.opc + 2 ELSE 2 + (i.opc % 2)
        at == AddI64(m, i.rt, PC_IDX, (i.imm - 4) % 2^Wide, FALSE, TRUE)
    IN  IF i.opc = 3 /\ ~i.vector THEN m
        ELSE LoadRegI64(at, i.rt, i.rt, size, ~i.vector /\ i.opc = 2, FALSE)

(* Two registers, through GPR_DUMMY; of a vector pair only the whole       *)
(* registers are vectors.                                                  *)
BothAtDummy(m, i, size, load, is_sign) ==
    LET One(n, t) == IF load THEN LoadRegI64(n, t, GPR_DUMMY, size, is_sign, FALSE)
                             ELSE StoreRegI64(n, t, GPR_DUMMY, size)
    IN  One(Moved(One(m, i.rt), GPR_DUMMY, Bytes(size)), i.rt2)

PairSize(i) == IF i.vector THEN i.opc + 2 ELSE 2 + i.opc \div 2
DisasLdstPair(m, i) ==
    LET rn == HandleAsSP(i.rn)
        offset == i.imm * Bytes(PairSize(i))
    IN  WriteBack(BothAtDummy(FirstAddress(m, i, rn, offset), i, PairSize(i), i.load, ~i.vector /\ i.opc = 1),
                  i, rn, offset)

(* The exclusives are not exclusive: every store succeeds.                 *)
DisasLdstExcl(m, i) ==
    LET rn == HandleAsSP(i.rn)
        at == IF i.excl THEN MovReg(m, GPR_DUMMY, rn, TRUE) ELSE m
        done == CASE i.pair -> BothAtDummy(at, i, i.size, ~i.store, FALSE)
                  [] ~i.pair /\ i.store -> StoreRegI64(at, i.rt, rn, i.size)
                  [] ~i.pair /\ ~i.store -> LoadRegI64(at, i.rt, rn, i.size, FALSE, FALSE)
    IN  IF i.excl /\ i.store THEN MoviI64(done, i.rs, 0) ELSE done

(* Structures: transfers of one element each, at GPR_DUMMY, which moves on *)
(* after some of them.  The base is not taken for the stack pointer.       *)
Transfers(m, i, steps) ==
    LET One(n, s) == IF i.load THEN LoadVecReg(n, s.vreg, s.lane, GPR_DUMMY, i.size)
                               ELSE StoreVecReg(n, GPR_DUMMY, s.lane, s.vreg, i.size)
        Transfer(n, s) == IF s.moves THEN Moved(One(n, s), GPR_DUMMY, Bytes(i.size)) ELSE One(n, s)
        after[k \in 0 .. Len(steps)] ==
            IF k = 0 THEN MovReg(m, GPR_DUMMY, i.rn, TRUE) ELSE Transfer(after[k - 1], steps[k])
    IN  after[Len(steps)]
LanesOf(i) == (IF i.q THEN 16 ELSE 8) \div Bytes(i.size)

(* rpt registers, each with the selem - 1 that follow it.                  *)
DisasLdStMulti(m, i) ==
    LET n == LanesOf(i)
        done == Transfers(m, i, [k \in 1 .. i.rpt * n * i.selem |->
                    [vreg |-> (i.rt + (k - 1) \div (n * i.selem) + ((k - 1) % i.selem)) % 32,
                     lane |-> ((k - 1) \div i.selem) % n, moves |-> TRUE]])
    IN  CASE i.post /\ i.rm = GPR_ZERO -> MovReg(done, i.rn, GPR_DUMMY, TRUE)
          [] i.post /\ i.rm # GPR_ZERO -> AddReg(done, i.rn, i.rn, i.rm, FALSE, TRUE)
          [] ~i.post -> done

(* One element of each of selem registers, or one for all its places.      *)
(* After an immediate post-index the base is the number of GPR_DUMMY.      *)
DisasLdStSingle(m, i) ==
    LET n == IF i.replicate THEN LanesOf(i) ELSE 1
        done == Transfers(m, i, [k \in 1 .. i.selem * n |->
                    [vreg |-> (i.rt + (k - 1) \div n) % 32,
                     lane |-> IF i.replicate THEN (k - 1) % n ELSE i.index,
                     moves |-> k % n = 0]])
    IN  CASE i.post /\ i.rm = GPR_ZERO -> MoviI64(done, i.rn, GPR_DUMMY)
          [] i.post /\ i.rm # GPR_ZERO -> AddReg(done, i.rn, i.rn, i.rm, FALSE, TRUE)
          [] ~i.post -> done

(* Hints and barriers do nothing.  The entry of DC ZVA never gets its      *)
(* type, so that it is a write like any other, to a place that no          *)
(* instruction reads.                                                      *)
DisasSystem(m, i) ==
    IF i.op \in {"MRS", "MSR"} THEN ReadWriteSysReg(m, i.rt, i.name, i.op = "MRS") ELSE m
=============================================================================
