----------------------------- MODULE ArmMemory -----------------------------
(***************************************************************************)
(* Loads and stores, the exclusive monitor and the system instructions.    *)
(***************************************************************************)
EXTENDS ArmState

(* The base register, written back.                                        *)
Written(base) == IF I.rn = 31 THEN r ELSE [r EXCEPT ![I.rn] = base % 2^Wide]
WrittenSP(base) == IF I.rn = 31 THEN base % 2^Wide ELSE sp
With(g, n, w) == IF n = 31 THEN g ELSE [g EXCEPT ![n] = w]

(* A general register takes the value zero-extended, or sign-extended to   *)
(* an X or a W register.                                                   *)
Loaded(a, bytes, signed, wide) ==
    LET w == Load(a, bytes)
    IN  IF signed THEN Low(Signed(w, bytes * Byte), Width(wide)) ELSE w

(* One register of a size, at an address; opc 2 and 3 are the signed loads *)
(* to an X and to a W register, and of a vector register the whole.        *)
Size == IF I.vector /\ I.opc >= 2 THEN I.size + 4 ELSE I.size
IsStore == IF I.vector THEN I.opc % 2 = 0 ELSE I.opc = 0
Prefetch == ~I.vector /\ I.size = 3 /\ I.opc = 2
Access(addr, base) ==
    LET a == addr % 2^Wide
        keep == r' = Written(base)
    IN  /\ sp' = WrittenSP(base)
        /\ \/ Prefetch /\ keep /\ UNCHANGED <<vr, mem>>
           \/ ~Prefetch /\ IsStore /\ keep
              /\ Store(a, 2^Size, IF I.vector THEN vr[I.rt] ELSE RegZ(I.rt, TRUE)) /\ UNCHANGED vr
           \/ ~Prefetch /\ ~IsStore /\ I.vector /\ keep
              /\ SetV(I.rt, Load(a, 2^Size)) /\ UNCHANGED mem
           \/ ~Prefetch /\ ~IsStore /\ ~I.vector
              /\ r' = With(Written(base), I.rt, Loaded(a, 2^Size, I.opc >= 2, I.opc = 2))
              /\ UNCHANGED <<vr, mem>>

Base == RegSP(I.rn, TRUE)
LdstRegUnsignedImm == Fetched("LdstRegUnsignedImm") /\ Access(Base + I.imm * 2^Size, Base)
LdstRegImm9 ==
    /\ Fetched("LdstRegImm9")
    /\ Access(IF I.idx = "post" THEN Base ELSE Base + I.imm,
              IF I.idx \in {"post", "pre"} THEN Base + I.imm ELSE Base)
(* The index register is extended, then shifted by the size.               *)
Index ==
    LET w == RegZ(I.rm, TRUE)  n == Byte * 2^I.option.size
    IN  (IF I.option.sign THEN Signed(w, n) ELSE Low(w, n)) * (IF I.shift THEN 2^Size ELSE 1)
LdstRegRoffset == Fetched("LdstRegRoffset") /\ Access(Base + Index, Base)

(* From a place relative to the instruction.                               *)
LdLit ==
    /\ Fetched("LdLit") /\ UNCHANGED <<sp, mem>>
    /\ LET a == (pc + I.imm) % 2^Wide
       IN  CASE I.vector -> SetV(I.rt, Load(a, 2^(I.opc + 2))) /\ UNCHANGED r
             [] ~I.vector /\ I.opc = 3 -> UNCHANGED <<r, vr>>
             [] OTHER -> /\ r' = With(r, I.rt, Loaded(a, IF I.opc = 1 THEN 8 ELSE 4, I.opc = 2, TRUE))
                         /\ UNCHANGED vr

(* Two registers, at consecutive addresses.                                *)
LdstPair ==
    /\ Fetched("LdstPair")
    /\ LET n == 2^(IF I.vector THEN I.opc + 2 ELSE IF I.opc = 2 THEN 3 ELSE 2)
           moved == Base + I.imm * n
           a == (IF I.idx = "post" THEN Base ELSE moved) % 2^Wide
           base == IF I.idx \in {"post", "pre"} THEN moved ELSE Base
           signed == I.opc = 1
           Value(t) == Low(IF I.vector THEN vr[t] ELSE RegZ(t, TRUE), n * Byte)
       IN  /\ sp' = WrittenSP(base)
           /\ CASE ~I.load ->
                    /\ StoreEach(a, 2 * n, LAMBDA k : Digit(Value(IF k < n THEN I.rt ELSE I.rt2), k % n, Byte))
                    /\ r' = Written(base) /\ UNCHANGED vr
                [] I.load /\ I.vector ->
                    /\ vr' = [vr EXCEPT ![I.rt] = Load(a, n), ![I.rt2] = Load(a + n, n)]
                    /\ r' = Written(base) /\ UNCHANGED mem
                [] I.load /\ ~I.vector ->
                    /\ r' = With(With(Written(base), I.rt, Loaded(a, n, signed, TRUE)),
                                 I.rt2, Loaded(a + n, n, signed, TRUE))
                    /\ UNCHANGED <<vr, mem>>

(* An exclusive store succeeds only when the monitor is armed, and even    *)
(* then need not; it says whether it did.                                  *)
LdstExcl ==
    /\ Fetched("LdstExcl") /\ UNCHANGED <<sp, vr>>
    /\ LET n == 2^I.size
           size == IF I.pair THEN 2 * n ELSE n
           Value(t) == Low(RegZ(t, TRUE), n * Byte)
           both == Value(I.rt) + (IF I.pair THEN Value(I.rt2) * 2^(n * Byte) ELSE 0)
           first == With(r, I.rt, Load(Base, n))
       IN  \/ /\ ~I.store
              /\ r' = IF I.pair THEN With(first, I.rt2, Load(Base + n, n)) ELSE first
              /\ UNCHANGED mem
              /\ monitor' = (I.excl \/ monitor)
           \/ I.store /\ ~I.excl /\ Store(Base, size, both) /\ UNCHANGED <<r, monitor>>
           \/ /\ I.store /\ I.excl /\ monitor
              /\ Store(Base, size, both) /\ r' = With(r, I.rs, 0) /\ monitor' = FALSE
           \/ /\ I.store /\ I.excl
              /\ UNCHANGED mem /\ r' = With(r, I.rs, 1) /\ monitor' = FALSE

(***************************************************************************)
(* Structures: the elements of selem registers interleaved in memory, or   *)
(* of rpt registers one after the other.                                   *)
(***************************************************************************)
Transfer == [reg : 0 .. I.rpt * I.selem - 1, lane : Lanes]
Ordinal(t) == IF I.selem = 1 THEN t.reg * Cardinality(Lanes) + t.lane ELSE t.lane * I.selem + t.reg
Reg(k) == (I.rt + k) % 32
PostIndexed(total) ==
    Base + CASE ~I.post -> 0
             [] I.post /\ I.rm = 31 -> total
             [] I.post /\ I.rm # 31 -> r[I.rm]

(* The registers that a load from addr gives, the rest of them cleared.    *)
MultiLoaded(addr) ==
    [n \in DOMAIN vr |->
        IF \E k \in 0 .. I.rpt * I.selem - 1 : Reg(k) = n
        THEN LET k == CHOOSE k \in 0 .. I.rpt * I.selem - 1 : Reg(k) = n
             IN  Vector(ElemBytes, Lanes,
                        LAMBDA e : Load(addr + Ordinal([reg |-> k, lane |-> e]) * ElemBytes, ElemBytes))
        ELSE vr[n]]
LdStMulti ==
    /\ Fetched("LdStMulti")
    /\ LET total == Cardinality(Transfer) * ElemBytes
           At(k) == CHOOSE t \in Transfer : Ordinal(t) = k \div ElemBytes
           Value(k) == Elem(vr[Reg(At(k).reg)], At(k).lane, ElemBytes)
       IN  /\ r' = Written(PostIndexed(total)) /\ sp' = WrittenSP(PostIndexed(total))
           /\ IF I.load THEN vr' = MultiLoaded(Base) /\ UNCHANGED mem
              ELSE StoreEach(Base, total, LAMBDA k : Digit(Value(k), k % ElemBytes, Byte)) /\ UNCHANGED vr

(* One element of each register, the rest of which stays, or the element   *)
(* in every place.                                                         *)
SingleLoaded(addr) ==
    [n \in DOMAIN vr |->
        IF \E k \in 0 .. I.selem - 1 : Reg(k) = n
        THEN LET k == CHOOSE k \in 0 .. I.selem - 1 : Reg(k) = n
                 w == Load(addr + k * ElemBytes, ElemBytes)
             IN  IF I.replicate THEN Vector(ElemBytes, Lanes, LAMBDA e : w)
                 ELSE vr[n] + (w - Elem(vr[n], I.index, ElemBytes)) * 2^(I.index * ElemBytes * Byte)
        ELSE vr[n]]
LdStSingle ==
    /\ Fetched("LdStSingle")
    /\ LET total == I.selem * ElemBytes
           Value(k) == Elem(vr[Reg(k \div ElemBytes)], I.index, ElemBytes)
       IN  /\ r' = Written(PostIndexed(total)) /\ sp' = WrittenSP(PostIndexed(total))
           /\ IF I.load THEN vr' = SingleLoaded(Base) /\ UNCHANGED mem
              ELSE StoreEach(Base, total, LAMBDA k : Digit(Value(k), k % ElemBytes, Byte)) /\ UNCHANGED vr

(* Both registers can be read by a program and neither can be written; a   *)
(* block of zeroes has 2^DCZID words.                                      *)
System ==
    /\ Fetched("System") /\ UNCHANGED <<sp, vr>>
    /\ LET block == 4 * 2^sysr["DCZID_EL0"]
           a == RegZ(I.rt, TRUE)
       IN  \/ I.op = "MRS" /\ r' = With(r, I.rt, sysr[I.name]) /\ UNCHANGED <<mem, monitor>>
           \/ I.op \in {"HINT", "BARRIER"} /\ UNCHANGED <<r, mem, monitor>>
           \/ I.op = "CLREX" /\ monitor' = FALSE /\ UNCHANGED <<r, mem>>
           \/ I.op = "ZVA" /\ StoreEach(a - (a % block), block, LAMBDA k : 0) /\ UNCHANGED <<r, monitor>>

Plain == LdstRegUnsignedImm \/ LdstRegImm9 \/ LdstRegRoffset \/ LdLit \/ LdstPair \/ LdStMulti \/ LdStSingle
Memory ==
    /\ NextPC /\ UNCHANGED <<nzcv, sysr>>
    /\ \/ Plain /\ UNCHANGED monitor
       \/ LdstExcl
       \/ System
=============================================================================
