----------------------------- MODULE ArmVector -----------------------------
(***************************************************************************)
(* The vector instructions and the moves of floating point.  An            *)
(* instruction that is not on the whole register clears its upper half.    *)
(***************************************************************************)
EXTENDS ArmState

Double == 2^(8 * Byte)
OfLanes(Value(_)) == Vector(ElemBytes, Lanes, Value)
InElem(w, e, x) == w + (x - Elem(w, e, ElemBytes)) * 2^(e * ElemBytes * Byte)
Ones == 2^(ElemBytes * Byte) - 1

(* The bits of a vector register.                                          *)
VBits(w) == {b \in 0 .. 16 * Byte - 1 : (w \div 2^b) % 2 = 1}
Wanted == 0 .. (IF I.q THEN 16 ELSE 8) * Byte - 1
Logic3(a, b) ==
    CASE I.op = "AND" -> a \cap b
      [] I.op = "BIC" -> a \ b
      [] I.op = "ORR" -> a \cup b
      [] I.op = "ORN" -> a \cup (Wanted \ b)
      [] I.op = "EOR" -> (a \cup b) \ (a \cap b)

(* Tests of two elements, and combinations of the elements of a pair.      *)
Passes(a, b) == CASE I.op = "CMEQ" -> a = b [] I.op = "CMTST" -> And(a, b) # 0
Combined(a, b) ==
    LET bits == ElemBytes * Byte
        x == Signed(a, bits)  y == Signed(b, bits)
    IN  CASE I.op = "ADDP" -> Low(a + b, bits)
          [] I.op = "SMAXP" -> IF x >= y THEN a ELSE b
          [] I.op = "SMINP" -> IF x <= y THEN a ELSE b
          [] I.op = "UMAXP" -> IF a >= b THEN a ELSE b
          [] I.op = "UMINP" -> IF a <= b THEN a ELSE b
(* The pairs of the first register, then those of the second.              *)
PairElem(e) ==
    LET n == Cardinality(Lanes)
        From(k) == Elem(vr[IF k < n THEN I.rn ELSE I.rm], k % n, ElemBytes)
    IN  Combined(From(2 * e), From(2 * e + 1))

SimdThreeRegSame ==
    /\ Fetched("SimdThreeRegSame")
    /\ SetV(I.rd, CASE I.op \in {"AND", "BIC", "ORR", "ORN", "EOR"} ->
                         Num(Logic3(VBits(vr[I.rn]), VBits(vr[I.rm])) \cap Wanted)
                    [] I.op \in {"CMEQ", "CMTST"} ->
                         OfLanes(LAMBDA e : IF Passes(Elem(vr[I.rn], e, ElemBytes), Elem(vr[I.rm], e, ElemBytes))
                                            THEN Ones ELSE 0)
                    [] OTHER -> OfLanes(PairElem))
    /\ KeepRegs
SimdScalarThreeRegSame ==
    /\ Fetched("SimdScalarThreeRegSame")
    /\ SetV(I.rd, IF Passes(Elem(vr[I.rn], 0, ElemBytes), Elem(vr[I.rm], 0, ElemBytes)) THEN Ones ELSE 0)
    /\ KeepRegs

(* UMOV and SMOV take an element to a general register, extended.          *)
SimdCopy ==
    /\ Fetched("SimdCopy")
    /\ \/ /\ I.op \in {"UMOV", "SMOV"}
          /\ LET x == Elem(vr[I.rn], I.index, ElemBytes)
             IN  SetReg(I.rd, IF I.op = "SMOV" THEN Signed(x, ElemBytes * Byte) ELSE x, I.q)
          /\ UNCHANGED vr
       \/ /\ I.op \notin {"UMOV", "SMOV"} /\ KeepRegs
          /\ SetV(I.rd, CASE I.op = "INS_element" -> InElem(vr[I.rd], I.index, Elem(vr[I.rn], I.src, ElemBytes))
                          [] I.op = "INS_general" ->
                               InElem(vr[I.rd], I.index, Low(RegZ(I.rn, TRUE), ElemBytes * Byte))
                          [] I.op = "DUP_element" -> OfLanes(LAMBDA e : Elem(vr[I.rn], I.index, ElemBytes))
                          [] I.op = "DUP_general" ->
                               OfLanes(LAMBDA e : Low(RegZ(I.rn, TRUE), ElemBytes * Byte)))
SimdScalarCopy ==
    Fetched("SimdScalarCopy") /\ SetV(I.rd, Elem(vr[I.rn], I.index, ElemBytes)) /\ KeepRegs
SimdModImm ==
    /\ Fetched("SimdModImm")
    /\ SetV(I.rd, Vector(8, IF I.q THEN {0, 1} ELSE {0}, LAMBDA e : I.imm))
    /\ KeepRegs

(* The bytes of a single, a double and a half.                             *)
FpBytes(type) == CASE type = 0 -> 4 [] type = 3 -> 2 [] OTHER -> 8
(* Zero stays zero when it is converted or rounded; what another number    *)
(* becomes is left open, but for its width.                                *)
FpResult ==
    LET x == Elem(vr[I.rn], 0, FpBytes(I.type))
    IN  IF I.op = "FMOV" \/ x = 0 THEN {x} ELSE 0 .. 2^(FpBytes(I.to) * Byte) - 1
Fp1Src == Fetched("Fp1Src") /\ (\E x \in FpResult : SetV(I.rd, x)) /\ KeepRegs
(* Type 2 is the upper double, whose lower one stays.                      *)
FpIntConv ==
    /\ Fetched("FpIntConv")
    /\ \/ /\ I.itof /\ KeepRegs
          /\ LET w == Low(RegZ(I.rn, TRUE), FpBytes(I.type) * Byte)
             IN  SetV(I.rd, IF I.type = 2 THEN Low(vr[I.rd], 8 * Byte) + w * Double ELSE w)
       \/ /\ ~I.itof /\ UNCHANGED vr
          /\ SetReg(I.rd, Elem(vr[I.rn], IF I.type = 2 THEN 1 ELSE 0, FpBytes(I.type)), TRUE)

VectorInst ==
    /\ NextPC /\ UNCHANGED <<nzcv, mem, sysr, monitor>>
    /\ \/ SimdThreeRegSame \/ SimdScalarThreeRegSame \/ SimdCopy \/ SimdScalarCopy \/ SimdModImm
       \/ Fp1Src \/ FpIntConv
=============================================================================
