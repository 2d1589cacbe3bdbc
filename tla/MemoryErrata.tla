---------------------------- MODULE MemoryErrata ----------------------------
(***************************************************************************)
(* Departures of the loads, the stores and the system instructions.        *)
(***************************************************************************)
EXTENDS IntegerErrata

MemoryAt(a, bytes) == Arm!Load(a % 2^Wide, bytes)
Base == gpr[HandleAsSP(I.rn)]

(* A byte, two bytes and the words of LDPSW come without their sign.       *)
SignedNarrow == ~I.vector /\ I.opc >= 2 /\ I.size < 2 /\ I.rt # GPR_ZERO
Negative(a, bytes) == MemoryAt(a, bytes) >= 2^(bytes * Byte - 1)
PairAt == IF I.idx = "post" THEN Base ELSE Base + I.imm * Bytes(PairSize(I))
SignLost ==
    \/ Is("LdstRegImm9") /\ SignedNarrow
       /\ Negative(IF I.idx = "post" THEN Base ELSE Base + I.imm, Bytes(I.size))
    \/ Is("LdstRegUnsignedImm") /\ SignedNarrow
       /\ Negative(Base + I.imm * Bytes(I.size), Bytes(I.size))
    \/ Is("LdstPair") /\ I.load /\ ~I.vector /\ I.opc = 1
       /\ \/ I.rt # GPR_ZERO /\ Negative(PairAt, 4)
          \/ I.rt2 # GPR_ZERO /\ Negative(PairAt + 4, 4)

(* An index register 31 is the stack pointer, and a W index stays within   *)
(* the lower half, without a sign and after the shift.                     *)
IndexTaken ==
    Low(gpr[HandleAsSP(I.rm)] * (IF I.shift THEN Bytes(SizeOf(I)) ELSE 1),
        Width(I.option.size = 3))
Indexing ==
    /\ Is("LdstRegRoffset") /\ ~IsPrefetch(I)
    /\ LET size == SizeOf(I)
           taken == (Base + IndexTaken) % 2^Wide
           right == (Base + Arm!Index) % 2^Wide
           w == MemoryAt(taken, Bytes(size))
       IN  CASE IsStore(I) -> taken # right
             [] I.vector /\ ~IsStore(I) -> w # MemoryAt(right, Bytes(size))
             [] OTHER ->
                  /\ I.rt # GPR_ZERO
                  /\ (IF I.opc >= 2 THEN Sext(w, Half) ELSE w)
                     # Arm!Loaded(right, Bytes(size), I.opc >= 2, I.opc = 2)

(* A literal is read an instruction early, by way of the destination: the  *)
(* general register of that number, also for a vector; 31 is the stack     *)
(* pointer.  A word comes without its sign.                                *)
Literal ==
    /\ Is("LdLit") /\ (I.vector \/ I.opc # 3)
    /\ LET bytes == Bytes(IF I.vector THEN I.opc + 2 ELSE 2 + (I.opc % 2))
           taken == (PC + I.imm - InstLen) % 2^Wide
           right == (PC + I.imm) % 2^Wide
           w == MemoryAt(taken, bytes)
       IN  CASE ~I.vector /\ I.rt = GPR_ZERO -> gpr[GPR_SP] # taken
             [] ~I.vector /\ I.rt # GPR_ZERO -> w # Arm!Loaded(right, bytes, I.opc = 2, TRUE)
             [] I.vector /\ bytes < 16 -> gpr[I.rt] # w \/ vreg[I.rt] # MemoryAt(right, bytes)
             [] I.vector /\ bytes = 16 -> gpr[I.rt] # taken \/ w # MemoryAt(right, bytes)

(* A pair of singles or doubles goes through the general registers.        *)
VectorPair ==
    /\ Is("LdstPair") /\ I.vector /\ I.opc < 2
    /\ LET n == Bytes(PairSize(I))
           Wrong(t, a) == IF I.load THEN gpr[t] # MemoryAt(a, n) \/ vreg[t] # MemoryAt(a, n)
                                    ELSE Low(gpr[t], n * Byte) # Low(vreg[t], n * Byte)
       IN  Wrong(I.rt, PairAt) \/ Wrong(I.rt2, PairAt + n)

(* An exclusive store succeeds also when nothing has been monitored.       *)
NotMonitored == Is("LdstExcl") /\ I.store /\ I.excl /\ ~monitor

(* A structure at the stack pointer is taken from zero, and the stack      *)
(* pointer does not move; registers of 8 bytes keep their upper half; and  *)
(* the base of a single structure becomes 34 after an immediate.           *)
Total == Bytes(I.size) * I.selem * (IF Is("LdStMulti") THEN I.rpt * LanesOf(I) ELSE 1)
Structures == Is("LdStMulti") \/ Is("LdStSingle")
Whole == IF Is("LdStMulti") THEN TRUE ELSE I.replicate
Registers == {(I.rt + k) % 32 : k \in 0 .. (IF Is("LdStMulti") THEN I.rpt ELSE 1) * I.selem - 1}
LoadedFrom(a) == IF Is("LdStMulti") THEN Arm!MultiLoaded(a) ELSE Arm!SingleLoaded(a)
Structure ==
    /\ Structures
    /\ \/ I.rn = GPR_ZERO
          /\ IF I.load THEN LoadedFrom(gpr[GPR_ZERO]) # LoadedFrom(gpr[GPR_SP]) ELSE TRUE
       \/ I.rn = GPR_ZERO /\ Arm!PostIndexed(Total) # gpr[GPR_SP]
       \/ I.load /\ Whole /\ ~I.q /\ \E n \in Registers : vreg[n] >= 2^Wide
       \/ Is("LdStSingle") /\ I.post /\ I.rm = GPR_ZERO /\ Arm!PostIndexed(Total) # GPR_DUMMY

(* DC ZVA clears nothing, and the registers that can only be read can be   *)
(* written.                                                                *)
SystemWrite == Is("System") /\ I.op \in {"MSR", "ZVA"}

MemoryDeparts ==
    \/ SignLost \/ Indexing \/ Literal \/ VectorPair \/ NotMonitored \/ Structure \/ SystemWrite
=============================================================================
