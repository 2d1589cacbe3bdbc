------------------------------ MODULE CpuErrata ------------------------------
(***************************************************************************)
(* Where the interpreter does not do what the architecture says: an        *)
(* instruction, and the values of its operands, for each kind of           *)
(* departure.  The catalogue is exact: Architecture says that a step is    *)
(* the architecture's when the catalogue is silent, and is not when it     *)
(* names the instruction.                                                  *)
(***************************************************************************)
EXTENDS MemoryErrata

(***************************************************************************)
(* Departures of the vector instructions.  A double has the bits of an X   *)
(* register.                                                               *)
(***************************************************************************)
High(n) == vreg[n] \div 2^Wide
Elem(n, e) == Lane(vreg[n], e, I.size)

(* On 8 bytes, the upper half is not cleared but kept, or computed too.    *)
KeptHigh ==
    \/ /\ \/ Is("SimdModImm")
          \/ Is("SimdCopy") /\ I.op = "DUP_general"
          \/ Is("SimdThreeRegSame") /\ I.op \in {"CMEQ", "CMTST"}
       /\ ~I.q /\ High(I.rd) # 0
    \/ Is("SimdScalarThreeRegSame") /\ High(I.rd) # 0
    \/ Is("Fp1Src") /\ I.op = "FMOV" /\ vreg[I.rd] \div 2^BitsOf(TypeSize(I.type)) # 0
    \/ /\ Is("SimdThreeRegSame") /\ I.op \in {"AND", "BIC", "ORR", "ORN", "EOR"} /\ ~I.q
       /\ LET a == High(I.rn)
              b == IF I.op \in {"BIC", "ORN"} THEN Not(High(I.rm)) ELSE High(I.rm)
          IN  CASE I.op \in {"AND", "BIC"} -> And(a, b) # 0
                [] I.op \in {"ORR", "ORN"} -> Or(a, b) # 0
                [] I.op = "EOR" -> a # b

(* How much a duplicated element fills depends on where it comes from.     *)
Duplicate ==
    /\ Is("SimdCopy") /\ I.op = "DUP_element"
    /\ LET fill == Arm!Vector(Bytes(I.size), 0 .. 8 \div Bytes(I.size) - 1, LAMBDA e : Elem(I.rn, I.index))
       IN  (IF I.index * Bytes(I.size) >= 8 THEN fill ELSE High(I.rd)) # (IF I.q THEN fill ELSE 0)

(* CMTST looks at the lowest bit of the first element.                     *)
TestBits ==
    LET Wrong(e) == CompareTest(Elem(I.rn, e), Elem(I.rm, e), TRUE) # (And(Elem(I.rn, e), Elem(I.rm, e)) # 0)
    IN  \/ Is("SimdThreeRegSame") /\ I.op = "CMTST" /\ \E e \in 0 .. Elements(I) - 1 : Wrong(e)
        \/ Is("SimdScalarThreeRegSame") /\ I.op = "CMTST" /\ Wrong(0)

(* Pairs are added, and their maximum and minimum are their first element; *)
(* on 8 bytes the upper half is what the last such instruction left.       *)
Pairs ==
    /\ Is("SimdThreeRegSame") /\ I.op \in {"ADDP", "SMAXP", "UMAXP", "SMINP", "UMINP"}
    /\ \/ ~I.q /\ High(VREG_DUMMY) # 0
       \/ /\ I.op # "ADDP"
          /\ \E e \in 0 .. Elements(I) - 1 :
                LET half == Elements(I) \div 2
                IN  Elem(IF e < half THEN I.rn ELSE I.rm, 2 * (e % half)) # Arm!PairElem(e)

(* A scalar copied within its register is lost, and SMOV loses the sign.   *)
ElementMoves ==
    \/ Is("SimdScalarCopy") /\ I.rd = I.rn /\ Elem(I.rn, I.index) # 0
    \/ Is("SimdCopy") /\ I.op = "SMOV" /\ I.rd # GPR_ZERO
       /\ Elem(I.rn, I.index) >= 2^(BitsOf(I.size) - 1)

(* FMOV moves half of a W register, and clears the lower double when it    *)
(* sets the upper one.                                                     *)
Conversion ==
    /\ Is("FpIntConv") /\ I.itof
    /\ \/ I.type = 0 /\ Low(gpr[I.rn], Half) >= 2^BitsOf(1)
       \/ I.type = 2 /\ Low(vreg[I.rd], Wide) # 0

(* FCVT, FRINTX and FRINTI do nothing: not even zero becomes zero, and the *)
(* rest of the register stays.                                             *)
Unconverted ==
    /\ Is("Fp1Src") /\ I.op # "FMOV"
    /\ IF Lane(vreg[I.rn], 0, TypeSize(I.type)) = 0
       THEN vreg[I.rd] # 0
       ELSE vreg[I.rd] \div 2^BitsOf(TypeSize(I.to)) # 0

VectorDeparts == Unconverted \/ KeptHigh \/ Duplicate \/ TestBits \/ Pairs \/ ElementMoves \/ Conversion

(***************************************************************************)
(* The whole catalogue.                                                    *)
(***************************************************************************)
Departs == IntegerDeparts \/ MemoryDeparts \/ VectorDeparts

(* Each instruction, however its callbacks share the dummy registers and   *)
(* whichever registers coincide, does what the architecture says: to its   *)
(* destination, the stack pointer, the flags, the memory and the program   *)
(* counter, and to nothing else; but for the departures, which are all of  *)
(* them and are each real (every decoder function and callback of Cpu).    *)
Architecture == Arm!Init /\ [][IF Departs THEN ~Arm!Next ELSE Arm!Next]_vars
=============================================================================
