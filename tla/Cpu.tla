-------------------------------- MODULE Cpu --------------------------------
(***************************************************************************)
(* The interpreter (ARMv8/Interpreter.cpp): an instruction is a            *)
(* composition of callbacks that the decoder chooses, and a step fetches   *)
(* and executes one.                                                       *)
(***************************************************************************)
EXTENDS Decoder, MemoryDecoder, VectorDecoder

CONSTANTS
    General,     \* general registers the programs use, of 0 .. 29
    Vectors,     \* vector registers they use, of 0 .. 31
    Stack,       \* the initial stack pointer
    Tls,         \* address of the thread-local page
    Starts       \* bound: what is run, each a program (a function from
                 \* address to instruction), and the sets of initial
                 \* registers and flags it is run with

Visible == General \cup {GPR_LR, GPR_ZERO}
Regs == Visible \cup {GPR_SP, PC_IDX, GPR_DUMMY, GPR_DUMMY2}
VRegs == Vectors \cup {VREG_DUMMY}
Quad == 0 .. 2^(2 * Wide) - 1

(***************************************************************************)
(* The instructions on these registers: of each class, the fields that the *)
(* decoder extracts and what they can be.                                  *)
(***************************************************************************)
Condition == 0 .. 15
Shift == {"LSL", "LSR", "ASR", "ROR"}
Option == [size : 0 .. 3, sign : BOOLEAN]
SysReg == {"TPIDRRO_EL0", "DCZID_EL0"}
IsIndex(e, size) == e \in 0 .. 16 \div Bytes(size) - 1

IntegerFields(i) ==
    /\ i.cls = "PCRelAddr" => i \in [cls : STRING, page : BOOLEAN, rd : Visible, imm : Word]
    /\ i.cls = "AddSubImm" =>
          i \in [cls : STRING, alu : {"ADD", "SUB"}, sf : BOOLEAN, setflags : BOOLEAN, rd : Visible,
                 rn : Visible, imm : Word]
    /\ i.cls = "LogImm" =>
          i \in [cls : STRING, alu : {"AND", "OR", "EOR"}, sf : BOOLEAN, setflags : BOOLEAN, rd : Visible,
                 rn : Visible, imm : Word]
    /\ i.cls = "MovwImm" =>
          i \in [cls : STRING, opc : {"MOVN", "MOVZ", "MOVK"}, sf : BOOLEAN, rd : Visible,
                 imm : 0 .. 2^(2 * Byte) - 1, pos : {0, 2 * Byte, 4 * Byte, 6 * Byte}]
    /\ i.cls = "Bitfield" =>
          i \in [cls : STRING, opc : {"SBFM", "BFM", "UBFM"}, sf : BOOLEAN, rd : Visible, rn : Visible,
                 ri : 0 .. Wide - 1, si : 0 .. Wide - 1]
    /\ i.cls = "Extract" =>
          i \in [cls : STRING, sf : BOOLEAN, rd : Visible, rn : Visible, rm : Visible, imm : 0 .. Wide - 1]
    /\ i.cls = "UncondBrImm" => i \in [cls : STRING, link : BOOLEAN, offset : Int]
    /\ i.cls = "UncondBrReg" => i \in [cls : STRING, link : BOOLEAN, rn : Visible]
    /\ i.cls = "CompBrImm" => i \in [cls : STRING, equal : BOOLEAN, sf : BOOLEAN, rt : Visible, offset : Int]
    /\ i.cls = "TestBrImm" =>
          i \in [cls : STRING, equal : BOOLEAN, bit : 0 .. Wide - 1, rt : Visible, offset : Int]
    /\ i.cls = "CondBrImm" => i \in [cls : STRING, cond : Condition, offset : Int]
    /\ i.cls = "LogicReg" =>
          i \in [cls : STRING, alu : {"AND", "OR", "EOR"}, invert : BOOLEAN, sf : BOOLEAN, setflags : BOOLEAN,
                 rd : Visible, rn : Visible, rm : Visible, shift : Shift, amount : 0 .. Wide - 1]
    /\ i.cls = "AddSubExtReg" =>
          i \in [cls : STRING, alu : {"ADD", "SUB"}, sf : BOOLEAN, setflags : BOOLEAN, rd : Visible,
                 rn : Visible, rm : Visible, option : Option, amount : 0 .. 4]
    /\ i.cls = "AddSubReg" =>
          i \in [cls : STRING, alu : {"ADD", "SUB"}, sf : BOOLEAN, setflags : BOOLEAN, rd : Visible,
                 rn : Visible, rm : Visible, shift : Shift, amount : 0 .. Wide - 1]
    /\ i.cls = "DataProc3src" =>
          i \in [cls : STRING, alu : {"ADD", "SUB"}, sf : BOOLEAN, long : BOOLEAN, sign : BOOLEAN,
                 high : BOOLEAN, rd : Visible, rn : Visible, rm : Visible, ra : Visible]
    /\ i.cls = "AddSubcReg" =>
          i \in [cls : STRING, alu : {"ADD", "SUB"}, sf : BOOLEAN, setflags : BOOLEAN, rd : Visible,
                 rn : Visible, rm : Visible]
    /\ i.cls = "CondCmp" =>
          i \in [cls : STRING, cond : Condition, alu : {"ADD", "SUB"}, is_imm : BOOLEAN, sf : BOOLEAN,
                 rn : Visible, rm : Visible, nzcv : SUBSET Flag, imm : Word]
    /\ i.cls = "CondSel" =>
          i \in [cls : STRING, cond : Condition, else_inv : BOOLEAN, else_inc : BOOLEAN, sf : BOOLEAN,
                 rd : Visible, rn : Visible, rm : Visible]
    /\ i.cls = "DataProc1src" =>
          i \in [cls : STRING, opc : {"RBIT", "REV16", "REV32", "REV64", "CLZ", "CLS"}, sf : BOOLEAN,
                 rd : Visible, rn : Visible]
    /\ i.cls = "DataProc2src" =>
          i \in [cls : STRING, opc : {"UDIV", "SDIV"} \cup Shift, sf : BOOLEAN, rd : Visible,
                 rn : Visible, rm : Visible]

(* A register of a load or store is a vector where the decoder says so; a  *)
(* vector literal is computed in the general register of its number.       *)
Holders(whole) == IF whole THEN Vectors ELSE Visible
MemoryFields(i) ==
    /\ i.cls = "LdstRegImm9" =>
          /\ i \in [cls : STRING, vector : BOOLEAN, opc : 0 .. 3, size : 0 .. 3, idx : {"off", "pre", "post"},
                    rt : Holders(i.vector), rn : Visible, imm : Int]
          /\ SizeOf(i) <= 4
    /\ i.cls = "LdstRegUnsignedImm" =>
          /\ i \in [cls : STRING, vector : BOOLEAN, opc : 0 .. 3, size : 0 .. 3,
                    rt : Holders(i.vector), rn : Visible, imm : Nat]
          /\ SizeOf(i) <= 4
    /\ i.cls = "LdstRegRoffset" =>
          /\ i \in [cls : STRING, vector : BOOLEAN, opc : 0 .. 3, size : 0 .. 3, option : Option, shift : BOOLEAN,
                    rt : Holders(i.vector), rn : Visible, rm : Visible]
          /\ SizeOf(i) <= 4
    /\ i.cls = "LdLit" =>
          /\ i \in [cls : STRING, vector : BOOLEAN, opc : 0 .. 3, rt : Visible, imm : Int]
          /\ i.vector => i.opc <= 2 /\ i.rt \in Vectors
    /\ i.cls = "LdstPair" =>
          i \in [cls : STRING, vector : BOOLEAN, opc : 0 .. 2, load : BOOLEAN, idx : {"off", "pre", "post"},
                 rt : Holders(PairSize(i) = 4), rt2 : Holders(PairSize(i) = 4), rn : Visible, imm : Int]
    /\ i.cls = "LdstExcl" =>
          i \in [cls : STRING, excl : BOOLEAN, pair : BOOLEAN, store : BOOLEAN, size : 0 .. 3, rs : Visible,
                 rt : Visible, rt2 : Visible, rn : Visible]
    /\ i.cls = "LdStMulti" =>
          /\ i \in [cls : STRING, rpt : 1 .. 4, selem : 1 .. 4, size : 0 .. 3, q : BOOLEAN, load : BOOLEAN,
                    post : BOOLEAN, rm : Visible \cup {0}, rn : Visible, rt : Vectors]
          /\ i.post => i.rm \in Visible
          /\ \A k \in 0 .. i.rpt + i.selem - 2 : (i.rt + k) % 32 \in Vectors
    /\ i.cls = "LdStSingle" =>
          /\ i \in [cls : STRING, selem : 1 .. 4, size : 0 .. 3, index : Nat, replicate : BOOLEAN, q : BOOLEAN,
                    load : BOOLEAN, post : BOOLEAN, rm : Visible \cup {0}, rn : Visible, rt : Vectors]
          /\ IsIndex(i.index, i.size)
          /\ i.post => i.rm \in Visible
          /\ \A k \in 0 .. i.selem - 1 : (i.rt + k) % 32 \in Vectors
    /\ i.cls = "System" =>
          /\ i \in [cls : STRING, op : {"MRS", "MSR", "HINT", "BARRIER", "CLREX", "ZVA"}, name : STRING, rt : Visible]
          /\ i.op \in {"MRS", "MSR"} => i.name \in SysReg

VectorFields(i) ==
    /\ i.cls = "SimdThreeRegSame" =>
          /\ i \in [cls : STRING, size : 0 .. 3, q : BOOLEAN, rd : Vectors, rn : Vectors, rm : Vectors,
                    op : {"AND", "BIC", "ORR", "ORN", "EOR", "ADDP", "SMAXP", "UMAXP", "SMINP", "UMINP",
                          "CMEQ", "CMTST"}]
          /\ i.size = 3 => i.q
    /\ i.cls = "SimdScalarThreeRegSame" =>
          i \in [cls : STRING, op : {"CMEQ", "CMTST"}, size : {3}, rd : Vectors, rn : Vectors, rm : Vectors]
    /\ i.cls = "SimdCopy" =>
          /\ i \in [cls : STRING, op : {"INS_element", "INS_general", "DUP_element", "DUP_general", "UMOV", "SMOV"},
                    q : BOOLEAN, size : 0 .. 3, index : Nat, src : Nat,
                    rd : Holders(i.op \notin {"UMOV", "SMOV"}),
                    rn : Holders(i.op \notin {"INS_general", "DUP_general"})]
          /\ IsIndex(i.index, i.size) /\ IsIndex(i.src, i.size)
    /\ i.cls = "SimdModImm" => i \in [cls : STRING, q : BOOLEAN, rd : Vectors, imm : Word]
    /\ i.cls = "SimdScalarCopy" =>
          /\ i \in [cls : STRING, size : 0 .. 3, index : Nat, rd : Vectors, rn : Vectors]
          /\ IsIndex(i.index, i.size)
    /\ i.cls = "Fp1Src" =>
          /\ i \in [cls : STRING, op : {"FMOV", "FCVT", "FRINTX", "FRINTI"}, type : {0, 1, 3}, to : {0, 1, 3},
                    rd : Vectors, rn : Vectors]
          /\ i.op = "FCVT" <=> i.to # i.type
    /\ i.cls = "FpIntConv" =>
          i \in [cls : STRING, type : 0 .. 3, itof : BOOLEAN, rd : Holders(i.itof), rn : Holders(~i.itof)]

Instruction(i) == IntegerFields(i) /\ MemoryFields(i) /\ VectorFields(i)

ASSUME CpuAssumption ==
    /\ General \subseteq 0 .. 29 /\ Vectors \subseteq 0 .. 31 /\ Stack \in Word /\ Tls \in Word
    /\ \A s \in Starts :
          /\ \A a \in DOMAIN s.code : Instruction(s.code[a])
          /\ \A f \in s.gprs : DOMAIN f \subseteq General \cup {GPR_LR} /\ \A r \in DOMAIN f : f[r] \in Word
          /\ \A f \in s.vregs : DOMAIN f \subseteq VRegs /\ \A r \in DOMAIN f : f[r] \in Quad
          /\ s.flags \subseteq SUBSET Flag

VARIABLES
    gpr,         \* ARMv8State::gpr
    nzcv,        \* ARMv8State::nzcv
    vreg,        \* ARMv8State::vreg
    sysr,        \* ARMv8State::sysr
    mem,         \* guest memory, as far as it has been stored to
    code,        \* the program, in guest memory
    monitor      \* history: whether an exclusive load has no store yet

vars == <<gpr, nzcv, vreg, sysr, mem, code, monitor>>

(***************************************************************************)
(* SingleStep: fetch, decode, execute, advance, reset the zero register.   *)
(* Registers start with any contents a program may have left there.        *)
(***************************************************************************)
Init ==
    /\ \E s \in Starts :
          /\ code = s.code
          /\ nzcv \in s.flags
          /\ \E f \in s.gprs :
                gpr = [r \in Regs |-> CASE r \in DOMAIN f -> f[r] [] r = GPR_SP -> Stack [] OTHER -> 0]
          /\ \E f \in s.vregs : vreg = [r \in VRegs |-> IF r \in DOMAIN f THEN f[r] ELSE 0]
    /\ sysr = [TPIDRRO_EL0 |-> Tls, DCZID_EL0 |-> 4]
    /\ mem = <<>>
    /\ monitor = FALSE

PC == gpr[PC_IDX]
Fetched(cls) == PC \in DOMAIN code /\ code[PC].cls = cls

RetiredKeepsZero(g) == [g EXCEPT ![PC_IDX] = (@ + InstLen) % 2^Wide]   \* mutant
Retired(g) == [g EXCEPT ![PC_IDX] = (@ + InstLen) % 2^Wide, ![GPR_ZERO] = 0]

(* Monitoring starts with an exclusive load and ends with an exclusive     *)
(* store or CLREX; the interpreter keeps no such state.                    *)
Monitored(i) ==
    CASE i.cls = "LdstExcl" /\ i.excl -> ~i.store
      [] i.cls = "System" /\ i.op = "CLREX" -> FALSE
      [] OTHER -> monitor

SingleStep(cls, Disas(_, _)) ==
    /\ Fetched(cls)
    /\ LET m == Disas([gpr |-> gpr, nzcv |-> nzcv, vreg |-> vreg, sysr |-> sysr, mem |-> mem], code[PC])
       IN  /\ gpr' = Retired(m.gpr)
           /\ nzcv' = m.nzcv /\ vreg' = m.vreg /\ sysr' = m.sysr /\ mem' = m.mem
    /\ monitor' = Monitored(code[PC])
    /\ UNCHANGED code

PCRelAddr == SingleStep("PCRelAddr", DisasPCRelAddr)
AddSubImm == SingleStep("AddSubImm", DisasAddSubImm)
LogImm == SingleStep("LogImm", DisasLogImm)
MovwImm == SingleStep("MovwImm", DisasMovwImm)
Bitfield == SingleStep("Bitfield", DisasBitfield)
ExtractRegs == SingleStep("Extract", DisasExtract)
UncondBrImm == SingleStep("UncondBrImm", DisasUncondBrImm)
UncondBrReg == SingleStep("UncondBrReg", DisasUncondBrReg)
CompBrImm == SingleStep("CompBrImm", DisasCompBrImm)
TestBrImm == SingleStep("TestBrImm", DisasTestBrImm)
CondBrImm == SingleStep("CondBrImm", DisasCondBrImm)
LogicReg == SingleStep("LogicReg", DisasLogicReg)
AddSubExtReg == SingleStep("AddSubExtReg", DisasAddSubExtReg)
AddSubReg == SingleStep("AddSubReg", DisasAddSubReg)
DataProc3src == SingleStep("DataProc3src", DisasDataProc3src)
AddSubcReg == SingleStep("AddSubcReg", DisasAddSubcReg)
CompareIf == SingleStep("CondCmp", DisasCondCmp)
CondSel == SingleStep("CondSel", DisasCondSel)
DataProc1src == SingleStep("DataProc1src", DisasDataProc1src)
DataProc2src == SingleStep("DataProc2src", DisasDataProc2src)
LdstRegImm9 == SingleStep("LdstRegImm9", DisasLdstRegImm9)
LdstRegUnsignedImm == SingleStep("LdstRegUnsignedImm", DisasLdstRegUnsignedImm)
LdstRegRoffset == SingleStep("LdstRegRoffset", DisasLdstRegRoffset)
LdLit == SingleStep("LdLit", DisasLdLit)
LdstPair == SingleStep("LdstPair", DisasLdstPair)
LdstExcl == SingleStep("LdstExcl", DisasLdstExcl)
LdStMulti == SingleStep("LdStMulti", DisasLdStMulti)
LdStSingle == SingleStep("LdStSingle", DisasLdStSingle)
System == SingleStep("System", DisasSystem)
SimdThreeRegSame == SingleStep("SimdThreeRegSame", DisasSimdThreeRegSame)
SimdCopy == SingleStep("SimdCopy", DisasSimdCopy)
SimdModImm == SingleStep("SimdModImm", DisasSimdModImm)
SimdScalarCopy == SingleStep("SimdScalarCopy", DisasSimdScalarCopy)
SimdScalarThreeRegSame == SingleStep("SimdScalarThreeRegSame", DisasSimdScalarThreeRegSame)
Fp1Src == SingleStep("Fp1Src", DisasFp1Src)
FpIntConv == SingleStep("FpIntConv", DisasFpIntConv)

Next ==
    \/ PCRelAddr \/ AddSubImm \/ LogImm \/ MovwImm \/ Bitfield \/ ExtractRegs
    \/ UncondBrImm \/ UncondBrReg \/ CompBrImm \/ TestBrImm \/ CondBrImm
    \/ LogicReg \/ AddSubExtReg \/ AddSubReg \/ DataProc3src \/ AddSubcReg
    \/ CompareIf \/ CondSel \/ DataProc1src \/ DataProc2src
    \/ LdstRegImm9 \/ LdstRegUnsignedImm \/ LdstRegRoffset \/ LdLit \/ LdstPair
    \/ LdstExcl \/ LdStMulti \/ LdStSingle \/ System
    \/ SimdThreeRegSame \/ SimdCopy \/ SimdModImm \/ SimdScalarCopy
    \/ SimdScalarThreeRegSame \/ Fp1Src \/ FpIntConv

Spec == Init /\ [][Next]_vars

(* The registers and the memory hold what fits into them, and the zero     *)
(* register reads as zero between instructions.                            *)
TypeOK ==
    /\ gpr \in [Regs -> Word]
    /\ gpr[GPR_ZERO] = 0
    /\ nzcv \subseteq Flag
    /\ vreg \in [VRegs -> Quad]
    /\ sysr \in [SysReg -> Word]
    /\ DOMAIN mem \subseteq Word
    /\ \A a \in DOMAIN mem : mem[a] \in 0 .. 2^Byte - 1
    /\ monitor \in BOOLEAN

(***************************************************************************)
(* Sequences of two instructions.                                          *)
(***************************************************************************)
CompareAndBranch ==
    /\ DOMAIN code = {0, 4}
    /\ code[0].cls = "AddSubImm" /\ code[0].alu = "SUB" /\ code[0].sf /\ code[0].setflags
    /\ code[0].rd = GPR_ZERO /\ code[0].rn \in Visible /\ code[0].imm \in 0 .. 2^(Wide - 1) - 1
    /\ code[4].cls = "CondBrImm" /\ code[4].cond \in (0 .. 3) \cup (8 .. 13)
    /\ code[4].offset \in Int /\ 4 + code[4].offset \in Word \ {0, 4, 8}

Decides(cond, a, b) ==
    LET x == Signed(a, Wide)  y == Signed(b, Wide)
    IN  CASE cond = 0 -> a = b
          [] cond = 1 -> a # b
          [] cond = 2 -> a >= b
          [] cond = 3 -> a < b
          [] cond = 8 -> a > b
          [] cond = 9 -> a <= b
          [] cond = 10 -> x >= y
          [] cond = 11 -> x < y
          [] cond = 12 -> x > y
          [] cond = 13 -> x <= y

(* A compare with an immediate followed by a conditional branch takes it   *)
(* exactly when the relation holds, with and without a sign, zero and the  *)
(* ends of the range included (SubI64, UpdateFlag, CondHold, BranchFlag).  *)
CompareDecides ==
    CompareAndBranch /\ PC \in {8, 4 + code[4].offset}
    => (PC = 4 + code[4].offset <=> Decides(code[4].cond, gpr[code[0].rn], code[0].imm))

(***************************************************************************)
(* Two-word arithmetic: the low words first, setting flags, then the high  *)
(* words with the carry, into registers that are no operands.              *)
(***************************************************************************)
WidePair(alu) ==
    LET lo == code[0]  hi == code[4]
    IN  /\ DOMAIN code = {0, 4}
        /\ lo.cls = "AddSubReg" /\ lo.alu = alu /\ lo.sf /\ lo.setflags
        /\ lo.shift = "LSL" /\ lo.amount = 0
        /\ hi.cls = "AddSubcReg" /\ hi.alu = alu /\ hi.sf /\ ~hi.setflags
        /\ {lo.rn, lo.rm, hi.rn, hi.rm} \subseteq Visible
        /\ {lo.rd, hi.rd} \subseteq General \ {lo.rn, lo.rm, hi.rn, hi.rm} /\ lo.rd # hi.rd
PairOf(lo, hi) == gpr[lo] + 2^Wide * gpr[hi]

(* Addition of two-word numbers is right (AddReg, AddcReg).                *)
WideSum ==
    WidePair("ADD") /\ PC = 8
    => LET lo == code[0]  hi == code[4]
       IN  PairOf(lo.rd, hi.rd)
           = (PairOf(lo.rn, hi.rn) + PairOf(lo.rm, hi.rm)) % 2^(2 * Wide)
=============================================================================
