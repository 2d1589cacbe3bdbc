----------------------------- MODULE MCInteger -----------------------------
(***************************************************************************)
(* Integer programs of one or two instructions, over the sources 0 and 1   *)
(* and the destinations 0 (which is a source), 2, 3 and 31.                *)
(***************************************************************************)
EXTENDS CpuErrata, TLC

At(i) == 0 :> i
Then(i, j) == (0 :> i) @@ (4 :> j)
Both == {TRUE, FALSE}

AddSub(alu, sf, flags, d, n, m, type, k) ==
    [cls |-> "AddSubReg", alu |-> alu, sf |-> sf, setflags |-> flags, rd |-> d,
     rn |-> n, rm |-> m, shift |-> type, amount |-> k]
Shifts == {<<"LSL", 0>>, <<"LSL", 3>>, <<"LSR", 1>>, <<"ASR", 2>>}

AddSubs ==
    {AddSub(alu, sf, FALSE, d, 0, 1, s[1], s[2]) :
        alu \in {"ADD", "SUB"}, sf \in Both, d \in {0, 2}, s \in Shifts}
    \cup {AddSub("ADD", sf, TRUE, d, 0, m, "LSL", 0) : sf \in Both, d \in {1, 31}, m \in {0, 1}}
Extended ==
    {[cls |-> "AddSubExtReg", alu |-> "ADD", sf |-> sf, setflags |-> FALSE, rd |-> 2, rn |-> 0,
      rm |-> 1, option |-> [size |-> z, sign |-> g], amount |-> k] :
        sf \in Both, z \in 0 .. 3, g \in Both, k \in {0, 2}}
Immediates ==
    {[cls |-> "AddSubImm", alu |-> alu, sf |-> sf, setflags |-> FALSE, rd |-> d, rn |-> n, imm |-> k] :
        alu \in {"ADD", "SUB"}, sf \in Both, d \in {0, 31}, n \in {0, 31}, k \in {0, 5}}
    \cup {[cls |-> "AddSubImm", alu |-> alu, sf |-> TRUE, setflags |-> TRUE, rd |-> d, rn |-> 0, imm |-> k] :
        alu \in {"ADD", "SUB"}, d \in {0, 31}, k \in {0, 1, 7}}
Logicals ==
    {[cls |-> "LogicReg", alu |-> alu, invert |-> v, sf |-> sf, setflags |-> FALSE, rd |-> d, rn |-> n,
      rm |-> 1, shift |-> s[1], amount |-> s[2]] :
        alu \in {"AND", "OR", "EOR"}, v \in Both, sf \in Both, d \in {1, 2}, n \in {0, 31}, s \in Shifts}
    \cup {[cls |-> "LogImm", alu |-> alu, sf |-> sf, setflags |-> FALSE, rd |-> 1, rn |-> 0, imm |-> k] :
        alu \in {"AND", "OR", "EOR"}, sf \in Both, k \in {102, 240}}
Moves ==
    {[cls |-> "MovwImm", opc |-> opc, sf |-> sf, rd |-> 1, imm |-> 2, pos |-> p] :
        opc \in {"MOVZ", "MOVN"}, sf \in Both, p \in {0, 2}}
    \cup {[cls |-> "MovwImm", opc |-> "MOVK", sf |-> TRUE, rd |-> 1, imm |-> 2, pos |-> p] : p \in {0, 2, 6}}
    \cup {[cls |-> "PCRelAddr", page |-> p, rd |-> d, imm |-> k] : p \in Both, d \in {1, 31}, k \in {0, 24}}
Field(opc, sf, d, r, s) ==
    [cls |-> "Bitfield", opc |-> opc, sf |-> sf, rd |-> d, rn |-> 0, ri |-> r, si |-> s]
Fields ==
    {Field(opc, TRUE, d, r, s) : opc \in {"SBFM", "UBFM"}, d \in {0, 2}, r \in {0, 3, 7}, s \in {0, 2, 4, 7}}
    \cup {Field("UBFM", FALSE, 2, r, s) : r \in {0, 1, 3}, s \in {0, 2, 3}}
    \cup {Field("SBFM", FALSE, 2, 3, s) : s \in {0, 1, 2}}
    \cup {Field("BFM", TRUE, 1, r, s) : r \in {1, 2, 4}, s \in {4, 7}}
Carries ==
    {[cls |-> "AddSubcReg", alu |-> "ADD", sf |-> sf, setflags |-> FALSE, rd |-> d, rn |-> 0, rm |-> 1] :
        sf \in Both, d \in {0, 2}}
Products ==
    {[cls |-> "DataProc3src", alu |-> alu, sf |-> TRUE, long |-> l, sign |-> FALSE, high |-> FALSE,
      rd |-> d, rn |-> 0, rm |-> 1, ra |-> a] :
        alu \in {"ADD", "SUB"}, l \in Both, d \in {0, 2}, a \in {1, 31}}
    \cup {[cls |-> "DataProc3src", alu |-> "ADD", sf |-> TRUE, long |-> FALSE, sign |-> FALSE, high |-> TRUE,
      rd |-> d, rn |-> 0, rm |-> 1, ra |-> 31] : d \in {0, 2}}
Selects ==
    {[cls |-> "CondSel", cond |-> c, else_inv |-> v, else_inc |-> k, sf |-> TRUE, rd |-> 0, rn |-> 0, rm |-> 1] :
        c \in 0 .. 15, v \in Both, k \in Both}
    \cup {[cls |-> "CondSel", cond |-> c, else_inv |-> v, else_inc |-> k, sf |-> FALSE, rd |-> 2, rn |-> 0, rm |-> 31] :
        c \in {2, 13}, v \in Both, k \in Both}
    \cup {[cls |-> "CondCmp", cond |-> c, alu |-> "ADD", is_imm |-> FALSE, sf |-> sf, rn |-> 0, rm |-> 1,
      nzcv |-> {"N", "C"}, imm |-> 0] : c \in {0, 11}, sf \in Both}
    \cup {[cls |-> "CondCmp", cond |-> c, alu |-> alu, is_imm |-> TRUE, sf |-> TRUE, rn |-> 0, rm |-> 0,
      nzcv |-> {}, imm |-> k] : c \in {3, 12}, alu \in {"ADD", "SUB"}, k \in {0, 3}}
OneSource ==
    {[cls |-> "DataProc1src", opc |-> o, sf |-> TRUE, rd |-> 0, rn |-> 0] : o \in {"RBIT", "REV64", "CLZ"}}
    \cup {[cls |-> "DataProc1src", opc |-> o, sf |-> FALSE, rd |-> 2, rn |-> 0] : o \in {"REV32", "CLZ"}}
TwoSources ==
    {[cls |-> "DataProc2src", opc |-> o, sf |-> TRUE, rd |-> d, rn |-> 0, rm |-> 1] :
        o \in {"UDIV", "SDIV", "LSL", "LSR", "ASR"}, d \in {1, 2}}
    \cup {[cls |-> "DataProc2src", opc |-> o, sf |-> FALSE, rd |-> 2, rn |-> 0, rm |-> 1] :
        o \in {"UDIV", "ASR"}}
    \cup {[cls |-> "Extract", sf |-> sf, rd |-> 2, rn |-> 0, rm |-> 1, imm |-> 0] : sf \in Both}
Branches ==
    {[cls |-> "CompBrImm", equal |-> e, sf |-> sf, rt |-> t, offset |-> 12] :
        e \in Both, sf \in Both, t \in {0, 31}}
    \cup {[cls |-> "TestBrImm", equal |-> e, bit |-> b, rt |-> 0, offset |-> 12] : e \in Both, b \in {0, 4, 7}}
    \cup {[cls |-> "CondBrImm", cond |-> c, offset |-> o] : c \in 0 .. 15, o \in {-8, 12}}
    \cup {[cls |-> "UncondBrReg", link |-> l, rn |-> n] : l \in Both, n \in {0, 31}}

(* A call, and the return from it.                                         *)
Call == (0 :> [cls |-> "UncondBrImm", link |-> TRUE, offset |-> 8])
        @@ (4 :> [cls |-> "PCRelAddr", page |-> TRUE, rd |-> 2, imm |-> 8])
        @@ (8 :> [cls |-> "UncondBrReg", link |-> FALSE, rn |-> 30])
Jump == At([cls |-> "UncondBrImm", link |-> FALSE, offset |-> -12])

CompareThenBranch ==
    {Then([cls |-> "AddSubImm", alu |-> "SUB", sf |-> TRUE, setflags |-> TRUE, rd |-> 31, rn |-> 0, imm |-> k],
          [cls |-> "CondBrImm", cond |-> c, offset |-> 8]) :
        k \in {0, 1, 6, 127}, c \in {0, 1, 2, 3} \cup 8 .. 13}
WithCarrySet(alu) ==
    {Then(AddSub(alu, TRUE, TRUE, 2, 0, 1, "LSL", 0),
          [cls |-> "AddSubcReg", alu |-> alu, sf |-> TRUE, setflags |-> FALSE, rd |-> 3, rn |-> n, rm |-> m]) :
        n \in {0, 1}, m \in {1, 31}}

(* The instructions that depart from the architecture, and their neighbours. *)
Subtractions ==
    {AddSub("SUB", sf, TRUE, d, 0, m, s[1], s[2]) :
        sf \in Both, d \in {2, 31}, m \in {1, 31}, s \in {<<"LSL", 0>>, <<"ASR", 2>>}}
    \cup {[cls |-> "AddSubImm", alu |-> alu, sf |-> FALSE, setflags |-> TRUE, rd |-> d, rn |-> 0, imm |-> k] :
        alu \in {"ADD", "SUB"}, d \in {0, 31}, k \in {0, 1, 7}}
    \cup {[cls |-> "AddSubImm", alu |-> "ADD", sf |-> TRUE, setflags |-> TRUE, rd |-> 2, rn |-> 31, imm |-> 1]}
    \cup {[cls |-> "AddSubExtReg", alu |-> alu, sf |-> sf, setflags |-> g, rd |-> d, rn |-> n,
      rm |-> 1, option |-> [size |-> 1, sign |-> TRUE], amount |-> 1] :
        alu \in {"ADD", "SUB"}, sf \in Both, g \in Both, d \in {2}, n \in {0, 31}}
    \cup {[cls |-> "AddSubExtReg", alu |-> alu, sf |-> sf, setflags |-> g, rd |-> 31, rn |-> 0,
      rm |-> 1, option |-> [size |-> 3, sign |-> FALSE], amount |-> 0] :
        alu \in {"ADD", "SUB"}, sf \in Both, g \in Both}
    \cup {[cls |-> "CondCmp", cond |-> c, alu |-> "SUB", is_imm |-> g, sf |-> sf, rn |-> 0, rm |-> 1,
      nzcv |-> {"N", "C"}, imm |-> 0] : c \in {0, 11}, sf \in Both, g \in Both}
CarriesFlags ==
    {[cls |-> "AddSubcReg", alu |-> alu, sf |-> sf, setflags |-> g, rd |-> d, rn |-> 0, rm |-> 1] :
        alu \in {"ADD", "SUB"}, sf \in Both, g \in Both, d \in {1, 2}}
LogicalFlags ==
    {[cls |-> "LogicReg", alu |-> "AND", invert |-> v, sf |-> sf, setflags |-> TRUE, rd |-> d, rn |-> 0,
      rm |-> 1, shift |-> s[1], amount |-> s[2]] :
        v \in Both, sf \in Both, d \in {1, 31}, s \in Shifts}
    \cup {[cls |-> "LogicReg", alu |-> alu, invert |-> v, sf |-> sf, setflags |-> FALSE, rd |-> 31, rn |-> n,
      rm |-> 1, shift |-> "LSL", amount |-> 0] :
        alu \in {"AND", "OR", "EOR"}, v \in Both, sf \in Both, n \in {0, 31}}
    \cup {[cls |-> "LogicReg", alu |-> "EOR", invert |-> v, sf |-> sf, setflags |-> FALSE, rd |-> 2, rn |-> 0,
      rm |-> 1, shift |-> "ROR", amount |-> k] : v \in Both, sf \in Both, k \in {1, 3}}
    \cup {[cls |-> "LogicReg", alu |-> "EOR", invert |-> FALSE, sf |-> TRUE, setflags |-> FALSE, rd |-> 2, rn |-> 0,
      rm |-> 1, shift |-> "ROR", amount |-> k] : k \in {4, 5, 7}}
    \cup {[cls |-> "LogImm", alu |-> alu, sf |-> sf, setflags |-> FALSE, rd |-> 31, rn |-> 0, imm |-> k] :
        alu \in {"AND", "OR", "EOR"}, sf \in Both, k \in {102, 240}}
    \cup {[cls |-> "LogImm", alu |-> "AND", sf |-> sf, setflags |-> TRUE, rd |-> d, rn |-> 0, imm |-> k] :
        sf \in Both, d \in {1, 31}, k \in {102, 240}}
NarrowFields ==
    {[cls |-> "MovwImm", opc |-> "MOVK", sf |-> FALSE, rd |-> 1, imm |-> 2, pos |-> p] : p \in {0, 2}}
    \cup {Field(opc, FALSE, 1, r, s) : opc \in {"SBFM", "BFM"}, r \in 0 .. 3, s \in 0 .. 3}
    \cup {Field("BFM", TRUE, 1, r, s) : r \in {0, 1, 4, 7}, s \in {0, 3, 5, 7}}
SignedProducts ==
    {[cls |-> "DataProc3src", alu |-> alu, sf |-> FALSE, long |-> FALSE, sign |-> FALSE, high |-> FALSE,
      rd |-> 2, rn |-> 0, rm |-> 1, ra |-> a] : alu \in {"ADD", "SUB"}, a \in {1, 31}}
    \cup {[cls |-> "DataProc3src", alu |-> alu, sf |-> TRUE, long |-> TRUE, sign |-> TRUE, high |-> FALSE,
      rd |-> 2, rn |-> 0, rm |-> 1, ra |-> a] : alu \in {"ADD", "SUB"}, a \in {1, 31}}
    \cup {[cls |-> "DataProc3src", alu |-> "ADD", sf |-> TRUE, long |-> FALSE, sign |-> TRUE, high |-> TRUE,
      rd |-> d, rn |-> 0, rm |-> 1, ra |-> 31] : d \in {0, 2}}
OtherSources ==
    {[cls |-> "DataProc1src", opc |-> o, sf |-> sf, rd |-> 2, rn |-> 0] :
        o \in {"RBIT", "REV16", "REV32", "CLS", "CLZ"}, sf \in Both}
    \cup {[cls |-> "DataProc2src", opc |-> o, sf |-> sf, rd |-> d, rn |-> 0, rm |-> 1] :
        o \in {"SDIV", "LSL", "LSR", "ROR"}, sf \in Both, d \in {1, 2}}
    \cup {[cls |-> "Extract", sf |-> sf, rd |-> 2, rn |-> 0, rm |-> m, imm |-> k] :
        sf \in Both, m \in {0, 1, 31}, k \in {1, 3}}
    \cup {[cls |-> "Extract", sf |-> TRUE, rd |-> 2, rn |-> 0, rm |-> 0, imm |-> k] : k \in {4, 5, 7}}
    \cup {[cls |-> "CondSel", cond |-> c, else_inv |-> v, else_inc |-> k, sf |-> FALSE, rd |-> 2, rn |-> 0, rm |-> 1] :
        c \in {2, 13}, v \in Both, k \in Both}
FarBranches ==
    {[cls |-> "TestBrImm", equal |-> e, bit |-> b, rt |-> 0, offset |-> o] :
        e \in Both, b \in {0, 7}, o \in {-8, 16, 20, 24}}
    \cup {[cls |-> "UncondBrReg", link |-> l, rn |-> GPR_LR] : l \in Both}

IntegerPrograms ==
    {At(i) : i \in AddSubs \cup Extended \cup Immediates \cup Logicals \cup Moves \cup Fields
                   \cup Carries \cup Products \cup Selects \cup OneSource \cup TwoSources \cup Branches
                   \cup Subtractions \cup CarriesFlags \cup LogicalFlags \cup NarrowFields
                   \cup SignedProducts \cup OtherSources \cup FarBranches}
    \cup {Call, Jump} \cup CompareThenBranch \cup WithCarrySet("ADD")

(* All flags for the instructions that read them, otherwise all or none.   *)
Inputs == {0, 1, 6, 8, 15, 16, 127, 128, 170, 255}
IntegerStarts ==
    {[code |-> c,
      gprs |-> {(0 :> a) @@ (1 :> b) : a \in Inputs, b \in Inputs}, vregs |-> {<<>>},
      flags |-> IF c[0].cls \in {"CondSel", "CondCmp", "CondBrImm", "AddSubcReg"}
                THEN SUBSET Flag ELSE {{}, Flag}] : c \in IntegerPrograms}
=============================================================================
