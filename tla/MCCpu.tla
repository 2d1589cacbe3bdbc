------------------------------- MODULE MCCpu -------------------------------
(***************************************************************************)
(* All the programs, each with the registers, flags and memory it starts   *)
(* with: those of MCInteger, those that load and store, and those on       *)
(* vector registers.                                                       *)
(***************************************************************************)
EXTENDS MCInteger, Sequences

(* TLC orders records by their fields in the order it first read the names *)
(* of them: the class comes first, so that no other field of instructions  *)
(* of different classes is ever compared.                                  *)
Hint == [cls |-> "System", op |-> "HINT", name |-> "", rt |-> 31]

(***************************************************************************)
(* Programs that load and store, with base 0 or the stack pointer, index   *)
(* 1, data in 2 and 3 and in the vectors 31, 0, 1, 2, which follow one     *)
(* another.                                                                *)
(***************************************************************************)
Scalar(opc, size) == [vector |-> FALSE, opc |-> opc, size |-> size]
Quadword(opc) == [vector |-> TRUE, opc |-> opc, size |-> 0]
Kinds ==
    {Scalar(opc, size) : opc \in {0, 1}, size \in 0 .. 3}
    \cup {Scalar(2, size) : size \in 0 .. 3} \cup {Scalar(3, size) : size \in {0, 1}}
    \cup {[vector |-> TRUE, opc |-> opc, size |-> size] : opc \in {0, 1}, size \in 0 .. 3}
    \cup {Quadword(2), Quadword(3)}

(* A prefetch does not write back.                                         *)
Imm9s ==
    {[cls |-> "LdstRegImm9", rt |-> 2, rn |-> n, imm |-> -5, idx |-> "off"] @@ Scalar(2, 3) : n \in {0, 31}}
    \cup {[cls |-> "LdstRegImm9", rt |-> t, rn |-> n, imm |-> x[1], idx |-> x[2]] @@ k :
        k \in Kinds \ {Scalar(2, 3)}, t \in {2, 31}, n \in {0, 31}, x \in {<<-5, "off">>, <<3, "pre">>, <<7, "post">>}}
UnsignedImms ==
    {[cls |-> "LdstRegUnsignedImm", rt |-> t, rn |-> n, imm |-> x] @@ k :
        k \in Kinds, t \in {2, 31}, n \in {0, 31}, x \in {0, 3}}
Roffsets ==
    {[cls |-> "LdstRegRoffset", rt |-> t, rn |-> n, rm |-> m,
      option |-> [size |-> z, sign |-> g], shift |-> s] @@ k :
        k \in Kinds, t \in {2, 31}, n \in {0, 31}, m \in {1, 31}, z \in {2, 3}, g \in Both, s \in Both}
Literals ==
    {[cls |-> "LdLit", vector |-> FALSE, opc |-> o, rt |-> t, imm |-> x] :
        o \in 0 .. 3, t \in {2, 31}, x \in {16, 52, 80}}
    \cup {[cls |-> "LdLit", vector |-> TRUE, opc |-> o, rt |-> 2, imm |-> x] : o \in 0 .. 2, x \in {16, 52, 80}}
Pair(vector, opc, load, t, t2, n, x, idx) ==
    [cls |-> "LdstPair", vector |-> vector, opc |-> opc, load |-> load, rt |-> t, rt2 |-> t2,
     rn |-> n, imm |-> x, idx |-> idx]
Pairs2 ==
    {Pair(v, o, l, 2, 3, n, x, idx) :
        v \in Both, o \in {0, 2}, l \in Both, n \in {0, 31}, x \in {-1, 2}, idx \in {"off", "pre", "post"}}
    \cup {Pair(FALSE, 1, TRUE, t[1], t[2], n, x, idx) :
        t \in {<<2, 3>>, <<2, 31>>, <<31, 2>>}, n \in {0, 31}, x \in {-1, 2}, idx \in {"off", "pre", "post"}}
    \cup {Pair(TRUE, 1, l, 2, 3, 0, x, idx) : l \in Both, x \in {-1, 2}, idx \in {"off", "pre", "post"}}
    \cup {Pair(FALSE, o, TRUE, 0, 2, 0, 2, "off") : o \in 0 .. 2}
    \cup {Pair(TRUE, o, TRUE, 0, 2, 0, 2, "off") : o \in 0 .. 2}
    \cup {Pair(FALSE, o, l, t, 31, 0, 2, "post") : o \in {0, 2}, l \in Both, t \in {2, 31}}

Exclusive(excl, pair, store, size, n) ==
    [cls |-> "LdstExcl", excl |-> excl, pair |-> pair, store |-> store, size |-> size,
     rt |-> IF store THEN 2 ELSE 1, rt2 |-> 3, rs |-> 1, rn |-> n]
Sys(op, name, t) == [cls |-> "System", op |-> op, name |-> name, rt |-> t]
Names == {"TPIDRRO_EL0", "DCZID_EL0"}
Exclusives ==
    {Exclusive(TRUE, FALSE, st, z, n) : st \in Both, z \in 0 .. 3, n \in {0, 31}}
    \cup {Exclusive(TRUE, TRUE, st, z, n) : st \in Both, z \in {2, 3}, n \in {0, 31}}
    \cup {Exclusive(FALSE, FALSE, st, z, n) : st \in Both, z \in 0 .. 3, n \in {0, 31}}
Systems ==
    {Sys("MRS", x, t) : x \in Names, t \in {2, 31}} \cup {Sys("MSR", x, t) : x \in Names, t \in {2, 31}}
    \cup {Hint} \cup {Sys(op, "", 31) : op \in {"BARRIER", "CLREX"}} \cup {Sys("ZVA", "", t) : t \in {0, 31}}

Multi(r, s, z, q, l, p, n, t) ==
    [cls |-> "LdStMulti", rpt |-> r, selem |-> s, size |-> z, q |-> q, load |-> l,
     post |-> p # 0, rm |-> IF p = 0 THEN 0 ELSE p, rn |-> n, rt |-> t]
Multis ==
    {Multi(x[1], x[2], z, q, l, p, 0, 31) :
        x \in {<<1, 1>>, <<2, 1>>, <<3, 1>>, <<4, 1>>, <<1, 2>>, <<1, 3>>, <<1, 4>>},
        z \in 0 .. 3, q \in Both, l \in Both, p \in {0, 1, 31}}
    \cup {Multi(x[1], x[2], z, TRUE, l, p, 31, 0) :
        x \in {<<1, 1>>, <<2, 1>>, <<1, 3>>}, z \in {0, 2}, l \in Both, p \in {0, 1, 31}}
Single(s, z, e, rep, q, l, p, n, t) ==
    [cls |-> "LdStSingle", selem |-> s, size |-> z, index |-> e, replicate |-> rep, q |-> q, load |-> l,
     post |-> p # 0, rm |-> IF p = 0 THEN 0 ELSE p, rn |-> n, rt |-> t]
Singles ==
    UNION {{Single(s, z, e, FALSE, FALSE, l, p, n, 31) :
        s \in {1, 2, 4}, e \in {0, 16 \div 2^z - 1}, l \in Both, p \in {0, 1, 31}, n \in {0, 31}} : z \in 0 .. 3}
    \cup {Single(s, z, 0, TRUE, q, TRUE, p, n, 31) :
        s \in {1, 3}, z \in 0 .. 3, q \in Both, p \in {0, 1, 31}, n \in {0, 31}}
(* Registers of 8 bytes do not hold structures of doubles.                 *)
Structured == {i \in Multis : ~(i.size = 3 /\ ~i.q /\ i.selem # 1)} \cup Singles

(* What one stores another loads, in part; the monitor across two or three *)
(* instructions; a system register written, then read.                     *)
Access(k, x) == [cls |-> "LdstRegUnsignedImm", rt |-> 2, rn |-> 0, imm |-> x] @@ k
Then3(i, j, k) == Then(i, j) @@ (8 :> k)
MemorySequences ==
    {Then(Access(Scalar(0, z), x), Access(Scalar(1, y), 1)) : z \in 0 .. 3, y \in 0 .. 3, x \in 0 .. 2}
    \cup {Then(Access(Quadword(2), 0), Access(Scalar(1, y), 1)) : y \in 0 .. 3}
    \cup {Then(Exclusive(TRUE, p, FALSE, 2, 0), Exclusive(TRUE, p, TRUE, 2, 0)) : p \in Both}
    \cup {Then3(Exclusive(TRUE, p, FALSE, 3, 0), i, Exclusive(TRUE, p, TRUE, 3, 0)) :
             p \in Both, i \in {Sys("CLREX", "", 31), Exclusive(TRUE, FALSE, TRUE, 0, 31), Access(Scalar(0, 2), 0)}}
    \cup {Then(Sys("MSR", x, 2), Sys("MRS", x, 3)) : x \in Names}

MemoryPrograms ==
    {At(i) : i \in Imm9s \cup UnsignedImms \cup Roffsets \cup Literals \cup Pairs2
                   \cup Exclusives \cup Systems \cup Structured}
    \cup MemorySequences

Filled == (0 :> 42435) @@ (1 :> 7038) @@ (2 :> 61455) @@ (3 :> 26322) @@ (31 :> 39321) @@ (32 :> 13056)
MemoryStarts ==
    {[code |-> c,
      gprs |-> {(0 :> a) @@ (1 :> b) @@ (2 :> 166) @@ (3 :> 89) : a \in {16, 64}, b \in {0, 3, 13, 250}},
      vregs |-> {Filled, (2 :> 166) @@ (3 :> 89), <<>>}, flags |-> {Flag}] : c \in MemoryPrograms}

(***************************************************************************)
(* Programs on vector registers, with sources 0 and 1 and destinations 0,  *)
(* 1 and 2.                                                                *)
(***************************************************************************)
Places == {<<2, 0, 1>>, <<0, 0, 1>>, <<1, 0, 1>>, <<2, 0, 0>>}
Same(op, z, q, p) ==
    [cls |-> "SimdThreeRegSame", op |-> op, size |-> z, q |-> q, rd |-> p[1], rn |-> p[2], rm |-> p[3]]
Sames ==
    {Same(op, 0, q, p) : op \in {"AND", "BIC", "ORR", "ORN", "EOR"}, q \in Both, p \in Places}
    \cup {Same(op, z, TRUE, p) : op \in {"CMEQ", "CMTST", "ADDP"}, z \in 0 .. 3, p \in Places}
    \cup {Same(op, z, FALSE, p) : op \in {"CMEQ", "CMTST", "ADDP"}, z \in 0 .. 2, p \in Places}
    \cup {Same(op, z, q, p) : op \in {"SMAXP", "UMAXP", "SMINP", "UMINP"}, z \in 0 .. 2, q \in Both, p \in Places}
    \cup {[cls |-> "SimdScalarThreeRegSame", op |-> op, size |-> 3, rd |-> p[1], rn |-> p[2], rm |-> p[3]] :
            op \in {"CMEQ", "CMTST"}, p \in Places}

Copy(op, q, z, e, f, d, n) ==
    [cls |-> "SimdCopy", op |-> op, q |-> q, size |-> z, index |-> e, src |-> f, rd |-> d, rn |-> n]
Top(z) == (16 \div 2^z) - 1
Ends(z) == {0, 1, Top(z)}
Copies ==
    UNION {
        {Copy("INS_element", TRUE, z, e, f, d, 0) : e \in Ends(z), f \in Ends(z), d \in {0, 2}}
        \cup {Copy("INS_general", TRUE, z, e, 0, 2, n) : e \in Ends(z), n \in {0, 31}}
        \cup {Copy("DUP_element", q, z, e, 0, d, 0) : q \in Both \cap {z # 3, TRUE}, e \in Ends(z), d \in {0, 2}}
        \cup {Copy("DUP_general", q, z, 0, 0, 2, n) : q \in Both \cap {z # 3, TRUE}, n \in {0, 31}}
        \cup {Copy("UMOV", z = 3, z, e, 0, d, 0) : e \in Ends(z), d \in {2, 31}}
        \cup {Copy("SMOV", q, z, e, 0, d, 0) : q \in {x \in Both : z < 2 \/ (z = 2 /\ x)}, e \in Ends(z), d \in {2, 31}}
        \cup {[cls |-> "SimdScalarCopy", rd |-> d, rn |-> 0, index |-> e, size |-> z] : e \in Ends(z), d \in {0, 2}} :
        z \in 0 .. 3}
Moves2 ==
    {[cls |-> "SimdModImm", q |-> q, rd |-> 2, imm |-> x] : q \in Both, x \in {0, 90, 255}}
    \cup {[cls |-> "Fp1Src", op |-> op, rd |-> d, rn |-> 0, type |-> t, to |-> t] :
              op \in {"FMOV", "FRINTX", "FRINTI"}, d \in {0, 2}, t \in {0, 1, 3}}
    \cup {[cls |-> "Fp1Src", op |-> "FCVT", rd |-> d, rn |-> 0, type |-> p[1], to |-> p[2]] :
              d \in {0, 2}, p \in {<<0, 1>>, <<0, 3>>, <<1, 0>>, <<1, 3>>, <<3, 0>>, <<3, 1>>}}
    \cup {[cls |-> "FpIntConv", rd |-> 2, rn |-> n, type |-> t, itof |-> TRUE] : n \in {0, 31}, t \in 0 .. 3}
    \cup {[cls |-> "FpIntConv", rd |-> d, rn |-> 0, type |-> t, itof |-> FALSE] : d \in {2, 31}, t \in 0 .. 3}

(* What one instruction leaves in VREG_DUMMY the next one finds there.     *)
VectorSequences ==
    {Then(Same(op, 1, TRUE, <<2, 0, 1>>), Same("ADDP", 1, FALSE, <<1, 0, 1>>)) : op \in {"ADDP", "ORN", "AND"}}

VectorPrograms == {At(i) : i \in Sames \cup Copies \cup Moves2} \cup VectorSequences
VectorStarts ==
    {[code |-> c,
      gprs |-> {(0 :> a) @@ (2 :> 89) : a \in {0, 6, 181}},
      vregs |-> {(0 :> a) @@ (1 :> b) @@ (2 :> d) @@ (32 :> e) :
                    a \in {0, 42435, 3870, 195}, b \in {0, 42451, 61455}, d \in {0, 26322}, e \in {0, 13056}},
      flags |-> {Flag}] : c \in VectorPrograms}

MCGeneral == 0 .. 3
MCVectors == (0 .. 3) \cup {31}
(* Bits without a short period: a byte of the model is a bit.             *)
MCData == [a \in Word |-> (((a * a) \div 11) + ((a * a) \div 13) + (a \div 3)) % 2]
MCStarts == IntegerStarts \cup MemoryStarts \cup VectorStarts
=============================================================================
