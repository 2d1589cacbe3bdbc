----------------------------- MODULE CpuProofs -----------------------------
(***************************************************************************)
(* Theorems about the interpreter, for every width of its registers: that  *)
(* the flags of a comparison decide the conditional branch after it, that  *)
(* an addition with carry adds numbers of two words, and that registers    *)
(* and memory hold what fits into them, whatever program runs.             *)
(*                                                                         *)
(* The code takes the carry of a sum from a half adder and the order of    *)
(* two numbers from the flags of a sum with a negated operand.  So there   *)
(* are four parts for the first two: powers of two and division by them;   *)
(* words as sums of their bits, and the half adder; the flags of a sum,    *)
(* and what each condition says of the operands; and the two programs, an  *)
(* instruction at a time, each with an invariant that says what the flags  *)
(* stand for between its two instructions.                                 *)
(*                                                                         *)
(* The third calls a machine what an instruction works on, its registers,  *)
(* flags and memory as they fit, and shows that every callback makes a     *)
(* machine of a machine, then every function of the decoder, then every    *)
(* step: first for the integer instructions, then for loads and stores,    *)
(* then for those on vector registers.                                     *)
(***************************************************************************)
EXTENDS Cpu, Induction, TLAPS

(* Powers of two, which count the subsets of an interval.                  *)
LEMMA Power ==
    ASSUME NEW n \in Nat
    PROVE  2^n \in Nat /\ 2^n # 0 /\ 2^(n + 1) = 2 * 2^n
<1> DEFINE A == SUBSET (1 .. n)
           B == SUBSET (1 .. (n + 1))
           f == [T \in A |-> T \cup {n + 1}]
           C == {T \in B : n + 1 \in T}
<1>1. \A m \in Nat : IsFiniteSet(SUBSET (1 .. m)) /\ Cardinality(SUBSET (1 .. m)) = 2^m
  <2> TAKE m \in Nat
  <2>1. IsFiniteSet(1 .. m) /\ Cardinality(1 .. m) = m
    BY FS_Interval
  <2> QED
    BY <2>1, FS_SUBSET
<1>2. IsFiniteSet(A) /\ Cardinality(A) = 2^n /\ IsFiniteSet(B) /\ Cardinality(B) = 2^(n + 1)
  BY <1>1
<1>3. ExistsBijection(A, C)
  <2>1. f \in [A -> C]
    OBVIOUS
  <2>2. \A S, T \in A : f[S] = f[T] => S = T
    <3> SUFFICES ASSUME NEW S \in A, NEW T \in A, f[S] = f[T] PROVE S = T
      OBVIOUS
    <3>1. S \cup {n + 1} = T \cup {n + 1} /\ n + 1 \notin S /\ n + 1 \notin T
      OBVIOUS
    <3> HIDE DEF A, f
    <3> QED
      BY <3>1
  <2>3. \A T \in C : \E S \in A : f[S] = T
    <3> TAKE T \in C
    <3>1. T \ {n + 1} \in A /\ T = (T \ {n + 1}) \cup {n + 1}
      OBVIOUS
    <3>2. f[T \ {n + 1}] = T
      BY <3>1
    <3> QED
      BY <3>1, <3>2
  <2> HIDE DEF A, C, f
  <2>4. f \in Bijection(A, C)
    BY <2>1, <2>2, <2>3 DEF Bijection, Injection, Surjection, IsInjective
  <2> QED
    BY <2>4 DEF ExistsBijection
<1>4. B = A \cup C /\ A \cap C = {}
  <2>1. 1 .. (n + 1) = (1 .. n) \cup {n + 1} /\ n + 1 \notin 1 .. n
    OBVIOUS
  <2> QED
    BY <2>1
<1> HIDE DEF A, B, C, f
<1>5. IsFiniteSet(C) /\ Cardinality(C) = 2^n
  BY <1>2, <1>3, FS_Bijection
<1>6. 2^n \in Nat
  BY <1>2, FS_CardinalityType
<1>7. Cardinality(A \cap C) = 0
  BY <1>4, FS_EmptySet
<1>8. Cardinality(B) = Cardinality(A) + Cardinality(C) - Cardinality(A \cap C)
  BY <1>2, <1>4, <1>5, FS_Union
<1>9. {} \in A
  BY DEF A
<1>10. 2^n # 0
  BY <1>2, <1>9, FS_EmptySet
<1> QED
  BY <1>2, <1>5, <1>6, <1>7, <1>8, <1>10

(* The power of a sum is the product of the powers.                        *)
LEMMA PowerSum ==
    ASSUME NEW m \in Nat, NEW n \in Nat
    PROVE  2^(m + n) = 2^m * 2^n
<1> DEFINE S == {k \in Nat : 2^(m + k) = 2^m * 2^k}
<1>1. 0 \in S
  <2>1. 2^0 = 1 /\ m + 0 = m
    OBVIOUS
  <2>2. 2^m \in Nat
    BY Power
  <2> QED
    BY <2>1, <2>2
<1>2. ASSUME NEW k \in Nat, k \in S PROVE k + 1 \in S
  <2>1. 2^(m + k) = 2^m * 2^k
    BY <1>2
  <2>2. /\ 2^m \in Nat /\ 2^k \in Nat /\ 2^(k + 1) = 2 * 2^k /\ 2^((m + k) + 1) = 2 * 2^(m + k)
        /\ m + (k + 1) = (m + k) + 1
    BY Power
  <2>3. \A x, y \in Nat : 2 * (x * y) = x * (2 * y)
    OBVIOUS
  <2> QED
    BY <2>1, <2>2, <2>3
<1> HIDE DEF S
<1>3. n \in S
  BY <1>1, <1>2, SetInduction
<1> QED
  BY <1>3 DEF S
(***************************************************************************)
(* Num adds up its bits one by one.                                        *)
(***************************************************************************)
AddedUp(f, S) ==
    /\ f \in [0 .. 2 * Wide -> Nat]
    /\ f[0] = 0
    /\ \A i \in 1 .. 2 * Wide : f[i] = f[i - 1] + (IF i - 1 \in S THEN 2^(i - 1) ELSE 0)

(* The widths are numbers, and a register has at least eight bits.         *)
LEMMA WideType == Wide \in Nat /\ Wide >= 8 /\ Half \in Nat
BY WidthAssumption DEF Wide

(* Num is the end of such a sum.                                           *)
LEMMA NumAddsUp ==
    ASSUME NEW S
    PROVE  \E f : AddedUp(f, S) /\ Num(S) = f[2 * Wide]
<1> DEFINE D == 0 .. 2 * Wide
           Sums(g) == g = [n \in D |-> IF n = 0 THEN 0
                                       ELSE g[n - 1] + (IF n - 1 \in S THEN 2^(n - 1) ELSE 0)]
           below == CHOOSE g : Sums(g)
           step == [p \in Nat \X (1 .. 2 * Wide) |-> p[1] + (IF p[2] - 1 \in S THEN 2^(p[2] - 1) ELSE 0)]
<1>1. 2 * Wide \in Nat
  BY WideType
<1>2. step \in [Nat \X (1 .. 2 * Wide) -> Nat]
  <2>1. \A p \in Nat \X (1 .. 2 * Wide) : p[1] \in Nat /\ p[2] - 1 \in Nat
    BY <1>1
  <2> QED
    BY <2>1, Power
<1>3. PICK f : DefinedFrom(f, 2 * Wide, Nat, 0, step)
  <2> HIDE DEF step
  <2> QED
    BY <1>1, <1>2, IntervalRecursion
<1>4. ASSUME NEW i \in 1 .. 2 * Wide
      PROVE  f[i] = f[i - 1] + (IF i - 1 \in S THEN 2^(i - 1) ELSE 0)
  <2>1. f[i - 1] \in Nat /\ f[i] = step[<<f[i - 1], i>>]
    <3>1. i - 1 \in 0 .. 2 * Wide
      BY <1>1
    <3> HIDE DEF step
    <3> QED
      BY <1>3, <3>1 DEF DefinedFrom
  <2>2. <<f[i - 1], i>> \in Nat \X (1 .. 2 * Wide)
    BY <2>1
  <2> QED
    BY <2>1, <2>2
<1>5. AddedUp(f, S)
  BY <1>3, <1>4 DEF DefinedFrom, AddedUp
<1>6. Sums(f)
  <2>1. f = [n \in D |-> f[n]]
    BY <1>3 DEF DefinedFrom
  <2>2. \A n \in D : f[n] = IF n = 0 THEN 0
                            ELSE f[n - 1] + (IF n - 1 \in S THEN 2^(n - 1) ELSE 0)
    BY <1>1, <1>5 DEF AddedUp
  <2> HIDE DEF D
  <2> QED
    BY <2>1, <2>2, Zenon
<1>7. Num(S) = below[2 * Wide]
  BY DEF Num
<1>8. Sums(below)
  BY <1>6, Zenon
<1>9. below \in [D -> Nat] /\ AddedUp(below, S)
  <2> DEFINE T == {n \in Nat : n <= 2 * Wide => below[n] = f[n]}
  <2>1. /\ below[0] = 0
        /\ \A i \in 1 .. 2 * Wide : below[i] = below[i - 1] + (IF i - 1 \in S THEN 2^(i - 1) ELSE 0)
    <3> HIDE DEF below
    <3> QED
      BY <1>1, <1>8
  <2> HIDE DEF below, Sums
  <2>2. 0 \in T
    BY <2>1, <1>5 DEF AddedUp
  <2>3. ASSUME NEW n \in Nat, n \in T PROVE n + 1 \in T
    <3>1. CASE ~(n + 1 <= 2 * Wide)
      BY <3>1
    <3>2. CASE n + 1 <= 2 * Wide
      <4>1. n + 1 \in 1 .. 2 * Wide /\ (n + 1) - 1 = n /\ n <= 2 * Wide
        BY <1>1, <3>2
      <4>2. below[n] = f[n]
        BY <2>3, <4>1
      <4> QED
        BY <2>1, <4>1, <4>2, <1>5 DEF AddedUp
    <3> QED
      BY <3>1, <3>2
  <2>4. Nat \subseteq T
    <3> HIDE DEF T
    <3> QED
      BY <2>2, <2>3, SetInduction
  <2>5. \A n \in D : below[n] = f[n]
    BY <2>4, <1>1
  <2>6. below = [n \in D |-> below[n]]
    BY <1>8 DEF Sums
  <2>7. below = f
    BY <2>5, <2>6, <1>5, Zenon DEF AddedUp
  <2> QED
    BY <2>7, <1>5 DEF AddedUp
<1> QED
  BY <1>7, <1>9, Zenon

(* Two words together: twice what they share and once what they do not.    *)
LEMMA NumsTogether ==
    ASSUME NEW A, NEW B
    PROVE  /\ Num(A) \in Nat /\ Num(B) \in Nat /\ Num(A \cap B) \in Nat
           /\ Num((A \cup B) \ (A \cap B)) \in Nat
           /\ Num(A) + Num(B) = 2 * Num(A \cap B) + Num((A \cup B) \ (A \cap B))
<1> DEFINE C == A \cap B
           E == (A \cup B) \ (A \cap B)
<1>1. 2 * Wide \in Nat
  BY WideType
<1>2. PICK a : AddedUp(a, A) /\ Num(A) = a[2 * Wide]
  BY NumAddsUp
<1>3. PICK b : AddedUp(b, B) /\ Num(B) = b[2 * Wide]
  BY NumAddsUp
<1>4. PICK c : AddedUp(c, C) /\ Num(C) = c[2 * Wide]
  BY NumAddsUp
<1>5. PICK e : AddedUp(e, E) /\ Num(E) = e[2 * Wide]
  BY NumAddsUp
<1>6. \A x : /\ x \in C <=> x \in A /\ x \in B
             /\ x \in E <=> ~(x \in A <=> x \in B)
  OBVIOUS
<1>7. /\ a \in [0 .. 2 * Wide -> Nat] /\ b \in [0 .. 2 * Wide -> Nat]
      /\ c \in [0 .. 2 * Wide -> Nat] /\ e \in [0 .. 2 * Wide -> Nat]
      /\ a[0] = 0 /\ b[0] = 0 /\ c[0] = 0 /\ e[0] = 0
  BY <1>2, <1>3, <1>4, <1>5 DEF AddedUp
<1> DEFINE T == {n \in 0 .. 2 * Wide : a[n] + b[n] = 2 * c[n] + e[n]}
<1> HIDE DEF C, E
<1>8. 0 \in T
  BY <1>1, <1>7
<1>9. ASSUME NEW n \in 0 .. (2 * Wide - 1), n \in T PROVE n + 1 \in T
  <2>1. /\ n + 1 \in 1 .. 2 * Wide /\ (n + 1) - 1 = n /\ n \in Nat /\ n \in 0 .. 2 * Wide
        /\ n + 1 \in 0 .. 2 * Wide
    BY <1>1
  <2>2. 2^n \in Nat
    BY <2>1, Power
  <2>3. /\ a[n + 1] = a[n] + (IF n \in A THEN 2^n ELSE 0)
        /\ b[n + 1] = b[n] + (IF n \in B THEN 2^n ELSE 0)
        /\ c[n + 1] = c[n] + (IF n \in C THEN 2^n ELSE 0)
        /\ e[n + 1] = e[n] + (IF n \in E THEN 2^n ELSE 0)
    BY <2>1, <1>2, <1>3, <1>4, <1>5 DEF AddedUp
  <2>4. a[n] \in Nat /\ b[n] \in Nat /\ c[n] \in Nat /\ e[n] \in Nat
    BY <1>7, <2>1
  <2>5. a[n] + b[n] = 2 * c[n] + e[n]
    BY <1>9
  <2>6. a[n + 1] + b[n + 1] = 2 * c[n + 1] + e[n + 1]
    BY <2>2, <2>3, <2>4, <2>5, <1>6
  <2> QED
    BY <2>1, <2>6
<1>10. 2 * Wide \in T
  <2> HIDE DEF T
  <2>1. 0 .. 2 * Wide \subseteq T
    BY <1>1, <1>8, <1>9, IntervalInduction
  <2> QED
    BY <1>1, <2>1
<1>11. 2 * Wide \in 0 .. 2 * Wide
  BY <1>1
<1> QED
  BY <1>2, <1>3, <1>4, <1>5, <1>7, <1>10, <1>11 DEF C, E

(* Quotient and remainder are determined by their product and sum.         *)
LEMMA Quotient ==
    ASSUME NEW m \in Nat, NEW k \in Nat, NEW r \in Nat, r < m
    PROVE  (m * k + r) \div m = k /\ (m * k + r) % m = r
<1> DEFINE w == m * k + r
<1>1. m * k \in Nat /\ w \in Nat
  OBVIOUS
<1>2. PICK d \in Nat, s \in Nat : w = m * d + s /\ s < m /\ w \div m = d /\ w % m = s
  <2> HIDE DEF w
  <2> QED
    BY <1>1
<1>3. \A x, y \in Nat : x < y => m * x + m <= m * y
  <2> SUFFICES ASSUME NEW x \in Nat, NEW y \in Nat, x < y PROVE m * x + m <= m * y
    OBVIOUS
  <2>1. PICK z \in Nat : y = x + 1 + z
    <3>1. y - x - 1 \in Nat /\ y = x + 1 + (y - x - 1)
      OBVIOUS
    <3> QED
      BY <3>1
  <2>2. m * y = m * x + m + m * z /\ m * z \in Nat /\ m * x \in Nat
    BY <2>1
  <2> QED
    BY <2>2
<1>4. m * d + s = m * k + r /\ m * d \in Nat /\ m * k \in Nat
  BY <1>2
<1>5. ~(d < k) /\ ~(k < d)
  <2>1. d < k => m * d + m <= m * k
    BY <1>3
  <2>2. k < d => m * k + m <= m * d
    BY <1>3
  <2> DEFINE md == m * d
             mk == m * k
  <2>3. md \in Nat /\ mk \in Nat /\ md + s = mk + r /\ (d < k => md + m <= mk) /\ (k < d => mk + m <= md)
    BY <1>4, <2>1, <2>2
  <2> HIDE DEF md, mk, w
  <2> QED
    BY <1>2, <2>3
<1>6. d = k
  BY <1>5
<1>7. s = r
  BY <1>4, <1>6
<1> QED
  BY <1>2, <1>6, <1>7

(* Division, one bit after the other.                                      *)
LEMMA Halves ==
    ASSUME NEW w \in Nat, NEW p \in Nat, p # 0
    PROVE  /\ w \div p \in Nat /\ w \div (2 * p) \in Nat
           /\ w \div p = 2 * (w \div (2 * p)) + ((w \div p) % 2)
           /\ (w \div p) % 2 \in {0, 1}
<1>1. PICK q \in Nat, r \in Nat : w = p * q + r /\ r < p /\ w \div p = q
  OBVIOUS
<1>2. PICK k \in Nat, b \in {0, 1} : q = 2 * k + b /\ q % 2 = b
  OBVIOUS
<1>3. w = (2 * p) * k + (p * b + r) /\ p * b + r \in Nat /\ p * b + r < 2 * p
  <2>1. p * q = p * (2 * k) + p * b /\ p * (2 * k) = (2 * p) * k
    BY <1>2
  <2>2. p * b = 0 \/ p * b = p
    BY <1>2
  <2> QED
    BY <1>1, <2>1, <2>2
<1>4. w \div (2 * p) = k
  <2> DEFINE r2 == p * b + r
             p2 == 2 * p
  <2>1. p2 \in Nat /\ r2 \in Nat /\ r2 < p2 /\ w = p2 * k + r2
    BY <1>3
  <2> HIDE DEF r2, p2
  <2>2. w \div p2 = k
    BY <2>1, Quotient
  <2> QED
    BY <2>2 DEF p2
<1>5. w \div p = q
  BY <1>1
<1>6. q \in Nat /\ k \in Nat /\ q = 2 * k + (q % 2) /\ q % 2 \in {0, 1}
  BY <1>2
<1> QED
  BY <1>4, <1>5, <1>6, Zenon

(* The bits of a word add up to it.                                        *)
LEMMA NumOfBits ==
    ASSUME NEW w \in Word
    PROVE  w \in Nat /\ Num(Bits(w)) = w
<1>1. Wide \in Nat /\ 2 * Wide \in Nat /\ Wide <= 2 * Wide /\ 2^Wide \in Nat
  BY WideType, Power
<1>2. w \in Nat /\ w < 2^Wide
  BY <1>1 DEF Word
<1>3. PICK f : AddedUp(f, Bits(w)) /\ Num(Bits(w)) = f[2 * Wide]
  BY NumAddsUp
<1>4. /\ f[0] = 0
      /\ \A n \in 0 .. 2 * Wide : f[n] \in Nat
      /\ \A n \in Nat : n + 1 \in 1 .. 2 * Wide
            => f[n + 1] = f[n] + (IF n \in Bits(w) THEN 2^n ELSE 0)
  <2>1. \A n \in Nat : (n + 1) - 1 = n
    OBVIOUS
  <2> QED
    BY <1>3, <2>1 DEF AddedUp
<1> DEFINE T == {n \in 0 .. Wide : f[n] + 2^n * (w \div 2^n) = w}
           U == {n \in 0 .. 2 * Wide : Wide <= n => f[n] = w}
<1>5. 0 \in T
  <2>1. 2^0 = 1 /\ w \div 1 = w
    BY <1>2
  <2> QED
    BY <1>1, <1>2, <1>4, <2>1
<1>6. ASSUME NEW n \in 0 .. (Wide - 1), n \in T PROVE n + 1 \in T
  <2>1. n \in Nat /\ n + 1 \in 1 .. 2 * Wide /\ n \in 0 .. 2 * Wide /\ n + 1 \in 0 .. Wide
    BY <1>1
  <2>2. 2^n \in Nat /\ 2^n # 0 /\ 2^(n + 1) = 2 * 2^n
    BY <2>1, Power
  <2> DEFINE p == 2^n
             q == w \div p
             k == w \div (2 * p)
  <2>3. f[n] \in Nat /\ f[n] + p * q = w /\ f[n + 1] = f[n] + (IF n \in Bits(w) THEN p ELSE 0)
    BY <1>4, <1>6, <2>1
  <2>4. q \in Nat /\ k \in Nat /\ q = 2 * k + (q % 2) /\ q % 2 \in {0, 1}
    BY <1>2, <2>2, Halves
  <2>5. n \in Bits(w) <=> q % 2 = 1
    BY DEF Bits
  <2>6. 2^(n + 1) = 2 * p /\ p \in Nat
    BY <2>2
  <2>7. f[n + 1] + (2 * p) * k = w
    <3> HIDE DEF p, q, k
    <3>1. CASE q % 2 = 0
      <4>1. q = 2 * k /\ f[n + 1] = f[n]
        BY <3>1, <2>3, <2>4, <2>5
      <4>2. p * q = (2 * p) * k
        BY <4>1, <2>4, <2>6
      <4> QED
        BY <4>1, <4>2, <2>3
    <3>2. CASE q % 2 = 1
      <4>1. q = 2 * k + 1 /\ f[n + 1] = f[n] + p
        BY <3>2, <2>3, <2>4, <2>5
      <4>2. (2 * p) * k \in Nat /\ p * q = (2 * p) * k + p
        BY <4>1, <2>4, <2>6
      <4> QED
        BY <4>1, <4>2, <2>3, <2>6
    <3> QED
      BY <3>1, <3>2, <2>4
  <2> QED
    BY <2>1, <2>6, <2>7
<1>7. Wide \in T
  <2> HIDE DEF T
  <2>1. 0 .. Wide \subseteq T
    BY <1>1, <1>5, <1>6, IntervalInduction
  <2> QED
    BY <1>1, <2>1
<1>8. f[Wide] = w
  <2>1. w \div 2^Wide = 0
    BY <1>1, <1>2
  <2>2. Wide \in 0 .. 2 * Wide /\ 2^Wide * 0 = 0
    BY <1>1
  <2> QED
    BY <1>4, <1>7, <2>1, <2>2
<1>9. 2 * Wide \in U
  <2>1. 0 \in U
    BY <1>1, <1>8
  <2>2. ASSUME NEW n \in 0 .. (2 * Wide - 1), n \in U PROVE n + 1 \in U
    <3>1. n \in Nat /\ n + 1 \in 1 .. 2 * Wide /\ n + 1 \in 0 .. 2 * Wide /\ n \in 0 .. 2 * Wide
      BY <1>1
    <3>2. CASE Wide <= n
      <4>1. n \notin Bits(w)
        BY <1>1, <3>2 DEF Bits
      <4> QED
        BY <1>4, <2>2, <3>1, <3>2, <4>1
    <3>3. CASE n + 1 = Wide
      BY <1>8, <3>1, <3>3
    <3>4. CASE n + 1 < Wide
      BY <1>1, <3>1, <3>4
    <3> QED
      BY <1>1, <3>1, <3>2, <3>3, <3>4
  <2> HIDE DEF U
  <2>3. 0 .. 2 * Wide \subseteq U
    BY <1>1, <2>1, <2>2, IntervalInduction
  <2> QED
    BY <1>1, <2>3
<1> QED
  BY <1>1, <1>2, <1>3, <1>9

(* The half adder of the code is half of the sum, without overflow.        *)
LEMMA HalfOfTheSum ==
    ASSUME NEW a \in Word, NEW b \in Word
    PROVE  And(a, b) + Xor(a, b) \div 2 = (a + b) \div 2
<1> DEFINE c == And(a, b)
           e == Xor(a, b)
<1>1. c \in Nat /\ e \in Nat /\ Num(Bits(a)) + Num(Bits(b)) = 2 * c + e
  BY NumsTogether DEF And, Xor
<1>2. a \in Nat /\ b \in Nat /\ Num(Bits(a)) = a /\ Num(Bits(b)) = b
  BY NumOfBits
<1>3. a + b = 2 * c + e
  BY <1>1, <1>2
<1> HIDE DEF c, e
<1>4. c + e \div 2 = (a + b) \div 2
  BY <1>1, <1>2, <1>3
<1> QED
  BY <1>4 DEF c, e

(***************************************************************************)
(* Flags.                                                                  *)
(***************************************************************************)
Modulus == 2^Wide
Top == 2^(Wide - 1)

(* Words, with the modulus as twice the place of the sign.                 *)
LEMMA WordSize ==
    /\ Top \in Nat /\ Top >= 16 /\ Modulus = 2 * Top /\ Modulus \in Nat
    /\ Word = 0 .. Modulus - 1
<1>1. Wide - 5 \in Nat /\ Wide - 1 \in Nat /\ (Wide - 1) + 1 = Wide /\ 4 + (Wide - 5) = Wide - 1
  BY WideType
<1>2. Modulus = 2 * Top /\ Top \in Nat
  BY <1>1, Power DEF Modulus, Top
<1>3. Top = 2^4 * 2^(Wide - 5)
  BY <1>1, PowerSum DEF Top
<1>4. 2^(Wide - 5) \in Nat /\ 2^(Wide - 5) # 0 /\ 2^4 = 16
  BY <1>1, Power
<1> QED
  BY <1>2, <1>3, <1>4 DEF Word, Modulus

(* A number that is off by at most one modulus.                            *)
LEMMA ModOnce ==
    ASSUME NEW m \in Nat, m # 0, NEW x \in Int
    PROVE  /\ 0 <= x /\ x < m => x % m = x
           /\ m <= x /\ x < 2 * m => x % m = x - m
           /\ -m <= x /\ x < 0 => x % m = x + m
           /\ x % m \in 0 .. m - 1
OBVIOUS

(* The same for the modulus of words.                                      *)
LEMMA Wraps ==
    ASSUME NEW x \in Int
    PROVE  /\ 0 <= x /\ x < Modulus => x % Modulus = x
           /\ Modulus <= x /\ x < 2 * Modulus => x % Modulus = x - Modulus
           /\ -Modulus <= x /\ x < 0 => x % Modulus = x + Modulus
           /\ x % Modulus \in 0 .. Modulus - 1
<1>1. Modulus \in Nat /\ Modulus # 0
  BY WordSize
<1> QED
  BY <1>1, ModOnce, Zenon

(* The sum of two words, in a word.                                        *)
LEMMA SumWraps ==
    ASSUME NEW a \in Word, NEW b \in Word
    PROVE  /\ (a + b) % Modulus = IF a + b < Modulus THEN a + b ELSE (a + b) - Modulus
           /\ (a + b) % Modulus \in Word
<1>1. a \in Nat /\ b \in Nat /\ a < Modulus /\ b < Modulus /\ Modulus \in Nat /\ Modulus # 0
  BY WordSize
<1>2. a + b \in Int /\ 0 <= a + b /\ a + b < 2 * Modulus
  BY <1>1
<1>3. \A x \in Int : 0 <= x /\ x < 2 * Modulus
        => /\ x % Modulus = IF x < Modulus THEN x ELSE x - Modulus
           /\ x % Modulus \in Word
  <2> SUFFICES ASSUME NEW x \in Int, 0 <= x, x < 2 * Modulus
               PROVE  /\ x % Modulus = IF x < Modulus THEN x ELSE x - Modulus
                      /\ x % Modulus \in Word
    OBVIOUS
  <2>1. /\ x < Modulus => x % Modulus = x
        /\ Modulus <= x => x % Modulus = x - Modulus
        /\ x % Modulus \in 0 .. Modulus - 1
    BY Wraps
  <2> QED
    BY <1>1, <2>1, WordSize
<1> QED
  BY <1>2, <1>3, Zenon

(* A word has no bits beyond the last.                                     *)
LEMMA WholeWord ==
    ASSUME NEW w \in Word
    PROVE  w % Modulus = w /\ Low(w, Wide) = w /\ Width(TRUE) = Wide
<1>1. w % Modulus = w
  <2>1. w \in Int /\ 0 <= w /\ w < Modulus
    BY WordSize
  <2> QED
    BY <2>1, Wraps
<1> QED
  BY <1>1 DEF Low, Modulus, Width

(* The sign of a word.                                                     *)
LEMMA TopBit ==
    ASSUME NEW w \in Word
    PROVE  w \div 2^(Wide - 1) = 1 <=> w >= Top
<1>1. w \in Nat /\ w < 2 * Top /\ Top \in Nat /\ Top # 0
  BY WordSize
<1>2. CASE w < Top
  <2>1. w \div Top = 0
    BY <1>1, <1>2
  <2> QED
    BY <1>1, <1>2, <2>1 DEF Top
<1>3. CASE w >= Top
  <2>1. w - Top \in Nat /\ w - Top < Top /\ Top * 1 + (w - Top) = w
    BY <1>1, <1>3
  <2>2. (Top * 1 + (w - Top)) \div Top = 1
    BY <1>1, <2>1, Quotient
  <2> QED
    BY <1>3, <2>1, <2>2 DEF Top
<1> QED
  BY <1>1, <1>2, <1>3

(* What the flags of a sum say of its operands.                            *)
LEMMA FlagsOfSum ==
    ASSUME NEW a \in Word, NEW b \in Word,
           NEW res, res = IF a + b < Modulus THEN a + b ELSE (a + b) - Modulus,
           NEW flags, flags = UpdateFlag(res, a, b, Wide)
    PROVE  /\ "N" \in flags <=> res >= Top
           /\ "Z" \in flags <=> res = 0
           /\ "C" \in flags <=> a + b >= Modulus
           /\ "V" \in flags <=> (a >= Top <=> b >= Top) /\ ~(res >= Top <=> a >= Top)
<1>1. res \in Word
  BY WordSize
<1>2. Low(res, Wide) = res /\ Low(a, Wide) = a /\ Low(b, Wide) = b
  BY <1>1, WholeWord
<1>3. HalfAdder(a, b) = (a + b) \div 2
  BY HalfOfTheSum DEF HalfAdder
<1>4. HalfAdder(a, b) \in Word /\ (HalfAdder(a, b) >= Top <=> a + b >= Modulus)
  <2>1. a \in Nat /\ b \in Nat /\ a + b < 2 * Modulus
    BY WordSize
  <2> QED
    BY <1>3, <2>1, WordSize
<1>5. /\ res \div 2^(Wide - 1) = 1 <=> res >= Top
      /\ a \div 2^(Wide - 1) = 1 <=> a >= Top
      /\ b \div 2^(Wide - 1) = 1 <=> b >= Top
      /\ HalfAdder(a, b) \div 2^(Wide - 1) = 1 <=> a + b >= Modulus
  BY <1>1, <1>4, TopBit
<1>6. flags = {f \in Flag :
            \/ f = "N" /\ res \div 2^(Wide - 1) = 1
            \/ f = "Z" /\ res = 0
            \/ f = "C" /\ HalfAdder(a, b) \div 2^(Wide - 1) = 1
            \/ f = "V" /\ (a \div 2^(Wide - 1) = 1) = (b \div 2^(Wide - 1) = 1)
                       /\ (res \div 2^(Wide - 1) = 1) # (a \div 2^(Wide - 1) = 1)}
  BY <1>2, Zenon DEF UpdateFlag
<1>7. /\ "N" \in flags <=> res \div 2^(Wide - 1) = 1
      /\ "Z" \in flags <=> res = 0
      /\ "C" \in flags <=> HalfAdder(a, b) \div 2^(Wide - 1) = 1
      /\ "V" \in flags <=> /\ (a \div 2^(Wide - 1) = 1) <=> (b \div 2^(Wide - 1) = 1)
                           /\ ~((res \div 2^(Wide - 1) = 1) <=> (a \div 2^(Wide - 1) = 1))
  BY <1>6, Zenon DEF Flag
<1> QED
  BY <1>5, <1>7, Zenon

(* Subtraction adds the negated immediate.                                 *)
LEMMA Negated ==
    ASSUME NEW imm \in 0 .. Top - 1
    PROVE  /\ Negate(imm, TRUE) = IF imm = 0 THEN 0 ELSE Modulus - imm
           /\ Negate(imm, TRUE) \in Word
<1>1. /\ imm \in Nat /\ imm < Top /\ Top \in Nat /\ Modulus = 2 * Top /\ Modulus \in Nat /\ Modulus # 0
      /\ -imm \in Int /\ imm \in Word
  BY WordSize
<1>2. Signed(imm, Wide) = imm
  <2>1. Low(imm, Wide) = imm
    BY <1>1, WholeWord
  <2> QED
    BY <1>1, <2>1 DEF Signed, Top
<1>3. (-imm) % Modulus = IF imm = 0 THEN 0 ELSE Modulus - imm
  <2> DEFINE x == -imm
  <2>1. x \in Int /\ -Modulus <= x /\ (imm = 0 => x = 0) /\ (imm # 0 => x < 0) /\ 0 < Modulus
    BY <1>1
  <2> HIDE DEF x
  <2>2. (imm = 0 => x % Modulus = x) /\ (imm # 0 => x % Modulus = x + Modulus)
    BY <2>1, Wraps
  <2>3. x % Modulus = IF imm = 0 THEN 0 ELSE x + Modulus
    BY <2>1, <2>2
  <2>4. x + Modulus = Modulus - imm
    BY <1>1 DEF x
  <2> QED
    BY <2>3, <2>4 DEF x
<1>4. Signed(-imm, Wide) = -imm
  BY <1>1, <1>3 DEF Signed, Low, Top, Modulus
<1>5. (IF imm = 0 THEN 0 ELSE Modulus - imm) \in Word
  BY <1>1, WordSize
<1>6. Negate(imm, TRUE) = (-imm) % Modulus
  BY <1>2, <1>4 DEF Negate, Sext, Width, Modulus
<1> QED
  BY <1>3, <1>5, <1>6, Zenon

(* The arithmetic of a comparison: t is half of the modulus m, b stands    *)
(* for the negated i, and s for the sum of a and b.                        *)
LEMMA CompareArithmetic ==
    ASSUME NEW t \in Nat, t > 0, NEW m, m = 2 * t, NEW a \in Nat, a < m, NEW i \in Nat, i < t,
           NEW b, b = IF i = 0 THEN 0 ELSE m - i,
           NEW s, s = IF a + b < m THEN a + b ELSE (a + b) - m,
           NEW x, x = IF a >= t THEN a - m ELSE a
    PROVE  /\ s = 0 <=> a = i
           /\ a + b >= m \/ b = 0 <=> a >= i
           /\ (s >= t <=> (a >= t <=> b >= t) /\ ~(s >= t <=> a >= t)) <=> x >= i
OBVIOUS

(* What each condition asks of the flags.                                  *)
LEMMA Conditions ==
    ASSUME NEW flags
    PROVE  /\ CondHold(flags, 0) <=> "Z" \in flags
           /\ CondHold(flags, 1) <=> ~("Z" \in flags)
           /\ CondHold(flags, 2) <=> "C" \in flags
           /\ CondHold(flags, 3) <=> ~("C" \in flags)
           /\ CondHold(flags, 8) <=> "C" \in flags /\ "Z" \notin flags
           /\ CondHold(flags, 9) <=> ~("C" \in flags /\ "Z" \notin flags)
           /\ CondHold(flags, 10) <=> ("N" \in flags <=> "V" \in flags)
           /\ CondHold(flags, 11) <=> ~("N" \in flags <=> "V" \in flags)
           /\ CondHold(flags, 12) <=> ("N" \in flags <=> "V" \in flags) /\ "Z" \notin flags
           /\ CondHold(flags, 13) <=> ~(("N" \in flags <=> "V" \in flags) /\ "Z" \notin flags)
BY DEF CondHold

(* What it is meant to say of them.                                        *)
LEMMA Relations ==
    ASSUME NEW a, NEW b
    PROVE  /\ Decides(0, a, b) <=> a = b
           /\ Decides(1, a, b) <=> a # b
           /\ Decides(2, a, b) <=> a >= b
           /\ Decides(3, a, b) <=> a < b
           /\ Decides(8, a, b) <=> a > b
           /\ Decides(9, a, b) <=> a <= b
           /\ Decides(10, a, b) <=> Signed(a, Wide) >= Signed(b, Wide)
           /\ Decides(11, a, b) <=> Signed(a, Wide) < Signed(b, Wide)
           /\ Decides(12, a, b) <=> Signed(a, Wide) > Signed(b, Wide)
           /\ Decides(13, a, b) <=> Signed(a, Wide) <= Signed(b, Wide)
BY DEF Decides

(* After a comparison each condition is the relation it is named for.      *)
LEMMA ConditionsDecide ==
    ASSUME NEW a \in Word, NEW imm \in 0 .. Top - 1, NEW cond \in (0 .. 3) \cup (8 .. 13),
           NEW b \in Word, b = IF imm = 0 THEN 0 ELSE Modulus - imm,
           NEW res, res = IF a + b < Modulus THEN a + b ELSE (a + b) - Modulus,
           NEW flags, flags = FlagsOf(res, a, b, TRUE, "SUB")
    PROVE  CondHold(flags, cond) <=> Decides(cond, a, imm)
<1>1. /\ a \in Nat /\ a < Modulus /\ imm \in Nat /\ imm < Top /\ Top \in Nat /\ Top >= 16
      /\ Modulus = 2 * Top /\ imm \in Word
  BY WordSize
<1> DEFINE sum == UpdateFlag(res, a, b, Wide)
<1>4. /\ "N" \in sum <=> res >= Top
      /\ "Z" \in sum <=> res = 0
      /\ "C" \in sum <=> a + b >= Modulus
      /\ "V" \in sum <=> (a >= Top <=> b >= Top) /\ ~(res >= Top <=> a >= Top)
  <2> HIDE DEF sum
  <2>1. sum = UpdateFlag(res, a, b, Wide)
    BY DEF sum
  <2>3. "N" \in sum <=> res >= Top
    BY <2>1, FlagsOfSum
  <2>4. "Z" \in sum <=> res = 0
    BY <2>1, FlagsOfSum
  <2>5. "C" \in sum <=> a + b >= Modulus
    BY <2>1, FlagsOfSum
  <2>6. "V" \in sum <=> (a >= Top <=> b >= Top) /\ ~(res >= Top <=> a >= Top)
    BY <2>1, FlagsOfSum
  <2> QED
    BY <2>3, <2>4, <2>5, <2>6, Zenon
<1>5. flags = sum \cup {f \in {"C"} : b = 0}
  BY WholeWord DEF FlagsOf
<1>6. /\ "N" \in flags <=> "N" \in sum
      /\ "Z" \in flags <=> "Z" \in sum
      /\ "C" \in flags <=> "C" \in sum \/ b = 0
      /\ "V" \in flags <=> "V" \in sum
  <2> HIDE DEF sum
  <2> QED
    BY <1>5
<1> DEFINE x == IF a >= Top THEN a - Modulus ELSE a
<1>7. Signed(a, Wide) = x /\ Signed(imm, Wide) = imm
  <2>1. Low(a, Wide) = a /\ Low(imm, Wide) = imm
    BY <1>1, WholeWord
  <2> QED
    BY <1>1, <2>1 DEF Signed, Top, Modulus
<1> HIDE DEF sum
<1>8. /\ res = 0 <=> a = imm
      /\ a + b >= Modulus \/ b = 0 <=> a >= imm
      /\ (res >= Top <=> (a >= Top <=> b >= Top) /\ ~(res >= Top <=> a >= Top)) <=> x >= imm
  <2>1. x = IF a >= Top THEN a - Modulus ELSE a
    BY DEF x
  <2>2. Top > 0
    BY <1>1
  <2> HIDE DEF x
  <2>3. res = 0 <=> a = imm
    BY <1>1, <2>1, <2>2, CompareArithmetic
  <2>4. a + b >= Modulus \/ b = 0 <=> a >= imm
    BY <1>1, <2>1, <2>2, CompareArithmetic
  <2>5. (res >= Top <=> (a >= Top <=> b >= Top) /\ ~(res >= Top <=> a >= Top)) <=> x >= imm
    BY <1>1, <2>1, <2>2, CompareArithmetic
  <2> QED
    BY <2>3, <2>4, <2>5, Zenon
<1>9. /\ "Z" \in flags <=> a = imm
      /\ "C" \in flags <=> a >= imm
  BY <1>4, <1>6, <1>8, Zenon
<1>10. ("N" \in flags <=> "V" \in flags) <=> x >= imm
  BY <1>4, <1>6, <1>8, Zenon
<1>11. a \in Int /\ imm \in Int /\ x \in Int /\ (x = imm <=> a = imm)
  BY <1>1
<1> HIDE DEF x
<1>12. (a <= imm <=> ~(a > imm)) /\ (a < imm <=> ~(a >= imm)) /\ (a > imm <=> a >= imm /\ a # imm)
  BY <1>11
<1>13. (x <= imm <=> ~(x > imm)) /\ (x < imm <=> ~(x >= imm)) /\ (x > imm <=> x >= imm /\ a # imm)
  BY <1>11
<1>14. /\ CondHold(flags, 0) <=> "Z" \in flags
       /\ CondHold(flags, 1) <=> ~("Z" \in flags)
       /\ CondHold(flags, 2) <=> "C" \in flags
       /\ CondHold(flags, 3) <=> ~("C" \in flags)
       /\ CondHold(flags, 8) <=> "C" \in flags /\ "Z" \notin flags
       /\ CondHold(flags, 9) <=> ~("C" \in flags /\ "Z" \notin flags)
       /\ CondHold(flags, 10) <=> ("N" \in flags <=> "V" \in flags)
       /\ CondHold(flags, 11) <=> ~("N" \in flags <=> "V" \in flags)
       /\ CondHold(flags, 12) <=> ("N" \in flags <=> "V" \in flags) /\ "Z" \notin flags
       /\ CondHold(flags, 13) <=> ~(("N" \in flags <=> "V" \in flags) /\ "Z" \notin flags)
  BY Conditions
<1>15. /\ Decides(0, a, imm) <=> a = imm
       /\ Decides(1, a, imm) <=> a # imm
       /\ Decides(2, a, imm) <=> a >= imm
       /\ Decides(3, a, imm) <=> a < imm
       /\ Decides(8, a, imm) <=> a > imm
       /\ Decides(9, a, imm) <=> a <= imm
       /\ Decides(10, a, imm) <=> x >= imm
       /\ Decides(11, a, imm) <=> x < imm
       /\ Decides(12, a, imm) <=> x > imm
       /\ Decides(13, a, imm) <=> x <= imm
  BY <1>7, Relations
<1>16. \A c \in {0, 1, 2, 3, 8, 9, 10, 11, 12, 13} : CondHold(flags, c) <=> Decides(c, a, imm)
  <2>1. CondHold(flags, 0) <=> Decides(0, a, imm)
    BY <1>9, <1>14, <1>15, Zenon
  <2>2. CondHold(flags, 1) <=> Decides(1, a, imm)
    BY <1>9, <1>14, <1>15, Zenon
  <2>3. CondHold(flags, 2) <=> Decides(2, a, imm)
    BY <1>9, <1>12, <1>14, <1>15, Zenon
  <2>4. CondHold(flags, 3) <=> Decides(3, a, imm)
    BY <1>9, <1>12, <1>14, <1>15, Zenon
  <2>5. CondHold(flags, 8) <=> Decides(8, a, imm)
    BY <1>9, <1>12, <1>14, <1>15, Zenon
  <2>6. CondHold(flags, 9) <=> Decides(9, a, imm)
    BY <1>9, <1>12, <1>14, <1>15, Zenon
  <2>7. CondHold(flags, 10) <=> Decides(10, a, imm)
    BY <1>9, <1>10, <1>13, <1>14, <1>15, Zenon
  <2>8. CondHold(flags, 11) <=> Decides(11, a, imm)
    BY <1>9, <1>10, <1>13, <1>14, <1>15, Zenon
  <2>9. CondHold(flags, 12) <=> Decides(12, a, imm)
    BY <1>9, <1>10, <1>13, <1>14, <1>15, Zenon
  <2>10. CondHold(flags, 13) <=> Decides(13, a, imm)
    BY <1>9, <1>10, <1>13, <1>14, <1>15, Zenon
  <2> QED
    BY <2>1, <2>2, <2>3, <2>4, <2>5, <2>6, <2>7, <2>8, <2>9, <2>10
<1>17. cond \in {0, 1, 2, 3, 8, 9, 10, 11, 12, 13}
  OBVIOUS
<1> QED
  BY <1>16, <1>17, Zenon

(***************************************************************************)
(* Steps.                                                                  *)
(***************************************************************************)

(* A step executes the instruction at the program counter.                 *)
LEMMA StepExecutes ==
    ASSUME Next
    PROVE  /\ PC \in DOMAIN code /\ UNCHANGED code
           /\ code[PC].cls = "AddSubImm" => AddSubImm
           /\ code[PC].cls = "CondBrImm" => CondBrImm
           /\ code[PC].cls = "AddSubReg" => AddSubReg
           /\ code[PC].cls = "AddSubcReg" => AddSubcReg
<1> DEFINE Effect ==
              /\ PC \in DOMAIN code /\ UNCHANGED code
              /\ code[PC].cls = "AddSubImm" => AddSubImm
              /\ code[PC].cls = "CondBrImm" => CondBrImm
              /\ code[PC].cls = "AddSubReg" => AddSubReg
              /\ code[PC].cls = "AddSubcReg" => AddSubcReg
<1> SUFFICES Effect
  OBVIOUS
<1>1. AddSubImm => Effect
  BY DEF AddSubImm, SingleStep, Fetched
<1>2. CondBrImm => Effect
  BY DEF CondBrImm, SingleStep, Fetched
<1>3. AddSubReg => Effect
  BY DEF AddSubReg, SingleStep, Fetched
<1>4. AddSubcReg => Effect
  BY DEF AddSubcReg, SingleStep, Fetched
<1>5. PCRelAddr \/ LogImm \/ MovwImm \/ Bitfield \/ ExtractRegs \/ UncondBrImm \/ UncondBrReg
      \/ CompBrImm \/ TestBrImm \/ LogicReg \/ AddSubExtReg \/ DataProc3src
      => Effect
  BY DEF PCRelAddr, LogImm, MovwImm, Bitfield, ExtractRegs, UncondBrImm, UncondBrReg,
         CompBrImm, TestBrImm, LogicReg, AddSubExtReg, DataProc3src, SingleStep, Fetched
<1>6. CompareIf \/ CondSel \/ DataProc1src \/ DataProc2src \/ LdstRegImm9 \/ LdstRegUnsignedImm
      \/ LdstRegRoffset \/ LdLit \/ LdstPair \/ LdstExcl \/ LdStMulti \/ LdStSingle
      => Effect
  BY DEF CompareIf, CondSel, DataProc1src, DataProc2src, LdstRegImm9, LdstRegUnsignedImm,
         LdstRegRoffset, LdLit, LdstPair, LdstExcl, LdStMulti, LdStSingle, SingleStep, Fetched
<1>7. System \/ SimdThreeRegSame \/ SimdCopy \/ SimdModImm \/ SimdScalarCopy
      \/ SimdScalarThreeRegSame \/ Fp1Src \/ FpIntConv
      => Effect
  BY DEF System, SimdThreeRegSame, SimdCopy, SimdModImm, SimdScalarCopy,
         SimdScalarThreeRegSame, Fp1Src, FpIntConv, SingleStep, Fetched
<1> HIDE DEF Effect
<1> QED
  BY <1>1, <1>2, <1>3, <1>4, <1>5, <1>6, <1>7 DEF Next

(* The registers hold words, the zero register zero.                       *)
RegistersOK == gpr \in [Regs -> Word] /\ gpr[GPR_ZERO] = 0

(* Which registers there are.                                              *)
LEMMA RegisterNames ==
    /\ General \subseteq 0 .. 29 /\ Visible = General \cup {30, 31}
    /\ Regs = General \cup {30, 31, 32, 33, 34, GPR_DUMMY2}
    /\ GPR_DUMMY2 = 35 /\ GPR_ZERO = 31 /\ PC_IDX = 33 /\ GPR_DUMMY = 34 /\ GPR_SP = 32 /\ GPR_LR = 30
    /\ 0 \in Word /\ 4 \in Word /\ 8 \in Word
<1>1. General \subseteq 0 .. 29
  BY CpuAssumption
<1>2. 0 \in Word /\ 4 \in Word /\ 8 \in Word
  BY WordSize
<1> QED
  BY <1>1, <1>2 DEF Visible, Regs, GPR_DUMMY2, GPR_ZERO, PC_IDX, GPR_DUMMY, GPR_SP, GPR_LR

(* A program starts at 0.                                                  *)
LEMMA RegistersAtFirst ==
    ASSUME Init
    PROVE  RegistersOK /\ PC = 0
<1>1. PICK s \in Starts :
          \E f \in s.gprs :
              gpr = [r \in Regs |-> CASE r \in DOMAIN f -> f[r] [] r = GPR_SP -> Stack [] OTHER -> 0]
  BY DEF Init
<1>2. PICK f \in s.gprs :
          gpr = [r \in Regs |-> CASE r \in DOMAIN f -> f[r] [] r = GPR_SP -> Stack [] OTHER -> 0]
  BY <1>1
<1>3. DOMAIN f \subseteq General \cup {GPR_LR} /\ (\A r \in DOMAIN f : f[r] \in Word) /\ Stack \in Word
  BY CpuAssumption
<1>4. \A r \in Regs : /\ r \in DOMAIN f => gpr[r] = f[r]
                      /\ r \notin DOMAIN f /\ r = GPR_SP => gpr[r] = Stack
                      /\ r \notin DOMAIN f /\ r # GPR_SP => gpr[r] = 0
  <2> TAKE r \in Regs
  <2>1. gpr[r] = CASE r \in DOMAIN f -> f[r] [] r = GPR_SP -> Stack [] OTHER -> 0
    BY <1>2
  <2>2. CASE r \in DOMAIN f
    <3>1. r # GPR_SP
      BY <1>3, <2>2, RegisterNames
    <3> QED
      BY <2>1, <2>2, <3>1
  <2>3. CASE r \notin DOMAIN f
    BY <2>1, <2>3
  <2> QED
    BY <2>2, <2>3
<1>5. PC_IDX \notin DOMAIN f /\ GPR_ZERO \notin DOMAIN f /\ {PC_IDX, GPR_ZERO} \subseteq Regs
      /\ PC_IDX # GPR_SP /\ GPR_ZERO # GPR_SP
  BY <1>3, RegisterNames
<1>6. \A r \in Regs : gpr[r] \in Word
  BY <1>3, <1>4, RegisterNames
<1>7. gpr = [r \in Regs |-> gpr[r]]
  BY <1>2
<1>8. gpr \in [Regs -> Word]
  BY <1>6, <1>7
<1> QED
  BY <1>4, <1>5, <1>8 DEF RegistersOK, PC

(* The end of a step.                                                      *)
LEMMA Retiring ==
    ASSUME NEW g \in [Regs -> Word], NEW h, h = Retired(g)
    PROVE  /\ h \in [Regs -> Word] /\ h[GPR_ZERO] = 0
           /\ h[PC_IDX] = (g[PC_IDX] + 4) % Modulus
           /\ \A r \in Regs : r # PC_IDX /\ r # GPR_ZERO => h[r] = g[r]
<1>1. PC_IDX \in Regs /\ GPR_ZERO \in Regs /\ PC_IDX # GPR_ZERO /\ 0 \in Word
  BY RegisterNames
<1>2. (g[PC_IDX] + 4) % Modulus \in Word
  BY <1>1, SumWraps, RegisterNames
<1>3. h = [[g EXCEPT ![PC_IDX] = (g[PC_IDX] + 4) % Modulus] EXCEPT ![GPR_ZERO] = 0]
  BY DEF Retired, InstLen, Modulus
<1> QED
  BY <1>1, <1>2, <1>3

(* A comparison leaves the flags by which the condition is decided.        *)
LEMMA Compares ==
    ASSUME RegistersOK, CompareAndBranch, PC = 0, AddSubImm
    PROVE  /\ RegistersOK' /\ PC' = 4
           /\ gpr'[code[0].rn] = gpr[code[0].rn]
           /\ CondHold(nzcv', code[4].cond) <=> Decides(code[4].cond, gpr[code[0].rn], code[0].imm)
<1> DEFINE a == gpr[code[0].rn]
           imm == code[0].imm
           b == Negate(imm, TRUE)
           res == (a + b) % Modulus
           g == [gpr EXCEPT ![GPR_ZERO] = Low(res, Wide)]
           flags == FlagsOf(res, a, b, TRUE, "SUB")
<1>1. /\ code[0].rn \in Visible /\ code[0].rn \in Regs /\ imm \in 0 .. Top - 1
      /\ code[0].rd = GPR_ZERO /\ code[0].alu = "SUB" /\ code[0].sf /\ code[0].setflags
      /\ code[4].cond \in (0 .. 3) \cup (8 .. 13)
  BY RegisterNames DEF CompareAndBranch, Visible, Regs, Top
<1>2. gpr \in [Regs -> Word] /\ a \in Word /\ gpr[GPR_ZERO] = 0 /\ gpr[PC_IDX] = 0
  BY <1>1 DEF RegistersOK, PC
<1>3. gpr' = Retired(g) /\ nzcv' = flags
  BY <1>1 DEF AddSubImm, SingleStep, DisasAddSubImm, ImmOp, ArithmeticLogic, ALCalc, Read, X, Width,
              Modulus, PC
<1>4. b \in Word /\ b = IF imm = 0 THEN 0 ELSE Modulus - imm
  BY <1>1, Negated
<1>5. res \in Word /\ res = IF a + b < Modulus THEN a + b ELSE (a + b) - Modulus
  BY <1>2, <1>4, SumWraps
<1>6. Low(res, Wide) \in Word
  BY <1>5, WholeWord
<1> HIDE DEF a, b, imm, res, flags
<1>7. g \in [Regs -> Word] /\ \A r \in Regs : r # GPR_ZERO => g[r] = gpr[r]
  BY <1>2, <1>6
<1>8. CondHold(flags, code[4].cond) <=> Decides(code[4].cond, a, imm)
  <2>1. flags = FlagsOf(res, a, b, TRUE, "SUB")
    BY DEF flags
  <2> QED
    <3> DEFINE cond == code[4].cond
    <3>1. /\ a \in Word /\ imm \in 0 .. Top - 1 /\ cond \in (0 .. 3) \cup (8 .. 13) /\ b \in Word
          /\ b = IF imm = 0 THEN 0 ELSE Modulus - imm
          /\ res = IF a + b < Modulus THEN a + b ELSE (a + b) - Modulus
      BY <1>1, <1>2, <1>4, <1>5
    <3> HIDE DEF cond
    <3>2. CondHold(flags, cond) <=> Decides(cond, a, imm)
      BY <2>1, <3>1, ConditionsDecide
    <3> QED
      BY <3>2 DEF cond
<1> HIDE DEF g
<1>9. /\ gpr' \in [Regs -> Word] /\ gpr'[GPR_ZERO] = 0
      /\ gpr'[PC_IDX] = (g[PC_IDX] + 4) % Modulus
      /\ \A r \in Regs : r # PC_IDX /\ r # GPR_ZERO => gpr'[r] = g[r]
  BY <1>3, <1>7, Retiring
<1>10. g[PC_IDX] = 0 /\ PC_IDX \in Regs
  BY <1>2, <1>7, RegisterNames
<1>11. (g[PC_IDX] + 4) % Modulus = 4
  <2>1. 4 % Modulus = 4
    <3>1. \A w \in Word : w % Modulus = w
      BY WholeWord
    <3> QED
      BY <3>1, RegisterNames, Zenon
  <2> QED
    BY <1>10, <2>1
<1>12. gpr'[code[0].rn] = gpr[code[0].rn]
  <2> DEFINE r == code[0].rn
  <2>1. r \in Visible /\ r \in Regs
    BY <1>1
  <2> HIDE DEF r
  <2>2. r # PC_IDX
    BY <2>1, RegisterNames
  <2>3. r = GPR_ZERO => gpr'[r] = gpr[r]
    BY <1>2, <1>9
  <2>4. r # GPR_ZERO => gpr'[r] = gpr[r]
    BY <1>7, <1>9, <2>1, <2>2
  <2> QED
    BY <2>3, <2>4 DEF r
<1> QED
  BY <1>3, <1>8, <1>9, <1>11, <1>12 DEF RegistersOK, PC, a, imm

(* A conditional branch is taken when the flags say so.                    *)
LEMMA BranchesOrNot ==
    ASSUME RegistersOK, CompareAndBranch, PC = 4, CondBrImm
    PROVE  /\ RegistersOK'
           /\ gpr'[code[0].rn] = gpr[code[0].rn]
           /\ PC' = IF CondHold(nzcv, code[4].cond) THEN 4 + code[4].offset ELSE 8
<1> DEFINE cond == code[4].cond
           d == code[4].offset
           t == 4 + d
           addr == (gpr[PC_IDX] + (d - 4)) % Modulus
           taken == [gpr EXCEPT ![PC_IDX] = addr]
           r == code[0].rn
<1>1. /\ cond \in (0 .. 3) \cup (8 .. 13) /\ d \in Int /\ t \in Word \ {0, 4, 8}
      /\ r \in Visible /\ r \in Regs
  BY DEF CompareAndBranch, Visible, Regs
<1>2. gpr \in [Regs -> Word] /\ gpr[GPR_ZERO] = 0 /\ gpr[PC_IDX] = 4
  BY DEF RegistersOK, PC
<1>3. cond < 14
  BY <1>1
<1>4. /\ CondHold(nzcv, cond) => gpr' = Retired(taken)
      /\ ~CondHold(nzcv, cond) => gpr' = Retired(gpr)
  BY <1>3 DEF CondBrImm, SingleStep, DisasCondBrImm, BranchFlag, BranchI64, Backed, Put, X, InstLen,
              Modulus, PC
<1>5. /\ d - 4 + 4 = d /\ 4 + (d - 4) = d /\ d \in Int /\ -4 <= d /\ d + 4 < Modulus
      /\ Modulus \in Nat /\ Modulus >= 32
  BY <1>1, WordSize
<1>6. addr = d % Modulus
  BY <1>2, <1>5
<1>7. d >= 0 => d % Modulus = d
  BY <1>5, Wraps
<1>8. d < 0 => d % Modulus = d + Modulus
  BY <1>5, Wraps
<1>9. addr \in Word /\ (addr + 4) % Modulus = t
  <2>1. CASE d >= 0
    <3>1. addr = d /\ d \in Nat /\ d < Modulus
      BY <1>5, <1>6, <1>7, <2>1
    <3>2. d \in Word
      BY <3>1, WordSize
    <3>3. addr \in Word /\ t \in Word /\ t = addr + 4
      <4> HIDE DEF addr
      <4> QED
        BY <1>1, <1>5, <3>1, <3>2
    <3>4. t % Modulus = t
      BY <3>3, WholeWord
    <3> QED
      BY <3>3, <3>4
  <2>2. CASE d < 0
    <3>1. addr = d + Modulus /\ addr \in Word
      BY <1>5, <1>6, <1>8, <2>2, WordSize
    <3>2. (addr + 4) % Modulus = IF addr + 4 < Modulus THEN addr + 4 ELSE (addr + 4) - Modulus
      BY <3>1, SumWraps, RegisterNames
    <3>3. addr + 4 = (d + 4) + Modulus
      BY <1>5, <3>1
    <3> HIDE DEF addr
    <3>4. (addr + 4) - Modulus = 4 + d /\ ~(addr + 4 < Modulus)
      BY <1>1, <1>5, <3>3, WordSize
    <3> QED
      BY <3>1, <3>2, <3>4
  <2> QED
    BY <1>5, <2>1, <2>2
<1> HIDE DEF addr
<1>10. taken \in [Regs -> Word] /\ taken[PC_IDX] = addr /\ \A q \in Regs : q # PC_IDX => taken[q] = gpr[q]
  BY <1>2, <1>9, RegisterNames
<1> HIDE DEF taken
<1>11. r # PC_IDX
  BY <1>1, RegisterNames
<1>12. CASE CondHold(nzcv, cond)
  <2>1. /\ gpr' \in [Regs -> Word] /\ gpr'[GPR_ZERO] = 0
        /\ gpr'[PC_IDX] = (taken[PC_IDX] + 4) % Modulus
        /\ \A q \in Regs : q # PC_IDX /\ q # GPR_ZERO => gpr'[q] = taken[q]
    BY <1>4, <1>10, <1>12, Retiring
  <2>2. gpr'[PC_IDX] = t
    BY <1>9, <1>10, <2>1
  <2> HIDE DEF r
  <2>3. gpr'[r] = gpr[r]
    BY <1>1, <1>2, <1>10, <1>11, <2>1
  <2> QED
    BY <1>12, <2>1, <2>2, <2>3 DEF RegistersOK, PC, r
<1>13. CASE ~CondHold(nzcv, cond)
  <2>1. /\ gpr' \in [Regs -> Word] /\ gpr'[GPR_ZERO] = 0
        /\ gpr'[PC_IDX] = (gpr[PC_IDX] + 4) % Modulus
        /\ \A q \in Regs : q # PC_IDX /\ q # GPR_ZERO => gpr'[q] = gpr[q]
    BY <1>2, <1>4, <1>13, Retiring
  <2>2. gpr'[PC_IDX] = 8
    <3>1. \A w \in Word : w % Modulus = w
      BY WholeWord
    <3>2. 8 % Modulus = 8
      BY <3>1, RegisterNames, Zenon
    <3> QED
      BY <1>2, <2>1, <3>2
  <2> HIDE DEF r
  <2>3. gpr'[r] = gpr[r]
    BY <1>1, <1>2, <1>11, <2>1
  <2> QED
    BY <1>13, <2>1, <2>2, <2>3 DEF RegistersOK, PC, r
<1> QED
  BY <1>12, <1>13

(***************************************************************************)
(* A comparison and its branch.  Between them the flags say what the       *)
(* relation is; after them the program counter does.                       *)
(***************************************************************************)
Related == Decides(code[4].cond, gpr[code[0].rn], code[0].imm)
ComparisonInv ==
    CompareAndBranch =>
        /\ RegistersOK
        /\ PC \in {0, 4, 8, 4 + code[4].offset}
        /\ PC = 4 => (CondHold(nzcv, code[4].cond) <=> Related)
        /\ PC = 8 => ~Related
        /\ PC = 4 + code[4].offset => Related

(* A compare with an immediate followed by a conditional branch takes it   *)
(* exactly when the relation holds, whatever the width of the registers.   *)
THEOREM ComparesDecide == Spec => []CompareDecides
<1>1. Init => ComparisonInv
  <2> SUFFICES ASSUME Init, CompareAndBranch PROVE ComparisonInv
    BY DEF ComparisonInv
  <2>1. 4 + code[4].offset # 0
    BY DEF CompareAndBranch
  <2> QED
    BY <2>1, RegistersAtFirst DEF ComparisonInv
<1>2. ComparisonInv /\ [Next]_vars => ComparisonInv'
  <2> SUFFICES ASSUME ComparisonInv, [Next]_vars, CompareAndBranch' PROVE ComparisonInv'
    BY DEF ComparisonInv
  <2>1. CASE UNCHANGED vars
    BY <2>1 DEF vars, ComparisonInv, CompareAndBranch, Related, RegistersOK, PC
  <2>2. CASE Next
    <3>1. PC \in DOMAIN code /\ code' = code
      BY <2>2, StepExecutes
    <3>2. CompareAndBranch /\ CompareAndBranch
      BY <3>1 DEF CompareAndBranch
    <3>3. RegistersOK /\ (PC = 4 => (CondHold(nzcv, code[4].cond) <=> Related))
      BY <3>2 DEF ComparisonInv
    <3>4. PC \in {0, 4} /\ code[0].cls = "AddSubImm" /\ code[4].cls = "CondBrImm"
          /\ 4 + code[4].offset \notin {0, 4, 8}
      BY <3>1, <3>2 DEF CompareAndBranch
    <3>5. CASE PC = 0
      <4>1. AddSubImm
        BY <2>2, <3>4, <3>5, StepExecutes
      <4>2. /\ RegistersOK' /\ PC' = 4
            /\ gpr'[code[0].rn] = gpr[code[0].rn]
            /\ CondHold(nzcv', code[4].cond) <=> Related
        BY <3>2, <3>3, <3>5, <4>1, Compares DEF Related
      <4>3. Related' <=> Related
        BY <3>1, <4>2 DEF Related
      <4> QED
        BY <3>1, <3>4, <4>2, <4>3 DEF ComparisonInv
    <3>6. CASE PC = 4
      <4>1. CondBrImm
        BY <2>2, <3>4, <3>6, StepExecutes
      <4>2. /\ RegistersOK'
            /\ gpr'[code[0].rn] = gpr[code[0].rn]
            /\ PC' = IF CondHold(nzcv, code[4].cond) THEN 4 + code[4].offset ELSE 8
        BY <3>2, <3>3, <3>6, <4>1, BranchesOrNot
      <4>3. Related' <=> Related
        BY <3>1, <4>2 DEF Related
      <4> QED
        BY <3>1, <3>3, <3>4, <3>6, <4>2, <4>3 DEF ComparisonInv
    <3> QED
      BY <3>4, <3>5, <3>6
  <2> QED
    BY <2>1, <2>2
<1>3. ComparisonInv => CompareDecides
  <2> SUFFICES ASSUME ComparisonInv, CompareAndBranch, PC \in {8, 4 + code[4].offset}
               PROVE  PC = 4 + code[4].offset <=> Related
    BY DEF CompareDecides, Related
  <2>1. 4 + code[4].offset # 8
    BY DEF CompareAndBranch
  <2> QED
    BY <2>1 DEF ComparisonInv
<1> QED
  BY <1>1, <1>2, <1>3, PTL DEF Spec

(***************************************************************************)
(* Addition of numbers of two words.                                       *)
(***************************************************************************)

(* The carry of the low words makes the sum of the high ones right.        *)
LEMMA TwoWords ==
    ASSUME NEW a0 \in Word, NEW b0 \in Word, NEW a1 \in Word, NEW b1 \in Word,
           NEW c \in {0, 1}, c = 1 <=> a0 + b0 >= Modulus,
           NEW l \in Word, l = IF a0 + b0 < Modulus THEN a0 + b0 ELSE (a0 + b0) - Modulus,
           NEW h \in Word, h = IF a1 + b1 + c < Modulus THEN a1 + b1 + c ELSE (a1 + b1 + c) - Modulus
    PROVE  l + 2^Wide * h = ((a0 + 2^Wide * a1) + (b0 + 2^Wide * b1)) % 2^(2 * Wide)
<1> DEFINE K == Modulus
           m == K * K
           r == l + K * h
<1>1. /\ K \in Nat /\ l \in Nat /\ h \in Nat /\ l < K /\ h < K /\ a0 \in Nat /\ b0 \in Nat /\ a1 \in Nat
      /\ b1 \in Nat
  BY WordSize
<1>2. 2^(2 * Wide) = m
  <2>1. Wide \in Nat /\ 2 * Wide = Wide + Wide
    BY WideType
  <2> QED
    BY <2>1, PowerSum DEF Modulus
<1>3. PICK e \in {0, 1} : a1 + b1 + c = h + e * K
  <2>1. a1 + b1 + c < K => a1 + b1 + c = h + 0 * K
    BY <1>1
  <2>2. ~(a1 + b1 + c < K) => a1 + b1 + c = h + 1 * K
    BY <1>1
  <2> QED
    BY <2>1, <2>2
<1>4. a0 + b0 = l + c * K
  BY <1>1
<1> HIDE DEF K
<1>5. (a0 + K * a1) + (b0 + K * b1) = m * e + r
  <2>1. K * (a1 + b1 + c) = K * (h + e * K)
    BY <1>3
  <2>2. K * (a1 + b1 + c) = K * a1 + K * b1 + K * c /\ K * (h + e * K) = K * h + (K * K) * e
    BY <1>1
  <2>3. c * K = K * c
    BY <1>1
  <2>4. K * a1 \in Nat /\ K * b1 \in Nat /\ K * c \in Nat /\ K * h \in Nat /\ (K * K) * e \in Nat
    BY <1>1
  <2> QED
    BY <1>1, <1>4, <2>1, <2>2, <2>3, <2>4, SMTT(30)
<1>6. m \in Nat /\ r \in Nat /\ r < m
  <2>1. K * h + K <= K * K /\ K * h \in Nat /\ K * K \in Nat
    <3>1. PICK z \in Nat : K = h + 1 + z
      <4>1. K - h - 1 \in Nat /\ K = h + 1 + (K - h - 1)
        BY <1>1
      <4> QED
        BY <4>1
    <3>2. K * (h + 1 + z) = K * h + K + K * z /\ K * z \in Nat /\ K * h \in Nat
      BY <1>1
    <3> QED
      BY <1>1, <3>1, <3>2
  <2> QED
    BY <1>1, <2>1
<1> HIDE DEF m, r
<1>7. (m * e + r) % m = r
  <2>1. e \in Nat
    OBVIOUS
  <2> QED
    BY <1>6, <2>1, Quotient
<1> QED
  BY <1>2, <1>5, <1>7, Zenon DEF r, K, Modulus

(* What the program of WidePair adds: its low and its high words.          *)
Lows == gpr[code[0].rn] + gpr[code[0].rm]
Highs == gpr[code[4].rn] + gpr[code[4].rm]

(* Its operands are none of the registers it writes.                       *)
LEMMA WideOperands ==
    ASSUME RegistersOK, WidePair("ADD")
    PROVE  /\ \A r \in {code[0].rn, code[0].rm, code[4].rn, code[4].rm} :
                 /\ r \in Regs /\ r # PC_IDX /\ r # GPR_DUMMY /\ r # code[0].rd /\ r # code[4].rd
                 /\ gpr[r] \in Word
           /\ \A r \in {code[0].rd, code[4].rd} :
                 r \in Regs /\ r # PC_IDX /\ r # GPR_DUMMY /\ r # GPR_ZERO
           /\ code[0].rd # code[4].rd
<1>1. /\ {code[0].rn, code[0].rm, code[4].rn, code[4].rm} \subseteq Visible
      /\ {code[0].rd, code[4].rd} \subseteq General \ {code[0].rn, code[0].rm, code[4].rn, code[4].rm}
      /\ code[0].rd # code[4].rd
  BY DEF WidePair
<1>2. \A r \in Visible : r \in Regs /\ r # PC_IDX /\ r # GPR_DUMMY
  BY RegisterNames
<1>3. \A r \in General : r \in Regs /\ r # PC_IDX /\ r # GPR_DUMMY /\ r # GPR_ZERO
  BY RegisterNames
<1>4. \A r \in Regs : gpr[r] \in Word
  BY DEF RegistersOK
<1> QED
  BY <1>1, <1>2, <1>3, <1>4

(* The low words are added, and the carry is a flag.                       *)
LEMMA LowSum ==
    ASSUME RegistersOK, WidePair("ADD"), PC = 0, AddSubReg
    PROVE  /\ RegistersOK' /\ PC' = 4
           /\ \A r \in {code[0].rn, code[0].rm, code[4].rn, code[4].rm} : gpr'[r] = gpr[r]
           /\ gpr'[code[0].rd] = Lows % Modulus
           /\ "C" \in nzcv' <=> Lows >= Modulus
<1> DEFINE d == code[0].rd
           a == gpr[code[0].rn]
           b == gpr[code[0].rm]
           s == Lsl(b, 0)
           res == (a + b) % Modulus
           g == [gpr EXCEPT ![GPR_DUMMY] = b]
           h == [g EXCEPT ![d] = res]
           flags == UpdateFlag(res, a, b, Wide)
           m0 == [gpr |-> gpr, nzcv |-> nzcv, vreg |-> vreg, sysr |-> sysr, mem |-> mem]
           m1 == [m0 EXCEPT !.gpr = g]
           m2 == DisasAddSubReg(m0, code[0])
<1>1. /\ gpr \in [Regs -> Word] /\ gpr[GPR_ZERO] = 0 /\ gpr[PC_IDX] = 0 /\ a \in Word /\ b \in Word
      /\ GPR_DUMMY \in Regs /\ PC_IDX \in Regs /\ PC_IDX # GPR_DUMMY
  BY WideOperands, RegisterNames DEF RegistersOK, PC
<1>2. /\ d \in Regs /\ d # PC_IDX /\ d # GPR_DUMMY /\ d # GPR_ZERO /\ code[0].rn # GPR_DUMMY
  BY WideOperands
<1>3. /\ code[0].alu = "ADD" /\ code[0].shift = "LSL" /\ code[0].amount = 0 /\ code[0].sf /\ code[0].setflags
  BY DEF WidePair
<1>4. 0 % Wide = 0 /\ s = b
  <2>1. 2^0 = 1 /\ b * 1 = b
    BY <1>1, WordSize
  <2>2. b % Modulus = b
    BY <1>1, WholeWord
  <2> QED
    BY <2>1, <2>2, WideType DEF Lsl, Modulus
<1>5. MovReg(m0, GPR_DUMMY, code[0].rm, TRUE) = m1
  BY <1>1 DEF MovReg, Put, Read, X
<1>6. Low(b, Wide) = b /\ Low(res, Wide) = res /\ res \in Word /\ Width(TRUE) = Wide
  BY <1>1, SumWraps, WholeWord
<1>7. ShiftI64(m1, GPR_DUMMY, GPR_DUMMY, "LSL", 0, TRUE) = m1
  <2>1. m1.gpr = g /\ g[GPR_DUMMY] = b /\ [g EXCEPT ![GPR_DUMMY] = b] = g
    BY <1>1
  <2>2. ALCalc(b, 0, TRUE, "LSL") = b
    BY <1>4 DEF ALCalc
  <2> HIDE DEF g, b, m0
  <2>3. ArithmeticLogic(m1, GPR_DUMMY, b, 0, FALSE, TRUE, "LSL") = [m1 EXCEPT !.gpr[GPR_DUMMY] = b]
    BY <1>6, <2>2 DEF ArithmeticLogic
  <2> QED
    BY <2>1, <2>3 DEF ShiftI64, Read, X
<1> HIDE DEF m1
<1>8. m2 = RegOp(m1, d, code[0].rn, GPR_DUMMY, TRUE, TRUE, "ADD")
  <2>1. code[0].sf = TRUE /\ code[0].setflags = TRUE
    BY <1>3
  <2> QED
    BY <1>3, <1>5, <1>7, <2>1 DEF DisasAddSubReg
<1> HIDE DEF m2
<1>9. Read(m1, code[0].rn, TRUE) = a /\ Read(m1, GPR_DUMMY, TRUE) = b
  <2>1. code[0].rn \in Regs
    BY WideOperands
  <2> QED
    BY <1>1, <1>2, <2>1 DEF Read, X, m1
<1>10. FlagsOf(res, a, b, TRUE, "ADD") = flags
  BY <1>6 DEF FlagsOf
<1>11. m2.gpr = h /\ m2.nzcv = flags
  <2>1. m2 = ArithmeticLogic(m1, d, a, b, TRUE, TRUE, "ADD")
    BY <1>8, <1>9 DEF RegOp
  <2>2. ALCalc(a, b, TRUE, "ADD") = res
    BY DEF ALCalc, Modulus
  <2> HIDE DEF g, a, b, flags, res
  <2> QED
    BY <1>6, <1>10, <2>1, <2>2 DEF ArithmeticLogic, m1
<1>12. gpr' = Retired(h) /\ nzcv' = flags
  BY <1>11 DEF AddSubReg, SingleStep, PC, m2
<1>13. res = IF a + b < Modulus THEN a + b ELSE (a + b) - Modulus
  BY <1>1, SumWraps
<1>14. "C" \in flags <=> a + b >= Modulus
  <2>1. flags = UpdateFlag(res, a, b, Wide)
    OBVIOUS
  <2> HIDE DEF a, b, res, flags
  <2> QED
    BY <1>1, <1>13, <2>1, FlagsOfSum
<1>15. /\ h \in [Regs -> Word] /\ h[d] = res
       /\ \A r \in Regs : r # d /\ r # GPR_DUMMY => h[r] = gpr[r]
  <2> HIDE DEF a, b, res, d
  <2> QED
    BY <1>1, <1>2, <1>6
<1> HIDE DEF h
<1>16. /\ gpr' \in [Regs -> Word] /\ gpr'[GPR_ZERO] = 0
       /\ gpr'[PC_IDX] = (h[PC_IDX] + 4) % Modulus
       /\ \A r \in Regs : r # PC_IDX /\ r # GPR_ZERO => gpr'[r] = h[r]
  BY <1>12, <1>15, Retiring
<1>17. gpr'[PC_IDX] = 4
  <2>1. h[PC_IDX] = 0
    BY <1>1, <1>2, <1>15
  <2>2. 4 % Modulus = 4
    <3>1. \A w \in Word : w % Modulus = w
      BY WholeWord
    <3> QED
      BY <3>1, RegisterNames, Zenon
  <2> QED
    BY <1>16, <2>1, <2>2
<1>18. ASSUME NEW r \in {code[0].rn, code[0].rm, code[4].rn, code[4].rm} PROVE gpr'[r] = gpr[r]
  <2>1. r \in Regs /\ r # PC_IDX /\ r # GPR_DUMMY /\ r # d
    BY WideOperands
  <2>2. CASE r = GPR_ZERO
    BY <1>1, <1>16, <2>2
  <2>3. CASE r # GPR_ZERO
    BY <1>15, <1>16, <2>1, <2>3
  <2> QED
    BY <2>2, <2>3
<1>19. gpr'[d] = res
  BY <1>2, <1>15, <1>16
<1> QED
  BY <1>12, <1>14, <1>16, <1>17, <1>18, <1>19 DEF RegistersOK, PC, Lows

(* The high words are added, and the carry to them.                        *)
LEMMA HighSum ==
    ASSUME RegistersOK, WidePair("ADD"), PC = 4, AddSubcReg
    PROVE  /\ RegistersOK' /\ PC' = 8
           /\ \A r \in {code[0].rn, code[0].rm, code[4].rn, code[4].rm, code[0].rd} : gpr'[r] = gpr[r]
           /\ gpr'[code[4].rd] = IF "C" \in nzcv THEN ((Highs % Modulus) + 1) % Modulus ELSE Highs % Modulus
<1> DEFINE d == code[4].rd
           a == gpr[code[4].rn]
           b == gpr[code[4].rm]
           res == (a + b) % Modulus
           sum == IF "C" \in nzcv THEN (res + 1) % Modulus ELSE res
           g == [gpr EXCEPT ![d] = res]
           h == [gpr EXCEPT ![d] = sum]
           m0 == [gpr |-> gpr, nzcv |-> nzcv, vreg |-> vreg, sysr |-> sysr, mem |-> mem]
           m1 == [m0 EXCEPT !.gpr = g]
           m2 == DisasAddSubcReg(m0, code[4])
<1>1. /\ gpr \in [Regs -> Word] /\ gpr[GPR_ZERO] = 0 /\ gpr[PC_IDX] = 4 /\ a \in Word /\ b \in Word
      /\ PC_IDX \in Regs
  BY WideOperands, RegisterNames DEF RegistersOK, PC
<1>2. d \in Regs /\ d # PC_IDX /\ d # GPR_ZERO /\ code[0].rd # d
  BY WideOperands
<1>3. code[4].alu = "ADD" /\ code[4].sf = TRUE /\ ~code[4].setflags
  BY DEF WidePair
<1>4. res \in Word /\ 1 \in Word
  <2>1. 1 \in Word
    BY WordSize
  <2>2. res \in Word
    BY <1>1, SumWraps
  <2> QED
    BY <2>1, <2>2
<1>5. (res + 1) % Modulus \in Word
  BY <1>4, SumWraps
<1>6. sum \in Word /\ Low(res, Wide) = res /\ Low((res + 1) % Modulus, Wide) = (res + 1) % Modulus /\ Width(TRUE) = Wide
      /\ Low(res + 1, Wide) = (res + 1) % Modulus
  <2>1. Low(res + 1, Wide) = (res + 1) % Modulus
    BY DEF Low, Modulus
  <2> HIDE DEF res
  <2> QED
    BY <1>4, <1>5, <2>1, WholeWord
<1>7. AddReg(m0, d, code[4].rn, code[4].rm, code[4].setflags, TRUE) = m1
  <2>1. Read(m0, code[4].rn, TRUE) = a /\ Read(m0, code[4].rm, TRUE) = b
    BY DEF Read, X
  <2>2. ALCalc(a, b, TRUE, "ADD") = res
    BY DEF ALCalc, Modulus
  <2> HIDE DEF a, b, res
  <2>3. ArithmeticLogic(m0, d, a, b, code[4].setflags, TRUE, "ADD") = m1
    <3>1. m1 = [m0 EXCEPT !.gpr[d] = res, !.nzcv = m0.nzcv]
      OBVIOUS
    <3> HIDE DEF m0, m1
    <3> QED
      BY <1>3, <1>6, <2>2, <3>1 DEF ArithmeticLogic
  <2> QED
    BY <2>1, <2>3 DEF AddReg, RegOp
<1>8. m2 = WithCarry(m1, d, TRUE)
  <2> HIDE DEF m0, m1
  <2> QED
    BY <1>3, <1>7 DEF DisasAddSubcReg, AddcReg
<1>9. m2.gpr = h /\ m2.nzcv = nzcv
  <2>1. Read(m1, d, TRUE) = res
    BY <1>1, <1>2 DEF Read, X
  <2>2. [g EXCEPT ![d] = (res + 1) % Modulus] = [gpr EXCEPT ![d] = (res + 1) % Modulus]
    BY <1>1, <1>2
  <2> HIDE DEF res, d, m2
  <2> QED
    BY <1>6, <1>8, <2>1, <2>2 DEF WithCarry, Put
<1> HIDE DEF m2
<1>10. gpr' = Retired(h) /\ nzcv' = nzcv
  BY <1>9 DEF AddSubcReg, SingleStep, PC, m2
<1>11. h \in [Regs -> Word] /\ h[d] = sum /\ \A r \in Regs : r # d => h[r] = gpr[r]
  <2> HIDE DEF sum, d
  <2> QED
    BY <1>1, <1>2, <1>6
<1> HIDE DEF h
<1>12. /\ gpr' \in [Regs -> Word] /\ gpr'[GPR_ZERO] = 0
       /\ gpr'[PC_IDX] = (h[PC_IDX] + 4) % Modulus
       /\ \A r \in Regs : r # PC_IDX /\ r # GPR_ZERO => gpr'[r] = h[r]
  BY <1>10, <1>11, Retiring
<1>13. gpr'[PC_IDX] = 8
  <2>1. h[PC_IDX] = 4
    BY <1>1, <1>2, <1>11
  <2>2. 8 % Modulus = 8
    <3>1. \A w \in Word : w % Modulus = w
      BY WholeWord
    <3> QED
      BY <3>1, RegisterNames, Zenon
  <2> QED
    BY <1>12, <2>1, <2>2
<1>14. ASSUME NEW r \in {code[0].rn, code[0].rm, code[4].rn, code[4].rm, code[0].rd} PROVE gpr'[r] = gpr[r]
  <2>1. r \in Regs /\ r # PC_IDX /\ r # d
    BY <1>2, WideOperands
  <2>2. CASE r = GPR_ZERO
    BY <1>1, <1>12, <2>2
  <2>3. CASE r # GPR_ZERO
    BY <1>11, <1>12, <2>1, <2>3
  <2> QED
    BY <2>2, <2>3
<1>15. gpr'[d] = sum
  BY <1>2, <1>11, <1>12
<1> QED
  BY <1>12, <1>13, <1>14, <1>15 DEF RegistersOK, PC, Highs

(* After the low words the carry flag says what they leave to the high     *)
(* ones, which is all they have to know.                                   *)
SumInv ==
    WidePair("ADD") =>
        /\ RegistersOK
        /\ PC \in {0, 4, 8}
        /\ PC \in {4, 8} => gpr[code[0].rd] = Lows % Modulus
        /\ PC = 4 => ("C" \in nzcv <=> Lows >= Modulus)
        /\ PC = 8 => gpr[code[4].rd] = IF Lows >= Modulus THEN ((Highs % Modulus) + 1) % Modulus ELSE Highs % Modulus

(* Two additions, the second with the carry of the first, add numbers of   *)
(* two words, whatever the width of the registers and whichever they are.  *)
THEOREM WideSums == Spec => []WideSum
<1>1. Init => SumInv
  BY RegistersAtFirst DEF SumInv
<1>2. SumInv /\ [Next]_vars => SumInv'
  <2> SUFFICES ASSUME SumInv, [Next]_vars, WidePair("ADD")' PROVE SumInv'
    BY DEF SumInv
  <2>1. CASE UNCHANGED vars
    BY <2>1 DEF vars, SumInv, WidePair, Lows, Highs, RegistersOK, PC
  <2>2. CASE Next
    <3>1. PC \in DOMAIN code /\ code' = code
      BY <2>2, StepExecutes
    <3>2. WidePair("ADD")
      BY <3>1 DEF WidePair
    <3>3. /\ RegistersOK
          /\ PC \in {4, 8} => gpr[code[0].rd] = Lows % Modulus
          /\ PC = 4 => ("C" \in nzcv <=> Lows >= Modulus)
      BY <3>2 DEF SumInv
    <3>4. PC \in {0, 4} /\ code[0].cls = "AddSubReg" /\ code[4].cls = "AddSubcReg"
      BY <3>1, <3>2 DEF WidePair
    <3>5. CASE PC = 0
      <4>1. AddSubReg
        BY <2>2, <3>4, <3>5, StepExecutes
      <4>2. /\ RegistersOK' /\ PC' = 4
            /\ \A r \in {code[0].rn, code[0].rm, code[4].rn, code[4].rm} : gpr'[r] = gpr[r]
            /\ gpr'[code[0].rd] = Lows % Modulus
            /\ "C" \in nzcv' <=> Lows >= Modulus
        BY <3>2, <3>3, <3>5, <4>1, LowSum
      <4>3. Lows' = Lows
        BY <3>1, <4>2 DEF Lows
      <4> QED
        BY <3>1, <4>2, <4>3 DEF SumInv, Modulus
    <3>6. CASE PC = 4
      <4>1. AddSubcReg
        BY <2>2, <3>4, <3>6, StepExecutes
      <4>2. /\ RegistersOK' /\ PC' = 8
            /\ \A r \in {code[0].rn, code[0].rm, code[4].rn, code[4].rm, code[0].rd} : gpr'[r] = gpr[r]
            /\ gpr'[code[4].rd] = IF "C" \in nzcv THEN ((Highs % Modulus) + 1) % Modulus ELSE Highs % Modulus
        BY <3>2, <3>3, <3>6, <4>1, HighSum
      <4>3. Lows' = Lows /\ Highs' = Highs /\ gpr'[code[0].rd] = gpr[code[0].rd]
        BY <3>1, <4>2 DEF Lows, Highs
      <4> QED
        BY <3>1, <3>3, <3>6, <4>2, <4>3 DEF SumInv, Modulus
    <3> QED
      BY <3>4, <3>5, <3>6
  <2> QED
    BY <2>1, <2>2
<1>3. SumInv => WideSum
  <2> SUFFICES ASSUME SumInv, WidePair("ADD"), PC = 8 PROVE WideSum
    BY DEF WideSum
  <2> DEFINE a0 == gpr[code[0].rn]
             b0 == gpr[code[0].rm]
             a1 == gpr[code[4].rn]
             b1 == gpr[code[4].rm]
             l == gpr[code[0].rd]
             h == gpr[code[4].rd]
             c == IF Lows >= Modulus THEN 1 ELSE 0
             high == Highs % Modulus
  <2>1. /\ RegistersOK /\ l = Lows % Modulus
        /\ h = IF Lows >= Modulus THEN (high + 1) % Modulus ELSE high
    BY DEF SumInv
  <2>2. /\ a0 \in Word /\ b0 \in Word /\ a1 \in Word /\ b1 \in Word /\ l \in Word /\ h \in Word
        /\ Lows = a0 + b0 /\ Highs = a1 + b1
    BY <2>1, WideOperands DEF RegistersOK, Lows, Highs
  <2> HIDE DEF a0, b0, a1, b1, l, h
  <2>3. l = IF a0 + b0 < Modulus THEN a0 + b0 ELSE (a0 + b0) - Modulus
    BY <2>1, <2>2, SumWraps
  <2>4. high \in Word /\ high = IF a1 + b1 < Modulus THEN a1 + b1 ELSE (a1 + b1) - Modulus
    BY <2>2, SumWraps
  <2>5. c \in {0, 1} /\ (c = 1 <=> a0 + b0 >= Modulus)
    BY <2>2
  <2> HIDE DEF high
  <2>6. c = 1 => h = IF high + 1 < Modulus THEN high + 1 ELSE (high + 1) - Modulus
    <3>1. 1 \in Word
      BY WordSize
    <3> QED
      BY <2>1, <2>4, <3>1, SumWraps
  <2>7. c = 0 => h = high
    BY <2>1
  <2> HIDE DEF c
  <2>8. h = IF a1 + b1 + c < Modulus THEN a1 + b1 + c ELSE (a1 + b1 + c) - Modulus
    BY <2>2, <2>4, <2>5, <2>6, <2>7, WordSize
  <2>9. l + 2^Wide * h = ((a0 + 2^Wide * a1) + (b0 + 2^Wide * b1)) % 2^(2 * Wide)
    <3>1. a0 \in Word /\ b0 \in Word /\ a1 \in Word /\ b1 \in Word /\ l \in Word /\ h \in Word
      BY <2>2
    <3> QED
      BY <3>1, <2>3, <2>5, <2>8, TwoWords, SMTT(90)
  <2> QED
    BY <2>9 DEF WideSum, PairOf, a0, b0, a1, b1, l, h
<1> QED
  BY <1>1, <1>2, <1>3, PTL DEF Spec

(***************************************************************************)
(* What fits into a register.  First powers of two, remainders and words   *)
(* of bits.                                                                *)
(***************************************************************************)

(* Powers of two grow with the exponent.                                   *)
LEMMA PowerOrder ==
    ASSUME NEW m \in Nat, NEW n \in Nat, m <= n
    PROVE  2^m \in Nat /\ 2^n \in Nat /\ 2^m # 0 /\ 2^m <= 2^n
<1>1. n - m \in Nat /\ m + (n - m) = n
  OBVIOUS
<1>2. 2^n = 2^m * 2^(n - m)
  BY <1>1, PowerSum
<1>3. 2^m \in Nat /\ 2^m # 0 /\ 2^(n - m) \in Nat /\ 2^(n - m) # 0
  BY <1>1, Power
<1>4. \A x, y \in Nat : y # 0 => x <= x * y /\ x * y \in Nat
  <2> SUFFICES ASSUME NEW x \in Nat, NEW y \in Nat, y # 0 PROVE x <= x * y /\ x * y \in Nat
    OBVIOUS
  <2>1. PICK z \in Nat : y = z + 1
    <3>1. y - 1 \in Nat /\ y = (y - 1) + 1
      OBVIOUS
    <3> QED
      BY <3>1
  <2>2. x * y = x * z + x /\ x * z \in Nat
    BY <2>1
  <2> QED
    BY <2>2
<1> QED
  BY <1>2, <1>3, <1>4

(* Widths: of a word, its half, its bytes.                                 *)
LEMMA Widths ==
    /\ Wide \in Nat /\ Half \in Nat /\ Byte \in Nat /\ Byte # 0
    /\ Wide = 8 * Byte /\ Half = 4 * Byte /\ Wide = 2 * Half /\ Half <= Wide
    /\ \A bit64 : Width(bit64) \in Nat /\ Width(bit64) # 0 /\ Width(bit64) <= Wide
BY WidthAssumption DEF Wide, Byte, Width

(* The low bits of an integer.                                             *)
LEMMA LowRange ==
    ASSUME NEW x \in Int, NEW n \in Nat
    PROVE  /\ Low(x, n) \in Nat /\ Low(x, n) < 2^n
           /\ n <= Wide => Low(x, n) \in Word
<1>1. 2^n \in Nat /\ 2^n # 0
  BY Power
<1>2. x % 2^n \in 0 .. 2^n - 1
  BY <1>1, ModOnce
<1>3. n <= Wide => 2^n <= 2^Wide /\ 2^Wide \in Nat
  BY PowerOrder, Widths
<1> QED
  BY <1>1, <1>2, <1>3 DEF Low, Word

(* Cut to the width of an operation, a number is a word.                   *)
LEMMA LowWord ==
    ASSUME NEW x \in Int, NEW bit64
    PROVE  Low(x, Width(bit64)) \in Word
BY LowRange, Widths

(* What uint64_t arithmetic leaves is a word.                              *)
LEMMA WrapsWord ==
    ASSUME NEW x \in Int
    PROVE  x % 2^Wide \in Word
BY LowRange, Widths DEF Low

(* Words are numbers.                                                      *)
LEMMA WordNat == Word \subseteq Nat
BY WordSize

(* Words are integers.                                                     *)
LEMMA WordInt == \A w \in Word : w \in Int
BY WordSize

(* A sign-extended number is a word.                                       *)
LEMMA SignedRange ==
    ASSUME NEW w \in Int, NEW n \in Nat
    PROVE  Signed(w, n) \in Int /\ Sext(w, n) \in Word
<1>1. Signed(w, n) \in Int
  BY LowRange, Power DEF Signed
<1> QED
  BY <1>1, WrapsWord DEF Sext

(* A set of n bits is a number below 2^n.                                  *)
LEMMA NumRange ==
    ASSUME NEW n \in 0 .. 2 * Wide, NEW S \in SUBSET (0 .. n - 1)
    PROVE  Num(S) \in Nat /\ Num(S) < 2^n
<1>1. 2 * Wide \in Nat /\ n \in Nat /\ 2^n \in Nat /\ 2^n # 0
  BY Widths, Power
<1>2. PICK f : AddedUp(f, S) /\ Num(S) = f[2 * Wide]
  BY NumAddsUp
<1> DEFINE T == {k \in 0 .. 2 * Wide : f[k] < 2^k /\ f[k] < 2^n}
<1>3. 0 \in T
  <2>1. f[0] = 0 /\ 2^0 \in Nat /\ 2^0 # 0
    BY <1>2, Power DEF AddedUp
  <2> QED
    BY <1>1, <2>1
<1>4. ASSUME NEW k \in 0 .. 2 * Wide - 1, k \in T PROVE k + 1 \in T
  <2>1. /\ k \in Nat /\ k \in 0 .. 2 * Wide /\ k + 1 \in 1 .. 2 * Wide /\ (k + 1) - 1 = k
        /\ k + 1 \in 0 .. 2 * Wide
    BY <1>1
  <2>2. f[k] \in Nat /\ f[k + 1] = f[k] + (IF k \in S THEN 2^k ELSE 0)
    BY <1>2, <2>1 DEF AddedUp
  <2>3. 2^k \in Nat /\ 2^(k + 1) = 2 * 2^k
    BY <2>1, Power
  <2>4. f[k] < 2^k /\ f[k] < 2^n
    BY <1>4
  <2>5. k \in S => 2^(k + 1) <= 2^n
    <3>1. k \in S => k + 1 <= n
      BY <1>1
    <3> QED
      BY <1>1, <2>1, <3>1, PowerOrder
  <2>6. f[k + 1] < 2^(k + 1) /\ f[k + 1] < 2^n
    BY <1>1, <2>2, <2>3, <2>4, <2>5
  <2> QED
    BY <2>1, <2>6
<1>5. 2 * Wide \in T
  <2> HIDE DEF T
  <2>1. 0 .. 2 * Wide \subseteq T
    BY <1>1, <1>3, <1>4, IntervalInduction
  <2> QED
    BY <1>1, <2>1
<1>6. f[2 * Wide] \in Nat
  BY <1>1, <1>2 DEF AddedUp
<1> QED
  BY <1>2, <1>5, <1>6

(* A set of the bits of a register is a word.                              *)
LEMMA NumWord ==
    ASSUME NEW S \in SUBSET (0 .. Wide - 1)
    PROVE  Num(S) \in Word
<1>1. Wide \in 0 .. 2 * Wide
  BY Widths
<1>2. Num(S) \in Nat /\ Num(S) < 2^Wide
  BY <1>1, NumRange
<1> QED
  BY <1>2, Power, Widths DEF Word

(* The bitwise operators of the callbacks give words.                      *)
LEMMA BitwiseRange ==
    ASSUME NEW a, NEW b
    PROVE  And(a, b) \in Word /\ Or(a, b) \in Word /\ Xor(a, b) \in Word
<1>1. Bits(a) \subseteq 0 .. Wide - 1 /\ Bits(b) \subseteq 0 .. Wide - 1
  BY DEF Bits
<1> QED
  BY <1>1, NumWord DEF And, Or, Xor

(* So does the complement.                                                 *)
LEMMA NotRange ==
    ASSUME NEW a \in Word
    PROVE  Not(a) \in Word
BY WordSize DEF Not, AllOnes, Modulus

(* A quotient is at most what is divided.                                  *)
LEMMA QuotientRange ==
    ASSUME NEW w \in Nat, NEW p \in Nat, p # 0
    PROVE  w \div p \in Nat /\ w \div p <= w
<1>1. PICK q \in Nat, r \in Nat : w = p * q + r /\ r < p /\ w \div p = q
  OBVIOUS
<1>2. PICK z \in Nat : p = z + 1
  <2>1. p - 1 \in Nat /\ p = (p - 1) + 1
    OBVIOUS
  <2> QED
    BY <2>1
<1>3. p * q = z * q + q /\ z * q \in Nat
  BY <1>2
<1> QED
  BY <1>1, <1>3

(* Shifts give words; a shift to the right, nothing greater.               *)
LEMMA ShiftRange ==
    ASSUME NEW w \in Nat, NEW k \in Nat, NEW n \in Nat
    PROVE  Lsl(w, k) \in Word /\ Lsr(w, k) \in Nat /\ Lsr(w, k) <= w /\ Asr(w, k, n) \in Word
<1>1. 2^k \in Nat /\ 2^k # 0
  BY Power
<1>2. w * 2^k \in Int
  BY <1>1
<1>3. Lsl(w, k) \in Word
  BY <1>2, WrapsWord DEF Lsl
<1>4. Lsr(w, k) \in Nat /\ Lsr(w, k) <= w
  BY <1>1, QuotientRange DEF Lsr
<1>5. Signed(w, n) \div 2^k \in Int
  BY <1>1, SignedRange
<1> QED
  BY <1>3, <1>4, <1>5, WrapsWord DEF Asr

(* Machines: the registers, flags and memory that an instruction works on. *)
Memories == UNION {[D -> 0 .. 2^Byte - 1] : D \in SUBSET Word}
Machine == [gpr : [Regs -> Word], nzcv : SUBSET Flag, vreg : [VRegs -> Quad],
            sysr : [SysReg -> Word], mem : Memories]

(* Reading a register gives a word (Interpreter.cpp: X, W).                *)
LEMMA Reads ==
    ASSUME NEW m \in Machine, NEW r \in Regs, NEW bit64
    PROVE  /\ X(m, r) \in Word /\ W(m, r) \in Word /\ Read(m, r, bit64) \in Word
           /\ X(m, r) \in Nat /\ W(m, r) \in Nat /\ Read(m, r, bit64) \in Nat
<1>1. m.gpr[r] \in Word
  BY DEF Machine
<1>2. \A v \in Word : Low(v, Half) \in Word /\ v \in Nat
  BY WordNat, Widths, LowRange
<1> QED
  BY <1>1, <1>2, WordNat DEF X, W, Read

(* Writing a word to a register leaves a machine, and the other registers  *)
(* as they were.                                                           *)
LEMMA Puts ==
    ASSUME NEW m \in Machine, NEW r, NEW v \in Word
    PROVE  /\ Put(m, r, v) \in Machine
           /\ r \in Regs => X(Put(m, r, v), r) = v
           /\ \A s \in Regs : s # r => X(Put(m, r, v), s) = X(m, s)
BY DEF Machine, Put, X

(* Setting the flags leaves a machine.                                     *)
LEMMA SetsFlags ==
    ASSUME NEW m \in Machine, NEW flags \in SUBSET Flag
    PROVE  [m EXCEPT !.nzcv = flags] \in Machine
BY DEF Machine

(* A result and its flags together leave a machine.                        *)
LEMMA PutsWithFlags ==
    ASSUME NEW m \in Machine, NEW r, NEW v \in Word, NEW flags \in SUBSET Flag
    PROVE  [m EXCEPT !.gpr[r] = v, !.nzcv = flags] \in Machine
BY DEF Machine

(* The registers an instruction can name, and what HandleAsSP makes of     *)
(* them.                                                                   *)
LEMMA RegisterSets ==
    /\ Visible \subseteq Regs /\ General \subseteq Visible
    /\ {GPR_LR, GPR_ZERO, GPR_SP, PC_IDX, GPR_DUMMY, GPR_DUMMY2} \subseteq Regs
    /\ \A r \in Visible : HandleAsSP(r) \in Regs
    /\ HandleAsSP(GPR_DUMMY) = GPR_DUMMY /\ HandleAsSP(PC_IDX) = PC_IDX /\ HandleAsSP(GPR_LR) = GPR_LR
    /\ HandleAsSP(GPR_SP) = GPR_SP
    /\ \A r \in Regs : HandleAsSP(r) \in Regs
BY RegisterNames DEF HandleAsSP

Operations == {"ADD", "AND", "OR", "EOR", "LSL", "LSR", "ASR", "ROR", "UDIV", "SDIV"}

(* Divisions give words, by zero as well.                                  *)
LEMMA Divides ==
    ASSUME NEW a \in Nat, NEW b \in Nat
    PROVE  Udiv64(a, b) \in Nat /\ Sdiv64(a, b) \in Word
<1>1. Udiv64(a, b) \in Nat
  BY QuotientRange DEF Udiv64
<1>2. Signed(a, Wide) \in Int /\ Signed(b, Wide) \in Int
  BY SignedRange, Widths
<1> DEFINE Abs(i) == IF i < 0 THEN -i ELSE i
           x == Signed(a, Wide)
           y == Signed(b, Wide)
           q == IF y = 0 THEN 0 ELSE Abs(x) \div Abs(y)
<1>3. Abs(x) \in Nat /\ Abs(y) \in Nat /\ (y # 0 => Abs(y) # 0)
  BY <1>2
<1>4. q \in Int
  <2> HIDE DEF Abs, x, y
  <2> QED
    BY <1>3, QuotientRange
<1>5. (IF (x < 0) = (y < 0) THEN q ELSE -q) \in Int
  <2> HIDE DEF q
  <2> QED
    BY <1>4
<1>6. Sdiv64(a, b) = (IF (x < 0) = (y < 0) THEN q ELSE -q) % 2^Wide
  BY DEF Sdiv64
<1> QED
  BY <1>1, <1>5, <1>6, WrapsWord

(* ALCalc gives a number for each of its operations.                       *)
LEMMA ALCalcRange ==
    ASSUME NEW a \in Nat, NEW b \in Nat, NEW bit64, NEW op \in Operations
    PROVE  ALCalc(a, b, bit64, op) \in Nat
<1>1. b % Wide \in Nat /\ b % Width(bit64) \in Nat /\ Width(bit64) \in Nat
  <2>1. \A n \in Nat : n # 0 => b % n \in Nat
    BY ModOnce
  <2>2. Wide # 0 /\ Wide \in Nat
    BY WideType
  <2> QED
    BY <2>1, <2>2, Widths
<1>2. op = "ADD" => ALCalc(a, b, bit64, op) \in Word
  BY WrapsWord DEF ALCalc
<1>3. op \in {"AND", "OR", "EOR"} => ALCalc(a, b, bit64, op) \in Word
  BY BitwiseRange DEF ALCalc
<1>4. op = "LSL" => ALCalc(a, b, bit64, op) \in Word
  BY <1>1, ShiftRange DEF ALCalc
<1>5. op = "LSR" => ALCalc(a, b, bit64, op) \in Nat
  BY <1>1, ShiftRange DEF ALCalc
<1>6. op = "ASR" => ALCalc(a, b, bit64, op) \in Word
  BY <1>1, ShiftRange DEF ALCalc
<1>7. op = "ROR" => ALCalc(a, b, bit64, op) \in Word
  BY BitwiseRange DEF ALCalc, RotateRight
<1>8. op = "UDIV" => ALCalc(a, b, bit64, op) \in Nat
  BY Divides DEF ALCalc
<1>9. op = "SDIV" => ALCalc(a, b, bit64, op) \in Word
  BY Divides DEF ALCalc
<1> QED
  BY <1>2, <1>3, <1>4, <1>5, <1>6, <1>7, <1>8, <1>9, WordNat DEF Operations

(* ArithmeticLogic leaves a machine: it cuts the result to its width       *)
(* before it stores it.                                                    *)
LEMMA Calculates ==
    ASSUME NEW m \in Machine, NEW rd, NEW a \in Nat, NEW arg2 \in Nat, NEW setflags, NEW bit64,
           NEW op \in Operations \cup {"SUB"}
    PROVE  ArithmeticLogic(m, rd, a, arg2, setflags, bit64, op) \in Machine
<1> DEFINE b == IF op = "SUB" THEN Negate(arg2, bit64) ELSE arg2
           res == ALCalc(a, b, bit64, IF op = "SUB" THEN "ADD" ELSE op)
           flags == IF setflags THEN FlagsOf(res, a, b, bit64, op) ELSE m.nzcv
<1>1. Width(bit64) \in Nat /\ -Signed(arg2, Width(bit64)) \in Int
  BY Widths, SignedRange
<1>2. Negate(arg2, bit64) \in Nat
  BY <1>1, SignedRange, WordNat DEF Negate
<1>3. b \in Nat
  BY <1>2
<1>4. res \in Nat
  <2> HIDE DEF b
  <2>1. (IF op = "SUB" THEN "ADD" ELSE op) \in Operations
    BY DEF Operations
  <2> QED
    BY <1>3, <2>1, ALCalcRange
<1> HIDE DEF b, res
<1>5. Low(res, Width(bit64)) \in Word
  BY <1>4, LowWord
<1>6. FlagsOf(res, a, b, bit64, op) \subseteq Flag
  BY DEF FlagsOf, UpdateFlag, Flag
<1>7. flags \in SUBSET Flag
  BY <1>6 DEF Machine
<1>8. ArithmeticLogic(m, rd, a, arg2, setflags, bit64, op)
      = [m EXCEPT !.gpr[rd] = Low(res, Width(bit64)), !.nzcv = flags]
  BY DEF ArithmeticLogic, b, res
<1> HIDE DEF flags
<1>9. [m EXCEPT !.gpr[rd] = Low(res, Width(bit64)), !.nzcv = flags] \in Machine
  BY <1>5, <1>7, PutsWithFlags, Zenon
<1> QED
  BY <1>8, <1>9, Zenon

(***************************************************************************)
(* A callback makes a machine of a machine.                                *)
(***************************************************************************)

(* The sizes of an access, in bytes.                                       *)
LEMMA Sizes == 2^0 = 1 /\ 2^1 = 2 /\ 2^2 = 4 /\ 2^3 = 8 /\ 2^4 = 16
<1>1. 2^0 = 1
  OBVIOUS
<1>2. 2^(0 + 1) = 2 * 2^0 /\ 2^(1 + 1) = 2 * 2^1 /\ 2^(2 + 1) = 2 * 2^2 /\ 2^(3 + 1) = 2 * 2^3
  BY Power
<1>3. 0 + 1 = 1 /\ 1 + 1 = 2 /\ 2 + 1 = 3 /\ 3 + 1 = 4
  OBVIOUS
<1>4. 2^1 = 2 * 2^0 /\ 2^2 = 2 * 2^1 /\ 2^3 = 2 * 2^2 /\ 2^4 = 2 * 2^3
  BY <1>2, <1>3, Zenon
<1> QED
  BY <1>1, <1>4

(* The callbacks on two registers.                                         *)
LEMMA RegOps ==
    ASSUME NEW m \in Machine, NEW rd, NEW rn \in Regs, NEW rm \in Regs, NEW setflags, NEW bit64,
           NEW op \in Operations \cup {"SUB"}
    PROVE  RegOp(m, rd, rn, rm, setflags, bit64, op) \in Machine
BY Reads, Calculates, Zenon DEF RegOp

(* The callbacks on a register and an immediate.                           *)
LEMMA ImmOps ==
    ASSUME NEW m \in Machine, NEW rd, NEW rn \in Regs, NEW imm \in Nat, NEW setflags, NEW bit64,
           NEW op \in Operations \cup {"SUB"}
    PROVE  /\ ImmOp(m, rd, rn, imm, setflags, bit64, op) \in Machine
           /\ LogicI64(m, rd, rn, imm, setflags, bit64, op) \in Machine
           /\ ShiftI64(m, rd, rn, op, imm, bit64) \in Machine
<1>1. ASSUME NEW r \in Regs, NEW d, NEW flags
      PROVE  ArithmeticLogic(m, d, Read(m, r, bit64), imm, flags, bit64, op) \in Machine
  BY Reads, Calculates, Zenon
<1>2. (IF setflags THEN rn ELSE HandleAsSP(rn)) \in Regs
  BY RegisterSets
<1>3. ImmOp(m, rd, rn, imm, setflags, bit64, op) \in Machine
  BY <1>1, <1>2, Zenon DEF ImmOp
<1> QED
  BY <1>1, <1>3, Zenon DEF LogicI64, ShiftI64

(* Additions of an immediate.                                              *)
LEMMA AddI64s ==
    ASSUME NEW m \in Machine, NEW rd, NEW rn \in Regs, NEW imm \in Nat, NEW setflags, NEW bit64
    PROVE  AddI64(m, rd, rn, imm, setflags, bit64) \in Machine
BY ImmOps DEF AddI64, Operations

(* Moves between registers.                                                *)
LEMMA Moves ==
    ASSUME NEW m \in Machine, NEW rd, NEW rn \in Regs, NEW bit64
    PROVE  MovReg(m, rd, rn, bit64) \in Machine
BY Reads, Puts, Zenon DEF MovReg

(* Conditional moves.                                                      *)
LEMMA CondMoves ==
    ASSUME NEW m \in Machine, NEW cond, NEW rd, NEW rn \in Regs, NEW rm \in Regs, NEW bit64
    PROVE  CondMovReg(m, cond, rd, rn, rm, bit64) \in Machine
<1>1. (IF CondHold(m.nzcv, cond) THEN rn ELSE rm) \in Regs
  OBVIOUS
<1> QED
  BY <1>1, Moves, Zenon DEF CondMovReg

(* A deposit of an immediate.                                              *)
LEMMA Deposits ==
    ASSUME NEW m \in Machine, NEW rd, NEW imm, NEW pos, NEW len
    PROVE  DepositI64(m, rd, imm, pos, len) \in Machine
BY BitwiseRange, Puts, Zenon DEF DepositI64

(* Deposits of a part of a register.                                       *)
LEMMA DepositRegs ==
    ASSUME NEW m \in Machine, NEW rd, NEW rn \in Regs, NEW pos \in Nat, NEW len, NEW bit64
    PROVE  /\ DepositReg(m, rd, rn, pos, len, bit64) \in Machine
           /\ DepositZeroReg(m, rd, rn, pos, len, bit64) \in Machine
<1>1. \A w : And(w, Mask(len)) \in Nat
  BY BitwiseRange, WordNat
<1>2. Lsl(And(Read(m, rn, bit64), Mask(len)), pos) \in Word
  BY <1>1, ShiftRange
<1> QED
  BY <1>2, Deposits, Puts, Zenon DEF DepositReg, DepositZeroReg

(* Negations and bit clears.                                               *)
LEMMA Complements ==
    ASSUME NEW m \in Machine, NEW rd, NEW rn \in Regs, NEW rm \in Regs, NEW setflags, NEW bit64
    PROVE  /\ NotReg(m, rd, rm, bit64) \in Machine
           /\ BicReg(m, rd, rn, rm, setflags, bit64) \in Machine
<1>1. Not(X(m, rm)) \in Word
  BY Reads, NotRange, Zenon
<1>2. Low(Not(X(m, rm)), Width(bit64)) \in Word
  BY <1>1, WordInt, LowWord, Zenon
<1>3. Low(Not(X(m, rm)), Width(bit64)) \in Nat /\ "AND" \in Operations \cup {"SUB"}
  BY <1>2, WordNat DEF Operations
<1>4. Read(m, rn, bit64) \in Nat
  BY Reads
<1> QED
  BY <1>2, <1>3, <1>4, Puts, Calculates, Zenon DEF NotReg, BicReg

(* Products of one word.                                                   *)
LEMMA Multiplies ==
    ASSUME NEW m \in Machine, NEW rd, NEW rn \in Regs, NEW rm \in Regs, NEW dst64, NEW src64
    PROVE  MulReg(m, rd, rn, rm, dst64, src64) \in Machine
<1>1. \A x, y \in Nat : x * y \in Int
  OBVIOUS
<1>2. (Read(m, rn, src64) * Read(m, rm, src64)) % 2^Wide \in Word
  BY <1>1, Reads, WrapsWord
<1>3. Low(W(m, rn) * W(m, rm), Half) \in Word
  BY <1>1, Reads, LowRange, Widths
<1> QED
  BY <1>2, <1>3, Puts DEF MulReg

(* The upper word of a product of two words.                               *)
LEMMA UpperWord ==
    ASSUME NEW k \in Nat, k # 0, NEW a \in Nat, a < k, NEW b \in Nat, b < k
    PROVE  (a * b) \div k \in Nat /\ (a * b) \div k < k
<1>1. PICK q \in Nat, r \in Nat : a * b = k * q + r /\ (a * b) \div k = q
  <2>1. a * b \in Nat
    OBVIOUS
  <2> QED
    BY <2>1
<1>2. a * b <= k * b
  <2>1. PICK z \in Nat : k = a + z
    <3>1. k - a \in Nat /\ k = a + (k - a)
      OBVIOUS
    <3> QED
      BY <3>1
  <2>2. k * b = a * b + z * b /\ z * b \in Nat /\ a * b \in Nat
    BY <2>1
  <2> QED
    BY <2>2
<1>3. k * q <= k * b
  BY <1>1, <1>2
<1>4. q <= b
  <2> SUFFICES ASSUME b < q PROVE FALSE
    OBVIOUS
  <2>1. PICK z \in Nat : q = (b + 1) + z
    <3>1. q - (b + 1) \in Nat /\ q = (b + 1) + (q - (b + 1))
      OBVIOUS
    <3> QED
      BY <3>1
  <2>2. k * q = k * b + k + k * z /\ k * z \in Nat /\ k * b \in Nat
    BY <2>1
  <2> QED
    BY <1>3, <2>2
<1> QED
  BY <1>1, <1>4

(* Products of two words, of which each half is a word.                    *)
LEMMA LongMultiplies ==
    ASSUME NEW m \in Machine, NEW rh, NEW rl, NEW rn \in Regs, NEW rm \in Regs, NEW sign
    PROVE  Mul2Reg(m, rh, rl, rn, rm, sign) \in Machine
<1> DEFINE a == X(m, rn)
           b == X(m, rm)
           p == Umul64(a, b)
<1>1. a \in Nat /\ a < 2^Wide /\ b \in Nat /\ b < 2^Wide /\ 2^Wide \in Nat /\ 2^Wide # 0
  BY Reads, Power, Widths DEF Word
<1>2. (a * b) \div 2^Wide \in Word
  <2> HIDE DEF a, b
  <2>1. (a * b) \div 2^Wide \in Nat /\ (a * b) \div 2^Wide < 2^Wide
    BY <1>1, UpperWord
  <2> QED
    BY <1>1, <2>1 DEF Word
<1>3. (a * b) % 2^Wide \in Word
  <2> HIDE DEF a, b
  <2>1. a * b \in Int
    BY <1>1
  <2> QED
    BY <2>1, WrapsWord
<1>4. p.l \in Word /\ p.h \in Word
  BY <1>2, <1>3 DEF Umul64
<1>5. Smul64(a, b).l \in Word /\ Smul64(a, b).h \in Word
  BY <1>4 DEF Smul64
<1> HIDE DEF a, b, p
<1>6. ASSUME NEW v \in Word, NEW w \in Word PROVE Put(Put(m, rl, v), rh, w) \in Machine
  BY Puts, Zenon
<1> DEFINE s == IF sign THEN Smul64(a, b) ELSE p
<1>7. s.l \in Word /\ s.h \in Word
  BY <1>4, <1>5
<1>8. Mul2Reg(m, rh, rl, rn, rm, sign) = Put(Put(m, rl, s.l), rh, s.h)
  BY DEF Mul2Reg, a, b, p
<1> HIDE DEF s
<1> QED
  BY <1>6, <1>7, <1>8, Zenon

(* Sums and differences with carry.                                        *)
LEMMA Carries ==
    ASSUME NEW m \in Machine, NEW rd \in Regs, NEW rn \in Regs, NEW rm \in Regs, NEW setflags, NEW bit64
    PROVE  /\ AddcReg(m, rd, rn, rm, setflags, bit64) \in Machine
           /\ SubcReg(m, rd, rn, rm, setflags, bit64) \in Machine
<1>1. ASSUME NEW n \in Machine PROVE WithCarry(n, rd, bit64) \in Machine
  <2>1. Read(n, rd, bit64) + 1 \in Int
    BY Reads
  <2>2. Low(Read(n, rd, bit64) + 1, Width(bit64)) \in Word
    BY <2>1, LowWord
  <2>3. Put(n, rd, Low(Read(n, rd, bit64) + 1, Width(bit64))) \in Machine
    BY <2>2, Puts, Zenon
  <2> QED
    BY <2>3 DEF WithCarry
<1>2. "ADD" \in Operations \cup {"SUB"} /\ "SUB" \in Operations \cup {"SUB"}
  BY DEF Operations
<1>3. AddReg(m, rd, rn, rm, setflags, bit64) \in Machine /\ SubReg(m, rd, rn, rm, setflags, bit64) \in Machine
  BY <1>2, RegOps, Zenon DEF AddReg, SubReg
<1> QED
  BY <1>1, <1>3, Zenon DEF AddcReg, SubcReg

(* The logic callbacks.                                                    *)
LEMMA RegisterLogic ==
    ASSUME NEW m \in Machine, NEW rd, NEW rn \in Regs, NEW rm \in Regs, NEW setflags, NEW bit64
    PROVE  /\ AddReg(m, rd, rn, rm, setflags, bit64) \in Machine
           /\ AndReg(m, rd, rn, rm, setflags, bit64) \in Machine
           /\ OrrReg(m, rd, rn, rm, bit64) \in Machine
           /\ EorReg(m, rd, rn, rm, bit64) \in Machine
<1>1. {"ADD", "AND", "OR", "EOR"} \subseteq Operations \cup {"SUB"}
  BY DEF Operations
<1>2. /\ "ADD" \in Operations \cup {"SUB"} /\ "AND" \in Operations \cup {"SUB"}
      /\ "OR" \in Operations \cup {"SUB"} /\ "EOR" \in Operations \cup {"SUB"}
  BY <1>1
<1> QED
  BY <1>2, RegOps, Zenon DEF AddReg, AndReg, OrrReg, EorReg

(* Extensions of a part of a register.                                     *)
LEMMA Extends ==
    ASSUME NEW m \in Machine, NEW rd, NEW rn \in Regs, NEW option \in Option, NEW bit64
    PROVE  ExtendReg(m, rd, rn, option, bit64) \in Machine
<1> DEFINE imm == Read(m, rn, bit64)
           n == Byte * 2^option.size
<1>1. imm \in Int
  BY Reads, WordInt, Zenon
<1>2. n \in Nat /\ n <= Wide
  <2>1. option.size \in {0, 1, 2, 3}
    BY DEF Option
  <2>2. 2^option.size \in {1, 2, 4, 8}
    BY <2>1, Sizes
  <2> QED
    BY <2>2, Widths
<1> HIDE DEF imm, n
<1>3. Sext(imm, n) \in Word /\ Low(imm, n) \in Word
  BY <1>1, <1>2, SignedRange, LowRange, Zenon
<1>4. ExtendReg(m, rd, rn, option, bit64) = Put(m, rd, IF option.sign THEN Sext(imm, n) ELSE Low(imm, n))
  BY DEF ExtendReg, imm, n
<1>5. Put(m, rd, Sext(imm, n)) \in Machine /\ Put(m, rd, Low(imm, n)) \in Machine
  BY <1>3, Puts, Zenon
<1> QED
  BY <1>4, <1>5, Zenon

(* len bits from pos, which are in the register.                           *)
LEMMA Extractions ==
    ASSUME NEW m \in Machine, NEW rd \in Regs, NEW rn \in Regs, NEW pos \in Nat, NEW len \in Nat,
           pos + len <= Wide, NEW bit64
    PROVE  /\ SExtractI64(m, rd, rn, pos, len, bit64) \in Machine
           /\ UExtractI64(m, rd, rn, pos, len, bit64) \in Machine
<1>1. Wide - len \in Nat /\ (Wide - len) - pos \in Nat
  BY Widths
<1>2. GPR_DUMMY \in Regs /\ "LSL" \in Operations \cup {"SUB"} /\ "LSR" \in Operations \cup {"SUB"}
      /\ "ASR" \in Operations \cup {"SUB"}
  BY RegisterSets DEF Operations
<1>3. ASSUME NEW type \in Operations \cup {"SUB"} PROVE Extract(m, rd, rn, pos, len, type) \in Machine
  <2>1. ShiftI64(m, rd, rn, type, Wide - len, TRUE) \in Machine
    BY <1>1, ImmOps, Zenon
  <2>2. ShiftI64(m, GPR_DUMMY, rn, "LSL", (Wide - len) - pos, TRUE) \in Machine
    BY <1>1, <1>2, ImmOps, Zenon
  <2>3. ShiftI64(ShiftI64(m, GPR_DUMMY, rn, "LSL", (Wide - len) - pos, TRUE),
                 rd, GPR_DUMMY, type, Wide - len, TRUE) \in Machine
    BY <1>1, <1>2, <2>2, ImmOps, Zenon
  <2> QED
    BY <2>1, <2>3, Zenon DEF Extract
<1> DEFINE e == Extract(m, rd, rn, pos, len, "ASR")
           f == Extract(m, rd, rn, pos, len, "LSR")
<1>4. e \in Machine /\ f \in Machine
  BY <1>2, <1>3, Zenon
<1>5. SExtractI64(m, rd, rn, pos, len, bit64) = IF bit64 THEN e ELSE Put(e, rd, Sext(X(e, rd), Half))
  BY Zenon DEF SExtractI64
<1>6. UExtractI64(m, rd, rn, pos, len, bit64) = Put(f, rd, Read(f, rd, bit64))
  BY Zenon DEF UExtractI64
<1> HIDE DEF e, f
<1>7. Sext(X(e, rd), Half) \in Word
  <2>1. X(e, rd) \in Int /\ Half \in Nat
    BY <1>4, Reads, WordInt, Widths, Zenon
  <2> QED
    BY <2>1, SignedRange, Zenon
<1>8. Put(e, rd, Sext(X(e, rd), Half)) \in Machine
  BY <1>4, <1>7, Puts, Zenon
<1>9. Read(f, rd, bit64) \in Word
  BY <1>4, Reads, Zenon
<1>10. Put(f, rd, Read(f, rd, bit64)) \in Machine
  BY <1>4, <1>9, Puts, Zenon
<1> QED
  BY <1>4, <1>5, <1>6, <1>8, <1>10

(* Conditional comparisons, which set flags only.                          *)
LEMMA ConditionalCompares ==
    ASSUME NEW m \in Machine, NEW rn \in Regs, NEW arg \in Nat, NEW cond, NEW flags \in SUBSET Flag,
           NEW op \in {"ADD", "SUB"}, NEW bit64
    PROVE  CondCmp(m, rn, arg, cond, flags, op, bit64) \in Machine
<1>1. op \in Operations \cup {"SUB"} /\ Read(m, rn, bit64) \in Nat
  BY Reads DEF Operations
<1>2. ArithmeticLogic(m, GPR_ZERO, Read(m, rn, bit64), arg, TRUE, bit64, op) \in Machine
  BY <1>1, Calculates, Zenon
<1> QED
  BY <1>2, SetsFlags DEF CondCmp

(* Branches set the program counter to an address.                         *)
LEMMA Branching ==
    ASSUME NEW m \in Machine, NEW addr \in Word
    PROVE  /\ BranchI64(m, addr) \in Machine
           /\ \A equal, rt, bit64 : BranchCondiI64(m, equal, rt, addr, bit64) \in Machine
           /\ \A cond : BranchFlag(m, cond, addr) \in Machine
           /\ \A rt \in Regs : SetPCReg(m, rt) \in Machine
<1>1. BranchI64(m, addr) \in Machine
  BY Puts, Zenon DEF BranchI64
<1>2. ASSUME NEW rt \in Regs PROVE SetPCReg(m, rt) \in Machine
  <2>1. X(m, rt) - InstLen \in Int
    BY Reads DEF InstLen
  <2>2. (X(m, rt) - InstLen) % 2^Wide \in Word
    BY <2>1, WrapsWord
  <2> QED
    BY <2>2, Puts, Zenon DEF SetPCReg
<1> QED
  BY <1>1, <1>2 DEF BranchCondiI64, BranchFlag

(* A number is below its power of two.                                     *)
LEMMA PowerExceeds ==
    ASSUME NEW n \in Nat
    PROVE  n < 2^n
<1> DEFINE S == {k \in Nat : k < 2^k}
<1>1. 0 \in S
  BY Sizes
<1>2. ASSUME NEW k \in Nat, k \in S PROVE k + 1 \in S
  <2>1. 2^k \in Nat /\ 2^k # 0 /\ 2^(k + 1) = 2 * 2^k
    BY Power
  <2> QED
    BY <1>2, <2>1
<1> HIDE DEF S
<1>3. n \in S
  BY <1>1, <1>2, SetInduction
<1> QED
  BY <1>3 DEF S

(* Counts and orders of bits.                                              *)
LEMMA ZeroIsEven == 0 % 2 = 0
OBVIOUS

(* The bits of a number below 2^n are among the first n.                   *)
LEMMA BitsBelow ==
    ASSUME NEW w \in Nat, NEW n \in Nat, w < 2^n
    PROVE  Bits(w) \subseteq 0 .. n - 1
<1>0. \A i \in Bits(w) : i \in Nat /\ (w \div 2^i) % 2 = 1
  BY Widths DEF Bits
<1> SUFFICES ASSUME NEW i \in Bits(w), ~(i < n) PROVE FALSE
  BY <1>0
<1>1. i \in Nat /\ (w \div 2^i) % 2 = 1
  BY <1>0
<1>2. 2^n <= 2^i /\ 2^i \in Nat /\ 2^n \in Nat /\ 2^i # 0
  BY <1>1, PowerOrder
<1>3. \A p \in Nat : w < p => w \div p = 0
  OBVIOUS
<1>4. w \div 2^i = 0
  BY <1>2, <1>3
<1>5. (w \div 2^i) % 2 = 0
  BY <1>4, ZeroIsEven, Zenon
<1> QED
  BY <1>1, <1>5

(* Reversed bits and bytes are words.                                      *)
LEMMA Reversals ==
    ASSUME NEW w \in Nat, NEW n \in {2, 4, 8}
    PROVE  ReverseBit64(w) \in Word /\ ByteSwap(w, n) \in Word
<1>1. \A i \in Bits(w) : Wide - 1 - i \in 0 .. Wide - 1
  BY Widths DEF Bits
<1>2. ReverseBit64(w) \in Word
  BY <1>1, NumWord DEF ReverseBit64
<1>3. n * Byte \in Nat
  BY Widths
<1>4. Bits(Low(w, n * Byte)) \subseteq 0 .. n * Byte - 1
  <2>1. w \in Int
    OBVIOUS
  <2>2. Low(w, n * Byte) \in Nat /\ Low(w, n * Byte) < 2^(n * Byte)
    BY <1>3, <2>1, LowRange, Zenon
  <2> QED
    BY <1>3, <2>2, BitsBelow, Zenon
<1>5. ASSUME NEW i \in 0 .. n * Byte - 1
      PROVE  ((n - 1 - i \div Byte) * Byte) + (i % Byte) \in 0 .. Wide - 1
  <2>1. PICK q \in Nat, r \in Nat : i = Byte * q + r /\ r < Byte /\ i \div Byte = q /\ i % Byte = r
    <3>1. i \in Nat
      BY <1>3
    <3> QED
      BY <3>1, Widths
  <2>2. q < n
    <3> SUFFICES ASSUME ~(q < n) PROVE FALSE
      OBVIOUS
    <3>1. PICK z \in Nat : q = n + z
      <4>1. q - n \in Nat /\ q = n + (q - n)
        OBVIOUS
      <4> QED
        BY <4>1
    <3>2. Byte * q = n * Byte + Byte * z /\ Byte * z \in Nat
      BY <3>1, Widths
    <3> QED
      BY <1>3, <2>1, <3>2
  <2>3. n - 1 - q \in {0, 1, 2, 3, 4, 5, 6, 7}
    BY <2>2
  <2>4. (n - 1 - q) * Byte \in Nat /\ (n - 1 - q) * Byte <= 7 * Byte
    BY <2>3, Widths
  <2> QED
    BY <2>1, <2>4, Widths
<1>6. {((n - 1 - i \div Byte) * Byte) + (i % Byte) : i \in Bits(Low(w, n * Byte))} \subseteq 0 .. Wide - 1
  BY <1>4, <1>5
<1>7. ByteSwap(w, n) \in Word
  BY <1>6, NumWord DEF ByteSwap
<1> QED
  BY <1>2, <1>7

(* The highest bit of a word that is not zero is one of its bits.          *)
LEMMA MaxIn ==
    ASSUME NEW S, S # {}, NEW n \in Nat, S \subseteq 0 .. n - 1
    PROVE  Max(S) \in 0 .. n - 1 /\ Max(S) \in S
<1>1. S \in SUBSET Nat /\ \A k \in S : k <= n
  OBVIOUS
<1>2. \E k \in S : \A l \in S : l <= k
  BY <1>1, GreatestNat
<1>3. Max(S) \in S
  BY <1>2 DEF Max
<1> QED
  BY <1>3

(* Counts of leading bits are words.                                       *)
LEMMA Counts ==
    ASSUME NEW bit64, NEW w \in Nat, w < 2^Width(bit64)
    PROVE  Clz(w, Width(bit64)) \in Word /\ Cls(w, Width(bit64)) \in Word
<1> DEFINE n == Width(bit64)
<1>1. n \in Nat /\ n # 0 /\ n <= Wide
  BY Widths
<1>2. \A k \in Nat : k <= Wide => k \in Word
  <2>1. Wide < 2^Wide
    BY PowerExceeds, Widths
  <2> QED
    BY <2>1, Widths, Power DEF Word
<1> HIDE DEF n
<1>5. Wide \in Nat
  BY Widths
<1>3. CASE w = 0
  BY <1>1, <1>2, <1>3 DEF Clz, Cls, n
<1>4. CASE w # 0
  <2>1. Bits(w) \subseteq 0 .. n - 1
    BY <1>1, BitsBelow DEF n
  <2>2. Bits(w) # {}
    <3>1. w \in Word
      <4>1. 2^n <= 2^Wide /\ 2^n \in Nat /\ 2^Wide \in Nat
        BY <1>1, PowerOrder, Widths
      <4> QED
        BY <4>1 DEF Word, n
    <3>2. Num(Bits(w)) = w
      BY <3>1, NumOfBits
    <3>3. 0 \in 0 .. 2 * Wide /\ {} \in SUBSET (0 .. 0 - 1)
      BY Widths
    <3>4. Num({}) \in Nat /\ Num({}) < 2^0
      BY <3>3, NumRange, Zenon
    <3>5. Num({}) = 0
      BY <3>4, Sizes
    <3> QED
      BY <1>4, <3>2, <3>5
  <2>3. Max(Bits(w)) \in 0 .. n - 1
    BY <1>1, <2>1, <2>2, MaxIn
  <2>4. n - 1 - Max(Bits(w)) \in Nat /\ n - 1 - Max(Bits(w)) <= Wide
    BY <1>1, <1>5, <2>3
  <2>5. Clz(w, n) \in Word
    BY <1>2, <1>4, <2>4 DEF Clz
  <2> DEFINE sign == n - 1 \in Bits(w)
             odd == {i \in 0 .. n - 1 : (i \in Bits(w)) # (n - 1 \in Bits(w))}
  <2>6. odd \subseteq 0 .. n - 1 /\ n - 1 \notin odd
    BY <1>1
  <2>7. odd = {} => Cls(w, n) \in Word
    <3> SUFFICES ASSUME odd = {} PROVE Cls(w, n) \in Word
      OBVIOUS
    <3>1. Cls(w, n) = n - 1
      BY <1>4 DEF Cls
    <3> HIDE DEF odd
    <3>2. n - 1 \in Nat /\ n - 1 <= Wide
      BY <1>1, <1>5
    <3> QED
      BY <1>2, <3>1, <3>2
  <2>8. odd # {} => Cls(w, n) \in Word
    <3> SUFFICES ASSUME odd # {} PROVE Cls(w, n) \in Word
      OBVIOUS
    <3>1. Max(odd) \in 0 .. n - 1 /\ Max(odd) \in odd
      <4> HIDE DEF odd
      <4> QED
        BY <1>1, <2>6, MaxIn
    <3>2. Max(odd) # n - 1
      BY <2>6, <3>1
    <3>3. Cls(w, n) = n - 2 - Max(odd)
      BY <1>4 DEF Cls
    <3> HIDE DEF odd
    <3>4. n - 2 - Max(odd) \in Nat /\ n - 2 - Max(odd) <= Wide
      BY <1>1, <1>5, <3>1, <3>2
    <3> QED
      BY <1>2, <3>3, <3>4
  <2> QED
    BY <2>5, <2>7, <2>8, Zenon DEF n
<1> QED
  BY <1>3, <1>4

(***************************************************************************)
(* The decoder's functions make a machine of a machine.  First those on    *)
(* the general registers.                                                  *)
(***************************************************************************)

(* The registers and operations that the decoder names.                    *)
LEMMA Named ==
    /\ GPR_DUMMY \in Regs /\ GPR_ZERO \in Regs /\ GPR_LR \in Regs /\ PC_IDX \in Regs
    /\ GPR_SP \in Regs /\ GPR_DUMMY2 \in Regs /\ InstLen \in Nat
    /\ \A r \in Visible : r \in Regs /\ HandleAsSP(r) \in Regs
    /\ \A op \in Operations : op \in Operations \cup {"SUB"}
    /\ \A op \in {"ADD", "SUB", "AND", "OR", "EOR", "LSL", "LSR", "ASR", "ROR", "UDIV", "SDIV"} :
          op \in Operations \cup {"SUB"}
    /\ \A w \in Word : w \in Nat
BY RegisterSets, WordNat DEF Operations, InstLen

(* An address relative to the program counter is a word, forwards or       *)
(* back.                                                                   *)
LEMMA Immediates ==
    ASSUME NEW m \in Machine, NEW by \in Int
    PROVE  /\ by % 2^Wide \in Word /\ by % 2^Wide \in Nat
           /\ Backed(m, by) \in Word
<1>1. X(m, PC_IDX) \in Nat
  BY Reads, Named
<1>2. X(m, PC_IDX) + by - InstLen \in Int
  BY <1>1, Named
<1> QED
  BY <1>2, WrapsWord, WordNat DEF Backed

(* Addresses relative to the program counter (DisasPCRelAddr).             *)
LEMMA PCRelAddrKeeps ==
    ASSUME NEW m \in Machine, NEW i, IntegerFields(i), i.cls = "PCRelAddr"
    PROVE  DisasPCRelAddr(m, i) \in Machine
<1>1. i.imm \in Nat
  BY WordNat DEF IntegerFields
<1>2. PageMask \in Nat
  <2>1. 2^PageBits - 1 \in Word
    <3>1. PageBits \in Nat /\ PageBits <= Wide
      BY WidthAssumption, Widths
    <3>2. 2^PageBits \in Nat /\ 2^PageBits # 0 /\ 2^PageBits <= 2^Wide /\ 2^Wide \in Nat
      BY <3>1, PowerOrder, Widths
    <3> QED
      BY <3>2 DEF Word
  <2> QED
    BY <2>1, NotRange, WordNat DEF PageMask
<1> DEFINE at == MovReg(m, GPR_DUMMY, PC_IDX, TRUE)
           masked == LogicI64(at, GPR_DUMMY, GPR_DUMMY, PageMask, FALSE, TRUE, "AND")
           base == IF i.page THEN masked ELSE at
<1>3. at \in Machine
  BY Moves, Named, Zenon
<1>4. masked \in Machine
  <2>1. "AND" \in Operations \cup {"SUB"} /\ GPR_DUMMY \in Regs
    BY Named
  <2> HIDE DEF at
  <2> QED
    BY <1>2, <1>3, <2>1, ImmOps, Zenon
<1>5. base \in Machine
  <2> HIDE DEF at, masked
  <2> QED
    BY <1>3, <1>4
<1>6. DisasPCRelAddr(m, i) = MovReg(AddI64(base, GPR_DUMMY, GPR_DUMMY, i.imm, FALSE, TRUE), i.rd, GPR_DUMMY, TRUE)
  BY DEF DisasPCRelAddr
<1> HIDE DEF base
<1>7. AddI64(base, GPR_DUMMY, GPR_DUMMY, i.imm, FALSE, TRUE) \in Machine
  BY <1>1, <1>5, AddI64s, Named, Zenon
<1> QED
  BY <1>6, <1>7, Moves, Named, Zenon

(* Immediates (DisasAddSubImm, DisasLogImm, DisasMovwImm).                 *)
LEMMA ImmediatesKeep ==
    ASSUME NEW m \in Machine, NEW i, IntegerFields(i)
    PROVE  /\ i.cls = "AddSubImm" => DisasAddSubImm(m, i) \in Machine
           /\ i.cls = "LogImm" => DisasLogImm(m, i) \in Machine
           /\ i.cls = "MovwImm" => DisasMovwImm(m, i) \in Machine
<1>1. ASSUME i.cls = "AddSubImm" PROVE DisasAddSubImm(m, i) \in Machine
  <2>1. i.rn \in Regs /\ i.imm \in Nat /\ i.alu \in Operations \cup {"SUB"}
    BY <1>1, Named DEF IntegerFields
  <2> QED
    BY <2>1, ImmOps, Zenon DEF DisasAddSubImm
<1>2. ASSUME i.cls = "LogImm" PROVE DisasLogImm(m, i) \in Machine
  <2>1. i.rn \in Regs /\ i.imm \in Int /\ i.alu \in Operations \cup {"SUB"}
    BY <1>2, Named DEF IntegerFields
  <2>2. Low(i.imm, Width(i.sf)) \in Nat
    BY <2>1, LowRange, Widths
  <2> QED
    BY <2>1, <2>2, ImmOps, Zenon DEF DisasLogImm
<1>3. ASSUME i.cls = "MovwImm" PROVE DisasMovwImm(m, i) \in Machine
  <2>1. i.opc \in {"MOVN", "MOVZ", "MOVK"} /\ i.imm \in Nat /\ i.pos \in Nat
    <3>1. 2^(2 * Byte) \in Nat
      BY Power, Widths
    <3> QED
      BY <1>3, <3>1, Widths DEF IntegerFields
  <2>2. Lsl(i.imm, i.pos) \in Word
    BY <2>1, ShiftRange
  <2>3. Lsl(i.imm, i.pos) \in Int /\ Not(Lsl(i.imm, i.pos)) \in Int
    BY <2>2, NotRange, WordInt, Zenon
  <2>4. Low(Lsl(i.imm, i.pos), Width(i.sf)) \in Word /\ Low(Not(Lsl(i.imm, i.pos)), Width(i.sf)) \in Word
    BY <2>3, LowWord, Zenon
  <2>5. /\ Put(m, i.rd, Low(Lsl(i.imm, i.pos), Width(i.sf))) \in Machine
        /\ Put(m, i.rd, Low(Not(Lsl(i.imm, i.pos)), Width(i.sf))) \in Machine
    BY <2>4, Puts, Zenon
  <2>6. DepositI64(m, i.rd, i.imm, i.pos, 2 * Byte) \in Machine
    BY Deposits, Zenon
  <2> QED
    BY <2>1, <2>5, <2>6 DEF DisasMovwImm, MoviI64
<1> QED
  BY <1>1, <1>2, <1>3

(* Bit fields, which wrap around the register or do not (DisasBitfield).   *)
LEMMA BitfieldKeeps ==
    ASSUME NEW m \in Machine, NEW i, IntegerFields(i), i.cls = "Bitfield"
    PROVE  DisasBitfield(m, i) \in Machine
<1> DEFINE at == MovReg(m, GPR_DUMMY, i.rn, TRUE)
           len == i.si - i.ri + 1
           pos == (Width(i.sf) - i.ri) % Width(i.sf)
           signs == i.opc = "SBFM" /\ i.si + 1 < i.ri
           field == IF signs THEN SExtractI64(at, GPR_DUMMY, GPR_DUMMY, 0, i.si + 1, i.sf) ELSE at
           flen == IF signs THEN i.ri ELSE i.si + 1
<1>1. /\ i.opc \in {"SBFM", "BFM", "UBFM"} /\ i.rd \in Regs /\ i.rn \in Regs /\ GPR_DUMMY \in Regs
      /\ i.ri \in Nat /\ i.si \in Nat /\ i.ri < Wide /\ i.si < Wide /\ Wide \in Nat
  BY Named, Widths DEF IntegerFields
<1>2. at \in Machine
  BY <1>1, Moves, Zenon
<1>3. pos \in Nat
  <2>1. Width(i.sf) \in Nat /\ Width(i.sf) # 0 /\ Width(i.sf) - i.ri \in Int
    BY <1>1, Widths
  <2>2. (Width(i.sf) - i.ri) % Width(i.sf) \in 0 .. Width(i.sf) - 1
    BY <2>1, ModOnce
  <2> QED
    BY <2>1, <2>2
<1>4. i.si + 1 \in Nat /\ 0 \in Nat /\ 0 + (i.si + 1) <= Wide
  BY <1>1
<1>5. SExtractI64(at, GPR_DUMMY, GPR_DUMMY, 0, i.si + 1, i.sf) \in Machine
  <2> HIDE DEF at
  <2> QED
    BY <1>1, <1>2, <1>4, Extractions, Zenon
<1>6. field \in Machine
  <2> HIDE DEF at
  <2> QED
    BY <1>2, <1>5
<1>7. DisasBitfield(m, i) =
        CASE i.si >= i.ri /\ i.opc = "SBFM" -> SExtractI64(at, i.rd, GPR_DUMMY, i.ri, len, i.sf)
          [] i.si >= i.ri /\ i.opc = "UBFM" -> UExtractI64(at, i.rd, GPR_DUMMY, i.ri, len, i.sf)
          [] i.si >= i.ri /\ i.opc = "BFM" ->
                DepositReg(UExtractI64(at, GPR_DUMMY, GPR_DUMMY, i.ri, len, i.sf),
                           i.rd, GPR_DUMMY, 0, len, i.sf)
          [] i.si < i.ri /\ i.opc = "BFM" -> DepositReg(field, i.rd, GPR_DUMMY, pos, flen, i.sf)
          [] OTHER -> DepositZeroReg(field, i.rd, GPR_DUMMY, pos, flen, i.sf)
  BY DEF DisasBitfield
<1>8. i.si >= i.ri => len \in Nat /\ i.ri + len <= Wide
  BY <1>1
<1> HIDE DEF at, len, pos, field, flen
<1>9. i.si >= i.ri =>
        /\ SExtractI64(at, i.rd, GPR_DUMMY, i.ri, len, i.sf) \in Machine
        /\ UExtractI64(at, i.rd, GPR_DUMMY, i.ri, len, i.sf) \in Machine
        /\ UExtractI64(at, GPR_DUMMY, GPR_DUMMY, i.ri, len, i.sf) \in Machine
  BY <1>1, <1>2, <1>8, Extractions, Zenon
<1>10. i.si >= i.ri =>
         DepositReg(UExtractI64(at, GPR_DUMMY, GPR_DUMMY, i.ri, len, i.sf), i.rd, GPR_DUMMY, 0, len, i.sf)
           \in Machine
  BY <1>1, <1>4, <1>9, DepositRegs, Zenon
<1>11. DepositReg(field, i.rd, GPR_DUMMY, pos, flen, i.sf) \in Machine
  BY <1>1, <1>3, <1>6, DepositRegs, Zenon
<1>12. DepositZeroReg(field, i.rd, GPR_DUMMY, pos, flen, i.sf) \in Machine
  BY <1>1, <1>3, <1>6, DepositRegs, Zenon
<1> QED
  BY <1>1, <1>7, <1>9, <1>10, <1>11, <1>12

(* A word out of two (DisasExtract).                                       *)
LEMMA ExtractKeeps ==
    ASSUME NEW m \in Machine, NEW i, IntegerFields(i), i.cls = "Extract"
    PROVE  DisasExtract(m, i) \in Machine
<1>1. /\ i.rd \in Regs /\ i.rn \in Regs /\ i.rm \in Regs /\ i.imm \in Nat
      /\ "ROR" \in Operations \cup {"SUB"} /\ "LSR" \in Operations \cup {"SUB"}
  BY Named, Widths DEF IntegerFields
<1>2. MovReg(m, i.rd, i.rm, i.sf) \in Machine
  BY <1>1, Moves, Zenon
<1>3. ShiftI64(m, i.rd, i.rm, "ROR", i.imm, i.sf) \in Machine
  BY <1>1, ImmOps, Zenon
<1> DEFINE a == ShiftI64(m, i.rm, i.rm, "LSR", i.imm, i.sf)
           b == ShiftI64(a, i.rn, i.rn, "LSR", i.imm, i.sf)
<1>4. a \in Machine
  BY <1>1, ImmOps, Zenon
<1>5. b \in Machine
  <2> HIDE DEF a
  <2> QED
    BY <1>1, <1>4, ImmOps, Zenon
<1>6. OrrReg(b, i.rd, i.rm, i.rn, i.sf) \in Machine
  <2> HIDE DEF b
  <2> QED
    BY <1>1, <1>5, RegisterLogic, Zenon
<1> QED
  BY <1>2, <1>3, <1>6 DEF DisasExtract

(* Branches, of which the target may be before the instruction             *)
(* (DisasUncondBr..., DisasCompBrImm, DisasTestBrImm, DisasCondBrImm).     *)
LEMMA BranchesKeep ==
    ASSUME NEW m \in Machine, NEW i, IntegerFields(i)
    PROVE  /\ i.cls = "UncondBrImm" => DisasUncondBrImm(m, i) \in Machine
           /\ i.cls = "UncondBrReg" => DisasUncondBrReg(m, i) \in Machine
           /\ i.cls = "CompBrImm" => DisasCompBrImm(m, i) \in Machine
           /\ i.cls = "TestBrImm" => DisasTestBrImm(m, i) \in Machine
           /\ i.cls = "CondBrImm" => DisasCondBrImm(m, i) \in Machine
<1>1. ASSUME NEW n \in Machine PROVE Linked(n, i.link) \in Machine
  <2>1. AddI64(n, GPR_LR, PC_IDX, InstLen, FALSE, TRUE) \in Machine
    BY AddI64s, Named, Zenon
  <2> QED
    BY <2>1 DEF Linked
<1>2. ASSUME i.cls = "UncondBrImm" PROVE DisasUncondBrImm(m, i) \in Machine
  <2>1. i.offset % 2^Wide \in Nat
    BY <1>2, Immediates DEF IntegerFields
  <2>2. AddI64(m, GPR_DUMMY, PC_IDX, i.offset % 2^Wide, FALSE, TRUE) \in Machine
    BY <2>1, AddI64s, Named, Zenon
  <2>3. Linked(AddI64(m, GPR_DUMMY, PC_IDX, i.offset % 2^Wide, FALSE, TRUE), i.link) \in Machine
    BY <1>1, <2>2, Zenon
  <2>4. ASSUME NEW n \in Machine PROVE SetPCReg(n, GPR_DUMMY) \in Machine
    <3>1. 0 \in Word
      BY WordSize
    <3> QED
      BY <3>1, Branching, Named, Zenon
  <2> QED
    BY <2>3, <2>4, Zenon DEF DisasUncondBrImm
<1>3. ASSUME i.cls = "UncondBrReg" PROVE DisasUncondBrReg(m, i) \in Machine
  <2>1. i.rn \in Regs /\ 0 \in Word
    BY <1>3, Named, WordSize DEF IntegerFields
  <2> QED
    BY <1>1, <2>1, Branching, Zenon DEF DisasUncondBrReg
<1>4. ASSUME i.cls = "CompBrImm" PROVE DisasCompBrImm(m, i) \in Machine
  <2>1. Backed(m, i.offset) \in Word
    BY <1>4, Immediates DEF IntegerFields
  <2> QED
    BY <2>1, Branching, Zenon DEF DisasCompBrImm
<1>5. ASSUME i.cls = "TestBrImm" PROVE DisasTestBrImm(m, i) \in Machine
  <2>1. Backed(m, i.offset) \in Word /\ i.rt \in Regs /\ i.bit \in Nat /\ 2^i.bit \in Nat
    <3>1. i.offset \in Int /\ i.rt \in Visible /\ i.bit \in Nat
      BY <1>5, Widths DEF IntegerFields
    <3> QED
      BY <3>1, Immediates, Named, Power
  <2>2. Backed(m, i.offset) \in Int /\ Half \in Nat /\ Half <= Wide
    BY <2>1, WordInt, Widths
  <2>3. Low(Backed(m, i.offset), Half) \in Word
    BY <2>2, LowRange, Zenon
  <2>4. LogicI64(m, GPR_DUMMY, i.rt, 2^i.bit, FALSE, TRUE, "AND") \in Machine
    <3>1. "AND" \in Operations \cup {"SUB"}
      BY Named
    <3> QED
      BY <2>1, <3>1, ImmOps, Zenon
  <2> QED
    BY <2>3, <2>4, Branching, Zenon DEF DisasTestBrImm
<1>6. ASSUME i.cls = "CondBrImm" PROVE DisasCondBrImm(m, i) \in Machine
  <2>1. Backed(m, i.offset) \in Word
    BY <1>6, Immediates DEF IntegerFields
  <2>2. BranchI64(m, Backed(m, i.offset)) \in Machine /\ BranchFlag(m, i.cond, Backed(m, i.offset)) \in Machine
    BY <2>1, Branching, Zenon
  <2> QED
    BY <2>2 DEF DisasCondBrImm
<1> QED
  BY <1>2, <1>3, <1>4, <1>5, <1>6

(* Logic on registers, the second one shifted and complemented             *)
(* (DisasLogicReg).                                                        *)
LEMMA LogicRegKeeps ==
    ASSUME NEW m \in Machine, NEW i, IntegerFields(i), i.cls = "LogicReg"
    PROVE  DisasLogicReg(m, i) \in Machine
<1> DEFINE at == MovReg(m, GPR_DUMMY, i.rm, TRUE)
           shifted == ShiftI64(at, GPR_DUMMY, i.rm, i.shift, i.amount, i.sf)
           op2 == IF i.amount # 0 THEN shifted ELSE at
           inv == NotReg(op2, GPR_DUMMY, GPR_DUMMY, i.sf)
           arg == IF i.invert THEN inv ELSE op2
<1>1. /\ i.rd \in Regs /\ i.rn \in Regs /\ i.rm \in Regs /\ GPR_DUMMY \in Regs
      /\ i.amount \in Nat /\ i.shift \in Operations \cup {"SUB"} /\ i.invert \in BOOLEAN
  BY Named, Widths DEF IntegerFields, Shift
<1>2. at \in Machine
  BY <1>1, Moves, Zenon
<1>3. shifted \in Machine
  <2> HIDE DEF at
  <2> QED
    BY <1>1, <1>2, ImmOps, Zenon
<1>4. op2 \in Machine
  <2> HIDE DEF at, shifted
  <2> QED
    BY <1>2, <1>3
<1>5. inv \in Machine
  <2> HIDE DEF op2
  <2> QED
    BY <1>1, <1>4, Complements, Zenon
<1>6. arg \in Machine
  <2> HIDE DEF op2, inv
  <2> QED
    BY <1>4, <1>5
<1>7. DisasLogicReg(m, i) \in
        {NotReg(m, i.rd, i.rm, i.sf), MovReg(m, i.rd, i.rm, i.sf),
         BicReg(op2, i.rd, i.rn, GPR_DUMMY, i.setflags, i.sf),
         AndReg(op2, i.rd, i.rn, GPR_DUMMY, i.setflags, i.sf),
         OrrReg(arg, i.rd, i.rn, GPR_DUMMY, i.sf), EorReg(arg, i.rd, i.rn, GPR_DUMMY, i.sf)}
  <2> DEFINE Orr(n) == IF i.alu = "OR" THEN OrrReg(n, i.rd, i.rn, GPR_DUMMY, i.sf)
                                       ELSE EorReg(n, i.rd, i.rn, GPR_DUMMY, i.sf)
             mov == i.alu = "OR" /\ i.amount = 0 /\ i.shift = "LSL" /\ i.rn = GPR_ZERO
  <2>1. DisasLogicReg(m, i) =
          CASE mov /\ i.invert -> NotReg(m, i.rd, i.rm, i.sf)
            [] mov /\ ~i.invert -> MovReg(m, i.rd, i.rm, i.sf)
            [] i.alu = "AND" /\ i.invert -> BicReg(op2, i.rd, i.rn, GPR_DUMMY, i.setflags, i.sf)
            [] i.alu = "AND" /\ ~i.invert -> AndReg(op2, i.rd, i.rn, GPR_DUMMY, i.setflags, i.sf)
            [] OTHER -> Orr(arg)
    BY DEF DisasLogicReg
  <2> HIDE DEF op2, arg
  <2> QED
    BY <2>1
<1> HIDE DEF op2, arg
<1>8. /\ NotReg(m, i.rd, i.rm, i.sf) \in Machine /\ MovReg(m, i.rd, i.rm, i.sf) \in Machine
      /\ BicReg(op2, i.rd, i.rn, GPR_DUMMY, i.setflags, i.sf) \in Machine
      /\ AndReg(op2, i.rd, i.rn, GPR_DUMMY, i.setflags, i.sf) \in Machine
      /\ OrrReg(arg, i.rd, i.rn, GPR_DUMMY, i.sf) \in Machine
      /\ EorReg(arg, i.rd, i.rn, GPR_DUMMY, i.sf) \in Machine
  BY <1>1, <1>4, <1>6, Complements, Moves, RegisterLogic, Zenon
<1> QED
  BY <1>7, <1>8

(* Sums, the second operand shifted or extended (DisasAddSub...).          *)
LEMMA SumsKeep ==
    ASSUME NEW m \in Machine, NEW i, IntegerFields(i)
    PROVE  /\ i.cls = "AddSubExtReg" => DisasAddSubExtReg(m, i) \in Machine
           /\ i.cls = "AddSubReg" => DisasAddSubReg(m, i) \in Machine
           /\ i.cls = "AddSubcReg" => DisasAddSubcReg(m, i) \in Machine
<1>1. ASSUME i.cls = "AddSubExtReg" PROVE DisasAddSubExtReg(m, i) \in Machine
  <2>1. /\ i.rn \in Regs /\ i.rm \in Regs /\ i.option \in Option /\ i.amount \in Nat
        /\ i.alu \in Operations \cup {"SUB"} /\ "LSL" \in Operations \cup {"SUB"} /\ GPR_DUMMY \in Regs
    BY <1>1, Named DEF IntegerFields
  <2> DEFINE ext == ExtendReg(m, GPR_DUMMY, i.rm, i.option, i.sf)
             op2 == ShiftI64(ext, GPR_DUMMY, GPR_DUMMY, "LSL", i.amount, i.sf)
  <2>2. ext \in Machine
    BY <2>1, Extends, Zenon
  <2>3. op2 \in Machine
    <3> HIDE DEF ext
    <3> QED
      BY <2>1, <2>2, ImmOps, Zenon
  <2>4. RegOp(op2, i.rd, i.rn, GPR_DUMMY, i.setflags, i.sf, i.alu) \in Machine
    <3> HIDE DEF op2
    <3> QED
      BY <2>1, <2>3, RegOps, Zenon
  <2> QED
    BY <2>4 DEF DisasAddSubExtReg
<1>2. ASSUME i.cls = "AddSubReg" PROVE DisasAddSubReg(m, i) \in Machine
  <2>1. /\ i.rn \in Regs /\ i.rm \in Regs /\ i.amount \in Nat /\ i.shift \in Operations \cup {"SUB"}
        /\ i.alu \in Operations \cup {"SUB"} /\ GPR_DUMMY \in Regs
    BY <1>2, Named, Widths DEF IntegerFields, Shift
  <2> DEFINE at == MovReg(m, GPR_DUMMY, i.rm, TRUE)
             op2 == ShiftI64(at, GPR_DUMMY, GPR_DUMMY, i.shift, i.amount, i.sf)
  <2>2. at \in Machine
    BY <2>1, Moves, Zenon
  <2>3. op2 \in Machine
    <3> HIDE DEF at
    <3> QED
      BY <2>1, <2>2, ImmOps, Zenon
  <2>4. RegOp(op2, i.rd, i.rn, GPR_DUMMY, i.setflags, i.sf, i.alu) \in Machine
    <3> HIDE DEF op2
    <3> QED
      BY <2>1, <2>3, RegOps, Zenon
  <2> QED
    BY <2>4 DEF DisasAddSubReg
<1>3. ASSUME i.cls = "AddSubcReg" PROVE DisasAddSubcReg(m, i) \in Machine
  <2>1. i.rd \in Regs /\ i.rn \in Regs /\ i.rm \in Regs
    BY <1>3, Named DEF IntegerFields
  <2>2. /\ SubcReg(m, i.rd, i.rn, i.rm, i.setflags, i.sf) \in Machine
        /\ AddcReg(m, i.rd, i.rn, i.rm, i.setflags, i.sf) \in Machine
    BY <2>1, Carries, Zenon
  <2> QED
    BY <2>2 DEF DisasAddSubcReg
<1> QED
  BY <1>1, <1>2, <1>3

(* Products (DisasDataProc3src).                                           *)
LEMMA ProductsKeep ==
    ASSUME NEW m \in Machine, NEW i, IntegerFields(i), i.cls = "DataProc3src"
    PROVE  DisasDataProc3src(m, i) \in Machine
<1>1. /\ i.rn \in Regs /\ i.rm \in Regs /\ i.ra \in Regs /\ GPR_DUMMY \in Regs
      /\ i.alu \in Operations \cup {"SUB"}
  BY Named DEF IntegerFields
<1>2. Mul2Reg(m, i.rd, GPR_DUMMY, i.rn, i.rm, i.sign) \in Machine
  BY <1>1, LongMultiplies, Zenon
<1>3. MulReg(m, GPR_DUMMY, i.rn, i.rm, i.sf, ~i.long) \in Machine
  BY <1>1, Multiplies, Zenon
<1>4. RegOp(MulReg(m, GPR_DUMMY, i.rn, i.rm, i.sf, ~i.long), i.rd, i.ra, GPR_DUMMY, FALSE, TRUE, i.alu) \in Machine
  BY <1>1, <1>3, RegOps, Zenon
<1> QED
  BY <1>2, <1>4 DEF DisasDataProc3src

(* Conditional comparison and selection (DisasCondCmp, DisasCondSel).      *)
LEMMA ConditionsKeep ==
    ASSUME NEW m \in Machine, NEW i, IntegerFields(i)
    PROVE  /\ i.cls = "CondCmp" => DisasCondCmp(m, i) \in Machine
           /\ i.cls = "CondSel" => DisasCondSel(m, i) \in Machine
<1>1. ASSUME i.cls = "CondCmp" PROVE DisasCondCmp(m, i) \in Machine
  <2>1. /\ i.rn \in Regs /\ i.rm \in Regs /\ i.imm \in Nat /\ i.alu \in {"ADD", "SUB"}
        /\ i.nzcv \in SUBSET Flag
    BY <1>1, Named DEF IntegerFields
  <2>2. (IF i.is_imm THEN i.imm ELSE Read(m, i.rm, i.sf)) \in Nat
    BY <2>1, Reads
  <2> QED
    BY <2>1, <2>2, ConditionalCompares, Zenon DEF DisasCondCmp
<1>2. ASSUME i.cls = "CondSel" PROVE DisasCondSel(m, i) \in Machine
  <2>1. i.rn \in Regs /\ i.rm \in Regs /\ GPR_DUMMY \in Regs /\ 1 \in Nat
    BY <1>2, Named DEF IntegerFields
  <2> DEFINE at == MovReg(m, GPR_DUMMY, i.rm, TRUE)
             inv == IF i.else_inv THEN NotReg(at, GPR_DUMMY, GPR_DUMMY, i.sf) ELSE at
             inc == IF i.else_inc THEN AddI64(inv, GPR_DUMMY, GPR_DUMMY, 1, FALSE, i.sf) ELSE inv
  <2>2. at \in Machine
    BY <2>1, Moves, Zenon
  <2>3. inv \in Machine
    <3> HIDE DEF at
    <3>1. NotReg(at, GPR_DUMMY, GPR_DUMMY, i.sf) \in Machine
      BY <2>1, <2>2, Complements, Zenon
    <3> QED
      BY <2>2, <3>1
  <2>4. inc \in Machine
    <3> HIDE DEF inv
    <3>1. AddI64(inv, GPR_DUMMY, GPR_DUMMY, 1, FALSE, i.sf) \in Machine
      BY <2>1, <2>3, AddI64s, Zenon
    <3> QED
      BY <2>3, <3>1
  <2>5. CondMovReg(inc, i.cond, i.rd, i.rn, GPR_DUMMY, i.sf) \in Machine
    <3> HIDE DEF inc
    <3> QED
      BY <2>1, <2>4, CondMoves, Zenon
  <2> QED
    BY <2>5 DEF DisasCondSel
<1> QED
  BY <1>1, <1>2

(* One and two sources (DisasDataProc1src, DisasDataProc2src).             *)
LEMMA SourcesKeep ==
    ASSUME NEW m \in Machine, NEW i, IntegerFields(i)
    PROVE  /\ i.cls = "DataProc1src" => DisasDataProc1src(m, i) \in Machine
           /\ i.cls = "DataProc2src" => DisasDataProc2src(m, i) \in Machine
<1>1. ASSUME i.cls = "DataProc1src" PROVE DisasDataProc1src(m, i) \in Machine
  <2> DEFINE w == Read(m, i.rn, i.sf)
             v == CASE i.opc = "RBIT" -> ReverseBit64(w)
                    [] i.opc = "REV16" -> ByteSwap(w, 2)
                    [] i.opc = "REV32" -> ByteSwap(w, 4)
                    [] i.opc = "REV64" -> ByteSwap(X(m, i.rn), 8)
                    [] i.opc = "CLZ" -> Clz(w, Width(i.sf))
                    [] i.opc = "CLS" -> Cls(w, Width(i.sf))
  <2>1. i.rn \in Regs /\ i.opc \in {"RBIT", "REV16", "REV32", "REV64", "CLZ", "CLS"} /\ i.sf \in BOOLEAN
    BY <1>1, Named DEF IntegerFields
  <2>2. w \in Nat /\ X(m, i.rn) \in Nat
    BY <2>1, Reads
  <2>3. w < 2^Width(i.sf)
    <3>1. m.gpr[i.rn] \in Word
      BY <2>1 DEF Machine
    <3>2. i.sf => w < 2^Width(i.sf)
      BY <3>1, Power, Widths DEF Read, X, Word, Width
    <3>3. ~i.sf => w < 2^Width(i.sf)
      BY <3>1, WordInt, LowRange, Widths DEF Read, W, Width
    <3> QED
      BY <2>1, <3>2, <3>3
  <2> HIDE DEF w
  <2>4. Clz(w, Width(i.sf)) \in Word /\ Cls(w, Width(i.sf)) \in Word
    BY <2>2, <2>3, Counts, Zenon
  <2>5. 2 \in {2, 4, 8} /\ 4 \in {2, 4, 8} /\ 8 \in {2, 4, 8}
    OBVIOUS
  <2>6. /\ ReverseBit64(w) \in Word /\ ByteSwap(w, 2) \in Word /\ ByteSwap(w, 4) \in Word
        /\ ByteSwap(X(m, i.rn), 8) \in Word
    BY <2>2, <2>5, Reversals, Zenon
  <2>7. v \in Word
    BY <2>1, <2>4, <2>6
  <2>8. DisasDataProc1src(m, i) = Put(m, i.rd, v)
    BY DEF DisasDataProc1src, w
  <2> HIDE DEF v
  <2>9. Put(m, i.rd, v) \in Machine
    BY <2>7, Puts, Zenon
  <2> QED
    BY <2>8, <2>9
<1>2. ASSUME i.cls = "DataProc2src" PROVE DisasDataProc2src(m, i) \in Machine
  <2>1. /\ i.rn \in Regs /\ i.rm \in Regs
        /\ i.opc \in {"UDIV", "SDIV"} \cup Shift
        /\ "UDIV" \in Operations \cup {"SUB"} /\ "SDIV" \in Operations \cup {"SUB"}
    BY <1>2, Named DEF IntegerFields
  <2>2. i.opc \in Operations \cup {"SUB"}
    BY <2>1 DEF Operations, Shift
  <2>3. (IF i.opc = "SDIV" THEN "SDIV" ELSE "UDIV") \in Operations \cup {"SUB"}
    BY <2>1
  <2>4. DivReg(m, i.rd, i.rn, i.rm, i.opc = "SDIV", i.sf) \in Machine
    BY <2>1, <2>3, RegOps, Zenon DEF DivReg
  <2>5. ShiftReg(m, i.rd, i.rn, i.rm, i.opc, i.sf) \in Machine
    BY <2>1, <2>2, RegOps, Zenon DEF ShiftReg
  <2> QED
    BY <2>4, <2>5 DEF DisasDataProc2src
<1> QED
  BY <1>1, <1>2

(***************************************************************************)
(* Numbers of several digits.                                              *)
(***************************************************************************)

(* What holds of the first value and is kept from each to the next holds   *)
(* of the last.                                                            *)
LEMMA HoldsAtEnd ==
    ASSUME NEW n \in Nat, NEW V, NEW g, g[0] \in V, \A k \in 1 .. n : g[k - 1] \in V => g[k] \in V
    PROVE  g[n] \in V
<1> DEFINE S == {k \in 0 .. n : g[k] \in V}
<1>1. 0 \in S
  OBVIOUS
<1>2. ASSUME NEW k \in 0 .. n - 1, k \in S PROVE k + 1 \in S
  <2>1. k + 1 \in 1 .. n /\ (k + 1) - 1 = k /\ g[k] \in V
    BY <1>2
  <2> QED
    BY <2>1
<1> HIDE DEF S
<1>3. 0 .. n \subseteq S
  BY <1>1, <1>2, IntervalInduction
<1> QED
  BY <1>3 DEF S

(* A digit above the digits so far.                                        *)
LEMMA NextDigit ==
    ASSUME NEW P \in Nat, NEW Q \in Nat, NEW f \in Nat, NEW d \in Nat, f < P, d < Q
    PROVE  f + d * P \in Nat /\ f + d * P < P * Q
<1>1. PICK z \in Nat : Q = d + 1 + z
  <2>1. Q - (d + 1) \in Nat /\ Q = d + 1 + (Q - (d + 1))
    OBVIOUS
  <2> QED
    BY <2>1
<1>2. P * Q = d * P + P + z * P /\ z * P \in Nat /\ d * P \in Nat
  BY <1>1
<1> QED
  BY <1>2

(* n digits of w bits make a number of n * w bits.                         *)
LEMMA DigitsRange ==
    ASSUME NEW n \in Nat, NEW w \in Nat, NEW d, \A k \in 0 .. n - 1 : d[k] \in Nat /\ d[k] < 2^w
    PROVE  FromDigits(d, n, w) \in Nat /\ FromDigits(d, n, w) < 2^(n * w)
<1> DEFINE Rule(g) == [k \in 0 .. n |-> IF k = 0 THEN 0 ELSE g[k - 1] + d[k - 1] * 2^((k - 1) * w)]
           step == [p \in Nat \X (1 .. n) |-> p[1] + d[p[2] - 1] * 2^((p[2] - 1) * w)]
           below == CHOOSE g : g = Rule(g)
<1>1. ASSUME NEW k \in 1 .. n
      PROVE  /\ k - 1 \in 0 .. n - 1 /\ k \in Nat /\ k - 1 \in Nat /\ d[k - 1] \in Nat /\ d[k - 1] < 2^w
             /\ (k - 1) * w \in Nat /\ 2^((k - 1) * w) \in Nat
             /\ 2^w \in Nat /\ 2^(k * w) = 2^((k - 1) * w) * 2^w
  <2>1. k - 1 \in 0 .. n - 1 /\ k \in Nat /\ k - 1 \in Nat
    OBVIOUS
  <2>2. (k - 1) * w \in Nat /\ k * w = (k - 1) * w + w
    BY <2>1
  <2>3. 2^((k - 1) * w + w) = 2^((k - 1) * w) * 2^w
    BY <2>2, PowerSum
  <2> QED
    BY <2>1, <2>2, <2>3, Power
<1>2. step \in [Nat \X (1 .. n) -> Nat]
  <2>1. \A a \in Nat, k \in 1 .. n : a + d[k - 1] * 2^((k - 1) * w) \in Nat
    <3> TAKE a \in Nat, k \in 1 .. n
    <3>1. \A x, y \in Nat : a + x * y \in Nat
      OBVIOUS
    <3> QED
      BY <1>1, <3>1
  <2> QED
    BY <2>1
<1>3. PICK f : DefinedFrom(f, n, Nat, 0, step)
  <2> HIDE DEF step
  <2> QED
    BY <1>2, IntervalRecursion
<1>4. f = Rule(f)
  <2>1. ASSUME NEW k \in 0 .. n
        PROVE  f[k] = IF k = 0 THEN 0 ELSE f[k - 1] + d[k - 1] * 2^((k - 1) * w)
    <3>1. CASE k = 0
      BY <1>3, <3>1 DEF DefinedFrom
    <3>2. CASE k \in 1 .. n
      <4>1. f[k - 1] \in Nat
        BY <1>3, <3>2 DEF DefinedFrom
      <4>2. f[k] = step[<<f[k - 1], k>>]
        <5> HIDE DEF step
        <5> QED
          BY <1>3, <3>2 DEF DefinedFrom
      <4> QED
        BY <3>2, <4>1, <4>2
    <3> QED
      BY <3>1, <3>2
  <2>2. f = [k \in 0 .. n |-> f[k]]
    BY <1>3 DEF DefinedFrom
  <2> QED
    BY <2>1, <2>2
<1>5. below = Rule(below)
  <2> HIDE DEF Rule
  <2> QED
    BY <1>4
<1>6. FromDigits(d, n, w) = below[n]
  BY DEF FromDigits
<1> HIDE DEF below, step
<1> DEFINE V == {p \in (0 .. n) \X Nat : p[2] < 2^(p[1] * w)}
           h == [k \in 0 .. n |-> <<k, below[k]>>]
<1>7. /\ below[0] = 0
      /\ \A k \in 1 .. n : below[k] = below[k - 1] + d[k - 1] * 2^((k - 1) * w)
  BY <1>5
<1>8. h[0] \in V
  <2>1. 0 * w = 0 /\ 0 \in 0 .. n
    OBVIOUS
  <2>2. h[0] = <<0, 0>>
    BY <1>7, <2>1
  <2>3. <<0, 0>> \in (0 .. n) \X Nat /\ 0 < 2^(0 * w)
    <3>1. 2^(0 * w) = 2^0
      BY <2>1, Zenon
    <3> QED
      BY <2>1, <3>1, Sizes
  <2> QED
    BY <2>2, <2>3
<1>9. ASSUME NEW k \in 1 .. n, h[k - 1] \in V PROVE h[k] \in V
  <2>1. k - 1 \in 0 .. n /\ k \in 0 .. n
    OBVIOUS
  <2>2. below[k - 1] \in Nat /\ below[k - 1] < 2^((k - 1) * w)
    BY <1>9, <2>1
  <2>3. below[k] = below[k - 1] + d[k - 1] * 2^((k - 1) * w)
    BY <1>7
  <2>4. below[k] \in Nat /\ below[k] < 2^(k * w)
    <3>1. ASSUME NEW P \in Nat, NEW Q \in Nat, NEW a \in Nat, NEW b \in Nat, a < P, b < Q
          PROVE  a + b * P \in Nat /\ a + b * P < P * Q
      BY <3>1, NextDigit
    <3>2. below[k - 1] + d[k - 1] * 2^((k - 1) * w) \in Nat
      BY <1>1, <2>2, <3>1, Zenon
    <3>3. below[k - 1] + d[k - 1] * 2^((k - 1) * w) < 2^((k - 1) * w) * 2^w
      BY <1>1, <2>2, <3>1, Zenon
    <3>4. 2^(k * w) = 2^((k - 1) * w) * 2^w
      BY <1>1
    <3> QED
      BY <2>3, <3>2, <3>3, <3>4
  <2> QED
    BY <2>1, <2>4
<1> HIDE DEF V, h
<1>10. h[n] \in V
  BY <1>8, <1>9, HoldsAtEnd
<1> QED
  BY <1>6, <1>10 DEF V, h

(* Sizes of accesses: 1, 2, 4 and 8 bytes, and 16 for a whole vector.      *)
LEMMA ByteCounts ==
    /\ Bytes(0) = 1 /\ Bytes(1) = 2 /\ Bytes(2) = 4 /\ Bytes(3) = 8 /\ Bytes(4) = 16
    /\ \A size \in 0 .. 4 : /\ Bytes(size) \in {1, 2, 4, 8, 16} /\ BitsOf(size) \in Nat
                            /\ BitsOf(size) <= 2 * Wide
    /\ \A size \in 0 .. 3 : Bytes(size) \in {1, 2, 4, 8} /\ BitsOf(size) <= Wide
    /\ BitsOf(3) = Wide /\ BitsOf(4) = 2 * Wide
<1>1. Bytes(0) = 1 /\ Bytes(1) = 2 /\ Bytes(2) = 4 /\ Bytes(3) = 8 /\ Bytes(4) = 16
  BY Sizes DEF Bytes
<1>2. 0 .. 4 = {0, 1, 2, 3, 4} /\ 0 .. 3 = {0, 1, 2, 3}
  OBVIOUS
<1>3. /\ BitsOf(0) = Byte /\ BitsOf(1) = 2 * Byte /\ BitsOf(2) = 4 * Byte
      /\ BitsOf(3) = 8 * Byte /\ BitsOf(4) = 16 * Byte
  BY <1>1, Widths DEF BitsOf
<1> QED
  BY <1>1, <1>2, <1>3, Widths

(* An element of a register lies in it.                                    *)
LEMMA IndexFits ==
    ASSUME NEW size \in 0 .. 3, NEW e, IsIndex(e, size)
    PROVE  /\ e \in Nat /\ e * BitsOf(size) \in Nat
           /\ e * BitsOf(size) + BitsOf(size) <= 2 * Wide
<1>1. 16 \div 1 = 16 /\ 16 \div 2 = 8 /\ 16 \div 4 = 4 /\ 16 \div 8 = 2
  OBVIOUS
<1>2. size \in {0, 1, 2, 3}
  OBVIOUS
<1>3. /\ size = 0 => e \in 0 .. 15
      /\ size = 1 => e \in 0 .. 7
      /\ size = 2 => e \in 0 .. 3
      /\ size = 3 => e \in 0 .. 1
  BY <1>1, ByteCounts DEF IsIndex
<1>4. e \in Nat
  BY <1>2, <1>3
<1>5. ASSUME NEW b \in Nat, NEW c \in Nat, e + 1 <= c PROVE e * b \in Nat /\ e * b + b <= c * b
  <2>1. PICK z \in Nat : c = e + 1 + z
    <3>1. c - (e + 1) \in Nat /\ c = e + 1 + (c - (e + 1))
      BY <1>4, <1>5
    <3> QED
      BY <3>1
  <2>2. c * b = e * b + b + z * b /\ z * b \in Nat /\ e * b \in Nat
    BY <1>4, <2>1
  <2> QED
    BY <2>2
<1>6. /\ BitsOf(0) = Byte /\ BitsOf(1) = 2 * Byte /\ BitsOf(2) = 4 * Byte /\ BitsOf(3) = 8 * Byte
  BY ByteCounts, Widths DEF BitsOf
<1>7. CASE size = 0
  <2>1. e * Byte \in Nat /\ e * Byte + Byte <= 16 * Byte
    BY <1>3, <1>4, <1>5, <1>7, Widths
  <2> QED
    BY <1>4, <1>6, <1>7, <2>1, Widths
<1>8. CASE size = 1
  <2> DEFINE b == 2 * Byte
  <2>1. b \in Nat /\ 8 * b = 2 * Wide /\ BitsOf(size) = b /\ e + 1 <= 8
    BY <1>3, <1>4, <1>6, <1>8, Widths
  <2> HIDE DEF b
  <2> QED
    BY <1>4, <1>5, <2>1
<1>9. CASE size = 2
  <2> DEFINE b == 4 * Byte
  <2>1. b \in Nat /\ 4 * b = 2 * Wide /\ BitsOf(size) = b /\ e + 1 <= 4
    BY <1>3, <1>4, <1>6, <1>9, Widths
  <2> HIDE DEF b
  <2> QED
    BY <1>4, <1>5, <2>1
<1>10. CASE size = 3
  <2> DEFINE b == 8 * Byte
  <2>1. b \in Nat /\ 2 * b = 2 * Wide /\ BitsOf(size) = b /\ e + 1 <= 2
    BY <1>3, <1>4, <1>6, <1>10, Widths
  <2> HIDE DEF b
  <2> QED
    BY <1>4, <1>5, <2>1
<1> QED
  BY <1>2, <1>7, <1>8, <1>9, <1>10

(***************************************************************************)
(* Vector registers and memory.                                            *)
(***************************************************************************)

(* What fits into a vector register; a word does.                          *)
LEMMA Quads ==
    /\ \A v : v \in Quad <=> v \in Nat /\ v < 2^(2 * Wide)
    /\ Word \subseteq Quad
<1>1. 2 * Wide \in Nat /\ Wide <= 2 * Wide /\ 2^(2 * Wide) \in Nat
  BY Widths, Power
<1>2. 2^Wide <= 2^(2 * Wide) /\ 2^Wide \in Nat
  BY <1>1, PowerOrder, Widths
<1> QED
  BY <1>1, <1>2 DEF Quad, Word

(* A number that fits into the bits of a size.                             *)
LEMMA Fits ==
    ASSUME NEW size \in 0 .. 4, NEW x \in Nat, x < 2^BitsOf(size)
    PROVE  x \in Quad /\ (size # 4 => x \in Word)
<1>1. BitsOf(size) \in Nat /\ BitsOf(size) <= 2 * Wide /\ 2 * Wide \in Nat
  BY ByteCounts, Widths
<1>2. 2^BitsOf(size) <= 2^(2 * Wide) /\ 2^BitsOf(size) \in Nat /\ 2^(2 * Wide) \in Nat
  BY <1>1, PowerOrder
<1>3. x \in Quad
  BY <1>2, Quads
<1>4. ASSUME size # 4 PROVE x \in Word
  <2>1. size \in 0 .. 3
    BY <1>4
  <2>2. BitsOf(size) <= Wide
    BY <2>1, ByteCounts
  <2>3. 2^BitsOf(size) <= 2^Wide /\ 2^Wide \in Nat
    BY <1>1, <2>2, PowerOrder, Widths
  <2> QED
    BY <1>2, <2>3 DEF Word
<1> QED
  BY <1>3, <1>4

(* An element read from a register fits its size.                          *)
LEMMA LaneRange ==
    ASSUME NEW v \in Nat, NEW e \in Nat, NEW size \in 0 .. 4
    PROVE  /\ Lane(v, e, size) \in Nat /\ Lane(v, e, size) < 2^BitsOf(size)
           /\ Lane(v, e, size) \in Quad /\ (size # 4 => Lane(v, e, size) \in Word)
<1>1. BitsOf(size) \in Nat
  BY ByteCounts
<1>2. \A b \in Nat : e * b \in Nat
  OBVIOUS
<1>3. 2^(e * BitsOf(size)) \in Nat /\ 2^(e * BitsOf(size)) # 0
  BY <1>1, <1>2, Power
<1>4. v \div 2^(e * BitsOf(size)) \in Int
  BY <1>3, QuotientRange
<1>5. Lane(v, e, size) \in Nat /\ Lane(v, e, size) < 2^BitsOf(size)
  BY <1>1, <1>4, LowRange DEF Lane
<1> QED
  BY <1>5, Fits

(* A digit of a number replaced.                                           *)
LEMMA Replaced ==
    ASSUME NEW K \in Nat, NEW L \in Nat, NEW M \in Nat, K # 0, L # 0, NEW v \in Nat, v < K * (L * M),
           NEW d \in Nat, d < L
    PROVE  /\ v + (d - ((v \div K) % L)) * K \in Nat
           /\ v + (d - ((v \div K) % L)) * K < K * (L * M)
<1>1. PICK q \in Nat, r \in Nat : v = K * q + r /\ r < K /\ v \div K = q
  OBVIOUS
<1>2. PICK p \in Nat, l \in Nat : q = L * p + l /\ l < L /\ q % L = l
  OBVIOUS
<1>3. L * p \in Nat /\ K * (L * p) \in Nat /\ K * l \in Nat /\ K * d \in Nat
  OBVIOUS
<1>4. K * q = K * (L * p) + K * l
  BY <1>2, <1>3
<1>5. (d - l) * K = K * d - K * l
  OBVIOUS
<1>6. v + (d - ((v \div K) % L)) * K = K * (L * p) + K * d + r
  <2>1. (v \div K) % L = l
    BY <1>1, <1>2
  <2>2. v + (d - l) * K = K * (L * p) + K * d + r
    BY <1>1, <1>3, <1>4, <1>5
  <2> QED
    BY <2>1, <2>2, Zenon
<1>7. p < M
  <2> SUFFICES ASSUME ~(p < M) PROVE FALSE
    OBVIOUS
  <2>1. PICK z \in Nat : p = M + z
    <3>1. p - M \in Nat /\ p = M + (p - M)
      OBVIOUS
    <3> QED
      BY <3>1
  <2>2. L * p = L * M + L * z /\ L * M \in Nat /\ L * z \in Nat
    BY <2>1
  <2>3. K * (L * p) = K * (L * M) + K * (L * z) /\ K * (L * M) \in Nat /\ K * (L * z) \in Nat
    BY <2>2
  <2> QED
    BY <1>1, <1>3, <1>4, <2>3
<1>8. PICK s \in Nat : M = p + 1 + s
  <2>1. M - (p + 1) \in Nat /\ M = p + 1 + (M - (p + 1))
    BY <1>7
  <2> QED
    BY <2>1
<1>9. L * M = L * p + L + L * s /\ L * s \in Nat
  BY <1>8
<1>10. K * (L * M) = K * (L * p) + K * L + K * (L * s) /\ K * (L * s) \in Nat /\ K * L \in Nat
  BY <1>9
<1>11. PICK t \in Nat : L = d + 1 + t
  <2>1. L - (d + 1) \in Nat /\ L = d + 1 + (L - (d + 1))
    OBVIOUS
  <2> QED
    BY <2>1
<1>12. K * L = K * d + K + K * t /\ K * t \in Nat
  BY <1>11
<1> QED
  BY <1>1, <1>3, <1>6, <1>10, <1>12

(* A register with one element replaced is still one.                      *)
LEMMA WithLaneRange ==
    ASSUME NEW v \in Quad, NEW size \in 0 .. 3, NEW e, IsIndex(e, size),
           NEW val \in Nat, val < 2^BitsOf(size)
    PROVE  WithLane(v, e, size, val) \in Quad
<1> DEFINE k == e * BitsOf(size)
           b == BitsOf(size)
           c == (2 * Wide) - (k + b)
<1>1. k \in Nat /\ b \in Nat /\ k + b \in Nat /\ c \in Nat /\ (k + b) + c = 2 * Wide
  <2>1. k \in Nat /\ k + b <= 2 * Wide
    BY IndexFits
  <2>2. size \in 0 .. 4
    OBVIOUS
  <2>3. b \in Nat
    BY <2>2, ByteCounts
  <2> HIDE DEF k, b
  <2> QED
    BY <2>1, <2>3, Widths
<1>2. WithLane(v, e, size, val) = v + (val - ((v \div 2^k) % 2^b)) * 2^k
  <2>1. WithLane(v, e, size, val) = v + (val - Lane(v, e, size)) * 2^(e * BitsOf(size))
    BY Zenon DEF WithLane
  <2>2. Lane(v, e, size) = (v \div 2^(e * BitsOf(size))) % 2^BitsOf(size)
    BY Zenon DEF Lane, Low
  <2> QED
    BY <2>1, <2>2, Zenon
<1>3. val < 2^b
  OBVIOUS
<1> HIDE DEF k, b, c
<1>4. /\ 2^k \in Nat /\ 2^k # 0 /\ 2^b \in Nat /\ 2^b # 0 /\ 2^c \in Nat
      /\ b + c \in Nat /\ k + (b + c) = 2 * Wide
  BY <1>1, Power
<1>5. 2^(b + c) = 2^b * 2^c /\ 2^(k + (b + c)) = 2^k * 2^(b + c)
  BY <1>1, <1>4, PowerSum
<1>6. 2^(2 * Wide) = 2^k * (2^b * 2^c)
  BY <1>4, <1>5
<1>7. v \in Nat /\ v < 2^k * (2^b * 2^c)
  BY <1>6, Quads
<1>8. /\ v + (val - ((v \div 2^k) % 2^b)) * 2^k \in Nat
      /\ v + (val - ((v \div 2^k) % 2^b)) * 2^k < 2^k * (2^b * 2^c)
  BY <1>3, <1>4, <1>7, Replaced, Zenon
<1> QED
  BY <1>2, <1>6, <1>8, Quads

(* Vector registers take and give what fits into them.                     *)
LEMMA VectorPuts ==
    ASSUME NEW m \in Machine, NEW vd
    PROVE  /\ \A v \in Quad : PutV(m, vd, v) \in Machine
           /\ vd \in VRegs => m.vreg[vd] \in Quad /\ m.vreg[vd] \in Nat
<1>1. \A v \in Quad : PutV(m, vd, v) \in Machine
  BY DEF PutV, Machine
<1>2. vd \in VRegs => m.vreg[vd] \in Quad
  BY DEF Machine
<1> QED
  BY <1>1, <1>2, Quads

(* Writing one element leaves a machine.                                   *)
LEMMA LanePuts ==
    ASSUME NEW m \in Machine, NEW vd \in VRegs, NEW size \in 0 .. 3, NEW e, IsIndex(e, size),
           NEW val \in Nat, val < 2^BitsOf(size)
    PROVE  PutLane(m, vd, e, size, val) \in Machine
<1>1. WithLane(m.vreg[vd], e, size, val) \in Quad
  BY VectorPuts, WithLaneRange
<1> QED
  BY <1>1, VectorPuts DEF PutLane

(* The bytes of an access.                                                 *)
LEMMA SpanWords ==
    ASSUME NEW addr \in Nat, NEW size \in 0 .. 4
    PROVE  Span(addr, size) \subseteq Word
<1>1. Bytes(size) \in Nat
  BY ByteCounts
<1>2. (addr + Bytes(size)) % 2^Wide \in Word
  BY <1>1, WrapsWord
<1> QED
  BY <1>2, Power, Widths DEF Span, Word

(* Each byte of memory is one, those never written included.               *)
LEMMA MemoryBytes ==
    ASSUME NEW m \in Machine
    PROVE  /\ \A a \in Word : ByteAt(m.mem, a) \in Nat /\ ByteAt(m.mem, a) < 2^Byte
           /\ DOMAIN m.mem \subseteq Word
           /\ \A a \in DOMAIN m.mem : m.mem[a] \in 0 .. 2^Byte - 1
<1>1. PICK D \in SUBSET Word : m.mem \in [D -> 0 .. 2^Byte - 1]
  BY DEF Machine, Memories
<1>2. 2^Byte \in Nat /\ 2^Byte # 0
  BY Widths, Power
<1>3. \A a \in Word : ByteAt(m.mem, a) \in 0 .. 2^Byte - 1
  BY <1>1, DataAssumption DEF ByteAt
<1> QED
  BY <1>1, <1>2, <1>3

(* A read fits the size of the access, also where the access wraps         *)
(* (MMU.cpp: ReadFromRAM).                                                 *)
LEMMA MemoryReads ==
    ASSUME NEW m \in Machine, NEW addr \in Nat, NEW size \in 0 .. 4
    PROVE  ReadFromRAM(m, addr, size) \in Nat /\ ReadFromRAM(m, addr, size) < 2^BitsOf(size)
<1> DEFINE d == [k \in 0 .. Bytes(size) - 1 |->
                   IF addr + k \in Span(addr, size) THEN ByteAt(m.mem, addr + k) ELSE 0]
<1>1. Bytes(size) \in Nat /\ Byte \in Nat /\ 2^Byte \in Nat /\ 2^Byte # 0
  BY ByteCounts, Widths, Power
<1>2. \A k \in 0 .. Bytes(size) - 1 : d[k] \in Nat /\ d[k] < 2^Byte
  <2> TAKE k \in 0 .. Bytes(size) - 1
  <2>1. d[k] = IF addr + k \in Span(addr, size) THEN ByteAt(m.mem, addr + k) ELSE 0
    OBVIOUS
  <2>2. addr + k \in Span(addr, size) => ByteAt(m.mem, addr + k) \in Nat /\ ByteAt(m.mem, addr + k) < 2^Byte
    BY SpanWords, MemoryBytes
  <2> HIDE DEF d
  <2> QED
    BY <1>1, <2>1, <2>2
<1>3. ReadFromRAM(m, addr, size) = FromDigits(d, Bytes(size), Byte)
  BY DEF ReadFromRAM
<1> HIDE DEF d
<1>4. FromDigits(d, Bytes(size), Byte) \in Nat /\ FromDigits(d, Bytes(size), Byte) < 2^(Bytes(size) * Byte)
  BY <1>1, <1>2, DigitsRange, Zenon
<1> QED
  BY <1>3, <1>4 DEF BitsOf

(* A write stores bytes at addresses (MMU.cpp: WriteToRAM).                *)
LEMMA MemoryWrites ==
    ASSUME NEW m \in Machine, NEW addr \in Nat, NEW size \in 0 .. 4, NEW val \in Nat
    PROVE  WriteToRAM(m, addr, size, val) \in Machine
<1> DEFINE new == [a \in (DOMAIN m.mem) \cup Span(addr, size) |->
                     IF a \in Span(addr, size) THEN (val \div 2^((a - addr) * Byte)) % 2^Byte ELSE m.mem[a]]
<1>1. \A a \in Span(addr, size) : (val \div 2^((a - addr) * Byte)) % 2^Byte \in 0 .. 2^Byte - 1
  <2> TAKE a \in Span(addr, size)
  <2>1. a - addr \in Nat /\ Byte \in Nat
    <3>1. a \in Word /\ a >= addr /\ a \in Int
      <4>1. a \in Word
        BY SpanWords
      <4>2. a \in Int
        BY <4>1, WordInt
      <4>3. (addr + Bytes(size)) % 2^Wide \in Int
        <5>1. addr + Bytes(size) \in Int
          BY ByteCounts
        <5> QED
          BY <5>1, WrapsWord, WordInt, Zenon
      <4> QED
        BY <4>1, <4>2, <4>3 DEF Span
    <3> QED
      BY <3>1, Widths
  <2>2. (a - addr) * Byte \in Nat
    BY <2>1
  <2>3. 2^((a - addr) * Byte) \in Nat /\ 2^((a - addr) * Byte) # 0 /\ 2^Byte \in Nat /\ 2^Byte # 0
    BY <2>1, <2>2, Power
  <2>4. val \div 2^((a - addr) * Byte) \in Int
    BY <2>3, QuotientRange
  <2> QED
    BY <2>3, <2>4, ModOnce
<1>2. new \in [(DOMAIN m.mem) \cup Span(addr, size) -> 0 .. 2^Byte - 1]
  BY <1>1, MemoryBytes
<1>3. (DOMAIN m.mem) \cup Span(addr, size) \in SUBSET Word
  BY SpanWords, MemoryBytes
<1>4. new \in Memories
  <2> HIDE DEF new
  <2> QED
    BY <1>2, <1>3 DEF Memories
<1>5. WriteToRAM(m, addr, size, val) = [m EXCEPT !.mem = new]
  BY DEF WriteToRAM
<1> HIDE DEF new
<1>6. [m EXCEPT !.mem = new] \in Machine
  BY <1>4 DEF Machine
<1> QED
  BY <1>5, <1>6

(* A load of any size, a vector register in two parts.                     *)
LEMMA Fetches ==
    ASSUME NEW m \in Machine, NEW addr \in Nat, NEW size \in 0 .. 4
    PROVE  /\ Fetch(m, addr, size) \in Quad /\ (size # 4 => Fetch(m, addr, size) \in Word)
           /\ UpperPart(addr) \in Nat
<1>1. 3 \in 0 .. 4 /\ BitsOf(3) = Wide
  BY ByteCounts
<1>2. UpperPart(addr) \in Nat
  <2>1. addr + Bytes(3) \in Int
    BY ByteCounts
  <2> QED
    BY <2>1, WrapsWord, WordNat DEF UpperPart
<1>3. CASE size = 4
  <2> DEFINE f == ReadFromRAM(m, addr, 3)
             d == ReadFromRAM(m, UpperPart(addr), 3)
  <2>1. f \in Nat /\ f < 2^Wide /\ d \in Nat /\ d < 2^Wide
    BY <1>1, <1>2, MemoryReads
  <2>2. Fetch(m, addr, size) = f + d * 2^Wide
    BY <1>3 DEF Fetch
  <2> HIDE DEF f, d
  <2>3. 2^Wide \in Nat /\ 2^(Wide + Wide) = 2^Wide * 2^Wide /\ Wide + Wide = 2 * Wide
    BY Widths, Power, PowerSum
  <2>4. f + d * 2^Wide \in Nat /\ f + d * 2^Wide < 2^Wide * 2^Wide
    BY <2>1, <2>3, NextDigit
  <2> QED
    BY <1>2, <1>3, <2>2, <2>3, <2>4, Quads
<1>4. CASE size # 4
  <2>1. Fetch(m, addr, size) = ReadFromRAM(m, addr, size)
    BY <1>4 DEF Fetch
  <2>2. ReadFromRAM(m, addr, size) \in Nat /\ ReadFromRAM(m, addr, size) < 2^BitsOf(size)
    BY MemoryReads
  <2> QED
    BY <1>2, <2>1, <2>2, Fits
<1> QED
  BY <1>3, <1>4

(* A store of any size.                                                    *)
LEMMA Stores ==
    ASSUME NEW m \in Machine, NEW addr \in Nat, NEW size \in 0 .. 4, NEW val \in Nat
    PROVE  Store(m, addr, size, val) \in Machine
<1>1. 3 \in 0 .. 4
  OBVIOUS
<1>2. UpperPart(addr) \in Nat
  BY Fetches
<1>3. val \div 2^Wide \in Nat
  BY Power, Widths, QuotientRange
<1>4. WriteToRAM(m, addr, 3, val) \in Machine
  BY <1>1, MemoryWrites, Zenon
<1>5. WriteToRAM(WriteToRAM(m, addr, 3, val), UpperPart(addr), 3, val \div 2^Wide) \in Machine
  BY <1>1, <1>2, <1>3, <1>4, MemoryWrites, Zenon
<1>6. WriteToRAM(m, addr, size, val) \in Machine
  BY MemoryWrites, Zenon
<1> QED
  BY <1>5, <1>6 DEF Store

(***************************************************************************)
(* Loads and stores.                                                       *)
(***************************************************************************)

(* The registers of a load or store.                                       *)
LEMMA RegisterKinds ==
    /\ \A r \in Vectors : r \in VRegs
    /\ VREG_DUMMY \in VRegs
    /\ \A r \in Vectors : r \in Nat
    /\ \A whole : Holders(whole) = (IF whole THEN Vectors ELSE Visible)
<1>1. Vectors \subseteq 0 .. 31
  BY CpuAssumption
<1> QED
  BY <1>1 DEF VRegs, Holders

(* The callbacks that load and store.                                      *)
LEMMA Transports ==
    ASSUME NEW m \in Machine, NEW addr \in Nat, NEW size \in 0 .. 4, NEW rd
    PROVE  /\ \A s, x : LoadFrom(m, rd, addr, size, s, x) \in Machine
           /\ LoadFpFrom(m, rd, addr, size) \in Machine
           /\ rd \in Regs /\ size # 4 => StoreTo(m, rd, addr, size) \in Machine
           /\ rd \in VRegs /\ size = 4 => StoreTo(m, rd, addr, size) \in Machine
           /\ rd \in VRegs => StoreFpTo(m, rd, addr, size) \in Machine
<1> DEFINE val == Fetch(m, addr, size)
<1>1. val \in Quad /\ (size # 4 => val \in Word)
  BY Fetches
<1> HIDE DEF val
<1>2. ASSUME NEW s, NEW x PROVE LoadFrom(m, rd, addr, size, s, x) \in Machine
  <2>1. LoadFrom(m, rd, addr, size, s, x)
        = IF size = 4 THEN PutV(m, rd, val) ELSE Put(m, rd, IF x /\ s THEN Sext(val, Half) ELSE val)
    BY DEF LoadFrom, val
  <2>2. PutV(m, rd, val) \in Machine
    BY <1>1, VectorPuts
  <2>3. ASSUME size # 4 PROVE Put(m, rd, IF x /\ s THEN Sext(val, Half) ELSE val) \in Machine
    <3>1. val \in Int /\ val \in Word
      BY <1>1, <2>3, WordInt
    <3>2. Sext(val, Half) \in Word
      BY <3>1, SignedRange, Widths
    <3>3. (IF x /\ s THEN Sext(val, Half) ELSE val) \in Word
      BY <3>1, <3>2
    <3> QED
      BY <3>3, Puts, Zenon
  <2> QED
    BY <2>1, <2>2, <2>3
<1>3. LoadFpFrom(m, rd, addr, size) \in Machine
  BY <1>1, VectorPuts DEF LoadFpFrom, val
<1>4. ASSUME rd \in Regs, size # 4 PROVE StoreTo(m, rd, addr, size) \in Machine
  <2>1. BitsOf(size) \in Nat /\ X(m, rd) \in Int
    BY <1>4, ByteCounts, Reads
  <2>2. Low(X(m, rd), BitsOf(size)) \in Nat
    BY <2>1, LowRange
  <2> QED
    BY <1>4, <2>2, Stores DEF StoreTo
<1>5. ASSUME rd \in VRegs, size = 4 PROVE StoreTo(m, rd, addr, size) \in Machine
  <2>1. m.vreg[rd] \in Nat
    BY <1>5, VectorPuts
  <2> QED
    BY <1>5, <2>1, Stores DEF StoreTo
<1>6. ASSUME rd \in VRegs PROVE StoreFpTo(m, rd, addr, size) \in Machine
  <2>1. m.vreg[rd] \in Nat /\ 0 \in Nat
    BY <1>6, VectorPuts
  <2>2. Lane(m.vreg[rd], 0, size) \in Nat
    BY <2>1, LaneRange
  <2> QED
    BY <2>2, Stores, Zenon DEF StoreFpTo
<1> QED
  BY <1>2, <1>3, <1>4, <1>5, <1>6

(* An address from a base and an index register.                           *)
LEMMA Indexing ==
    ASSUME NEW m \in Machine, NEW base \in Visible, NEW rm \in Regs, NEW bit64
    PROVE  Indexed(m, base, rm, bit64) \in Nat
<1>1. HandleAsSP(base) \in Regs
  BY Named
<1>2. X(m, HandleAsSP(base)) \in Nat /\ Read(m, rm, bit64) \in Nat
  BY <1>1, Reads
<1>3. X(m, HandleAsSP(base)) + Read(m, rm, bit64) \in Int
  BY <1>2
<1> QED
  BY <1>3, WrapsWord, WordNat DEF Indexed

(* A base register moved by an offset of either sign.                      *)
LEMMA Moving ==
    ASSUME NEW m \in Machine, NEW rn \in Regs, NEW by \in Int
    PROVE  Moved(m, rn, by) \in Machine /\ Based(m, rn, by) \in Machine
<1>1. by % 2^Wide \in Nat
  BY Immediates
<1> QED
  BY <1>1, AddI64s, Zenon DEF Moved, Based

(* Indexing before the access and write-back after it.                     *)
LEMMA FirstAddresses ==
    ASSUME NEW m \in Machine, NEW i, NEW rn \in Regs, NEW offset \in Int
    PROVE  FirstAddress(m, i, rn, offset) \in Machine /\ WriteBack(m, i, rn, offset) \in Machine
<1>1. MovReg(m, GPR_DUMMY, rn, TRUE) \in Machine
  BY Moves, Zenon
<1>2. Based(MovReg(m, GPR_DUMMY, rn, TRUE), rn, offset) \in Machine
  BY <1>1, Moving, Zenon
<1>3. Moved(m, rn, offset) \in Machine
  BY Moving, Zenon
<1> QED
  BY <1>1, <1>2, <1>3 DEF FirstAddress, WriteBack

(* A register that an access of this size may name.                        *)
Holds(rt, size) == IF size = 4 THEN rt \in Vectors ELSE rt \in Visible

(* An access at the address in a register.                                 *)
LEMMA AtAddress ==
    ASSUME NEW m \in Machine, NEW ad \in Regs, NEW size \in 0 .. 4, NEW rt, Holds(rt, size)
    PROVE  /\ \A s, x : LoadRegI64(m, rt, ad, size, s, x) \in Machine
           /\ StoreRegI64(m, rt, ad, size) \in Machine
<1>1. X(m, ad) \in Nat
  BY Reads
<1>2. \A s, x : LoadFrom(m, rt, X(m, ad), size, s, x) \in Machine
  BY <1>1, Transports
<1>3. /\ rt \in Regs /\ size # 4 => StoreTo(m, rt, X(m, ad), size) \in Machine
      /\ rt \in VRegs /\ size = 4 => StoreTo(m, rt, X(m, ad), size) \in Machine
  BY <1>1, Transports
<1>4. StoreTo(m, rt, X(m, ad), size) \in Machine
  BY <1>3, Named, RegisterKinds DEF Holds
<1> QED
  BY <1>2, <1>4 DEF LoadRegI64, StoreRegI64

(* An access at the address in the dummy register.                         *)
LEMMA AtDummies ==
    ASSUME NEW m \in Machine, NEW i, i.vector \in BOOLEAN, i.opc \in 0 .. 3, i.size \in 0 .. 3, SizeOf(i) <= 4,
           i.rt \in Holders(i.vector)
    PROVE  AtDummy(m, i) \in Machine /\ SizeOf(i) \in 0 .. 4
<1>1. SizeOf(i) \in 0 .. 4
  BY DEF SizeOf
<1>2. ASSUME i.vector
      PROVE  /\ StoreFpRegI64(m, i.rt, GPR_DUMMY, SizeOf(i)) \in Machine
             /\ LoadFpRegI64(m, i.rt, GPR_DUMMY, SizeOf(i)) \in Machine
  <2>1. X(m, GPR_DUMMY) \in Nat
    BY Reads, Named
  <2>2. i.rt \in VRegs
    BY <1>2, RegisterKinds
  <2>3. /\ LoadFpFrom(m, i.rt, X(m, GPR_DUMMY), SizeOf(i)) \in Machine
        /\ StoreFpTo(m, i.rt, X(m, GPR_DUMMY), SizeOf(i)) \in Machine
    BY <1>1, <2>1, <2>2, Transports
  <2> QED
    BY <2>3 DEF StoreFpRegI64, LoadFpRegI64
<1>3. ASSUME ~i.vector
      PROVE  /\ StoreRegI64(m, i.rt, GPR_DUMMY, i.size) \in Machine
             /\ \A s, x : LoadRegI64(m, i.rt, GPR_DUMMY, i.size, s, x) \in Machine
  <2>1. GPR_DUMMY \in Regs /\ i.size \in 0 .. 4 /\ Holds(i.rt, i.size)
    BY <1>3, Named, RegisterKinds DEF Holds
  <2> QED
    BY <2>1, AtAddress, Zenon
<1> QED
  BY <1>1, <1>2, <1>3 DEF AtDummy

(* Accesses with an immediate offset (DisasLdstRegImm9,                    *)
(* DisasLdstRegUnsignedImm).                                               *)
LEMMA SingleAccesses ==
    ASSUME NEW m \in Machine, NEW i, MemoryFields(i)
    PROVE  /\ i.cls = "LdstRegImm9" => DisasLdstRegImm9(m, i) \in Machine
           /\ i.cls = "LdstRegUnsignedImm" => DisasLdstRegUnsignedImm(m, i) \in Machine
<1>1. ASSUME i.cls = "LdstRegImm9" PROVE DisasLdstRegImm9(m, i) \in Machine
  <2>1. /\ i.vector \in BOOLEAN /\ i.opc \in 0 .. 3 /\ i.size \in 0 .. 3 /\ SizeOf(i) <= 4
        /\ i.rt \in Holders(i.vector) /\ i.rn \in Visible /\ i.imm \in Int
    BY <1>1 DEF MemoryFields
  <2>2. HandleAsSP(i.rn) \in Regs
    BY <2>1, Named
  <2>3. FirstAddress(m, i, HandleAsSP(i.rn), i.imm) \in Machine
    BY <2>1, <2>2, FirstAddresses, Zenon
  <2>4. AtDummy(FirstAddress(m, i, HandleAsSP(i.rn), i.imm), i) \in Machine
    <3>1. ASSUME NEW n \in Machine PROVE AtDummy(n, i) \in Machine
      BY <2>1, AtDummies
    <3> QED
      BY <2>3, <3>1, Zenon
  <2>5. WriteBack(AtDummy(FirstAddress(m, i, HandleAsSP(i.rn), i.imm), i), i, HandleAsSP(i.rn), i.imm) \in Machine
    BY <2>1, <2>2, <2>4, FirstAddresses, Zenon
  <2> QED
    BY <2>5 DEF DisasLdstRegImm9
<1>2. ASSUME i.cls = "LdstRegUnsignedImm" PROVE DisasLdstRegUnsignedImm(m, i) \in Machine
  <2>1. /\ i.vector \in BOOLEAN /\ i.opc \in 0 .. 3 /\ i.size \in 0 .. 3 /\ SizeOf(i) <= 4
        /\ i.rt \in Holders(i.vector) /\ i.rn \in Visible /\ i.imm \in Nat
    BY <1>2 DEF MemoryFields
  <2>2. HandleAsSP(i.rn) \in Regs
    BY <2>1, Named
  <2>3. i.imm * Bytes(SizeOf(i)) \in Int
    <3>1. SizeOf(i) \in 0 .. 4
      BY <2>1, AtDummies
    <3>2. Bytes(SizeOf(i)) \in Nat
      BY <3>1, ByteCounts
    <3> QED
      BY <2>1, <3>2
  <2>4. Based(m, HandleAsSP(i.rn), i.imm * Bytes(SizeOf(i))) \in Machine
    BY <2>2, <2>3, Moving, Zenon
  <2>5. AtDummy(Based(m, HandleAsSP(i.rn), i.imm * Bytes(SizeOf(i))), i) \in Machine
    <3>1. ASSUME NEW n \in Machine PROVE AtDummy(n, i) \in Machine
      BY <2>1, AtDummies
    <3> QED
      BY <2>4, <3>1, Zenon
  <2> QED
    BY <2>5 DEF DisasLdstRegUnsignedImm
<1> QED
  BY <1>1, <1>2

(* Accesses with an offset in a register (DisasLdstRegRoffset).            *)
LEMMA OffsetAccesses ==
    ASSUME NEW m \in Machine, NEW i, MemoryFields(i), i.cls = "LdstRegRoffset"
    PROVE  DisasLdstRegRoffset(m, i) \in Machine
<1> DEFINE wide == i.option.size = 3
           ext == ExtendReg(m, GPR_DUMMY, HandleAsSP(i.rm), i.option, wide)
           amount == IF i.shift THEN SizeOf(i) ELSE 0
           at == ShiftI64(ext, GPR_DUMMY, GPR_DUMMY, "LSL", amount, wide)
<1>1. /\ i.vector \in BOOLEAN /\ i.opc \in 0 .. 3 /\ i.size \in 0 .. 3 /\ SizeOf(i) <= 4
      /\ i.rt \in Holders(i.vector) /\ i.rn \in Visible /\ i.rm \in Visible /\ i.option \in Option
  BY DEF MemoryFields
<1>2. HandleAsSP(i.rm) \in Regs /\ GPR_DUMMY \in Regs /\ "LSL" \in Operations \cup {"SUB"}
  BY <1>1, Named
<1>3. SizeOf(i) \in 0 .. 4
  BY <1>1, AtDummies
<1>4. ext \in Machine /\ amount \in Nat
  <2>1. ext \in Machine
    BY <1>1, <1>2, Extends, Zenon
  <2> HIDE DEF ext
  <2> QED
    BY <1>3, <2>1
<1>5. at \in Machine
  <2> HIDE DEF ext, amount
  <2> QED
    BY <1>2, <1>4, ImmOps, Zenon
<1> DEFINE to == Indexed(at, i.rn, GPR_DUMMY, wide)
<1>6. to \in Nat
  <2> HIDE DEF at
  <2> QED
    BY <1>1, <1>2, <1>5, Indexing, Zenon
<1>7. DisasLdstRegRoffset(m, i) =
        CASE IsPrefetch(i) -> m
          [] i.vector /\ IsStore(i) -> StoreFpTo(at, i.rt, to, SizeOf(i))
          [] i.vector /\ ~IsStore(i) -> LoadFpFrom(at, i.rt, to, SizeOf(i))
          [] ~i.vector /\ IsStore(i) -> StoreTo(at, i.rt, to, i.size)
          [] ~IsPrefetch(i) /\ ~i.vector /\ ~IsStore(i) ->
                LoadFrom(at, i.rt, to, i.size, IsSigned(i), i.size < 3)
  BY Zenon DEF DisasLdstRegRoffset, StoreFpReg, LoadFpReg, StoreReg, LoadReg
<1> HIDE DEF at, to
<1>8. ASSUME i.vector
      PROVE  StoreFpTo(at, i.rt, to, SizeOf(i)) \in Machine /\ LoadFpFrom(at, i.rt, to, SizeOf(i)) \in Machine
  <2>1. i.rt \in VRegs
    BY <1>1, <1>8, RegisterKinds
  <2> QED
    BY <1>3, <1>5, <1>6, <2>1, Transports
<1>9. ASSUME ~i.vector
      PROVE  /\ StoreTo(at, i.rt, to, i.size) \in Machine
             /\ LoadFrom(at, i.rt, to, i.size, IsSigned(i), i.size < 3) \in Machine
  <2>1. i.rt \in Regs /\ i.size \in 0 .. 4 /\ i.size # 4
    BY <1>1, <1>9, RegisterKinds, Named
  <2> QED
    BY <1>5, <1>6, <2>1, Transports
<1> QED
  BY <1>1, <1>5, <1>7, <1>8, <1>9

(* Literals (DisasLdLit).                                                  *)
LEMMA LiteralsKeep ==
    ASSUME NEW m \in Machine, NEW i, MemoryFields(i), i.cls = "LdLit"
    PROVE  DisasLdLit(m, i) \in Machine
<1> DEFINE size == IF i.vector THEN i.opc + 2 ELSE 2 + (i.opc % 2)
           at == AddI64(m, i.rt, PC_IDX, (i.imm - 4) % 2^Wide, FALSE, TRUE)
<1>1. /\ i.vector \in BOOLEAN /\ i.opc \in 0 .. 3 /\ i.rt \in Visible /\ i.imm \in Int
      /\ (i.vector => i.opc <= 2 /\ i.rt \in Vectors)
  BY DEF MemoryFields
<1>2. size \in 0 .. 4 /\ (size = 4 => i.vector)
  <2>1. i.opc % 2 \in {0, 1}
    BY <1>1
  <2> QED
    BY <1>1, <2>1
<1>3. at \in Machine
  <2>1. i.imm - 4 \in Int
    BY <1>1
  <2>2. (i.imm - 4) % 2^Wide \in Nat
    BY <2>1, Immediates
  <2> QED
    BY <2>2, Named, AddI64s, Zenon
<1>4. DisasLdLit(m, i) = IF i.opc = 3 /\ ~i.vector THEN m
                         ELSE LoadRegI64(at, i.rt, i.rt, size, ~i.vector /\ i.opc = 2, FALSE)
  BY DEF DisasLdLit
<1> HIDE DEF at, size
<1>5. Holds(i.rt, size) /\ i.rt \in Regs
  BY <1>1, <1>2, Named DEF Holds
<1>6. LoadRegI64(at, i.rt, i.rt, size, ~i.vector /\ i.opc = 2, FALSE) \in Machine
  BY <1>2, <1>3, <1>5, AtAddress, Zenon
<1> QED
  BY <1>4, <1>6

(* Two accesses one after the other.                                       *)
LEMMA BothAtDummies ==
    ASSUME NEW m \in Machine, NEW i, NEW size \in 0 .. 4, Holds(i.rt, size), Holds(i.rt2, size), NEW load, NEW sign
    PROVE  BothAtDummy(m, i, size, load, sign) \in Machine
<1> DEFINE One(n, t) == IF load THEN LoadRegI64(n, t, GPR_DUMMY, size, sign, FALSE)
                                ELSE StoreRegI64(n, t, GPR_DUMMY, size)
<1>1. ASSUME NEW n \in Machine, NEW t, Holds(t, size) PROVE One(n, t) \in Machine
  <2>1. GPR_DUMMY \in Regs
    BY Named
  <2>2. LoadRegI64(n, t, GPR_DUMMY, size, sign, FALSE) \in Machine /\ StoreRegI64(n, t, GPR_DUMMY, size) \in Machine
    BY <1>1, <2>1, AtAddress, Zenon
  <2> QED
    BY <2>2
<1>2. Bytes(size) \in Int /\ GPR_DUMMY \in Regs
  BY ByteCounts, Named
<1>3. BothAtDummy(m, i, size, load, sign) = One(Moved(One(m, i.rt), GPR_DUMMY, Bytes(size)), i.rt2)
  BY DEF BothAtDummy
<1> HIDE DEF One
<1>4. One(m, i.rt) \in Machine
  BY <1>1, Zenon
<1>5. Moved(One(m, i.rt), GPR_DUMMY, Bytes(size)) \in Machine
  BY <1>2, <1>4, Moving, Zenon
<1>6. One(Moved(One(m, i.rt), GPR_DUMMY, Bytes(size)), i.rt2) \in Machine
  BY <1>1, <1>5, Zenon
<1> QED
  BY <1>3, <1>6, Zenon

(* Pairs (DisasLdstPair).                                                  *)
LEMMA PairsKeep ==
    ASSUME NEW m \in Machine, NEW i, MemoryFields(i), i.cls = "LdstPair"
    PROVE  DisasLdstPair(m, i) \in Machine
<1> DEFINE rn == HandleAsSP(i.rn)
           size == PairSize(i)
           offset == i.imm * Bytes(size)
           sign == ~i.vector /\ i.opc = 1
           first == FirstAddress(m, i, rn, offset)
           both == BothAtDummy(first, i, size, i.load, sign)
<1>1. /\ i.vector \in BOOLEAN /\ i.opc \in 0 .. 2 /\ i.rn \in Visible /\ i.imm \in Int
      /\ i.rt \in Holders(PairSize(i) = 4) /\ i.rt2 \in Holders(PairSize(i) = 4)
  BY DEF MemoryFields
<1>2. size \in 0 .. 4
  <2>1. i.opc \div 2 \in {0, 1}
    BY <1>1
  <2> QED
    BY <1>1, <2>1 DEF PairSize
<1>3. Holds(i.rt, size) /\ Holds(i.rt2, size)
  BY <1>1 DEF Holders, Holds
<1>4. rn \in Regs
  BY <1>1, Named
<1>5. DisasLdstPair(m, i) = WriteBack(both, i, rn, offset)
  BY DEF DisasLdstPair
<1> HIDE DEF size, sign
<1>6. offset \in Int
  <2>1. Bytes(size) \in Nat
    BY <1>2, ByteCounts
  <2> QED
    BY <1>1, <2>1
<1> HIDE DEF offset, rn
<1>7. first \in Machine
  BY <1>4, <1>6, FirstAddresses, Zenon
<1> HIDE DEF first
<1>8. both \in Machine
  BY <1>2, <1>3, <1>7, BothAtDummies, Zenon
<1> HIDE DEF both
<1> QED
  BY <1>4, <1>5, <1>6, <1>8, FirstAddresses, Zenon

(* Exclusive accesses (DisasLdstExcl).                                     *)
LEMMA ExclusivesKeep ==
    ASSUME NEW m \in Machine, NEW i, MemoryFields(i), i.cls = "LdstExcl"
    PROVE  DisasLdstExcl(m, i) \in Machine
<1> DEFINE rn == HandleAsSP(i.rn)
           at == IF i.excl THEN MovReg(m, GPR_DUMMY, rn, TRUE) ELSE m
           done == CASE i.pair -> BothAtDummy(at, i, i.size, ~i.store, FALSE)
                     [] ~i.pair /\ i.store -> StoreRegI64(at, i.rt, rn, i.size)
                     [] ~i.pair /\ ~i.store -> LoadRegI64(at, i.rt, rn, i.size, FALSE, FALSE)
<1>1. /\ i.size \in 0 .. 4 /\ i.rn \in Visible /\ Holds(i.rt, i.size) /\ Holds(i.rt2, i.size)
      /\ i.pair \in BOOLEAN /\ i.store \in BOOLEAN
  BY DEF MemoryFields, Holds
<1>2. rn \in Regs /\ GPR_DUMMY \in Regs /\ 0 \in Word
  BY <1>1, Named, WordSize
<1>3. DisasLdstExcl(m, i) = IF i.excl /\ i.store THEN Put(done, i.rs, 0) ELSE done
  BY DEF DisasLdstExcl, MoviI64
<1> HIDE DEF rn
<1>4. at \in Machine
  <2>1. MovReg(m, GPR_DUMMY, rn, TRUE) \in Machine
    BY <1>2, Moves, Zenon
  <2> QED
    BY <2>1
<1> HIDE DEF at
<1>5. done \in Machine
  <2>1. BothAtDummy(at, i, i.size, ~i.store, FALSE) \in Machine
    BY <1>1, <1>4, BothAtDummies, Zenon
  <2>2. StoreRegI64(at, i.rt, rn, i.size) \in Machine /\ LoadRegI64(at, i.rt, rn, i.size, FALSE, FALSE) \in Machine
    BY <1>1, <1>2, <1>4, AtAddress, Zenon
  <2> QED
    BY <1>1, <2>1, <2>2
<1> HIDE DEF done
<1>6. Put(done, i.rs, 0) \in Machine
  BY <1>2, <1>5, Puts, Zenon
<1> QED
  BY <1>3, <1>5, <1>6

(***************************************************************************)
(* Structures, and the system registers.                                   *)
(***************************************************************************)

(* A transfer of several elements, one after the other.                    *)
LEMMA TransfersKeep ==
    ASSUME NEW m \in Machine, NEW i, i.size \in 0 .. 3, i.rn \in Visible,
           NEW steps, Len(steps) \in Nat,
           \A k \in 1 .. Len(steps) : steps[k].vreg \in VRegs /\ IsIndex(steps[k].lane, i.size)
    PROVE  Transfers(m, i, steps) \in Machine
<1> DEFINE n == Len(steps)
           One(q, s) == IF i.load THEN LoadVecReg(q, s.vreg, s.lane, GPR_DUMMY, i.size)
                                  ELSE StoreVecReg(q, GPR_DUMMY, s.lane, s.vreg, i.size)
           Transfer(q, s) == IF s.moves THEN Moved(One(q, s), GPR_DUMMY, Bytes(i.size)) ELSE One(q, s)
           begin == MovReg(m, GPR_DUMMY, i.rn, TRUE)
           Rule(g) == [k \in 0 .. n |-> IF k = 0 THEN begin ELSE Transfer(g[k - 1], steps[k])]
           step == [p \in Machine \X (1 .. n) |-> Transfer(p[1], steps[p[2]])]
           after == CHOOSE g : g = Rule(g)
<1>1. begin \in Machine
  BY Moves, Named, Zenon
<1>2. ASSUME NEW q \in Machine, NEW k \in 1 .. n
      PROVE  Transfer(q, steps[k]) \in Machine
  <2> DEFINE v == steps[k].vreg
             e == steps[k].lane
  <2>1. v \in VRegs /\ IsIndex(e, i.size) /\ i.size \in 0 .. 3 /\ i.size \in 0 .. 4
    OBVIOUS
  <2>2. X(q, GPR_DUMMY) \in Nat /\ HandleAsSP(GPR_DUMMY) = GPR_DUMMY
    BY Reads, Named, RegisterSets
  <2>3. One(q, steps[k]) = IF i.load THEN LoadVecReg(q, v, e, GPR_DUMMY, i.size)
                                     ELSE StoreVecReg(q, GPR_DUMMY, e, v, i.size)
    OBVIOUS
  <2> HIDE DEF v, e
  <2>4. LoadVecReg(q, v, e, GPR_DUMMY, i.size) \in Machine
    <3>1. /\ ReadFromRAM(q, X(q, GPR_DUMMY), i.size) \in Nat
          /\ ReadFromRAM(q, X(q, GPR_DUMMY), i.size) < 2^BitsOf(i.size)
      BY <2>1, <2>2, MemoryReads, Zenon
    <3>2. PutLane(q, v, e, i.size, ReadFromRAM(q, X(q, GPR_DUMMY), i.size)) \in Machine
      BY <2>1, <3>1, LanePuts, Zenon
    <3> QED
      BY <2>2, <3>2 DEF LoadVecReg
  <2>5. StoreVecReg(q, GPR_DUMMY, e, v, i.size) \in Machine
    <3>1. e \in Nat
      BY <2>1, IndexFits
    <3>2. q.vreg[v] \in Nat
      BY <2>1, VectorPuts
    <3>3. Lane(q.vreg[v], e, i.size) \in Nat
      BY <2>1, <3>1, <3>2, LaneRange
    <3>4. WriteToRAM(q, X(q, GPR_DUMMY), i.size, Lane(q.vreg[v], e, i.size)) \in Machine
      BY <2>1, <2>2, <3>3, MemoryWrites, Zenon
    <3> QED
      BY <2>2, <3>4 DEF StoreVecReg
  <2>6. One(q, steps[k]) \in Machine
    <3> HIDE DEF One
    <3> QED
      BY <2>3, <2>4, <2>5
  <2> HIDE DEF One
  <2>7. Moved(One(q, steps[k]), GPR_DUMMY, Bytes(i.size)) \in Machine
    <3>1. Bytes(i.size) \in Int /\ GPR_DUMMY \in Regs
      BY <2>1, ByteCounts, Named
    <3> QED
      BY <2>6, <3>1, Moving, Zenon
  <2> QED
    BY <2>6, <2>7
<1>3. Transfers(m, i, steps) = after[n]
  BY DEF Transfers
<1>4. n \in Nat
  OBVIOUS
<1> HIDE DEF Transfer, One, begin, n
<1>5. step \in [Machine \X (1 .. n) -> Machine]
  BY <1>2
<1>6. PICK f : DefinedFrom(f, n, Machine, begin, step)
  <2> HIDE DEF step
  <2> QED
    BY <1>1, <1>4, <1>5, IntervalRecursion
<1>7. f = Rule(f)
  <2>1. ASSUME NEW k \in 0 .. n
        PROVE  f[k] = IF k = 0 THEN begin ELSE Transfer(f[k - 1], steps[k])
    <3>1. CASE k = 0
      BY <1>6, <3>1 DEF DefinedFrom
    <3>2. CASE k \in 1 .. n
      <4>1. f[k - 1] \in Machine
        BY <1>4, <1>6, <3>2 DEF DefinedFrom
      <4>2. f[k] = step[<<f[k - 1], k>>]
        <5> HIDE DEF step
        <5> QED
          BY <1>6, <3>2 DEF DefinedFrom
      <4> QED
        BY <3>2, <4>1, <4>2
    <3> QED
      BY <1>4, <3>1, <3>2
  <2>2. f = [k \in 0 .. n |-> f[k]]
    BY <1>6 DEF DefinedFrom
  <2> QED
    BY <2>1, <2>2
<1>8. after = Rule(after)
  <2> HIDE DEF Rule
  <2> QED
    BY <1>7
<1> HIDE DEF after, step
<1>9. /\ after[0] = begin
      /\ \A k \in 1 .. n : after[k] = Transfer(after[k - 1], steps[k])
  BY <1>4, <1>8
<1>10. after[n] \in Machine
  <2>1. after[0] \in Machine
    BY <1>1, <1>9
  <2>2. \A k \in 1 .. n : after[k - 1] \in Machine => after[k] \in Machine
    BY <1>2, <1>9
  <2> HIDE DEF Rule
  <2> QED
    BY <1>4, <2>1, <2>2, HoldsAtEnd
<1> QED
  BY <1>3, <1>10

(* The base register after the transfers.                                  *)
LEMMA PostIndexes ==
    ASSUME NEW m \in Machine, NEW i, i.rn \in Visible, i.post \in BOOLEAN, i.post => i.rm \in Visible
    PROVE  /\ MovReg(m, i.rn, GPR_DUMMY, TRUE) \in Machine
           /\ MoviI64(m, i.rn, GPR_DUMMY) \in Machine
           /\ i.post => AddReg(m, i.rn, i.rn, i.rm, FALSE, TRUE) \in Machine
<1>1. i.rn \in Regs /\ GPR_DUMMY \in Regs /\ (i.post => i.rm \in Regs)
  BY Named
<1>2. GPR_DUMMY \in Word
  <2>1. Wide \in Nat /\ 8 \in Nat /\ 8 <= Wide
    BY WideType
  <2>2. 2^8 <= 2^Wide /\ 2^Wide \in Nat
    BY <2>1, PowerOrder
  <2>3. 2^(4 + 1) = 2 * 2^4 /\ 2^(5 + 1) = 2 * 2^5 /\ 4 + 1 = 5 /\ 5 + 1 = 6
    BY Power
  <2>4. 2^6 = 64
    <3>1. 2^5 = 2 * 2^4 /\ 2^6 = 2 * 2^5
      BY <2>3, Zenon
    <3> QED
      BY <3>1, Sizes
  <2>5. 2^6 <= 2^8 /\ 2^8 \in Nat
    BY PowerOrder
  <2> QED
    BY <2>2, <2>4, <2>5 DEF Word, GPR_DUMMY
<1>3. MoviI64(m, i.rn, GPR_DUMMY) \in Machine
  BY <1>2, Puts, Zenon DEF MoviI64
<1>4. MovReg(m, i.rn, GPR_DUMMY, TRUE) \in Machine
  BY <1>1, Moves, Zenon
<1>5. i.post => AddReg(m, i.rn, i.rn, i.rm, FALSE, TRUE) \in Machine
  BY <1>1, RegisterLogic, Zenon
<1> QED
  BY <1>3, <1>4, <1>5

(* How many elements a transfer of several registers has.                  *)
LEMMA LaneCounts ==
    ASSUME NEW i, i.size \in 0 .. 3
    PROVE  /\ LanesOf(i) \in Nat /\ LanesOf(i) # 0 /\ LanesOf(i) <= 16
           /\ \A e \in 0 .. LanesOf(i) - 1 : IsIndex(e, i.size)
           /\ IsIndex(0, i.size)
<1>1. /\ 16 \div 1 = 16 /\ 16 \div 2 = 8 /\ 16 \div 4 = 4 /\ 16 \div 8 = 2
      /\ 8 \div 1 = 8 /\ 8 \div 2 = 4 /\ 8 \div 4 = 2 /\ 8 \div 8 = 1
  OBVIOUS
<1>2. Bytes(i.size) \in {1, 2, 4, 8}
  BY ByteCounts
<1>3. (IF i.q THEN 16 ELSE 8) \in {8, 16}
  OBVIOUS
<1>4. /\ LanesOf(i) \in Nat /\ LanesOf(i) # 0 /\ LanesOf(i) <= 16 \div Bytes(i.size)
      /\ 16 \div Bytes(i.size) \in {2, 4, 8, 16}
  BY <1>1, <1>2, <1>3 DEF LanesOf
<1> QED
  BY <1>4 DEF IsIndex

(* Places of the transfers of a structure.                                 *)
LEMMA QuotientBelow ==
    ASSUME NEW a \in Nat, NEW b \in Nat, b # 0, NEW c \in Nat, a < c * b
    PROVE  a \div b \in Nat /\ a \div b < c
<1>1. PICK q \in Nat, r \in Nat : a = b * q + r /\ r < b /\ a \div b = q
  OBVIOUS
<1>2. q < c
  <2> SUFFICES ASSUME ~(q < c) PROVE FALSE
    OBVIOUS
  <2>1. PICK z \in Nat : q = c + z
    <3>1. q - c \in Nat /\ q = c + (q - c)
      OBVIOUS
    <3> QED
      BY <3>1
  <2>2. b * q = c * b + b * z /\ b * z \in Nat /\ c * b \in Nat
    BY <2>1
  <2> QED
    BY <1>1, <2>2
<1> QED
  BY <1>1, <1>2

(* Whole structures of one to four registers (DisasLdStMulti).             *)
LEMMA MultiplesKeep ==
    ASSUME NEW m \in Machine, NEW i, MemoryFields(i), i.cls = "LdStMulti"
    PROVE  DisasLdStMulti(m, i) \in Machine
<1> DEFINE n == LanesOf(i)
           total == i.rpt * n * i.selem
           steps == [k \in 1 .. total |->
                       [vreg |-> (i.rt + (k - 1) \div (n * i.selem) + ((k - 1) % i.selem)) % 32,
                        lane |-> ((k - 1) \div i.selem) % n, moves |-> TRUE]]
           done == Transfers(m, i, steps)
<1>1. /\ i.size \in 0 .. 3 /\ i.rn \in Visible /\ i.rpt \in 1 .. 4 /\ i.selem \in 1 .. 4
      /\ i.post \in BOOLEAN /\ (i.post => i.rm \in Visible) /\ i.rt \in Vectors
      /\ \A k \in 0 .. i.rpt + i.selem - 2 : (i.rt + k) % 32 \in Vectors
  BY DEF MemoryFields
<1>2. n \in Nat /\ n # 0
  BY <1>1, LaneCounts
<1>3. DisasLdStMulti(m, i) =
        CASE i.post /\ i.rm = GPR_ZERO -> MovReg(done, i.rn, GPR_DUMMY, TRUE)
          [] i.post /\ i.rm # GPR_ZERO -> AddReg(done, i.rn, i.rn, i.rm, FALSE, TRUE)
          [] ~i.post -> done
  BY DEF DisasLdStMulti
<1>4. total \in Nat /\ n * i.selem \in Nat /\ n * i.selem # 0 /\ total = i.rpt * (n * i.selem)
  <2>1. i.selem \in {1, 2, 3, 4} /\ i.rpt \in {1, 2, 3, 4}
    BY <1>1
  <2> HIDE DEF n
  <2> QED
    BY <1>2, <2>1
<1>5. ASSUME NEW k \in 1 .. total
      PROVE  /\ (i.rt + (k - 1) \div (n * i.selem) + ((k - 1) % i.selem)) % 32 \in VRegs
             /\ IsIndex(((k - 1) \div i.selem) % n, i.size)
  <2> DEFINE w == n * i.selem
             a == (k - 1) \div w
             b == (k - 1) % i.selem
  <2>1. k - 1 \in Nat /\ k - 1 < i.rpt * w /\ i.rpt \in Nat /\ i.selem \in Nat /\ i.selem # 0
        /\ w \in Nat /\ w # 0
    <3> HIDE DEF n, total
    <3> QED
      BY <1>1, <1>4
  <2>2. a \in Nat /\ a < i.rpt
    <3> HIDE DEF w
    <3> QED
      BY <2>1, QuotientBelow
  <2>3. b \in 0 .. i.selem - 1
    <3> HIDE DEF n, total
    <3>1. k - 1 \in Int
      BY <2>1
    <3> QED
      BY <2>1, <3>1, ModOnce, Zenon
  <2>4. i.rt \in Nat
    <3>1. i.rt \in Vectors
      BY <1>1
    <3> QED
      BY <3>1, RegisterKinds, Zenon
  <2>5. (i.rt + a + b) % 32 \in Vectors
    <3> HIDE DEF a, b
    <3>1. a + b \in 0 .. i.rpt + i.selem - 2 /\ i.rt + a + b = i.rt + (a + b)
      BY <1>1, <2>2, <2>3, <2>4
    <3> QED
      BY <1>1, <3>1
  <2>6. (k - 1) \div i.selem \in Int
    BY <2>1, QuotientRange
  <2>7. ((k - 1) \div i.selem) % n \in 0 .. n - 1
    <3> HIDE DEF n
    <3> QED
      BY <1>2, <2>6, ModOnce
  <2>8. IsIndex(((k - 1) \div i.selem) % n, i.size)
    BY <1>1, <2>7, LaneCounts
  <2> QED
    BY <2>5, <2>8, RegisterKinds
<1>6. Len(steps) = total
  <2> HIDE DEF total, n
  <2> QED
    BY <1>4
<1>7. \A k \in 1 .. total : steps[k].vreg \in VRegs /\ IsIndex(steps[k].lane, i.size)
  <2> HIDE DEF n, total
  <2> QED
    BY <1>5
<1> HIDE DEF steps, total, n
<1>8. done \in Machine
  BY <1>1, <1>4, <1>6, <1>7, TransfersKeep
<1> HIDE DEF done
<1>9. /\ MovReg(done, i.rn, GPR_DUMMY, TRUE) \in Machine
      /\ i.post => AddReg(done, i.rn, i.rn, i.rm, FALSE, TRUE) \in Machine
  BY <1>1, <1>8, PostIndexes
<1> QED
  BY <1>1, <1>3, <1>8, <1>9

(* Single elements of one to four registers (DisasLdStSingle).             *)
LEMMA SinglesKeep ==
    ASSUME NEW m \in Machine, NEW i, MemoryFields(i), i.cls = "LdStSingle"
    PROVE  DisasLdStSingle(m, i) \in Machine
<1> DEFINE n == IF i.replicate THEN LanesOf(i) ELSE 1
           total == i.selem * n
           steps == [k \in 1 .. total |->
                       [vreg |-> (i.rt + (k - 1) \div n) % 32,
                        lane |-> IF i.replicate THEN (k - 1) % n ELSE i.index,
                        moves |-> k % n = 0]]
           done == Transfers(m, i, steps)
<1>1. /\ i.size \in 0 .. 3 /\ i.rn \in Visible /\ i.selem \in 1 .. 4 /\ IsIndex(i.index, i.size)
      /\ i.post \in BOOLEAN /\ (i.post => i.rm \in Visible) /\ i.rt \in Vectors
      /\ \A k \in 0 .. i.selem - 1 : (i.rt + k) % 32 \in Vectors
  BY DEF MemoryFields
<1>2. n \in Nat /\ n # 0
  BY <1>1, LaneCounts
<1>3. DisasLdStSingle(m, i) =
        CASE i.post /\ i.rm = GPR_ZERO -> MoviI64(done, i.rn, GPR_DUMMY)
          [] i.post /\ i.rm # GPR_ZERO -> AddReg(done, i.rn, i.rn, i.rm, FALSE, TRUE)
          [] ~i.post -> done
  BY DEF DisasLdStSingle
<1>4. total \in Nat
  <2> HIDE DEF n
  <2> QED
    BY <1>1, <1>2
<1>5. ASSUME NEW k \in 1 .. total
      PROVE  /\ (i.rt + (k - 1) \div n) % 32 \in VRegs
             /\ IsIndex(IF i.replicate THEN (k - 1) % n ELSE i.index, i.size)
  <2> DEFINE a == (k - 1) \div n
  <2>1. k - 1 \in Nat /\ k - 1 < i.selem * n /\ i.selem \in Nat
    <3> HIDE DEF n
    <3> QED
      BY <1>1, <1>4
  <2>2. a \in Nat /\ a < i.selem
    <3> HIDE DEF n
    <3> QED
      BY <1>2, <2>1, QuotientBelow
  <2>3. (i.rt + a) % 32 \in Vectors
    <3> HIDE DEF a
    <3>1. a \in 0 .. i.selem - 1
      BY <1>1, <2>2
    <3> QED
      BY <1>1, <3>1
  <2>4. (k - 1) % n \in 0 .. n - 1
    <3> HIDE DEF n
    <3>1. k - 1 \in Int
      BY <2>1
    <3> QED
      BY <1>2, <3>1, ModOnce
  <2>5. i.replicate => IsIndex((k - 1) % n, i.size)
    BY <1>1, <2>4, LaneCounts
  <2> QED
    BY <1>1, <2>3, <2>5, RegisterKinds
<1>6. Len(steps) = total
  <2> HIDE DEF total, n
  <2> QED
    BY <1>4
<1>7. \A k \in 1 .. total : steps[k].vreg \in VRegs /\ IsIndex(steps[k].lane, i.size)
  <2> HIDE DEF n, total
  <2> QED
    BY <1>5
<1> HIDE DEF steps, total, n
<1>8. done \in Machine
  BY <1>1, <1>4, <1>6, <1>7, TransfersKeep
<1> HIDE DEF done
<1>9. /\ MoviI64(done, i.rn, GPR_DUMMY) \in Machine
      /\ i.post => AddReg(done, i.rn, i.rn, i.rm, FALSE, TRUE) \in Machine
  BY <1>1, <1>8, PostIndexes
<1> QED
  BY <1>1, <1>3, <1>8, <1>9

(* System registers, hints and cache lines (DisasSystem).                  *)
LEMMA SystemKeeps ==
    ASSUME NEW m \in Machine, NEW i, MemoryFields(i), i.cls = "System"
    PROVE  DisasSystem(m, i) \in Machine
<1>1. i.rt \in Regs /\ (i.op \in {"MRS", "MSR"} => i.name \in SysReg)
  BY Named DEF MemoryFields
<1>2. X(m, i.rt) \in Word
  BY <1>1, Reads
<1>3. ASSUME NEW name \in SysReg, NEW read PROVE ReadWriteSysReg(m, i.rt, name, read) \in Machine
  <2>1. m.sysr[name] \in Word
    BY DEF Machine
  <2>2. Put(m, i.rt, m.sysr[name]) \in Machine
    BY <2>1, Puts, Zenon
  <2>3. [m EXCEPT !.sysr[name] = X(m, i.rt)] \in Machine
    BY <1>2 DEF Machine
  <2> QED
    BY <2>2, <2>3 DEF ReadWriteSysReg
<1> QED
  BY <1>1, <1>3 DEF DisasSystem

(***************************************************************************)
(* Vector registers.                                                       *)
(***************************************************************************)

(* The first element of a register, and the second half.                   *)
LEMMA FirstIndexes ==
    /\ \A size \in 0 .. 3 : IsIndex(0, size) /\ size \in 0 .. 4
    /\ IsIndex(1, 3) /\ 3 \in 0 .. 3
<1>1. 16 \div 1 = 16 /\ 16 \div 2 = 8 /\ 16 \div 4 = 4 /\ 16 \div 8 = 2
  OBVIOUS
<1>2. /\ 16 \div Bytes(3) = 2
      /\ \A size \in 0 .. 3 : 16 \div Bytes(size) \in {2, 4, 8, 16}
  BY <1>1, ByteCounts
<1> QED
  BY <1>2 DEF IsIndex

(* What an element is read as, and what is written to one.                 *)
LEMMA ElementValues ==
    ASSUME NEW m \in Machine, NEW v \in VRegs, NEW r \in Regs, NEW size \in 0 .. 3, NEW e, IsIndex(e, size)
    PROVE  /\ Lane(m.vreg[v], e, size) \in Nat /\ Lane(m.vreg[v], e, size) < 2^BitsOf(size)
           /\ Lane(m.vreg[v], e, size) \in Word /\ Lane(m.vreg[v], e, size) \in Quad
           /\ Low(X(m, r), BitsOf(size)) \in Nat /\ Low(X(m, r), BitsOf(size)) < 2^BitsOf(size)
<1>1. m.vreg[v] \in Nat /\ e \in Nat
  BY VectorPuts, IndexFits
<1>2. size \in 0 .. 4 /\ size # 4
  OBVIOUS
<1>3. BitsOf(size) \in Nat /\ X(m, r) \in Int
  BY <1>2, ByteCounts, Reads
<1>4. Low(X(m, r), BitsOf(size)) \in Nat /\ Low(X(m, r), BitsOf(size)) < 2^BitsOf(size)
  BY <1>3, LowRange, Zenon
<1> QED
  BY <1>1, <1>2, <1>4, LaneRange

(* Elements between vector and general registers.                          *)
LEMMA ElementMoves ==
    ASSUME NEW m \in Machine, NEW v \in VRegs, NEW r \in Regs, NEW size \in 0 .. 3, NEW e, IsIndex(e, size)
    PROVE  /\ ReadVecElem(m, r, v, e, size) \in Machine
           /\ WriteVecElem(m, v, r, e, size) \in Machine
<1>1. ReadVecElem(m, r, v, e, size) \in Machine
  BY ElementValues, Puts, Zenon DEF ReadVecElem
<1>2. WriteVecElem(m, v, r, e, size) \in Machine
  BY ElementValues, LanePuts, Zenon DEF WriteVecElem
<1> QED
  BY <1>1, <1>2

(* One value in all elements, of which the upper half of the register may  *)
(* stay.                                                                   *)
LEMMA Duplicates ==
    ASSUME NEW m \in Machine, NEW vd \in VRegs, NEW size \in 0 .. 3, NEW dstsize \in {8, 16},
           NEW imm \in Nat, imm < 2^BitsOf(size)
    PROVE  DupVecImm(m, vd, imm, size, dstsize) \in Machine
<1> DEFINE n == dstsize \div Bytes(size)
           d == [e \in 0 .. n - 1 |-> imm]
           x == FromDigits(d, n, BitsOf(size))
           v == m.vreg[vd]
           b == dstsize * Byte
           c == (2 * Wide) - b
           kept == v - Low(v, b)
<1>1. n \in Nat /\ n * Bytes(size) = dstsize
  <2>1. /\ 16 \div 1 = 16 /\ 16 \div 2 = 8 /\ 16 \div 4 = 4 /\ 16 \div 8 = 2
        /\ 8 \div 1 = 8 /\ 8 \div 2 = 4 /\ 8 \div 4 = 2 /\ 8 \div 8 = 1
    OBVIOUS
  <2>2. Bytes(size) \in {1, 2, 4, 8}
    BY ByteCounts
  <2> QED
    BY <2>1, <2>2
<1>2. BitsOf(size) \in Nat /\ n * BitsOf(size) = b
  <2>1. size \in 0 .. 4
    OBVIOUS
  <2>2. Bytes(size) \in Nat /\ Byte \in Nat
    BY <2>1, ByteCounts, Widths
  <2>3. BitsOf(size) = Bytes(size) * Byte
    BY DEF BitsOf
  <2> HIDE DEF n
  <2>4. n * (Bytes(size) * Byte) = (n * Bytes(size)) * Byte
    BY <1>1, <2>2
  <2> QED
    BY <1>1, <2>2, <2>3, <2>4
<1>3. x \in Nat /\ x < 2^b
  <2>1. \A k \in 0 .. n - 1 : d[k] \in Nat /\ d[k] < 2^BitsOf(size)
    OBVIOUS
  <2> HIDE DEF n, d, b
  <2>2. x \in Nat /\ x < 2^(n * BitsOf(size))
    BY <1>1, <1>2, <2>1, DigitsRange, Zenon
  <2> QED
    BY <1>2, <2>2
<1>4. b \in Nat /\ c \in Nat /\ b + c = 2 * Wide
  BY Widths
<1>5. v \in Nat /\ v < 2^(2 * Wide)
  BY VectorPuts, Quads
<1>6. DupVecImm(m, vd, imm, size, dstsize) = PutV(m, vd, kept + x)
  BY DEF DupVecImm
<1> HIDE DEF n, d, x, v, b, c
<1>7. 2^b \in Nat /\ 2^b # 0 /\ 2^c \in Nat /\ 2^(2 * Wide) = 2^b * 2^c
  <2>1. 2^(b + c) = 2^b * 2^c
    BY <1>4, PowerSum
  <2> QED
    BY <1>4, <2>1, Power
<1>8. v \div 1 = v /\ (x - (v % 2^b)) * 1 = x - (v % 2^b)
  <2>1. v % 2^b \in Int
    BY <1>5, <1>7
  <2> QED
    BY <1>3, <1>5, <2>1
<1>9. v < 1 * (2^b * 2^c)
  BY <1>5, <1>7
<1>10. /\ v + (x - ((v \div 1) % 2^b)) * 1 \in Nat
       /\ v + (x - ((v \div 1) % 2^b)) * 1 < 1 * (2^b * 2^c)
  <2>1. 1 \in Nat /\ 1 # 0
    OBVIOUS
  <2> QED
    BY <1>3, <1>5, <1>7, <1>9, <2>1, Replaced, Zenon
<1>11. kept + x \in Nat /\ kept + x < 2^(2 * Wide)
  <2>1. v % 2^b \in Int /\ kept = v - (v % 2^b)
    BY <1>5, <1>7 DEF Low
  <2>2. v + (x - (v % 2^b)) \in Nat /\ v + (x - (v % 2^b)) < 1 * (2^b * 2^c)
    <3>1. v + (x - ((v \div 1) % 2^b)) * 1 = v + (x - (v % 2^b))
      BY <1>8, Zenon
    <3> QED
      BY <1>10, <3>1
  <2>3. kept + x = v + (x - (v % 2^b))
    BY <1>3, <1>5, <2>1
  <2> QED
    BY <1>7, <2>2, <2>3
<1>12. kept + x \in Quad
  BY <1>11, Quads
<1> HIDE DEF kept
<1> QED
  BY <1>6, <1>12, VectorPuts

(* Both halves of a register.                                              *)
LEMMA DoublePuts ==
    ASSUME NEW m \in Machine, NEW rd \in VRegs, NEW x \in Word, NEW y \in Word
    PROVE  PutLane(PutLane(m, rd, 0, 3, x), rd, 1, 3, y) \in Machine
<1>1. /\ x \in Nat /\ x < 2^BitsOf(3) /\ y \in Nat /\ y < 2^BitsOf(3)
      /\ IsIndex(0, 3) /\ IsIndex(1, 3) /\ 3 \in 0 .. 3
  BY ByteCounts, FirstIndexes, Power, Widths DEF Word
<1>2. PutLane(m, rd, 0, 3, x) \in Machine
  BY <1>1, LanePuts, Zenon
<1> QED
  BY <1>1, <1>2, LanePuts, Zenon

(* The logic callbacks on vector registers.                                *)
LEMMA VectorLogic ==
    ASSUME NEW m \in Machine, NEW rd \in VRegs, NEW rn \in VRegs, NEW rm \in VRegs
    PROVE  /\ AndVecReg(m, rd, rn, rm) \in Machine /\ OrrVecReg(m, rd, rn, rm) \in Machine
           /\ EorVecReg(m, rd, rn, rm) \in Machine /\ BicVecReg(m, rd, rn, rm) \in Machine
           /\ NotVecReg(m, rd, rm) \in Machine
<1>1. Not(Lane(m.vreg[rm], 0, 3)) \in Word /\ Not(Lane(m.vreg[rm], 1, 3)) \in Word
  <2>1. GPR_DUMMY \in Regs /\ IsIndex(0, 3) /\ IsIndex(1, 3) /\ 3 \in 0 .. 3
    BY Named, FirstIndexes
  <2>2. Lane(m.vreg[rm], 0, 3) \in Word /\ Lane(m.vreg[rm], 1, 3) \in Word
    BY <2>1, ElementValues, Zenon
  <2> QED
    BY <2>2, NotRange
<1>2. AndVecReg(m, rd, rn, rm) \in Machine
  BY BitwiseRange, DoublePuts, Zenon DEF AndVecReg, Doubles
<1>3. OrrVecReg(m, rd, rn, rm) \in Machine
  BY BitwiseRange, DoublePuts, Zenon DEF OrrVecReg, Doubles
<1>4. EorVecReg(m, rd, rn, rm) \in Machine
  BY BitwiseRange, DoublePuts, Zenon DEF EorVecReg, Doubles
<1>5. BicVecReg(m, rd, rn, rm) \in Machine
  BY BitwiseRange, DoublePuts, Zenon DEF BicVecReg, Doubles
<1>6. NotVecReg(m, rd, rm) \in Machine
  BY <1>1, DoublePuts, Zenon DEF NotVecReg, Doubles
<1> QED
  BY <1>2, <1>3, <1>4, <1>5, <1>6

(* A comparison of one element sets all its bits or none.                  *)
LEMMA ComparesElement ==
    ASSUME NEW m \in Machine, NEW vd \in VRegs, NEW vn, NEW vm, NEW size \in 0 .. 3, NEW e, IsIndex(e, size),
           NEW and_test
    PROVE  Compare(m, vd, vn, vm, e, size, and_test) \in Machine
<1> DEFINE holds == CompareTest(Lane(m.vreg[vn], e, size), Lane(m.vreg[vm], e, size), and_test)
           val == IF holds THEN 2^BitsOf(size) - 1 ELSE 0
<1>1. val \in Nat /\ val < 2^BitsOf(size)
  <2>1. size \in 0 .. 4
    OBVIOUS
  <2>2. 2^BitsOf(size) \in Nat /\ 2^BitsOf(size) # 0
    BY <2>1, ByteCounts, Power
  <2> HIDE DEF holds
  <2> QED
    BY <2>2
<1>2. Compare(m, vd, vn, vm, e, size, and_test) = PutLane(m, vd, e, size, val)
  BY DEF Compare
<1> HIDE DEF val
<1>3. PutLane(m, vd, e, size, val) \in Machine
  BY <1>1, LanePuts, Zenon
<1> QED
  BY <1>2, <1>3

(* What DisasSimd3SameInt does to one element.                             *)
LEMMA HandlesElement ==
    ASSUME NEW m \in Machine, NEW i, i.size \in 0 .. 3, i.rd \in Vectors, NEW e, IsIndex(e, i.size)
    PROVE  Handle3Same(m, i, e) \in Machine
<1>1. i.rd \in VRegs
  BY RegisterKinds
<1>2. \A t : Compare(m, i.rd, i.rn, i.rm, e, i.size, t) \in Machine
  BY <1>1, ComparesElement
<1> QED
  BY <1>2 DEF Handle3Same, CompareEqualVec, CompareTestBitsVec

(* How many elements there are in an operation.                            *)
LEMMA ElementCounts ==
    ASSUME NEW i, i.size \in 0 .. 3
    PROVE  /\ Elements(i) \in Nat /\ Elements(i) # 0
           /\ \A e \in 0 .. Elements(i) - 1 : IsIndex(e, i.size)
<1>1. Elements(i) = LanesOf(i)
  BY DEF Elements, LanesOf, FullOr
<1> QED
  BY <1>1, LaneCounts

(* Comparisons element by element (DisasSimd3SameInt).                     *)
LEMMA ComparisonsKeep ==
    ASSUME NEW m \in Machine, NEW i, i.size \in 0 .. 3, i.rd \in Vectors
    PROVE  DisasSimd3SameInt(m, i) \in Machine
<1> DEFINE n == Elements(i)
           Rule(g) == [k \in 0 .. n |-> IF k = 0 THEN m ELSE Handle3Same(g[k - 1], i, k - 1)]
           step == [p \in Machine \X (1 .. n) |-> Handle3Same(p[1], i, p[2] - 1)]
           after == CHOOSE g : g = Rule(g)
<1>1. n \in Nat
  BY ElementCounts
<1>2. ASSUME NEW q \in Machine, NEW k \in 1 .. n
      PROVE  Handle3Same(q, i, k - 1) \in Machine
  <2>1. IsIndex(k - 1, i.size)
    <3>1. k - 1 \in 0 .. n - 1
      BY <1>1
    <3> QED
      BY <3>1, ElementCounts
  <2> QED
    BY <2>1, HandlesElement
<1>3. DisasSimd3SameInt(m, i) = after[n]
  BY DEF DisasSimd3SameInt, EachElement
<1> HIDE DEF n
<1>4. step \in [Machine \X (1 .. n) -> Machine]
  BY <1>2
<1>5. PICK f : DefinedFrom(f, n, Machine, m, step)
  <2> HIDE DEF step
  <2> QED
    BY <1>1, <1>4, IntervalRecursion
<1>6. f = Rule(f)
  <2>1. ASSUME NEW k \in 0 .. n
        PROVE  f[k] = IF k = 0 THEN m ELSE Handle3Same(f[k - 1], i, k - 1)
    <3>1. CASE k = 0
      BY <1>5, <3>1 DEF DefinedFrom
    <3>2. CASE k \in 1 .. n
      <4>1. f[k - 1] \in Machine
        BY <1>1, <1>5, <3>2 DEF DefinedFrom
      <4>2. f[k] = step[<<f[k - 1], k>>]
        <5> HIDE DEF step
        <5> QED
          BY <1>5, <3>2 DEF DefinedFrom
      <4> QED
        BY <3>2, <4>1, <4>2
    <3> QED
      BY <1>1, <3>1, <3>2
  <2>2. f = [k \in 0 .. n |-> f[k]]
    BY <1>5 DEF DefinedFrom
  <2> QED
    BY <2>1, <2>2
<1>7. after = Rule(after)
  <2> HIDE DEF Rule
  <2> QED
    BY <1>6
<1> HIDE DEF after, step
<1>8. /\ after[0] = m
      /\ \A k \in 1 .. n : after[k] = Handle3Same(after[k - 1], i, k - 1)
  BY <1>1, <1>7
<1>9. after[n] \in Machine
  <2>1. \A k \in 1 .. n : after[k - 1] \in Machine => after[k] \in Machine
    BY <1>2, <1>8
  <2> HIDE DEF Rule
  <2> QED
    BY <1>1, <1>8, <2>1, HoldsAtEnd
<1> QED
  BY <1>3, <1>9

(* A pair of elements lies in its register.                                *)
LEMMA PairPlaces ==
    ASSUME NEW i, i.size \in 0 .. 3, i.q \in BOOLEAN, i.size = 3 => i.q, NEW e \in Int
    PROVE  LET base == 2 * (e % (Elements(i) \div 2))
           IN  IsIndex(base, i.size) /\ IsIndex(base + 1, i.size)
<1> DEFINE n == Elements(i)
           half == n \div 2
           p == e % half
<1>1. half \in Nat /\ half # 0 /\ n = 2 * half
  <2>1. /\ 16 \div 1 = 16 /\ 16 \div 2 = 8 /\ 16 \div 4 = 4 /\ 16 \div 8 = 2
        /\ 8 \div 1 = 8 /\ 8 \div 2 = 4 /\ 8 \div 4 = 2 /\ 4 \div 2 = 2 /\ 2 \div 2 = 1
    OBVIOUS
  <2>2. i.size \in {0, 1, 2} \/ (i.size = 3 /\ i.q)
    OBVIOUS
  <2>3. n \in {2, 4, 8, 16}
    BY <2>1, <2>2, ByteCounts DEF Elements, FullOr
  <2> HIDE DEF n
  <2> QED
    BY <2>1, <2>3
<1>2. \A k \in 0 .. n - 1 : IsIndex(k, i.size)
  BY ElementCounts
<1> HIDE DEF n, half
<1>3. p \in 0 .. half - 1
  BY <1>1, ModOnce
<1> HIDE DEF p
<1>4. 2 * p \in 0 .. n - 1 /\ 2 * p + 1 \in 0 .. n - 1
  BY <1>1, <1>3
<1>5. IsIndex(2 * p, i.size) /\ IsIndex(2 * p + 1, i.size)
  BY <1>2, <1>4
<1> QED
  BY <1>5 DEF p, half, n

(* Sums, minima and maxima of adjacent elements, one source after the      *)
(* other (Handle3SamePair).                                                *)
LEMMA PairsCombine ==
    ASSUME NEW m \in Machine, NEW i, VectorFields(i), i.cls = "SimdThreeRegSame"
    PROVE  Handle3SamePair(m, i) \in Machine
<1> DEFINE half == Elements(i) \div 2
           Reg(e) == IF e < half THEN i.rn ELSE i.rm
           Base(e) == 2 * (e % half)
           Both(q, e) == ReadVecElem(ReadVecElem(q, GPR_DUMMY, Reg(e), Base(e), i.size),
                                     GPR_DUMMY2, Reg(e), Base(e) + 1, i.size)
           Sum(q, e) == IF i.op = "ADDP" THEN AddReg(Both(q, e), GPR_DUMMY, GPR_DUMMY, GPR_DUMMY2, FALSE, TRUE)
                                         ELSE Both(q, e)
           Pair(q, e) == WriteVecElem(Sum(q, e), VREG_DUMMY, GPR_DUMMY, e, i.size)
           CopyBack(q, d) == WriteVecElem(ReadVecElem(q, GPR_DUMMY, VREG_DUMMY, d, 3), i.rd, GPR_DUMMY, d, 3)
           n == Elements(i)
           Rule(g) == [k \in 0 .. n |-> IF k = 0 THEN m ELSE Pair(g[k - 1], k - 1)]
           step == [p \in Machine \X (1 .. n) |-> Pair(p[1], p[2] - 1)]
           after == CHOOSE g : g = Rule(g)
<1>1. /\ i.size \in 0 .. 3 /\ i.q \in BOOLEAN /\ (i.size = 3 => i.q)
      /\ i.rn \in VRegs /\ i.rm \in VRegs /\ i.rd \in VRegs
      /\ VREG_DUMMY \in VRegs /\ GPR_DUMMY \in Regs /\ GPR_DUMMY2 \in Regs
  BY RegisterKinds, Named DEF VectorFields
<1>2. n \in Nat
  BY <1>1, ElementCounts
<1>3. ASSUME NEW q \in Machine, NEW k \in 1 .. n
      PROVE  Pair(q, k - 1) \in Machine
  <2> DEFINE e == k - 1
             r == Reg(e)
             b == Base(e)
  <2>1. e \in Int /\ IsIndex(e, i.size)
    <3>1. k - 1 \in 0 .. n - 1
      BY <1>2
    <3> QED
      BY <1>1, <3>1, ElementCounts
  <2>2. r \in VRegs
    BY <1>1
  <2>3. IsIndex(b, i.size) /\ IsIndex(b + 1, i.size)
    BY <1>1, <2>1, PairPlaces
  <2>4. Both(q, e) = ReadVecElem(ReadVecElem(q, GPR_DUMMY, r, b, i.size), GPR_DUMMY2, r, b + 1, i.size)
    OBVIOUS
  <2> HIDE DEF e, r, b, n
  <2>5. ReadVecElem(q, GPR_DUMMY, r, b, i.size) \in Machine
    BY <1>1, <2>2, <2>3, ElementMoves, Zenon
  <2>6. ReadVecElem(ReadVecElem(q, GPR_DUMMY, r, b, i.size), GPR_DUMMY2, r, b + 1, i.size) \in Machine
    BY <1>1, <2>2, <2>3, <2>5, ElementMoves, Zenon
  <2>7. Both(q, e) \in Machine
    BY <2>4, <2>6, Zenon
  <2> HIDE DEF Both
  <2>8. AddReg(Both(q, e), GPR_DUMMY, GPR_DUMMY, GPR_DUMMY2, FALSE, TRUE) \in Machine
    BY <1>1, <2>7, RegisterLogic, Zenon
  <2>9. Sum(q, e) \in Machine
    BY <2>7, <2>8
  <2> HIDE DEF Sum
  <2>10. Pair(q, e) \in Machine
    BY <1>1, <2>1, <2>9, ElementMoves, Zenon
  <2> QED
    BY <2>10 DEF e
<1>4. ASSUME NEW q \in Machine, NEW d \in {0, 1} PROVE CopyBack(q, d) \in Machine
  <2>1. IsIndex(d, 3) /\ 3 \in 0 .. 3
    BY FirstIndexes
  <2>2. ReadVecElem(q, GPR_DUMMY, VREG_DUMMY, d, 3) \in Machine
    BY <1>1, <2>1, ElementMoves, Zenon
  <2> QED
    BY <1>1, <2>1, <2>2, ElementMoves, Zenon
<1>5. Handle3SamePair(m, i) = CopyBack(CopyBack(after[n], 0), 1)
  BY DEF Handle3SamePair, EachElement
<1> HIDE DEF n, Pair, CopyBack
<1>6. step \in [Machine \X (1 .. n) -> Machine]
  BY <1>3
<1>7. PICK f : DefinedFrom(f, n, Machine, m, step)
  <2> HIDE DEF step
  <2> QED
    BY <1>2, <1>6, IntervalRecursion
<1>8. f = Rule(f)
  <2>1. ASSUME NEW k \in 0 .. n
        PROVE  f[k] = IF k = 0 THEN m ELSE Pair(f[k - 1], k - 1)
    <3>1. CASE k = 0
      BY <1>7, <3>1 DEF DefinedFrom
    <3>2. CASE k \in 1 .. n
      <4>1. f[k - 1] \in Machine
        BY <1>2, <1>7, <3>2 DEF DefinedFrom
      <4>2. f[k] = step[<<f[k - 1], k>>]
        <5> HIDE DEF step
        <5> QED
          BY <1>7, <3>2 DEF DefinedFrom
      <4> QED
        BY <3>2, <4>1, <4>2
    <3> QED
      BY <1>2, <3>1, <3>2
  <2>2. f = [k \in 0 .. n |-> f[k]]
    BY <1>7 DEF DefinedFrom
  <2> QED
    BY <2>1, <2>2
<1>9. after = Rule(after)
  <2> HIDE DEF Rule
  <2> QED
    BY <1>8
<1> HIDE DEF after, step
<1>10. /\ after[0] = m
       /\ \A k \in 1 .. n : after[k] = Pair(after[k - 1], k - 1)
  BY <1>2, <1>9
<1>11. after[n] \in Machine
  <2>1. \A k \in 1 .. n : after[k - 1] \in Machine => after[k] \in Machine
    BY <1>3, <1>10
  <2> HIDE DEF Rule
  <2> QED
    BY <1>2, <1>10, <2>1, HoldsAtEnd
<1>12. CopyBack(after[n], 0) \in Machine
  BY <1>4, <1>11
<1>13. CopyBack(CopyBack(after[n], 0), 1) \in Machine
  BY <1>4, <1>12
<1> QED
  BY <1>5, <1>13, Zenon

(* Operations on three vector registers (DisasSimdThreeRegSame,            *)
(* DisasSimdScalarThreeRegSame).                                           *)
LEMMA ThreeRegisters ==
    ASSUME NEW m \in Machine, NEW i, VectorFields(i)
    PROVE  /\ i.cls = "SimdThreeRegSame" => DisasSimdThreeRegSame(m, i) \in Machine
           /\ i.cls = "SimdScalarThreeRegSame" => DisasSimdScalarThreeRegSame(m, i) \in Machine
<1>1. ASSUME i.cls = "SimdThreeRegSame" PROVE DisasSimdThreeRegSame(m, i) \in Machine
  <2>1. /\ i.size \in 0 .. 3 /\ i.rd \in Vectors
        /\ i.rn \in VRegs /\ i.rm \in VRegs /\ i.rd \in VRegs /\ VREG_DUMMY \in VRegs
        /\ i.op \in {"AND", "BIC", "ORR", "ORN", "EOR", "ADDP", "SMAXP", "UMAXP", "SMINP", "UMINP",
                     "CMEQ", "CMTST"}
    BY <1>1, RegisterKinds DEF VectorFields
  <2>2. /\ AndVecReg(m, i.rd, i.rn, i.rm) \in Machine /\ OrrVecReg(m, i.rd, i.rn, i.rm) \in Machine
        /\ EorVecReg(m, i.rd, i.rn, i.rm) \in Machine /\ BicVecReg(m, i.rd, i.rn, i.rm) \in Machine
    BY <2>1, VectorLogic, Zenon
  <2>3. NotVecReg(m, VREG_DUMMY, i.rm) \in Machine
    BY <2>1, VectorLogic, Zenon
  <2>4. OrrVecReg(NotVecReg(m, VREG_DUMMY, i.rm), i.rd, i.rn, VREG_DUMMY) \in Machine
    BY <2>1, <2>3, VectorLogic, Zenon
  <2>5. i.op \in {"AND", "BIC", "ORR", "ORN", "EOR"} => DisasSimd3SameLogic(m, i) \in Machine
    BY <2>2, <2>4 DEF DisasSimd3SameLogic
  <2>6. Handle3SamePair(m, i) \in Machine
    BY <1>1, PairsCombine
  <2>7. DisasSimd3SameInt(m, i) \in Machine
    BY <2>1, ComparisonsKeep
  <2> QED
    BY <2>1, <2>5, <2>6, <2>7 DEF DisasSimdThreeRegSame
<1>2. ASSUME i.cls = "SimdScalarThreeRegSame" PROVE DisasSimdScalarThreeRegSame(m, i) \in Machine
  <2>1. i.size \in 0 .. 3 /\ i.rd \in Vectors
    BY <1>2 DEF VectorFields
  <2>2. IsIndex(0, i.size)
    BY <2>1, FirstIndexes
  <2> QED
    BY <2>1, <2>2, HandlesElement DEF DisasSimdScalarThreeRegSame
<1> QED
  BY <1>1, <1>2

(* Copies of elements (DisasSimdCopy).                                     *)
LEMMA CopiesKeep ==
    ASSUME NEW m \in Machine, NEW i, VectorFields(i), i.cls = "SimdCopy"
    PROVE  DisasSimdCopy(m, i) \in Machine
<1>1. /\ i.size \in 0 .. 3 /\ IsIndex(i.index, i.size) /\ IsIndex(i.src, i.size)
      /\ i.op \in {"INS_element", "INS_general", "DUP_element", "DUP_general", "UMOV", "SMOV"}
      /\ i.op \notin {"UMOV", "SMOV"} => i.rd \in VRegs
      /\ i.op \in {"UMOV", "SMOV"} => i.rd \in Regs
      /\ i.op \notin {"INS_general", "DUP_general"} => i.rn \in VRegs
      /\ i.op \in {"INS_general", "DUP_general"} => i.rn \in Regs
      /\ GPR_DUMMY \in Regs /\ VREG_DUMMY \in VRegs
  BY RegisterKinds, Named DEF VectorFields
<1>2. ASSUME i.op = "INS_element" PROVE DisasSimdInse(m, i) \in Machine
  <2>1. i.rd \in VRegs /\ i.rn \in VRegs
    BY <1>1, <1>2
  <2>2. ReadVecElem(m, GPR_DUMMY, i.rn, i.src, i.size) \in Machine
    BY <1>1, <2>1, ElementMoves, Zenon
  <2> QED
    BY <1>1, <2>1, <2>2, ElementMoves, Zenon DEF DisasSimdInse
<1>3. ASSUME i.op = "INS_general" PROVE DisasSimdInsg(m, i) \in Machine
  <2>1. i.rd \in VRegs /\ i.rn \in Regs
    BY <1>1, <1>3
  <2> QED
    BY <1>1, <2>1, ElementMoves, Zenon DEF DisasSimdInsg
<1>4. ASSUME i.op = "DUP_element" PROVE DisasSimdDupe(m, i) \in Machine
  <2>1. i.rd \in VRegs /\ i.rn \in VRegs
    BY <1>1, <1>4
  <2> DEFINE d == IF i.index * Bytes(i.size) >= 8 THEN 16 ELSE 8
  <2>2. d \in {8, 16}
    OBVIOUS
  <2>3. DisasSimdDupe(m, i) = DupVecImm(m, i.rd, Lane(m.vreg[i.rn], i.index, i.size), i.size, d)
    BY DEF DisasSimdDupe, DupVecReg
  <2> HIDE DEF d
  <2>4. Lane(m.vreg[i.rn], i.index, i.size) \in Nat /\ Lane(m.vreg[i.rn], i.index, i.size) < 2^BitsOf(i.size)
    BY <1>1, <2>1, ElementValues, Zenon
  <2>5. DupVecImm(m, i.rd, Lane(m.vreg[i.rn], i.index, i.size), i.size, d) \in Machine
    BY <1>1, <2>1, <2>2, <2>4, Duplicates, Zenon
  <2> QED
    BY <2>3, <2>5, Zenon
<1>5. ASSUME i.op = "DUP_general" PROVE DisasSimdDupg(m, i) \in Machine
  <2>1. i.rd \in VRegs /\ i.rn \in Regs
    BY <1>1, <1>5
  <2>2. FullOr(i) \in {8, 16}
    BY DEF FullOr
  <2>3. Low(X(m, i.rn), BitsOf(i.size)) \in Nat /\ Low(X(m, i.rn), BitsOf(i.size)) < 2^BitsOf(i.size)
    BY <1>1, <2>1, ElementValues, Zenon
  <2>4. DupVecImm(m, i.rd, Low(X(m, i.rn), BitsOf(i.size)), i.size, FullOr(i)) \in Machine
    BY <1>1, <2>1, <2>2, <2>3, Duplicates, Zenon
  <2> QED
    BY <2>4 DEF DisasSimdDupg, DupVecRegFromGen
<1>6. ASSUME i.op \in {"UMOV", "SMOV"} PROVE DisasSimdUmovSmov(m, i) \in Machine
  <2>1. i.rd \in Regs /\ i.rn \in VRegs
    BY <1>1, <1>6
  <2> DEFINE elem == ReadVecElem(m, i.rd, i.rn, i.index, i.size)
  <2>2. elem \in Machine
    BY <1>1, <2>1, ElementMoves, Zenon
  <2>3. DisasSimdUmovSmov(m, i) = IF i.op = "SMOV" /\ ~i.q THEN SExt32(elem, i.rd, i.rd) ELSE elem
    BY DEF DisasSimdUmovSmov
  <2> HIDE DEF elem
  <2>4. SExt32(elem, i.rd, i.rd) \in Machine
    <3>1. W(elem, i.rd) \in Int /\ Half \in Nat
      BY <2>1, <2>2, Reads, Widths
    <3>2. Sext(W(elem, i.rd), Half) \in Word
      BY <3>1, SignedRange, Zenon
    <3> QED
      BY <2>2, <3>2, Puts, Zenon DEF SExt32
  <2> QED
    BY <2>2, <2>3, <2>4
<1> QED
  BY <1>1, <1>2, <1>3, <1>4, <1>5, <1>6 DEF DisasSimdCopy

(* Immediates, scalar copies and moves to and from floating point          *)
(* (DisasSimdModImm, DisasSimdScalarCopy, DisasFp1Src, DisasFpIntConv).    *)
LEMMA ScalarsKeep ==
    ASSUME NEW m \in Machine, NEW i, VectorFields(i)
    PROVE  /\ i.cls = "SimdModImm" => DisasSimdModImm(m, i) \in Machine
           /\ i.cls = "SimdScalarCopy" => DisasSimdScalarCopy(m, i) \in Machine
           /\ i.cls = "Fp1Src" => DisasFp1Src(m, i) \in Machine
           /\ i.cls = "FpIntConv" => DisasFpIntConv(m, i) \in Machine
<1>1. ASSUME i.cls = "SimdModImm" PROVE DisasSimdModImm(m, i) \in Machine
  <2>1. i.rd \in VRegs /\ i.imm \in Word
    BY <1>1, RegisterKinds DEF VectorFields
  <2>2. i.imm \in Nat /\ i.imm < 2^BitsOf(3) /\ FullOr(i) \in {8, 16} /\ 3 \in 0 .. 3
    BY <2>1, ByteCounts, Power, Widths DEF Word, FullOr
  <2> QED
    BY <2>1, <2>2, Duplicates, Zenon DEF DisasSimdModImm
<1>2. ASSUME i.cls = "SimdScalarCopy" PROVE DisasSimdScalarCopy(m, i) \in Machine
  <2>1. i.rd \in VRegs /\ i.rn \in VRegs /\ i.size \in 0 .. 3 /\ IsIndex(i.index, i.size)
    BY <1>2, RegisterKinds DEF VectorFields
  <2> DEFINE clear == PutV(m, i.rd, 0)
  <2>2. clear \in Machine
    <3>1. 0 \in Quad
      BY WordSize, Quads
    <3> QED
      BY <3>1, VectorPuts
  <2>3. DisasSimdScalarCopy(m, i) = PutV(clear, i.rd, Lane(clear.vreg[i.rn], i.index, i.size))
    BY DEF DisasSimdScalarCopy, ReadVecReg
  <2> HIDE DEF clear
  <2>4. Lane(clear.vreg[i.rn], i.index, i.size) \in Quad
    BY <2>1, <2>2, Named, ElementValues
  <2> QED
    BY <2>2, <2>3, <2>4, VectorPuts
<1>3. ASSUME i.cls = "Fp1Src" PROVE DisasFp1Src(m, i) \in Machine
  <2>1. i.rd \in VRegs /\ i.rn \in VRegs /\ i.type \in {0, 1, 3}
    BY <1>3, RegisterKinds DEF VectorFields
  <2> DEFINE size == TypeSize(i.type)
  <2>2. size \in 0 .. 3 /\ IsIndex(0, size) /\ GPR_DUMMY \in Regs
    <3>1. size \in 0 .. 3
      BY <2>1 DEF TypeSize
    <3> QED
      BY <3>1, FirstIndexes, Named
  <2>3. DisasFp1Src(m, i) = IF i.op = "FMOV" THEN PutLane(m, i.rd, 0, size, Lane(m.vreg[i.rn], 0, size)) ELSE m
    BY DEF DisasFp1Src, FMovReg
  <2> HIDE DEF size
  <2>4. Lane(m.vreg[i.rn], 0, size) \in Nat /\ Lane(m.vreg[i.rn], 0, size) < 2^BitsOf(size)
    BY <2>1, <2>2, ElementValues, Zenon
  <2>5. PutLane(m, i.rd, 0, size, Lane(m.vreg[i.rn], 0, size)) \in Machine
    BY <2>1, <2>2, <2>4, LanePuts, Zenon
  <2> QED
    BY <2>3, <2>5
<1>4. ASSUME i.cls = "FpIntConv" PROVE DisasFpIntConv(m, i) \in Machine
  <2>1. /\ i.type \in 0 .. 3 /\ i.itof \in BOOLEAN
        /\ (i.itof => i.rd \in VRegs /\ i.rn \in Regs) /\ (~i.itof => i.rd \in Regs /\ i.rn \in VRegs)
    BY <1>4, RegisterKinds, Named DEF VectorFields
  <2> DEFINE at == IF i.type = 2 THEN 1 ELSE 0
             size == CASE i.type \in {1, 2} -> 3 [] i.type = 3 \/ (i.type = 0 /\ i.itof) -> 1 [] OTHER -> 2
  <2>2. size \in 0 .. 3 /\ at \in {0, 1} /\ (at = 1 => size = 3)
    <3>1. i.type \in {0, 1, 2, 3}
      BY <2>1
    <3>2. /\ i.type = 0 => size \in {1, 2} /\ at = 0
          /\ i.type = 1 => size = 3 /\ at = 0
          /\ i.type = 2 => size = 3 /\ at = 1
          /\ i.type = 3 => size = 1 /\ at = 0
      BY <2>1
    <3> HIDE DEF at, size
    <3> QED
      BY <3>1, <3>2
  <2>3. DisasFpIntConv(m, i) =
          IF i.itof THEN PutLane(PutV(m, i.rd, 0), i.rd, at, size, Low(X(m, i.rn), BitsOf(size)))
                    ELSE Put(m, i.rd, Lane(m.vreg[i.rn], at, size))
    BY DEF DisasFpIntConv, FMovConv
  <2> HIDE DEF at, size
  <2>4. IsIndex(at, size)
    BY <2>2, FirstIndexes
  <2>5. ASSUME i.itof
        PROVE  PutLane(PutV(m, i.rd, 0), i.rd, at, size, Low(X(m, i.rn), BitsOf(size))) \in Machine
    <3>1. i.rd \in VRegs /\ i.rn \in Regs /\ VREG_DUMMY \in VRegs
      BY <2>1, <2>5, RegisterKinds
    <3>2. PutV(m, i.rd, 0) \in Machine
      <4>1. 0 \in Quad
        BY WordSize, Quads
      <4> QED
        BY <4>1, VectorPuts
    <3>3. Low(X(m, i.rn), BitsOf(size)) \in Nat /\ Low(X(m, i.rn), BitsOf(size)) < 2^BitsOf(size)
      BY <2>2, <2>4, <3>1, ElementValues, Zenon
    <3> QED
      BY <2>2, <2>4, <3>1, <3>2, <3>3, LanePuts, Zenon
  <2>6. ASSUME ~i.itof PROVE Put(m, i.rd, Lane(m.vreg[i.rn], at, size)) \in Machine
    <3>1. i.rn \in VRegs /\ GPR_DUMMY \in Regs
      BY <2>1, <2>6, Named
    <3>2. Lane(m.vreg[i.rn], at, size) \in Word
      BY <2>2, <2>4, <3>1, ElementValues, Zenon
    <3> QED
      BY <3>2, Puts, Zenon
  <2> QED
    BY <2>3, <2>5, <2>6
<1> QED
  BY <1>1, <1>2, <1>3, <1>4

(***************************************************************************)
(* The type invariant of the interpreter.  It is inductive together with   *)
(* two facts that it leaves out: memory is a function from words, and the  *)
(* program consists of instructions.                                       *)
(***************************************************************************)
TypeInv == TypeOK /\ mem \in Memories /\ \A a \in DOMAIN code : Instruction(code[a])

(* A step replaces the machine by one that the decoder's function gives.   *)
LEMMA StepsAreMachines ==
    ASSUME TypeInv, Next
    PROVE  /\ \E m \in Machine : /\ gpr' = Retired(m.gpr) /\ nzcv' = m.nzcv /\ vreg' = m.vreg
                                 /\ sysr' = m.sysr /\ mem' = m.mem
           /\ monitor' \in BOOLEAN /\ UNCHANGED code
<1> DEFINE now == [gpr |-> gpr, nzcv |-> nzcv, vreg |-> vreg, sysr |-> sysr, mem |-> mem]
           i == code[PC]
           Done(m) == /\ gpr' = Retired(m.gpr) /\ nzcv' = m.nzcv /\ vreg' = m.vreg
                      /\ sysr' = m.sysr /\ mem' = m.mem
           Effect == (\E m \in Machine : Done(m)) /\ monitor' \in BOOLEAN /\ UNCHANGED code
<1> SUFFICES Effect
  OBVIOUS
<1>1. now \in Machine
  BY DEF TypeInv, TypeOK, Machine
<1>2. PC \in DOMAIN code => IntegerFields(i) /\ MemoryFields(i) /\ VectorFields(i) /\ Monitored(i) \in BOOLEAN
  <2> SUFFICES ASSUME PC \in DOMAIN code
               PROVE  IntegerFields(i) /\ MemoryFields(i) /\ VectorFields(i) /\ Monitored(i) \in BOOLEAN
    OBVIOUS
  <2>1. IntegerFields(i) /\ MemoryFields(i) /\ VectorFields(i)
    BY DEF TypeInv, Instruction
  <2>2. monitor \in BOOLEAN
    BY DEF TypeInv, TypeOK
  <2>3. i.cls = "LdstExcl" => i.store \in BOOLEAN
    BY <2>1 DEF MemoryFields
  <2>4. Monitored(i) \in BOOLEAN
    BY <2>2, <2>3 DEF Monitored
  <2> QED
    BY <2>1, <2>4
<1>3. ASSUME NEW n \in Machine, Done(n), monitor' = Monitored(i), PC \in DOMAIN code, UNCHANGED code
      PROVE  Effect
  <2> HIDE DEF i, Done
  <2> QED
    BY <1>2, <1>3
<1>6. PCRelAddr => Effect
  BY <1>1, <1>2, <1>3, PCRelAddrKeeps DEF PCRelAddr, SingleStep, Fetched
<1>7. AddSubImm \/ LogImm \/ MovwImm => Effect
  BY <1>1, <1>2, <1>3, ImmediatesKeep DEF AddSubImm, LogImm, MovwImm, SingleStep, Fetched
<1>8. Bitfield => Effect
  BY <1>1, <1>2, <1>3, BitfieldKeeps DEF Bitfield, SingleStep, Fetched
<1>9. ExtractRegs => Effect
  BY <1>1, <1>2, <1>3, ExtractKeeps DEF ExtractRegs, SingleStep, Fetched
<1>10. UncondBrImm \/ UncondBrReg \/ CompBrImm \/ TestBrImm \/ CondBrImm => Effect
  BY <1>1, <1>2, <1>3, BranchesKeep DEF UncondBrImm, UncondBrReg, CompBrImm, TestBrImm, CondBrImm, SingleStep, Fetched
<1>11. LogicReg => Effect
  BY <1>1, <1>2, <1>3, LogicRegKeeps DEF LogicReg, SingleStep, Fetched
<1>12. AddSubExtReg \/ AddSubReg \/ AddSubcReg => Effect
  BY <1>1, <1>2, <1>3, SumsKeep DEF AddSubExtReg, AddSubReg, AddSubcReg, SingleStep, Fetched
<1>13. DataProc3src => Effect
  BY <1>1, <1>2, <1>3, ProductsKeep DEF DataProc3src, SingleStep, Fetched
<1>14. CompareIf \/ CondSel => Effect
  BY <1>1, <1>2, <1>3, ConditionsKeep DEF CompareIf, CondSel, SingleStep, Fetched
<1>15. DataProc1src \/ DataProc2src => Effect
  BY <1>1, <1>2, <1>3, SourcesKeep DEF DataProc1src, DataProc2src, SingleStep, Fetched
<1>16. LdstRegImm9 \/ LdstRegUnsignedImm => Effect
  BY <1>1, <1>2, <1>3, SingleAccesses DEF LdstRegImm9, LdstRegUnsignedImm, SingleStep, Fetched
<1>17. LdstRegRoffset => Effect
  BY <1>1, <1>2, <1>3, OffsetAccesses DEF LdstRegRoffset, SingleStep, Fetched
<1>18. LdLit => Effect
  BY <1>1, <1>2, <1>3, LiteralsKeep DEF LdLit, SingleStep, Fetched
<1>19. LdstPair => Effect
  BY <1>1, <1>2, <1>3, PairsKeep DEF LdstPair, SingleStep, Fetched
<1>20. LdstExcl => Effect
  BY <1>1, <1>2, <1>3, ExclusivesKeep DEF LdstExcl, SingleStep, Fetched
<1>21. LdStMulti => Effect
  BY <1>1, <1>2, <1>3, MultiplesKeep DEF LdStMulti, SingleStep, Fetched
<1>22. LdStSingle => Effect
  BY <1>1, <1>2, <1>3, SinglesKeep DEF LdStSingle, SingleStep, Fetched
<1>23. System => Effect
  BY <1>1, <1>2, <1>3, SystemKeeps DEF System, SingleStep, Fetched
<1>24. SimdThreeRegSame \/ SimdScalarThreeRegSame => Effect
  BY <1>1, <1>2, <1>3, ThreeRegisters DEF SimdThreeRegSame, SimdScalarThreeRegSame, SingleStep, Fetched
<1>25. SimdCopy => Effect
  BY <1>1, <1>2, <1>3, CopiesKeep DEF SimdCopy, SingleStep, Fetched
<1>26. SimdModImm \/ SimdScalarCopy \/ Fp1Src \/ FpIntConv => Effect
  BY <1>1, <1>2, <1>3, ScalarsKeep DEF SimdModImm, SimdScalarCopy, Fp1Src, FpIntConv, SingleStep, Fetched
<1> HIDE DEF Effect
<1> QED
  BY <1>6, <1>7, <1>8, <1>9, <1>10, <1>11, <1>12, <1>13, <1>14, <1>15, <1>16, <1>17, <1>18, <1>19, <1>20, <1>21, <1>22, <1>23, <1>24, <1>25, <1>26 DEF Next

(* At first the registers hold words, and nothing has been stored.         *)
LEMMA TypedAtFirst ==
    ASSUME Init
    PROVE  TypeInv
<1>1. RegistersOK
  BY RegistersAtFirst
<1>2. PICK s \in Starts :
          /\ code = s.code /\ nzcv \in s.flags
          /\ \E f \in s.vregs : vreg = [r \in VRegs |-> IF r \in DOMAIN f THEN f[r] ELSE 0]
  BY DEF Init
<1>3. PICK f \in s.vregs : vreg = [r \in VRegs |-> IF r \in DOMAIN f THEN f[r] ELSE 0]
  BY <1>2
<1>4. /\ \A a \in DOMAIN s.code : Instruction(s.code[a])
      /\ DOMAIN f \subseteq VRegs /\ (\A r \in DOMAIN f : f[r] \in Quad)
      /\ s.flags \subseteq SUBSET Flag /\ Tls \in Word
  BY CpuAssumption
<1>5. 0 \in Quad /\ 4 \in Word
  BY WordSize, Quads, RegisterNames
<1>6. vreg \in [VRegs -> Quad]
  BY <1>3, <1>4, <1>5
<1>7. sysr \in [SysReg -> Word]
  BY <1>4, <1>5 DEF Init, SysReg
<1>8. mem \in Memories /\ DOMAIN mem = {}
  <2>1. mem = <<>>
    BY DEF Init
  <2>2. mem \in [{} -> 0 .. 2^Byte - 1] /\ {} \in SUBSET Word
    BY <2>1
  <2> QED
    BY <2>2 DEF Memories
<1>9. monitor = FALSE
  BY DEF Init
<1> QED
  BY <1>1, <1>2, <1>4, <1>6, <1>7, <1>8, <1>9 DEF TypeInv, TypeOK, RegistersOK

(* Each step keeps the invariant.                                          *)
LEMMA TypeKept ==
    ASSUME TypeInv, [Next]_vars
    PROVE  TypeInv'
<1>1. CASE UNCHANGED vars
  BY <1>1 DEF TypeInv, TypeOK, vars
<1>2. CASE Next
  <2>1. PICK m \in Machine : /\ gpr' = Retired(m.gpr) /\ nzcv' = m.nzcv /\ vreg' = m.vreg
                             /\ sysr' = m.sysr /\ mem' = m.mem
    BY <1>2, StepsAreMachines
  <2>2. monitor' \in BOOLEAN /\ code' = code
    BY <1>2, StepsAreMachines
  <2>3. m.gpr \in [Regs -> Word] /\ m.nzcv \subseteq Flag /\ m.vreg \in [VRegs -> Quad]
        /\ m.sysr \in [SysReg -> Word] /\ m.mem \in Memories
    BY DEF Machine
  <2>4. gpr' \in [Regs -> Word] /\ gpr'[GPR_ZERO] = 0
    BY <2>1, <2>3, Retiring
  <2>5. DOMAIN m.mem \subseteq Word /\ \A a \in DOMAIN m.mem : m.mem[a] \in 0 .. 2^Byte - 1
    BY MemoryBytes
  <2>6. TypeOK'
    BY <2>1, <2>2, <2>3, <2>4, <2>5 DEF TypeOK
  <2>7. \A a \in DOMAIN code' : Instruction(code'[a])
    BY <2>2 DEF TypeInv
  <2> QED
    BY <2>1, <2>3, <2>6, <2>7 DEF TypeInv
<1> QED
  BY <1>1, <1>2

(* Whatever program runs and however wide the registers are, each          *)
(* register and each byte of memory holds what fits, no flag is set but    *)
(* the four, and register 31 reads zero after every instruction: no        *)
(* callback stores a result that it has not cut to the width of its        *)
(* target, and none names a register that is not there (SingleStep, with   *)
(* every Disas function and callback it reaches).                          *)
THEOREM TypeCorrect == Spec => []TypeOK
<1>1. Init => TypeInv
  BY TypedAtFirst
<1>2. TypeInv /\ [Next]_vars => TypeInv'
  BY TypeKept
<1>3. TypeInv => TypeOK
  BY DEF TypeInv
<1> QED
  BY <1>1, <1>2, <1>3, PTL DEF Spec
=============================================================================
