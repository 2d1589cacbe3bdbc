----------------------------- MODULE Induction -----------------------------
(***************************************************************************)
(* Induction and recursion over the natural numbers, stated with sets and  *)
(* functions in place of operators, so that the provers can use them.  The *)
(* first lemma comes from the well-foundedness of the natural numbers; the *)
(* others follow from it.  They serve the proofs about the recursive       *)
(* functions of the models: what a packet stands for, where the pieces of  *)
(* a message lie, and which region is the first of a finite set.           *)
(***************************************************************************)
EXTENDS Integers, FiniteSets, FiniteSetTheorems, WellFoundedInduction, TLAPS

(* A nonempty set of natural numbers has a least element.                  *)
LEMMA LeastNat ==
    ASSUME NEW S \in SUBSET Nat, S # {}
    PROVE  \E m \in S : \A n \in S : m <= n
<1>1. IsWellFoundedOn(OpToRel(<, Nat), Nat)
  BY NatLessThanWellFounded, Zenon
<1>2. PICK m \in S : \A y \in S : <<y, m>> \notin OpToRel(<, Nat)
  BY <1>1, WFMin, Zenon
<1>3. \A y \in S : ~(y < m)
  BY <1>2, Zenon DEF OpToRel
<1> QED
  BY <1>3

(* A nonempty set of natural numbers with a bound has a greatest element.  *)
LEMMA GreatestNat ==
    ASSUME NEW S \in SUBSET Nat, S # {}, NEW b \in Nat, \A n \in S : n <= b
    PROVE  \E m \in S : \A n \in S : n <= m
<1> DEFINE T == {k \in Nat : k <= b /\ b - k \in S}
<1>1. \A n \in S : n \in Nat /\ b - n \in Nat /\ b - n <= b /\ b - (b - n) = n
  OBVIOUS
<1>2. \A n \in S : b - n \in T
  BY <1>1
<1>3. T \in SUBSET Nat /\ T # {}
  BY <1>2
<1>4. PICK d \in T : \A e \in T : d <= e
  <2> HIDE DEF T
  <2> QED
    BY <1>3, LeastNat
<1>5. d \in Nat /\ d <= b /\ b - d \in S
  OBVIOUS
<1>6. ASSUME NEW n \in S PROVE n <= b - d
  <2>1. d <= b - n
    BY <1>2, <1>4
  <2> HIDE DEF T
  <2> QED
    BY <1>1, <1>5, <2>1
<1> QED
  BY <1>5, <1>6

(* A set that contains 0 and the successor of each number it contains      *)
(* contains every number.                                                  *)
LEMMA SetInduction ==
    ASSUME NEW S, 0 \in S, \A n \in Nat : n \in S => n + 1 \in S
    PROVE  Nat \subseteq S
<1> DEFINE rest == Nat \ S
<1> SUFFICES ASSUME rest # {} PROVE FALSE
  OBVIOUS
<1>1. PICK x \in rest : \A y \in rest : x <= y
  <2> HIDE DEF rest
  <2>1. rest \in SUBSET Nat
    BY DEF rest
  <2> QED
    BY <2>1, LeastNat
<1>2. x - 1 \in Nat /\ ~(x <= x - 1) /\ (x - 1) + 1 = x
  OBVIOUS
<1> QED
  BY <1>1, <1>2

(* The same up to a number n.                                              *)
LEMMA IntervalInduction ==
    ASSUME NEW n \in Nat, NEW S, 0 \in S,
           \A i \in 0..(n - 1) : i \in S => i + 1 \in S
    PROVE  0..n \subseteq S
<1> DEFINE T == {i \in Nat : i <= n => i \in S}
<1>1. Nat \subseteq T
  <2>1. 0 \in T
    OBVIOUS
  <2>2. \A i \in Nat : i \in T => i + 1 \in T
    OBVIOUS
  <2> HIDE DEF T
  <2> QED
    BY <2>1, <2>2, SetInduction
<1> QED
  BY <1>1

(***************************************************************************)
(* f is defined on 0..n by recursion, with values in V: it begins at c,    *)
(* and step gives each value from the one before it and from its place.    *)
(***************************************************************************)
DefinedFrom(f, n, V, c, step) ==
    /\ f \in [0..n -> V]
    /\ f[0] = c
    /\ \A i \in 1..n : f[i] = step[<<f[i - 1], i>>]

(* There is such a function.                                               *)
LEMMA IntervalRecursion ==
    ASSUME NEW n \in Nat, NEW V, NEW c \in V, NEW step \in [V \X (1..n) -> V]
    PROVE  \E f : DefinedFrom(f, n, V, c, step)
<1> DEFINE Defines(f, m) == DefinedFrom(f, m, V, c, step)
           S == {m \in Nat : \E f : Defines(f, m)}
<1>1. 0 \in S
  <2> DEFINE f == [i \in 0..0 |-> c]
  <2>1. Defines(f, 0)
    BY DEF DefinedFrom
  <2> HIDE DEF f, Defines
  <2> QED
    BY <2>1
<1>2. ASSUME NEW m \in 0..(n - 1), m \in S PROVE m + 1 \in S
  <2>1. PICK f : Defines(f, m)
    BY <1>2
  <2> DEFINE g == [i \in 0..(m + 1) |-> IF i <= m THEN f[i] ELSE step[<<f[m], m + 1>>]]
  <2>2. f[m] \in V /\ <<f[m], m + 1>> \in V \X (1..n)
    BY <2>1 DEF DefinedFrom
  <2>3. step[<<f[m], m + 1>>] \in V
    BY <2>2
  <2>4. g \in [0..(m + 1) -> V] /\ g[0] = c
    BY <2>1, <2>3 DEF DefinedFrom
  <2>5. ASSUME NEW i \in 1..(m + 1)
        PROVE  g[i] = step[<<g[i - 1], i>>]
    <3>1. CASE i = m + 1
      <4>1. g[i - 1] = f[m] /\ g[i] = step[<<f[m], m + 1>>]
        BY <3>1
      <4> HIDE DEF g
      <4> QED
        BY <3>1, <4>1
    <3>2. CASE i \in 1..m
      <4>1. g[i] = f[i] /\ g[i - 1] = f[i - 1]
        BY <3>2
      <4>2. f[i] = step[<<f[i - 1], i>>]
        BY <2>1, <3>2 DEF DefinedFrom
      <4> HIDE DEF g
      <4> QED
        BY <4>1, <4>2
    <3> QED
      BY <3>1, <3>2
  <2> HIDE DEF g
  <2>6. Defines(g, m + 1)
    BY <2>4, <2>5 DEF DefinedFrom
  <2> HIDE DEF Defines
  <2> QED
    BY <2>6
<1>3. n \in S
  <2> HIDE DEF S
  <2>1. 0..n \subseteq S
    BY <1>1, <1>2, IntervalInduction
  <2> QED
    BY <2>1
<1> QED
  BY <1>3
============================================================================
