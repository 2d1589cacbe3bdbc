------------------------------- MODULE Words -------------------------------
(***************************************************************************)
(* Machine words of two widths.  The X registers of the guest have Wide    *)
(* bits and their W halves Half; a byte has Byte.  The code has 64, 32 and *)
(* 8; every definition is over the three names, and the widths of the      *)
(* model keep their proportions.                                           *)
(***************************************************************************)
EXTENDS Integers, FiniteSetsExt

CONSTANTS
    Half,        \* bits of a W register
    PageBits     \* bits of an offset in a page of ADRP, 12 in the code

ASSUME WidthAssumption ==
    /\ Half \in Nat /\ Half >= 4 /\ Half % 4 = 0
    /\ PageBits \in 0 .. Half

Wide == 2 * Half
Byte == Half \div 4
Width(bit64) == IF bit64 THEN Wide ELSE Half

Word == 0 .. 2^Wide - 1
AllOnes == 2^Wide - 1

(* A word as the set of its bits, and back; Num takes quadwords too.       *)
Bits(w) == {i \in 0 .. Wide - 1 : (w \div 2^i) % 2 = 1}
Num(S) ==
    LET below[n \in 0 .. 2 * Wide] ==
            IF n = 0 THEN 0 ELSE below[n - 1] + (IF n - 1 \in S THEN 2^(n - 1) ELSE 0)
    IN  below[2 * Wide]

(* The number of n digits of w bits, the least significant first.          *)
FromDigits(digits, n, w) ==
    LET below[k \in 0 .. n] ==
            IF k = 0 THEN 0 ELSE below[k - 1] + digits[k - 1] * 2^((k - 1) * w)
    IN  below[n]

(* The low n bits, as a number without and with a sign.                    *)
Low(w, n) == w % 2^n
Signed(w, n) == IF Low(w, n) >= 2^(n - 1) THEN Low(w, n) - 2^n ELSE Low(w, n)
Sext(w, n) == Signed(w, n) % 2^Wide

And(a, b) == Num(Bits(a) \cap Bits(b))
Or(a, b) == Num(Bits(a) \cup Bits(b))
Xor(a, b) == Num((Bits(a) \cup Bits(b)) \ (Bits(a) \cap Bits(b)))
Not(a) == AllOnes - a

Lsl(w, k) == (w * 2^k) % 2^Wide
Lsr(w, k) == w \div 2^k
Asr(w, k, n) == (Signed(w, n) \div 2^k) % 2^Wide
=============================================================================
