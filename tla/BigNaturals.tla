------------------------------ MODULE BigNaturals ------------------------------
(***************************************************************************)
(* BigNat (afac56/big_nat.hpp) and subtract_exact (afac57): a natural      *)
(* number as the sequence of its limbs, the lowest first and the highest   *)
(* not zero.  Equality and the hashes compare the limbs themselves, so a   *)
(* number must never be kept with a leading zero.  A limb of the code has  *)
(* 64 bits and a hexadecimal digit four; here they have LimbBits and       *)
(* DigitBits.                                                              *)
(***************************************************************************)
EXTENDS Integers, SequencesExt

CONSTANTS LimbBits, DigitBits

LimbBase  == 2 ^ LimbBits
DigitBase == 2 ^ DigitBits

Zero == <<>>

\* BigNat(std::uint64_t) of a value of one limb.
OneLimb(value) == IF value = 0 THEN Zero ELSE <<value>>

LimbAt(n, i) == IF i \in DOMAIN n THEN n[i] ELSE 0

Larger(a, b) == IF a > b THEN a ELSE b

\* The carries of a sum: into the limbs after the i lowest ones.
Carries(left, right, first, count) ==
  LET carry[i \in 0..count] ==
        IF i = 0 THEN first
        ELSE (LimbAt(left, i) + LimbAt(right, i) + carry[i - 1]) \div LimbBase
  IN  carry

Sum(left, right, first) ==
  LET count == Larger(Len(left), Len(right))
      carry == Carries(left, right, first, count)
      limbs == [i \in 1..count |->
                  (LimbAt(left, i) + LimbAt(right, i) + carry[i - 1]) % LimbBase]
  IN  IF carry[count] = 0 THEN limbs ELSE Append(limbs, carry[count])

\* BigNat::add
Add(left, right) == Sum(left, right, 0)

\* BigNat::incremented
Incremented(n) == Sum(n, Zero, 1)

\* The highest limb in which two numbers of one length differ decides.
Less(left, right) ==
  \/ Len(left) < Len(right)
  \/ /\ Len(left) = Len(right)
     /\ \E i \in DOMAIN left :
          /\ left[i] < right[i]
          /\ \A j \in DOMAIN left : j > i => left[j] = right[j]

LessOrEqual(left, right) == left = right \/ Less(left, right)

\* BigNat::bit_length and BigNat::bit
BitWidth(limb) == CHOOSE w \in 0..LimbBits : 2 ^ w > limb /\ (w = 0 \/ 2 ^ (w - 1) <= limb)

BitLength(n) ==
  IF n = Zero THEN 0 ELSE (Len(n) - 1) * LimbBits + BitWidth(n[Len(n)])

Bit(n, i) == (LimbAt(n, i \div LimbBits + 1) \div 2 ^ (i % LimbBits)) % 2

\* Variant: the number is not normalized after its limbs are filled.
FromDigitsAsGiven(digits) ==
  LET per_limb == LimbBits \div DigitBits
      Digit(i) == IF i < Len(digits) THEN digits[i + 1] ELSE 0
  IN  [l \in 1 .. (Len(digits) + per_limb - 1) \div per_limb |->
         LET Place(d) == Digit((l - 1) * per_limb + d) * DigitBase ^ d
         IN  FoldLeft(LAMBDA value, d : value + Place(d - 1), 0, [d \in 1..per_limb |-> d])]

\* BigNat::from_hex, of digits the lowest first: leading zeros are dropped.
FromDigits(digits) ==
  LET significant == {i \in DOMAIN digits : digits[i] # 0}
      kept == IF significant = {} THEN 0 ELSE Max(significant)
  IN  FromDigitsAsGiven(SubSeq(digits, 1, kept))

\* subtract_exact, for right <= left: bit by bit with a borrow into
\* hexadecimal digits, which are read back.
SubtractExact(left, right) ==
  LET bits == BitLength(left)
      borrow[i \in 0..bits] ==
        IF i = 0 THEN 0
        ELSE IF Bit(left, i - 1) - Bit(right, i - 1) - borrow[i - 1] < 0 THEN 1 ELSE 0
      Difference(i) ==
        IF i >= bits THEN 0
        ELSE (Bit(left, i) - Bit(right, i) - borrow[i]) % 2
      digits == [d \in 1 .. (bits + DigitBits - 1) \div DigitBits |->
                   FoldLeft(LAMBDA value, b : value + Difference((d - 1) * DigitBits + b - 1) * 2 ^ (b - 1),
                            0, [b \in 1..DigitBits |-> b])]
  IN  IF left = right THEN Zero ELSE FromDigits(digits)

-------------------------------------------------------------------------------
(* Reference definitions *)

\* The number a sequence of limbs stands for.
NumberOf(n) == FoldRight(LAMBDA limb, value : value * LimbBase + limb, n, 0)

Canonical(n) == n = Zero \/ n[Len(n)] # 0

\* The limbs of a number.
LimbsOf(value) ==
  LET count == CHOOSE c \in 0..value : LimbBase ^ c > value /\ (c = 0 \/ LimbBase ^ (c - 1) <= value)
  IN  [i \in 1..count |-> (value \div LimbBase ^ (i - 1)) % LimbBase]
===============================================================================
