----------------------------- MODULE BigUnsigneds -----------------------------
(***************************************************************************)
(* BigUnsigned (src/internal/big_unsigned.hpp), in which the exact value   *)
(* of a factorial is derived in two ways: one small factor after another,  *)
(* and by a tree of products of limbs.  A number is the sequence of its    *)
(* limbs, the lowest first.  A limb of the code has 32 bits and a factor   *)
(* may have 64; here a limb is below Base and a factor may be larger.      *)
(* Chunk stands for the 10^9 of the decimal conversion.                    *)
(***************************************************************************)
EXTENDS Integers, SequencesExt

CONSTANTS Base, Chunk

None == <<>>

\* BigUnsigned::normalize
Normalized(limbs) ==
  LET significant == {i \in DOMAIN limbs : limbs[i] # 0}
  IN  SubSeq(limbs, 1, IF significant = {} THEN 0 ELSE Max(significant))

\* The limbs of a carry that is pushed behind the highest limb.
CarryLimbs(carry) ==
  LET rest[i \in 0..carry] == IF i = 0 THEN carry ELSE rest[i - 1] \div Base
      count == CHOOSE c \in 0..carry : rest[c] = 0 /\ (c = 0 \/ rest[c - 1] # 0)
  IN  [i \in 1..count |-> rest[i - 1] % Base]

\* BigUnsigned(std::uint64_t)
FromInteger(value) == CarryLimbs(value)

\* Variant: one limb is enough for what remains of a carry.
MultiplySmallOneCarry(limbs, factor) ==
  LET carry[i \in 0 .. Len(limbs)] ==
        IF i = 0 THEN 0 ELSE (limbs[i] * factor + carry[i - 1]) \div Base
      product == [i \in DOMAIN limbs |-> (limbs[i] * factor + carry[i - 1]) % Base]
  IN  IF carry[Len(limbs)] = 0 THEN product ELSE Append(product, carry[Len(limbs)] % Base)

\* multiply_small
MultiplySmall(limbs, factor) ==
  LET carry[i \in 0 .. Len(limbs)] ==
        IF i = 0 THEN 0 ELSE (limbs[i] * factor + carry[i - 1]) \div Base
  IN  IF factor = 0 THEN None
      ELSE IF limbs = None \/ factor = 1 THEN limbs
      ELSE [i \in DOMAIN limbs |-> (limbs[i] * factor + carry[i - 1]) % Base]
             \o CarryLimbs(carry[Len(limbs)])

\* One row of multiply: digit times right is added to the result from a
\* place on, and its carry runs on through the limbs behind.
AddRow(result, digit, right, place) ==
  LET Term(i) == IF i - place \in DOMAIN right THEN digit * right[i - place] ELSE 0
      carry[i \in 0 .. Len(result)] ==
        IF i = 0 THEN 0 ELSE (result[i] + Term(i) + carry[i - 1]) \div Base
  IN  [i \in DOMAIN result |-> (result[i] + Term(i) + carry[i - 1]) % Base]

\* multiply
Multiply(left, right) ==
  LET cleared == [i \in 1 .. Len(left) + Len(right) + 1 |-> 0]
  IN  IF left = None \/ right = None THEN None
      ELSE Normalized(FoldLeft(LAMBDA result, i : AddRow(result, left[i], right, i - 1),
                               cleared, [i \in DOMAIN left |-> i]))

\* modulo, from the highest limb.
Modulo(limbs, modulus) ==
  IF modulus = 0 THEN 0
  ELSE FoldRight(LAMBDA limb, remainder : (remainder * Base + limb) % modulus, limbs, 0)

\* divide_small: the quotient with its leading zeros dropped, and the rest.
DivideSmall(limbs, divisor) ==
  LET count == Len(limbs)
      \* the remainder above limb count - i
      remainder[i \in 0..count] ==
        IF i = 0 THEN 0 ELSE (remainder[i - 1] * Base + limbs[count - i + 1]) % divisor
  IN  [quotient |-> Normalized([i \in DOMAIN limbs |->
                      (remainder[count - i] * Base + limbs[i]) \div divisor]),
       rest |-> remainder[count]]

\* decimal: the chunks of the number, the lowest first; all but the highest
\* are written with leading zeros.
Decimal(limbs) ==
  LET Divide(run, i) ==
        IF run.left = None THEN run
        ELSE LET division == DivideSmall(run.left, Chunk)
             IN  [left |-> division.quotient, chunks |-> Append(run.chunks, division.rest)]
      turns == [i \in 1 .. Len(limbs) * Base |-> i]
  IN  FoldLeft(Divide, [left |-> limbs, chunks |-> <<>>], turns).chunks

\* factorial_sequential
FactorialSequential(argument) ==
  FoldLeft(MultiplySmall, FromInteger(1), [i \in 1 .. argument - 1 |-> i + 1])

\* product_range
ProductRange(first, last) ==
  LET product[range \in (first..last) \X (first..last)] ==
        LET a == range[1]  b == range[2]  middle == a + (b - a) \div 2
        IN  IF a > b THEN FromInteger(1)
            ELSE IF a = b THEN FromInteger(a)
            ELSE Multiply(product[<<a, middle>>], product[<<middle + 1, b>>])
  IN  IF first > last THEN FromInteger(1) ELSE product[<<first, last>>]

\* factorial_product_tree
FactorialProductTree(argument) ==
  IF argument < 2 THEN FromInteger(1) ELSE ProductRange(2, argument)
===============================================================================
