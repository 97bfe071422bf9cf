---------------------------- MODULE PolynomialRing ----------------------------
(***************************************************************************)
(* The arithmetic of CompositeSafePolynomialRing (polynomial_ring.hpp) as  *)
(* its clients see it: polynomials over the residues of a modulus that     *)
(* need not be prime.  A polynomial is the sequence of its coefficients,   *)
(* the constant one first.  How a product is computed by transforms is the *)
(* subject of CompositeSafeRing; here only the sizes matter at which the   *)
(* engine refuses to compute it.                                           *)
(***************************************************************************)
EXTENDS Integers, Sequences, FiniteSetsExt

\* The sequence itself, as a tuple whose elements TLC computes once.
Tuple(s) == s \o <<>>

Lesser(a, b) == IF a < b THEN a ELSE b

\* trim: no zero in front of the leading coefficient.
Trim(p) ==
  LET q == Tuple(p) IN SubSeq(q, 1, Max({0} \cup {i \in DOMAIN q : q[i] # 0}))

Resize(p, n) == Tuple([i \in 1 .. n |-> IF i <= Len(p) THEN p[i] ELSE 0])

Reversed(p) == Tuple([i \in DOMAIN p |-> p[Len(p) + 1 - i]])

\* schoolbook_multiply
Product(p, q, m) ==
  IF p = <<>> \/ q = <<>> THEN <<>>
  ELSE Trim([k \in 1 .. Len(p) + Len(q) - 1 |->
               MapThenSumSet(LAMBDA i : p[i] * q[k + 1 - i],
                             {i \in DOMAIN p : k + 1 - i \in DOMAIN q}) % m])

Monic(q) == q # <<>> /\ q[Len(q)] = 1

\* classical_monic_remainder: clears the coefficients from the top down to the
\* degree of the divisor.  rest[c] is what is left when c coefficients are.
ClassicalRemainder(p, q, m) ==
  LET degree == Len(q) - 1
      rest[c \in degree .. Len(p)] ==
        IF c = Len(p) THEN p
        ELSE LET above == rest[c + 1]
             IN  Tuple([i \in 1 .. c |->
                          LET j == i - (c - degree)
                          IN  IF j \in 1 .. degree
                                THEN (above[i] - above[c + 1] * q[j]) % m
                                ELSE above[i]])
  IN  IF Len(p) < Len(q) THEN p ELSE Trim(rest[degree])

\* 1, doubled k times.
PowerOfTwo(k) ==
  LET power[i \in 0 .. k] == IF i = 0 THEN 1 ELSE 2 * power[i - 1]
  IN  power[k]

\* The number of Newton rounds that reach a size.
Rounds(size) ==
  CHOOSE k \in 0 .. size :
    PowerOfTwo(k) >= size /\ (k = 0 \/ PowerOfTwo(k - 1) < size)

\* Variant: the correction 1 - product, one Newton term too few.
LinearCorrection(product, m) ==
  Tuple([i \in DOMAIN product |-> ((IF i = 1 THEN 1 ELSE 0) - product[i]) % m])
Correction(product, m) ==
  Tuple([i \in DOMAIN product |-> ((IF i = 1 THEN 2 ELSE 0) - product[i]) % m])

\* series_inverse: the reciprocal of a series with constant one, whose size
\* doubles with every round of Newton's iteration.
SeriesInverse(p, size, m) ==
  LET inverse[k \in 0 .. Rounds(size)] ==
        IF k = 0 THEN <<1>>
        ELSE LET next    == Lesser(size, PowerOfTwo(k))
                 old     == inverse[k - 1]
                 prefix  == SubSeq(p, 1, Lesser(Len(p), next))
                 product == Resize(Product(prefix, old, m), next)
             IN  Resize(Product(old, Correction(product, m), m), next)
  IN  inverse[Rounds(size)]

\* monic_remainder above the classical limit: the quotient from the reversed
\* polynomials, then one more product.
NewtonRemainder(p, q, m) ==
  LET size     == Len(p) - Len(q) + 1
      inverse  == SeriesInverse(SubSeq(Reversed(q), 1, Lesser(Len(q), size)), size, m)
      quotient == Reversed(Resize(Product(SubSeq(Reversed(p), 1, size), inverse, m), size))
      product  == Resize(Product(quotient, q, m), Len(p))
  IN  Trim([i \in 1 .. Len(q) - 1 |-> (p[i] - product[i]) % m])

-------------------------------------------------------------------------------
\* A policy limits schoolbook work (product_limit) and transforms (ntt_limit).

\* bit_ceil
BitCeil(n) == PowerOfTwo(Rounds(n))

\* Whether the operands are short enough for schoolbook_multiply, and whether
\* the transform of their product would be too long.
Schoolbook(a, b, policy) == a = 0 \/ b = 0 \/ a * b <= policy.product_limit
TooLong(a, b, policy)    == BitCeil(a + b - 1) > policy.ntt_limit

\* Policies the ring's constructor rejects: a limit that is no power of two, or
\* more primes than the table of the transform has.
TablePrimes == 6
LimitUnusable(policy) == BitCeil(policy.ntt_limit) # policy.ntt_limit
BasisExceeded(policy) == policy.minimum_crt_primes > TablePrimes

\* multiply throws PolynomialResourceError on operands of these sizes, if the
\* basis of primes covers every modulus and length that a policy admits.
ProductRefused(a, b, policy) == ~Schoolbook(a, b, policy) /\ TooLong(a, b, policy)

Classical(a, b, policy) ==
  a < b \/ (a - b + 1) * b <= policy.product_limit

\* The sizes of the operands of the products that monic_remainder asks for:
\* those of the Newton rounds, the quotient, and its product with the divisor.
NewtonProducts(a, b) ==
  LET size    == a - b + 1
      old(k)  == PowerOfTwo(k - 1)
      next(k) == Lesser(size, PowerOfTwo(k))
  IN  {<<Lesser(Lesser(b, size), next(k)), old(k)>> : k \in 1 .. Rounds(size)}
      \cup {<<old(k), next(k)>> : k \in 1 .. Rounds(size)}
      \cup {<<size, size>>, <<size, b>>}

RemainderRefused(a, b, policy) ==
  /\ ~Classical(a, b, policy)
  /\ \E d \in NewtonProducts(a, b) : ProductRefused(d[1], d[2], policy)

\* monic_remainder; the divisor is monic and the engine does not refuse.
Remainder(p, q, m, policy) ==
  IF Classical(Len(p), Len(q), policy) THEN ClassicalRemainder(p, q, m)
  ELSE NewtonRemainder(p, q, m)

\* evaluate_polynomial: Horner's rule from the leading coefficient.
Value(p, x, m) ==
  LET horner[i \in 1 .. Len(p)] ==
        IF i = Len(p) THEN p[i] ELSE (horner[i + 1] * x + p[i]) % m
  IN  IF p = <<>> THEN 0 ELSE horner[1]
===============================================================================
