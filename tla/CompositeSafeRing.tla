--------------------------- MODULE CompositeSafeRing ---------------------------
(***************************************************************************)
(* CompositeSafePolynomialRing (polynomial_ring.hpp) as a machine that     *)
(* serves one call of a client after another.  Long products are computed  *)
(* modulo several primes by transforms, in a batch of the executor or one  *)
(* after the other, and put together by the Chinese remainder theorem; the *)
(* ring builds its executor when it first needs it and keeps it.           *)
(***************************************************************************)
EXTENDS PolynomialRing

CONSTANTS
  Primes,     \* ntt_primes: modulus, primitive root, power of two, certain bits
  Rings,      \* how clients construct rings
  Calls(_)    \* what they ask of a ring


Polynomials(m) == Seq(0 .. m - 1)

ASSUME ClientsAssumption ==
  \A r \in Rings :
    /\ {r.modulus, r.policy.product_limit, r.policy.ntt_limit,
        r.policy.minimum_crt_primes} \subseteq Nat
    /\ {r.policy.parallel, r.scarce} \subseteq BOOLEAN
    /\ r.modulus >= 2 =>
         \A c \in Calls(r.modulus) :
           c \in [op : {"multiply", "remainder"},
                  left : Polynomials(r.modulus), right : Polynomials(r.modulus)]

VARIABLES
  ring,       \* modulus, policy, and whether memory may be scarce
  pc,         \* "new", "idle", "called", "transform", "done" or "closed"
  call,
  activation, \* of monic_remainder while it waits for a product
  residues,   \* the coefficients modulo each prime
  result,
  phase, size, slots, ended    \* the executor, as BatchContract has it

pool == <<phase, size, slots, ended>>
ring_vars == <<ring, pc, call, activation, residues, result, pool>>

Executor ==
  INSTANCE BatchContract WITH MaxTasks <- Len(Primes), slot <- slots, outcome <- ended

modulus == ring.modulus
policy  == ring.policy
left    == call.left
right   == call.right

-------------------------------------------------------------------------------
(* Transforms *)

\* prime_power_mod
Power(base, exponent, p) ==
  LET power[e \in 0 .. exponent] ==
        IF e = 0 THEN 1
        ELSE LET half == power[e \div 2]
             IN  (((half * half) % p) * (IF e % 2 = 1 THEN base ELSE 1)) % p
  IN  power[exponent]

\* An odd prime with a root of -1 of the order its power of two allows.
TransformPrime(prime) ==
  /\ {prime.modulus, prime.root, prime.power, prime.bits} \subseteq Nat
  /\ prime.modulus > 2 /\ \A d \in 2 .. prime.modulus - 1 : prime.modulus % d # 0
  /\ (prime.modulus - 1) % PowerOfTwo(prime.power) = 0
  /\ Power(prime.root, (prime.modulus - 1) \div 2, prime.modulus) = prime.modulus - 1
  /\ PowerOfTwo(prime.bits) <= prime.modulus

ASSUME PrimesAssumption ==
  /\ Primes \in Seq({Primes[i] : i \in DOMAIN Primes})
  /\ \A i \in DOMAIN Primes : TransformPrime(Primes[i])
  /\ \A i, j \in DOMAIN Primes : i # j => Primes[i].modulus # Primes[j].modulus

Inverted(x, p) == Power(x, p - 2, p)

\* The permutation that precedes the butterflies.
BitReversal(n) ==
  LET reversed[i \in 0 .. n - 1] ==
        IF i = 0 THEN 0 ELSE (reversed[i \div 2] + (i % 2) * n) \div 2
  IN  reversed

\* All butterflies of one length.
Butterflies(values, length, root, p) ==
  LET half  == length \div 2
      Twiddle(i) == Power(root, i, p)
  IN  Tuple([k \in DOMAIN values |->
               LET i == (k - 1) % length
               IN  IF i < half THEN (values[k] + values[k + half] * Twiddle(i)) % p
                   ELSE (values[k - half] - values[k] * Twiddle(i - half)) % p])

\* ntt, before an inverse is scaled.
Transformed(values, invert, prime) ==
  LET n == Len(values)
      p == prime.modulus
      Root(length) ==
        LET root == Power(prime.root, (p - 1) \div length, p)
        IN  IF invert THEN Inverted(root, p) ELSE root
      level[l \in 0 .. Rounds(n)] ==
        IF l = 0 THEN Tuple([k \in 1 .. n |-> values[BitReversal(n)[k - 1] + 1]])
        ELSE Butterflies(level[l - 1], PowerOfTwo(l), Root(PowerOfTwo(l)), p)
  IN  level[Rounds(n)]

\* Variant: the inverse is not scaled.
UnscaledNTT(values, invert, prime) == Transformed(values, invert, prime)
NTT(values, invert, prime) ==
  LET last   == Transformed(values, invert, prime)
      factor == Inverted(Len(values) % prime.modulus, prime.modulus)
  IN  IF invert THEN Tuple([k \in DOMAIN last |-> (last[k] * factor) % prime.modulus])
      ELSE last

\* transform_for_prime
Convolution(p, q, prime) ==
  LET count  == Len(p) + Len(q) - 1
      Image(v) == NTT(Resize([k \in DOMAIN v |-> v[k] % prime.modulus], BitCeil(count)),
                      FALSE, prime)
      a == Image(p)
      b == Image(q)
  IN  SubSeq(NTT(Tuple([k \in DOMAIN a |-> (a[k] * b[k]) % prime.modulus]), TRUE, prime),
             1, count)

-------------------------------------------------------------------------------
(* Exactness of the basis *)

\* The sum of the values of a function.
Total(f) == MapThenSumSet(LAMBDA i : f[i], DOMAIN f)

\* bit_width
BitWidth(n) == Rounds(n + 1)

\* Variant: the number of terms of a coefficient is not counted.
BitsOfOneTerm(terms) == 2 * BitWidth(modulus - 1)
RequiredBits(terms)  == 2 * BitWidth(modulus - 1) + BitWidth(terms)

\* required_prime_count
Sufficient(terms) ==
  {n \in DOMAIN Primes :
     Total([i \in 1 .. n |-> Primes[i].bits]) >= RequiredBits(terms)}

PrimeCount(a, b) == Max({Min(Sufficient(Lesser(a, b))), policy.minimum_crt_primes})

\* ntt_crt_multiply throws PolynomialResourceError.
TransformRefused(a, b) ==
  \/ TooLong(a, b, policy)
  \/ IF Sufficient(Lesser(a, b)) = {} THEN TRUE
     ELSE \E i \in 1 .. PrimeCount(a, b) : PowerOfTwo(Primes[i].power) < BitCeil(a + b - 1)

Refused(a, b) == ~Schoolbook(a, b, policy) /\ TransformRefused(a, b)

\* The product of the first primes.
PrefixProduct(count, m) ==
  LET product[i \in 0 .. count] ==
        IF i = 0 THEN 1 % m ELSE (product[i - 1] * Primes[i].modulus) % m
  IN  product[count]

\* The mixed-radix digits of a coefficient.
Digits(remainders) ==
  LET digits[n \in 0 .. Len(remainders)] ==
        IF n = 0 THEN <<>>
        ELSE LET p        == Primes[n].modulus
                 before   == digits[n - 1]
                 constant == Total([j \in DOMAIN before |-> before[j] * PrefixProduct(j - 1, p)])
             IN  Append(before, ((remainders[n] - constant)
                                   * Inverted(PrefixProduct(n - 1, p), p)) % p)
  IN  digits[Len(remainders)]

Reconstructed(remainders) ==
  LET digits == Digits(remainders)
  IN  Total([i \in DOMAIN digits |-> (digits[i] % modulus) * PrefixProduct(i - 1, modulus)])
        % modulus

-------------------------------------------------------------------------------
NoCall       == [op |-> "none"]
NoActivation == [stage |-> "none"]
NoResult     == [kind |-> "none"]

Returned(v) == [kind |-> "value", value |-> v]
Limit     == [kind |-> "limit"]
Rejected  == [kind |-> "rejected"]
Failed    == [kind |-> "failed"]

RingInit ==
  /\ ring \in Rings
  /\ pc = "new" /\ call = NoCall /\ activation = NoActivation
  /\ residues = <<>> /\ result = NoResult
  /\ Executor!Init

RingValid ==
  /\ modulus >= 2
  /\ policy.ntt_limit # 0 /\ BitCeil(policy.ntt_limit) = policy.ntt_limit
  /\ policy.minimum_crt_primes <= Len(Primes)

Construct ==
  /\ pc = "new"
  /\ pc' = IF RingValid THEN "idle" ELSE "closed"
  /\ UNCHANGED <<ring, call, activation, residues, result, pool>>

Ask ==
  /\ pc = "idle"
  /\ call' \in Calls(modulus)
  /\ pc' = "called"
  /\ UNCHANGED <<ring, activation, residues, result, pool>>

Answer(r) ==
  /\ result' = r
  /\ pc' = "done"
  /\ UNCHANGED <<ring, call, activation, pool>>

\* The client takes the answer; the locals of the call are gone.
Deliver ==
  /\ pc = "done" /\ activation = NoActivation
  /\ pc' = "idle" /\ call' = NoCall /\ residues' = <<>> /\ result' = NoResult
  /\ UNCHANGED <<ring, activation, pool>>

(* ------------------------------- multiply ------------------------------- *)

Multiplying == pc = "called" /\ call.op = "multiply"

SchoolbookMultiply ==
  /\ Multiplying
  /\ Schoolbook(Len(left), Len(right), policy)
  /\ Answer(Returned(Product(left, right, modulus)))
  /\ UNCHANGED residues

RefuseTransform ==
  /\ Multiplying
  /\ Refused(Len(left), Len(right))
  /\ Answer(Limit)
  /\ UNCHANGED residues

Count == PrimeCount(Len(left), Len(right))
InBatch == policy.parallel /\ Count > 1

EmptyResidues == [i \in 1 .. Count |-> <<>>]

BuildExecutor ==
  /\ Multiplying /\ ~Schoolbook(Len(left), Len(right), policy)
  /\ ~Refused(Len(left), Len(right))
  /\ InBatch
  /\ Executor!Build
  /\ phase' = "idle" \/ ring.scarce
  /\ pc' = IF phase' = "closed" THEN "closed" ELSE pc
  /\ UNCHANGED <<ring, call, activation, residues, result>>

StartTransforms ==
  /\ Multiplying /\ ~Schoolbook(Len(left), Len(right), policy)
  /\ ~Refused(Len(left), Len(right))
  /\ IF InBatch THEN Executor!Start(Count) ELSE UNCHANGED pool
  /\ residues' = EmptyResidues
  /\ pc' = "transform"
  /\ UNCHANGED <<ring, call, activation, result>>

\* One call of the batch; it may fail to allocate its two vectors.
Transform(i) ==
  /\ pc = "transform" /\ InBatch
  /\ Executor!Call(i - 1)
  /\ slots'[i - 1] = "threw" => ring.scarce
  /\ residues' = IF slots'[i - 1] = "threw" THEN residues
                 ELSE [residues EXCEPT ![i] = Convolution(left, right, Primes[i])]
  /\ UNCHANGED <<ring, pc, call, activation, result>>

\* The loop over the primes without the executor.
TransformInTurn(i) ==
  /\ pc = "transform" /\ ~InBatch
  /\ residues[i] = <<>> /\ \A j \in 1 .. i - 1 : residues[j] # <<>>
  /\ \/ /\ residues' = [residues EXCEPT ![i] = Convolution(left, right, Primes[i])]
        /\ UNCHANGED <<ring, pc, call, activation, result, pool>>
     \/ /\ ring.scarce
        /\ Answer(Failed)
        /\ UNCHANGED residues

Combined ==
  Trim([k \in 1 .. Len(left) + Len(right) - 1 |->
          Reconstructed([i \in DOMAIN residues |-> residues[i][k]])])

\* What follows the batch, unless run() rethrows.
GatherBatch ==
  /\ pc = "transform" /\ InBatch
  /\ Executor!Return
  /\ result' = IF ended' = "raised" THEN Failed ELSE Returned(Combined)
  /\ pc' = "done"
  /\ UNCHANGED <<ring, call, activation, residues>>

Gather ==
  /\ pc = "transform" /\ ~InBatch
  /\ \A i \in DOMAIN residues : residues[i] # <<>>
  /\ Answer(Returned(Combined))
  /\ UNCHANGED residues

(* --------------------------- monic_remainder ---------------------------- *)

Dividing == pc = "called" /\ call.op = "remainder"

Divide ==
  /\ Dividing
  /\ ~Monic(right) \/ Classical(Len(left), Len(right), policy)
  /\ Answer(IF Monic(right) THEN Returned(ClassicalRemainder(left, right, modulus))
            ELSE Rejected)
  /\ UNCHANGED residues

\* The size of the quotient and of its reciprocal, and the size that the next
\* Newton round reaches.
QuotientSize(a) == Len(a.dividend) - Len(a.divisor) + 1
RoundSize(a)    == Lesser(QuotientSize(a), 2 * Len(a.inverse))

\* The operands of the product that an activation waits for.
Operands(a) ==
  CASE a.stage = "prefix"   -> <<SubSeq(Reversed(a.divisor), 1, Lesser(Len(a.divisor), RoundSize(a))),
                                 a.inverse>>
    [] a.stage = "inverse"  -> <<a.inverse, a.factor>>
    [] a.stage = "quotient" -> <<SubSeq(Reversed(a.dividend), 1, QuotientSize(a)), a.inverse>>
    [] a.stage = "product"  -> <<a.factor, a.divisor>>

Demand(a) ==
  /\ activation' = a
  /\ call' = [op |-> "multiply", left |-> Operands(a)[1], right |-> Operands(a)[2]]
  /\ pc' = "called"
  /\ residues' = <<>> /\ result' = NoResult
  /\ UNCHANGED <<ring, pool>>

\* The loop of series_inverse, and what follows it.
NextRound(a) ==
  [a EXCEPT !.stage = IF Len(a.inverse) < QuotientSize(a) THEN "prefix" ELSE "quotient"]

BeginNewton ==
  /\ Dividing
  /\ Monic(right) /\ ~Classical(Len(left), Len(right), policy)
  /\ Demand(NextRound([dividend |-> left, divisor |-> right, stage |-> "prefix",
                       inverse |-> <<1>>, factor |-> <<>>]))

Arrived(stage) == pc = "done" /\ activation.stage = stage /\ result.kind = "value"

Correct ==
  /\ Arrived("prefix")
  /\ Demand([activation EXCEPT !.stage = "inverse",
               !.factor = Correction(Resize(result.value, RoundSize(activation)), modulus)])

EndRound ==
  /\ Arrived("inverse")
  /\ Demand(NextRound([activation EXCEPT !.factor = <<>>,
                         !.inverse = Resize(result.value, RoundSize(activation))]))

TakeQuotient ==
  /\ Arrived("quotient")
  /\ Demand([activation EXCEPT !.stage = "product",
               !.factor = Reversed(Resize(result.value, QuotientSize(activation)))])

\* The client's call is the one that ends now.
EndActivation ==
  /\ activation' = NoActivation
  /\ call' = [op |-> "remainder", left |-> activation.dividend, right |-> activation.divisor]
  /\ residues' = <<>>
  /\ UNCHANGED <<ring, pc, pool>>

Subtract ==
  /\ Arrived("product")
  /\ LET product == Resize(result.value, Len(activation.dividend))
     IN  result' = Returned(Trim([i \in 1 .. Len(activation.divisor) - 1 |->
                                    (activation.dividend[i] - product[i]) % modulus]))
  /\ EndActivation

\* A product that is refused or fails ends the division as well.
Unwind ==
  /\ pc = "done" /\ activation # NoActivation /\ result.kind # "value"
  /\ EndActivation
  /\ UNCHANGED result

MonicRemainder ==
  Divide \/ BeginNewton \/ Correct \/ EndRound \/ TakeQuotient \/ Subtract \/ Unwind

Destroy ==
  /\ pc = "idle"
  /\ pc' = "closed"
  /\ IF phase = "idle" THEN Executor!Close ELSE UNCHANGED pool
  /\ UNCHANGED <<ring, call, activation, residues, result>>

-------------------------------------------------------------------------------
Multiply ==
  \/ SchoolbookMultiply \/ RefuseTransform \/ BuildExecutor \/ StartTransforms
  \/ \E i \in DOMAIN Primes : i <= Len(residues) /\ (Transform(i) \/ TransformInTurn(i))
  \/ GatherBatch \/ Gather

RingNext == Construct \/ Ask \/ Multiply \/ MonicRemainder \/ Deliver \/ Destroy

Closed == pc = "closed" /\ UNCHANGED ring_vars

RingSpec == RingInit /\ [][RingNext \/ Closed]_ring_vars

-------------------------------------------------------------------------------
(* Properties *)

RingTypeOK ==
  /\ ring \in Rings
  /\ pc \in {"new", "idle", "called", "transform", "done", "closed"}
  /\ pc \notin {"called", "transform", "done"} => call = NoCall \/ phase = "closed"
  /\ activation # NoActivation => pc \in {"called", "transform", "done", "closed"}
  /\ pc # "done" => result = NoResult
  /\ result.kind \in {"none", "value", "limit", "rejected", "failed"}

\* What a prime has contributed is the product modulo that prime: a transform
\* never wraps around, and whatever happened to earlier batches of the same
\* executor, a slot is filled exactly when its index has been written.
ResiduesExact ==
  pc = "transform" =>
    \A i \in DOMAIN residues :
      /\ InBatch => phase = "busy" /\ (slots[i - 1] = "written" <=> residues[i] # <<>>)
      /\ residues[i] # <<>> =>
           LET p == Primes[i].modulus
           IN  residues[i] = Resize(Product(left, right, p), Len(left) + Len(right) - 1)

\* Whichever way a product was computed, it is the schoolbook product, for
\* prime and composite moduli: the primes that are used hold every coefficient.
ProductExact ==
  pc = "done" /\ call.op = "multiply" /\ result.kind = "value" =>
    result.value = Product(left, right, modulus)

\* The remainder of a monic divisor is the one of long division, also when it
\* comes from Newton's iteration over a ring with zero divisors; and the sizes
\* of the operands alone decide whether a product on the way is refused.
RemainderExact ==
  pc = "done" /\ activation = NoActivation /\ call.op = "remainder" =>
    /\ result.kind = "value" => result.value = ClassicalRemainder(left, right, modulus)
    /\ Monic(right) /\ result.kind # "failed" =>
         (result.kind = "limit" <=>
            /\ ~Classical(Len(left), Len(right), policy)
            /\ \E d \in NewtonProducts(Len(left), Len(right)) : Refused(d[1], d[2]))
===============================================================================
