------------------------------ MODULE CyclicProbe ------------------------------
(***************************************************************************)
(* The dense observer of afac61/self_cyclic_probe.hpp and the independent  *)
(* audit of src/cyclic_structure.cpp that checks its answer with other     *)
(* mathematics: the observer multiplies out the product of 1 - S^k over    *)
(* k < order in the group ring of the cyclic group, the audit factors the  *)
(* order and compares every coefficient with a Ramanujan sum.              *)
(***************************************************************************)
EXTENDS CyclicJets, FiniteSets, SequencesExt

(* ------------------------------ the observer ----------------------------- *)

\* One convolution with 1 + S + ... + S^(k-1), by a cyclic sliding window.
SlideWindow(column, order, modulus, k) ==
  LET window[i \in Column(order)] ==
        (IF i = 0
           THEN MapThenSumSet(LAMBDA j : column[(-j) % order], 0 .. k - 1)
           ELSE window[i - 1] + column[i] - column[(i + order - k) % order]) % modulus
  IN  window

Negated(column, modulus) == [i \in DOMAIN column |-> (-column[i]) % modulus]

\* materialize_signed_normalized_interval_cyclic_column
NormalizedColumn(count, order, modulus) ==
  LET column[k \in 0..count] ==
        IF k = 0 THEN OneColumn(order)
        ELSE Evaluated(SlideWindow(Evaluated(column[k - 1]), order, modulus, k))
  IN  IF count % 2 = 1 THEN Negated(column[count], modulus) ELSE column[count]

\* apply_s_minus_identity_power
ApplyPower(value, exponent, order, modulus) ==
  LET power[round \in 0..exponent] ==
        IF round = 0 THEN value
        ELSE LET last == Evaluated(power[round - 1])
             IN  [i \in Column(order) |-> (last[(i - 1) % order] - last[i]) % modulus]
  IN  power[exponent]

\* A polynomial is the sequence of its coefficients, the constant first.
Trim(polynomial) ==
  LET nonzero == {i \in DOMAIN polynomial : polynomial[i] # 0}
  IN  SubSeq(polynomial, 1, IF nonzero = {} THEN 0 ELSE Max(nonzero))

PowMod(base, exponent, modulus) ==
  LET power[e \in 0..exponent] == IF e = 0 THEN 1 % modulus ELSE (power[e - 1] * base) % modulus
  IN  power[exponent]

\* The leading coefficient is cancelled by a multiple of the divisor.
ReduceOnce(dividend, divisor, modulus) ==
  LET shift  == Len(dividend) - Len(divisor)
      factor == (Last(dividend) * PowMod(Last(divisor), modulus - 2, modulus)) % modulus
  IN  Trim([i \in DOMAIN dividend |->
              IF i > shift THEN (dividend[i] - factor * divisor[i - shift]) % modulus
                           ELSE dividend[i]])

\* polynomial_remainder_prime_field
PolynomialRemainder(dividend, divisor, modulus) ==
  LET rest[turn \in 0 .. Len(dividend)] ==
        IF turn = 0 THEN Trim(dividend)
        ELSE LET last == rest[turn - 1]
             IN  IF Len(last) < Len(divisor) THEN last ELSE ReduceOnce(last, divisor, modulus)
  IN  rest[Len(dividend)]

\* normalized_kernel_degree_prime_field: the degree of the greatest common
\* divisor with S^order - 1.
KernelDegree(column, order, modulus) ==
  LET cyclic == [i \in 1 .. order + 1 |->
                   CASE i = 1 -> modulus - 1 [] i = order + 1 -> 1 [] OTHER -> 0]
      pair[turn \in 0 .. order + 1] ==
        IF turn = 0 THEN <<cyclic, Trim([i \in 1..order |-> column[i - 1]])>>
        ELSE LET last == Evaluated(pair[turn - 1])
             IN  IF last[2] = <<>> THEN last
                 ELSE <<last[2], PolynomialRemainder(last[1], last[2], modulus)>>
      divisor == Trim(pair[order + 1][1])
  IN  IF divisor = <<>> THEN 0 ELSE Len(divisor) - 1

\* has_prime_projector_shape
PrimeProjectorShape(column, order, modulus) ==
  /\ column[0] = (order - 1) % modulus
  /\ \A i \in 1 .. order - 1 : column[i] = modulus - 1

\* SelfCyclicActionObserver::observe of a policy it accepts: what it answers.
Response(order, policy) ==
  LET terminal   == Evaluated(TerminalColumn(order, policy.modulus))
      normalized == Evaluated(NormalizedColumn(order - 1, order, policy.modulus))
  IN  [order |-> order, modulus |-> policy.modulus,
       column |-> terminal,
       shape |-> PrimeProjectorShape(terminal, order, policy.modulus),
       normalized |-> IF policy.normalized \/ policy.kernel THEN normalized ELSE <<>>,
       kernel_computed |-> policy.kernel,
       kernel |-> IF policy.kernel THEN KernelDegree(normalized, order, policy.modulus) ELSE 0]

(* ------------------------- the independent audit ------------------------- *)

\* A value without its factors of a divisor.
TakenOut(value, divisor) ==
  FoldLeft(LAMBDA rest, i : IF rest % divisor = 0 THEN rest \div divisor ELSE rest,
           value, [i \in 1..value |-> i])

\* Variant: the division stops before the root of what is left.
FactorOrderBelowRoot(order) ==
  LET trial[divisor \in 1..order] ==
        IF divisor = 1 THEN [left |-> order, factors |-> {}]
        ELSE LET before == trial[divisor - 1]
             IN  IF /\ divisor = 2 \/ divisor % 2 = 1
                    /\ divisor < before.left \div divisor
                    /\ before.left % divisor = 0
                   THEN [left |-> TakenOut(before.left, divisor),
                         factors |-> before.factors \cup {divisor}]
                   ELSE before
      ended == trial[order]
  IN  ended.factors \cup (IF ended.left > 1 THEN {ended.left} ELSE {})

\* factor_order, without the exponents, which nothing reads: trial division by
\* two and the odd numbers, while the divisor is at most the root of what is
\* left.
FactorOrder(order) ==
  LET trial[divisor \in 1..order] ==
        IF divisor = 1 THEN [left |-> order, factors |-> {}]
        ELSE LET before == trial[divisor - 1]
             IN  IF /\ divisor = 2 \/ divisor % 2 = 1
                    /\ divisor <= before.left \div divisor
                    /\ before.left % divisor = 0
                   THEN [left |-> TakenOut(before.left, divisor),
                         factors |-> before.factors \cup {divisor}]
                   ELSE before
      ended == trial[order]
  IN  ended.factors \cup (IF ended.left > 1 THEN {ended.left} ELSE {})

\* euler_phi
EulerPhi(order, factors) ==
  FoldSet(LAMBDA p, phi : phi - phi \div p, order, factors)

\* quotient_arithmetic
QuotientArithmetic(quotient, factors) ==
  LET dividing == {p \in factors : quotient % p = 0}
  IN  [mobius |-> IF \E p \in dividing : quotient % (p * p) = 0 THEN 0
                  ELSE IF Cardinality(dividing) % 2 = 1 THEN -1 ELSE 1,
       phi |-> EulerPhi(quotient, dividing)]

\* signed_residue
SignedResidue(sign, magnitude, modulus) == (sign * magnitude) % modulus

Gcd(a, b) == Max({d \in 1..a : a % d = 0 /\ b % d = 0})

\* verify_ramanujan_column
RamanujanValid(response, factors, phi) ==
  /\ DOMAIN response.column = Column(response.order)
  /\ \A i \in Column(response.order) :
       LET arithmetic == QuotientArithmetic(response.order \div Gcd(response.order, i), factors)
       IN  response.column[i] =
             SignedResidue(arithmetic.mobius, phi \div arithmetic.phi, response.modulus)

\* reattach_valuation: the normalized column times (S - 1)^(order - 1).
Reattached(column, order, modulus) == ApplyPower(column, order - 1, order, modulus)

\* verify_constant_mode: the coefficients sum to plus or minus (order - 1)!.
ConstantModeValid(response) ==
  LET order == response.order
      factorial == FoldSet(LAMBDA v, product : (product * v) % response.modulus,
                           1 % response.modulus, 1 .. order - 1)
      signed == IF order % 2 = 0 THEN (-factorial) % response.modulus ELSE factorial
  IN  /\ \A i \in Column(order) : response.normalized[i] < response.modulus
      /\ MapThenSumSet(LAMBDA i : response.normalized[i], Column(order)) % response.modulus = signed

\* independently_verify
AuditAccepted(response) ==
  LET order   == response.order
      factors == FactorOrder(order)
      phi     == EulerPhi(order, factors)
      primitive_only == phi = order - 1
  IN  /\ RamanujanValid(response, factors, phi)
      /\ response.shape = primitive_only
      /\ response.normalized # <<>> =>
           /\ Reattached(response.normalized, order, response.modulus) = response.column
           /\ ConstantModeValid(response)
      /\ response.kernel_computed =>
           /\ response.normalized # <<>>
           /\ response.kernel = order - 1 - phi
           /\ response.kernel = 0 <=> primitive_only

(* ----------------------- the audit kept with the core -------------------- *)

\* ordinary_prime_audit
PrimeAudit(n) ==
  /\ n >= 2
  /\ IF n % 2 = 0 THEN n = 2
     ELSE \A d \in 3..n : d % 2 = 1 /\ d <= n \div d => n % d # 0

\* euler_phi_audit: every divisor up to the root of what is left.
PhiAudit(n) ==
  LET Divide(run, p) ==
        IF p <= run.left \div p /\ run.left % p = 0
          THEN [left |-> TakenOut(run.left, p), phi |-> run.phi - run.phi \div p]
          ELSE run
      ended == FoldLeft(Divide, [left |-> n, phi |-> n], [i \in 1 .. n - 1 |-> i + 1])
  IN  IF ended.left > 1 THEN ended.phi - ended.phi \div ended.left ELSE ended.phi

\* mobius_audit
MobiusAudit(n) ==
  LET Divide(run, p) ==
        IF run.sign # 0 /\ p <= run.left \div p /\ run.left % p = 0
          THEN LET once == run.left \div p
               IN  [left |-> once, sign |-> IF once % p = 0 THEN 0 ELSE -run.sign]
          ELSE run
      ended == FoldLeft(Divide, [left |-> n, sign |-> 1], [i \in 1 .. n - 1 |-> i + 1])
  IN  IF ended.left > 1 THEN -ended.sign ELSE ended.sign

\* ramanujan_sum_audit
RamanujanSumAudit(n, k) ==
  LET quotient == n \div Gcd(n, k)
  IN  MobiusAudit(quotient) * (PhiAudit(n) \div PhiAudit(quotient))

\* ramanujan_response_matches_audit
MatchesAudit(response) ==
  \A k \in Column(response.order) :
    LET sum == RamanujanSumAudit(response.order, k)
    IN  response.column[k] =
          IF sum >= 0 THEN sum % response.modulus
          ELSE response.modulus - ((-sum) % response.modulus)

\* predicted_normalized_kernel_dimension_audit
PredictedKernel(order) == order - 1 - PhiAudit(order)
===============================================================================
