--------------------------- MODULE SelfClosureGerm ---------------------------
(***************************************************************************)
(* materialize_self_closure_germ as the loop it is, one factor per step,   *)
(* over the domain it accepts: the dense reference that the primitive      *)
(* observation and the ramified-compatibility witness of the boundary are  *)
(* computed from.                                                          *)
(***************************************************************************)
EXTENDS CyclicJets, FiniteSets

CONSTANTS
  MaxFactors,   \* bound on cycles * order, the number of factors
  MaxJet,       \* bound on the jet order
  Moduli        \* the audit moduli a caller passes

ASSUME FactorsAssumption == MaxFactors \in Nat /\ MaxJet \in Nat
ASSUME ModuliAssumption == Moduli \subseteq Nat

VARIABLES order, cycles, jet_order, modulus,
          k,        \* the factors applied so far
          current   \* the live tensor

call == <<order, cycles, jet_order, modulus>>
vars == <<call, k, current>>

Init == /\ order \in 2..MaxFactors
        /\ cycles \in 1..MaxFactors
        /\ cycles * order <= MaxFactors
        /\ jet_order \in 1..MaxJet
        /\ modulus \in Moduli
        /\ GermDomain(order, cycles, jet_order, modulus)
        /\ k = 0
        /\ current = UnitTensor(order, jet_order)

Row(factor) ==
  Evaluated(BinomialRow(factor, jet_order, modulus,
                        Evaluated(ModularInverses(jet_order, modulus))))

\* Variant: the row of the previous factor.
StaleFactor ==
  /\ k < cycles * order
  /\ k' = k + 1
  /\ current' = ApplyFactor(current, order, jet_order, modulus, Row(k), k')
  /\ UNCHANGED call

Factor ==
  /\ k < cycles * order
  /\ k' = k + 1
  /\ current' = ApplyFactor(current, order, jet_order, modulus, Row(k'), k')
  /\ UNCHANGED call

Done == k = cycles * order /\ UNCHANGED vars

Next == Factor \/ Done

Spec == Init /\ [][Next]_vars
-----------------------------------------------------------------------------
(* Reference definitions *)

Divides(d, n) == n % d = 0

Prime(p) == p >= 2 /\ \A d \in 2..(p - 1) : ~Divides(d, p)

Divisors(n) == {d \in 2..n : Divides(d, n)}

Pascal(n, j) ==
  LET choose[i \in 0..n] ==
        [m \in 0..j |-> IF m = 0 THEN 1
                        ELSE IF i = 0 THEN 0
                        ELSE choose[i - 1][m] + choose[i - 1][m - 1]]
  IN  choose[n][j]

PascalRow(n) == [j \in 0..Smaller(n, jet_order) |-> Pascal(n, j) % modulus]

\* The germ computed with exact binomial coefficients.
ExactPrefix(factors) ==
  LET germ[f \in 0..factors] ==
        IF f = 0 THEN UnitTensor(order, jet_order)
        ELSE Evaluated(ApplyFactor(germ[f - 1], order, jet_order, modulus,
                                   Evaluated(PascalRow(f)), f))
  IN  germ[factors]

(* Properties *)

\* Each complete turn of the cycle adds one order of vanishing, for every
\* modulus, prime or not; and after any number of turns the germ is visible at
\* exactly that degree, unless the prime modulus divides the order.  The last
\* turn is the primitive observation.
VisibleAtCycles ==
  LET turns == k \div order
  IN  /\ \A d \in 0..jet_order : d < turns => Vanishes(current[d])
      /\ k % order = 0 /\ jet_order >= turns /\ turns > 0 /\ Prime(modulus) =>
           (FirstVisibleAt(current, turns) <=> ~Divides(modulus, order))

\* For a prime audit modulus the tensor is exact in every degree: rows built
\* with modular inverses are rows of Pascal's triangle, and j! is never
\* inverted modulo a multiple of the prime.  A composite modulus spoils the
\* inverses, and with them the rows from degree two on, but the column that a
\* primitive observation downloads never depends on those.
PrimitiveColumnExact ==
  \A d \in 0..jet_order :
    d <= k \div order \/ Prime(modulus) => current[d] = ExactPrefix(k)[d]

\* Quotient transport holds after every factor, not only at the end: folding
\* the tensor onto a divisor of the order gives the tensor the same factors
\* build there.
TransportAtEveryFactor ==
  \A t \in Divisors(order) :
    PushforwardGerm(current, order, t, modulus)
      = GermPrefix(t, jet_order, modulus, k)

\* reference_verify_ramified_compatibility accepts exactly the proper
\* quotients whose horizon the modulus can see; a quotient by the whole order
\* is not one, because the terminal column does not collapse there.
RamifiedVerdict ==
  cycles = 1 /\ k = 0 /\ Prime(modulus) =>
    \A t \in Divisors(order) :
      order \div t < modulus =>
        (RamifiedWitness(order, t, modulus).accepted
           <=> t # order /\ ~Divides(modulus, t))
=============================================================================
