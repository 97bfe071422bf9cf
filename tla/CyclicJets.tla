------------------------------ MODULE CyclicJets ------------------------------
(***************************************************************************)
(* The arithmetic of sealed_core/include/angel/afac62/self_closure_germ.hpp*)
(* and of the column it ends in (afac61/self_cyclic_probe.hpp).  A column  *)
(* is an element of the group ring of the cyclic group of an order, a      *)
(* tensor is a jet of columns: one for every degree up to the jet order.   *)
(* The germ of order r and c cycles is the product over k = 1 .. c*r of    *)
(* the factors 1 - (1 + e)^k S^k, truncated after the jet order.  Every    *)
(* coefficient is a residue of a 64-bit modulus, and mul_mod is exact.     *)
(***************************************************************************)
EXTENDS Integers, FiniteSetsExt

\* The function itself; TLC computes a table it compares, once, where it
\* would otherwise recompute an entry at every use.
Evaluated(f) == IF f = f THEN f ELSE f

Smaller(a, b) == IF a < b THEN a ELSE b

Column(order) == 0..(order - 1)

ZeroColumn(order) == [i \in Column(order) |-> 0]
OneColumn(order) == [i \in Column(order) |-> IF i = 0 THEN 1 ELSE 0]

\* Variant: the recurrence without its sign.
PositiveInverses(count, modulus) ==
  LET inv[i \in 0..count] ==
        IF i < 2 THEN i
        ELSE ((modulus \div i) * inv[modulus % i]) % modulus
  IN  inv

\* modular_inverses: right for a prime modulus; count < modulus.
ModularInverses(count, modulus) ==
  LET inv[i \in 0..count] ==
        IF i < 2 THEN i
        ELSE (0 - ((modulus \div i) * inv[modulus % i])) % modulus
  IN  inv

\* truncated_binomial_row: the coefficients of (1 + e)^exponent up to the jet
\* order, or up to the exponent if that is smaller.
BinomialRow(exponent, jet_order, modulus, inverses) ==
  LET row[j \in 0..Smaller(exponent, jet_order)] ==
        IF j = 0 THEN 1
        ELSE (((row[j - 1] * ((exponent - j + 1) % modulus)) % modulus)
                * inverses[j]) % modulus
  IN  row

\* The tensor before the first factor: 1 at degree zero.
UnitTensor(order, jet_order) ==
  [d \in 0..jet_order |-> IF d = 0 THEN OneColumn(order) ELSE ZeroColumn(order)]

\* One turn of the loop over k: multiply by 1 - row(e) S^k.
ApplyFactor(current, order, jet_order, modulus, row, k) ==
  [d \in 0..jet_order |->
     [i \in Column(order) |->
        (current[d][i]
           - MapThenSumSet(LAMBDA j : current[d - j][(i - k) % order] * row[j],
                           {j \in DOMAIN row : j <= d})) % modulus]]

\* The first k factors of the germ of an order.
GermPrefix(order, jet_order, modulus, factors) ==
  LET inverses == Evaluated(ModularInverses(jet_order, modulus))
      germ[k \in 0..factors] ==
        IF k = 0 THEN UnitTensor(order, jet_order)
        ELSE Evaluated(ApplyFactor(germ[k - 1], order, jet_order, modulus,
                         Evaluated(BinomialRow(k, jet_order, modulus, inverses)), k))
  IN  germ[factors]

\* The domain materialize_self_closure_germ accepts; it throws outside it.
GermDomain(order, cycles, jet_order, modulus) ==
  /\ order >= 2 /\ cycles # 0 /\ jet_order # 0 /\ modulus >= 3
  /\ jet_order < modulus

\* materialize_self_closure_germ
Germ(order, cycles, jet_order, modulus) ==
  GermPrefix(order, jet_order, modulus, cycles * order)

\* Variant: the loop runs up to the order.
ClosedTerminalColumn(order, modulus) ==
  LET column[k \in 0..order] ==
        IF k = 0 THEN OneColumn(order)
        ELSE LET previous == Evaluated(column[k - 1])
             IN  [i \in Column(order) |->
                    (previous[i] - previous[(i - k) % order]) % modulus]
  IN  column[order]

\* materialize_unnormalized_self_cyclic_column: the product of 1 - S^k over
\* k = 1 .. order - 1.
TerminalColumn(order, modulus) ==
  LET column[k \in 0..(order - 1)] ==
        IF k = 0 THEN OneColumn(order)
        ELSE LET previous == Evaluated(column[k - 1])
             IN  [i \in Column(order) |->
                    (previous[i] - previous[(i - k) % order]) % modulus]
  IN  column[order - 1]

\* Variant: folds blocks of neighbours instead of residue classes.
BlockPushforwardColumn(source, order, target_order, modulus) ==
  [t \in Column(target_order) |->
     MapThenSumSet(LAMBDA i : source[i],
                   {i \in Column(order) : i \div (order \div target_order) = t})
       % modulus]

\* quotient_pushforward_column
PushforwardColumn(source, order, target_order, modulus) ==
  [t \in Column(target_order) |->
     MapThenSumSet(LAMBDA i : source[i],
                   {i \in Column(order) : i % target_order = t}) % modulus]

\* quotient_pushforward_germ
PushforwardGerm(tensor, order, target_order, modulus) ==
  [d \in DOMAIN tensor |->
     PushforwardColumn(tensor[d], order, target_order, modulus)]

Vanishes(column) == \A i \in DOMAIN column : column[i] = 0

\* The test both reference functions apply to a germ: nothing below the
\* horizon and something at it.
FirstVisibleAt(tensor, horizon) ==
  /\ \A d \in DOMAIN tensor : d < horizon => Vanishes(tensor[d])
  /\ horizon \in DOMAIN tensor /\ ~Vanishes(tensor[horizon])

\* reference_verify_ramified_compatibility
RamifiedWitness(source_order, target_order, modulus) ==
  LET horizon == source_order \div target_order
      pushed == PushforwardGerm(Germ(source_order, 1, horizon, modulus),
                                source_order, target_order, modulus)
      repeated == Germ(target_order, horizon, horizon, modulus)
      collapsed == PushforwardColumn(TerminalColumn(source_order, modulus),
                                     source_order, target_order, modulus)
  IN  [transport |-> pushed = repeated,
       collapses |-> Vanishes(collapsed),
       visible   |-> FirstVisibleAt(pushed, horizon),
       accepted  |-> /\ pushed = repeated
                     /\ Vanishes(collapsed)
                     /\ FirstVisibleAt(pushed, horizon)]
=============================================================================
