\* One variable that takes every value: orders with several divisors and
\* units, horizons below, at and above the multiplicities, a modulus that
\* divides an order (3), one that hides every horizon (2) and larger ones; two
\* authorities that can be exhausted, and a ledger whose counter of fresh
\* origins is followed up to its wrap.
SPECIFICATION Spec
CONSTANTS
  a1 = a1
  a2 = a2
  Authorities = {a1, a2}
  NumberOf <- TwoNumbers
  Slots = {s1}
  Orders = {5, 8, 12}
  Jets = {0, 2, 4, 6}
  Moduli = {2, 3, 7}
  MaxSequence = 2
  MaxEpoch = 2
  MaxWord = 12
  Counters = {"fresh_origins_created"}
  CountModulus = 4
INVARIANTS
  RamificationConserved
  QuotientFunctorial
  PrimitiveFoldsUpload
  OriginsAccounted
