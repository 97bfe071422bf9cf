\* Every order and cycle count of at most twelve factors, jets that stop
\* before, at and after the cycle multiplicity, and prime moduli below, at and
\* above the order besides the composite 4 and 9.
SPECIFICATION Spec
CONSTANTS
  MaxFactors = 12
  MaxJet = 5
  Moduli = {3, 4, 5, 7, 9, 11}
INVARIANTS
  VisibleAtCycles
  PrimitiveColumnExact
  TransportAtEveryFactor
  RamifiedVerdict
