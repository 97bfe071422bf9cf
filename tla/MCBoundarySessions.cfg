\* Two variables and two authorities: forks, stale checkpoints and packets
\* beside newer values of the same and of other sessions.
SPECIFICATION Spec
CONSTANTS
  a1 = a1
  a2 = a2
  Authorities = {a1, a2}
  NumberOf <- TwoNumbers
  Slots = {s1, s2}
  Orders = {4, 5}
  Jets = {2}
  Moduli = {5}
  MaxSequence = 2
  MaxEpoch = 1
  MaxWord = 5
  Counters = {}
  CountModulus = 2
SYMMETRY SlotSymmetry
INVARIANTS
  SessionAccountsForOneOrigin
  OperationsTotal
  ValidationExact
PROPERTIES
  FreshUploads
