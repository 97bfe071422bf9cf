\* Two authorities constructed with one number.
SPECIFICATION Spec
CONSTANTS
  a1 = a1
  a2 = a2
  Authorities = {a1, a2}
  NumberOf <- SameNumber
  Slots = {s1, s2}
  Orders = {4}
  Jets = {2}
  Moduli = {5}
  MaxSequence = 1
  MaxEpoch = 1
  MaxWord = 5
  Counters = {}
  CountModulus = 2
PROPERTIES
  ReentryLeavesSession
