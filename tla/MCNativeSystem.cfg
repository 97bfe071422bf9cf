\* Two registers whose intervals lie about a limb boundary (16) and are long
\* enough that a quotient borrows across it; candidates with every kind of
\* order (prime, square, cube, three primes), moduli below and above them,
\* prime and composite.
SPECIFICATION SystemSpec
CONSTANTS
  LimbBits = 4
  CandidateBits = 6
  DigitBits = 2
  Registers = {1, 2}
  Sources = {0, 2, 14, 16}
  Lengths = {0, 2, 14}
  Inputs = {0, 1, 3}
  ProgramLengths = {0, 1, 2, 3, 5, 6, 11, 12}
  MaxTarget = 18
  Candidates = {0, 1, 2, 3, 4, 5, 6, 7, 8, 9, 10, 11, 12, 13, 16, 25, 27, 30}
  Moduli = {6, 12, 15, 17, 31}
  KernelPrimes = {17, 31}
  OrderLimits = {5, 30}
  GermCandidates = {2, 3, 4, 5, 6}
  GermCycles = {0, 1, 2}
  GermJets = {0, 1, 3, 6}
  GermModuli = {3, 7, 13}
  ArgumentLimits = {5, 12}
  Widths = {0, 2, 3, 4}
  Base = 4
  Chunk = 3
INVARIANTS
  StatesDenoteJets
  ZeroIsExact
  CertifiedProgramsDenote
  VerdictsAgree
  AuditExact
  BindingDecides
  GermModes
