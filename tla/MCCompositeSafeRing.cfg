\* Every pair of some dozen operands, over rings of prime and composite moduli.
SPECIFICATION RingSpec
CONSTANTS
  Primes <- MCPrimes
  Rings <- MCRings
  Calls <- MCCalls
INVARIANTS
  ProductExact
  RemainderExact
