-------------------------- MODULE MCCompositeSafeRing --------------------------
(***************************************************************************)
(* CompositeSafeRing for TLC.  The three primes stand for the six of the   *)
(* code: they are as small as transforms of sixteen points allow, and the  *)
(* smallest is exhausted by five terms modulo three.                       *)
(***************************************************************************)
EXTENDS CompositeSafeRing

MCPrimes ==
  << [modulus |-> 17,  root |-> 3, power |-> 4, bits |-> 4],
     [modulus |-> 97,  root |-> 5, power |-> 5, bits |-> 6],
     [modulus |-> 193, root |-> 5, power |-> 6, bits |-> 7] >>

Policy(product_limit, ntt_limit, minimum, parallel) ==
  [product_limit |-> product_limit, ntt_limit |-> ntt_limit,
   minimum_crt_primes |-> minimum, parallel |-> parallel]

MCRings ==
  [modulus : {2, 3, 4, 6, 12},
   policy  : {Policy(3, 16, 0, TRUE), Policy(3, 16, 3, TRUE),
              Policy(0, 16, 0, FALSE), Policy(6, 8, 0, TRUE)},
   scarce  : {FALSE}]
  \cup [modulus : {6}, policy : {Policy(3, 64, 2, p) : p \in BOOLEAN}, scarce : {TRUE}]
  \cup [modulus : {100}, policy : {Policy(3, 16, 0, TRUE)}, scarce : {FALSE}]
  \cup [modulus : {1, 5}, policy : {Policy(3, 12, 0, TRUE), Policy(3, 0, 0, TRUE),
                                    Policy(3, 16, 4, TRUE)}, scarce : {FALSE}]

\* Sequences of coefficients m - 1, of a ramp and of multiples of two.
Shapes(n, m) ==
  { [i \in 1 .. n |-> m - 1],
    [i \in 1 .. n |-> (i * i + 1) % m],
    [i \in 1 .. n |-> (2 * i) % m] }

Factors(m) == UNION {Shapes(n, m) : n \in {0, 1, 2, 5, 7}}

Divisors(m) ==
  {Append(p, 1) : p \in UNION {Shapes(n, m) : n \in {0, 1, 3, 5}}} \cup {<<>>, <<1, 0>>}

MCCalls(m) ==
  [op : {"multiply"}, left : Factors(m), right : Factors(m)]
  \cup [op : {"multiply"}, left : Shapes(10, m), right : Shapes(7, m)]
  \cup [op : {"remainder"}, left : UNION {Shapes(n, m) : n \in {0, 2, 6, 9}},
        right : Divisors(m)]
===============================================================================
