----------------------------- MODULE MCJointWilson -----------------------------
(***************************************************************************)
(* JointWilson for TLC.  Small candidates, prime and composite, meet an    *)
(* engine that does all by schoolbook methods, ones that change over to    *)
(* transforms for some of the products, and ones that refuse some of them. *)
(* Larger candidates meet an engine that refuses at once: for them the     *)
(* schedule is of interest.                                                *)
(***************************************************************************)
EXTENDS JointWilson

Basis(radius, max_width, product_limit, ntt_limit, minimum) ==
  [radius |-> radius, max_width |-> max_width,
   product_limit |-> product_limit, ntt_limit |-> ntt_limit, minimum_crt_primes |-> minimum]

Policy(radius, max_width, product_limit, ntt_limit) ==
  Basis(radius, max_width, product_limit, ntt_limit, 0)

Asks(candidates, policies) == [candidate : candidates, policy : policies]

MCRequests ==
  Asks(2 .. 64, {Policy(2, 9, l[1], l[2]) : l \in {<<100, 1>>, <<4, 16>>, <<3, 8>>, <<4, 4>>}})
  \cup Asks(2 .. 40, {Policy(r, w, 6, 16) : r \in {0, 1, 9}, w \in {0, 3, 4}})
  \cup Asks({150, 163, 196, 225, 256, 257, 289, 361},
            {Policy(2, 40, l[1], l[2]) : l \in {<<400, 1>>, <<6, 32>>, <<12, 16>>, <<30, 16>>}})
  \cup Asks(2 .. 400, {Policy(r, 100, 0, 1) : r \in {0, 3, 8}})
  \cup Asks({2, 7}, {Policy(10, 9, 100, 16), Policy(0, 9, 100, 3)})
  \cup Asks({2, 7, 13, 20}, {Basis(2, w, 4, 16, p) : w \in {2, 9}, p \in {6, 7}})

MCMaxRadius == 9
===============================================================================
