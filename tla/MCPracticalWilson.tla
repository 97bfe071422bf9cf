-------------------------- MODULE MCPracticalWilson --------------------------
(***************************************************************************)
(* PracticalWilson for TLC.  Prime and composite candidates; one to four   *)
(* threads with ranges of equal and of different sizes; block widths that  *)
(* are chosen and given, stages in the caller and in branches; engines     *)
(* that do everything, change over to transforms, or refuse some products  *)
(* or remainders; and policies every entry refuses or rejects.             *)
(***************************************************************************)
EXTENDS PracticalWilson

Policies(widths, overrides, thresholds, engines) ==
  {[max_width |-> w, override |-> o, parallel |-> t > 0, threshold |-> t,
    product_limit |-> e[1], ntt_limit |-> e[2], minimum_crt_primes |-> e[3]] :
     w \in widths, o \in overrides, t \in thresholds, e \in engines}

MCPracticalCalls ==
  [candidate : {2, 3, 7, 8, 11}, cutover : {0, 2, 7, 8}, workers : {0, 3},
   policy : Policies({4}, {0}, {2}, {<<4, 16, 0>>})]

MCLinearCalls ==
  [candidate : 2 .. 17, backend : {"StrictSerial", "StrictParallel"},
   worker_count : {1, 2, 3}, max_factor_visits : {6, 16}]
  \cup [candidate : {9, 11, 14}, backend : {"StrictParallel"}, worker_count : {4},
        max_factor_visits : {13}]

MCBlockCalls ==
  [candidate : {2, 3, 4, 5, 8, 9, 12, 13, 16, 17, 23, 25, 26}, native : BOOLEAN,
   policy : Policies({4, 12}, {0, 1, 3, 5}, {0, 2, 4}, {<<100, 1, 0>>, <<4, 16, 6>>, <<3, 8, 0>>, <<2, 4, 0>>})]
  \cup [candidate : {36, 49, 64, 71}, native : {FALSE},
        policy : Policies({30}, {0, 5}, {2}, {<<6, 16, 0>>, <<4, 8, 0>>})]
  \cup [candidate : {7}, native : {FALSE}, policy : Policies({9}, {0, 7}, {0}, {<<4, 6, 0>>, <<4, 8, 0>>, <<4, 8, 7>>})]
===============================================================================
