---------------------------- MODULE PracticalWilson ----------------------------
(***************************************************************************)
(* The entries to the two consumers: each directly, and                    *)
(* ANGEL_WILSON_PRIME_PRACTICAL (afac59/adaptive_wilson.hpp), which gives  *)
(* candidates up to a cutover to the linear one with a limit derived from  *)
(* the cutover, and larger ones to the block consumer.  A call is in one   *)
(* consumer from beginning to end.                                         *)
(***************************************************************************)
EXTENDS Integers, FiniteSetsExt

CONSTANTS
  PracticalCalls,   \* candidates with a PracticalWilsonPolicy
  LinearCalls,      \* candidates with a WilsonPolicy
  BlockCalls        \* candidates with a SublinearWilsonPolicy, and the entry

VARIABLES
  request, pc, residue, next, ledger, answer,   \* of the call under way
  threads, slots,                               \* of the linear consumer
  branches, block, tree, values                 \* of the block consumer

call == <<request, pc, residue, next, ledger, answer>>
linear_vars == <<threads, slots>>
block_vars  == <<branches, block, tree, values>>
vars == <<call, linear_vars, block_vars>>

ToLinear(c) == c.candidate <= c.cutover

\* WilsonPolicy::strict_parallel, with every factor up to the cutover allowed.
LinearRequest(c) ==
  [candidate |-> c.candidate, backend |-> "StrictParallel",
   worker_count |-> Max({1, c.workers}),
   max_factor_visits |-> IF c.cutover = 0 THEN 0 ELSE c.cutover - 1]

BlockRequest(c) == [candidate |-> c.candidate, native |-> FALSE, policy |-> c.policy]

LinearRequests ==
  LinearCalls \cup {LinearRequest(c) : c \in {p \in PracticalCalls : ToLinear(p)}}

BlockRequests ==
  BlockCalls \cup {BlockRequest(c) : c \in {p \in PracticalCalls : ~ToLinear(p)}}

Linear == INSTANCE LinearWilson WITH Requests <- LinearRequests
Block  == INSTANCE BlockWilson WITH Requests <- BlockRequests

ASSUME CallsAssumption ==
  /\ \A c \in PracticalCalls : c.cutover \in Nat
  /\ LinearRequests \subseteq Linear!Policed /\ BlockRequests \subseteq Block!Policed

Init ==
  \/ Linear!Init /\ Block!Idle
  \/ Block!Init /\ Linear!Idle

InLinear == "backend" \in DOMAIN request

Next ==
  \/ InLinear /\ Linear!Next /\ UNCHANGED block_vars
  \/ ~InLinear /\ Block!Next /\ UNCHANGED linear_vars

Ended == pc \in {"done", "rejected", "terminated"} /\ UNCHANGED vars

Spec == Init /\ [][Next \/ Ended]_vars

-------------------------------------------------------------------------------
(* Properties *)

\* The promise of a Wilson consumer, whoever of the two is asked, and with
\* threads and branches in any order.
Observer == INSTANCE WilsonObserver WITH
  Candidates <- {r.candidate : r \in LinearRequests \cup BlockRequests},
  candidate  <- request.candidate,
  outcome    <- IF answer.kind = "limit" THEN [kind |-> "limit"] ELSE answer

ImplementsObserver == Observer!Spec

\* Slots, blocks and branches at every moment of a call (the invariants of
\* the two consumers).
IInv == IF InLinear THEN Linear!IInv ELSE Block!IInv

\* WilsonObservationVerifier and SublinearWilsonVerifier accept every answer of
\* their observer, the limits too; and the adaptive entry chooses the linear
\* consumer only where its limit lets every factor through.
VerifiersAccept ==
  /\ IF InLinear THEN Linear!Accepted ELSE Block!Accepted
  /\ answer.kind = "limit" /\ InLinear => request \in LinearCalls
===============================================================================
