---------------------------- MODULE BatchContract ----------------------------
(***************************************************************************)
(* What NTTBatchExecutor promises its only client,                         *)
(* CompositeSafePolynomialRing::ntt_crt_multiply: run(n, task) calls task  *)
(* once for every index below n, returns after the last call has finished, *)
(* and rethrows exactly when one of the calls threw.  How the calls are    *)
(* spread over threads is not part of the promise.                         *)
(***************************************************************************)
EXTENDS Naturals

CONSTANT MaxTasks   \* the largest batch a client asks for

VARIABLES
  phase,    \* "unbuilt", "idle" (no run in progress), "busy" or "closed"
  size,     \* the number of indices of the current or last batch
  slot,     \* what the call for each index of that batch did
  outcome   \* how the last run ended

vars == <<phase, size, slot, outcome>>

Indices == 0..(MaxTasks - 1)

EmptySlots == [i \in Indices |-> "empty"]

Init == /\ phase = "unbuilt"
        /\ size = 0
        /\ slot = EmptySlots
        /\ outcome = "none"

Build == /\ phase = "unbuilt"
         /\ phase' \in {"idle", "closed"}
         /\ UNCHANGED <<size, slot, outcome>>

Start(n) == /\ phase = "idle"
            /\ phase' = "busy"
            /\ size' = n
            /\ slot' = EmptySlots
            /\ outcome' = "none"

Call(i) == /\ phase = "busy"
           /\ i < size
           /\ slot[i] = "empty"
           /\ \E r \in {"written", "threw"} : slot' = [slot EXCEPT ![i] = r]
           /\ UNCHANGED <<phase, size, outcome>>

Finished == \A i \in Indices : i < size => slot[i] # "empty"

Threw == \E i \in Indices : i < size /\ slot[i] = "threw"

Return == /\ phase = "busy"
          /\ Finished
          /\ phase' = "idle"
          /\ outcome' = IF Threw THEN "raised" ELSE "returned"
          /\ UNCHANGED <<size, slot>>

Close == /\ phase = "idle"
         /\ phase' = "closed"
         /\ UNCHANGED <<size, slot, outcome>>

Next == \/ Build
        \/ \E n \in 1..MaxTasks : Start(n)
        \/ \E i \in Indices : Call(i)
        \/ Return
        \/ Close

Spec == Init /\ [][Next]_vars
=============================================================================
