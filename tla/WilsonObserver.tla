---------------------------- MODULE WilsonObserver ----------------------------
(***************************************************************************)
(* What every Wilson consumer promises of a candidate: at most one answer, *)
(* either the residue of (candidate - 1)! together with the verdict prime  *)
(* or not, or the refusal of a limited resource; or the request itself is  *)
(* rejected by an exception.  How the residue is computed, and which limit *)
(* it runs into, is not part of the promise.                               *)
(***************************************************************************)
EXTENDS Integers

CONSTANT Candidates

VARIABLES candidate, outcome

vars == <<candidate, outcome>>

\* The product of the numbers from a + 1 to b, for 0, 1 and more of them.
FactorialMod(n, m) ==
  LET product[r \in (0 .. n) \X (0 .. n)] ==
        LET a == r[1]  b == r[2]  middle == (a + b) \div 2
        IN  IF b = a THEN 1 % m
            ELSE IF b = a + 1 THEN b % m
            ELSE (product[<<a, middle>>] * product[<<middle, b>>]) % m
  IN  product[<<0, n>>]

Prime(p) == p >= 2 /\ \A d \in 2 .. p - 1 : p % d # 0

Init == candidate \in Candidates /\ outcome = [kind |-> "none"]

Observe ==
  /\ outcome.kind = "none"
  /\ outcome' = [kind    |-> "observation",
                 residue |-> FactorialMod(candidate - 1, candidate),
                 prime   |-> Prime(candidate)]
  /\ UNCHANGED candidate

Refuse ==
  /\ outcome.kind = "none"
  /\ outcome' \in {[kind |-> "limit"], [kind |-> "rejected"]}
  /\ UNCHANGED candidate

Next == Observe \/ Refuse

Spec == Init /\ [][Next]_vars
===============================================================================
