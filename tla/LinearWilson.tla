----------------------------- MODULE LinearWilson -----------------------------
(***************************************************************************)
(* WilsonResidueObserver::download (afac58/wilson_boundary.hpp): the linear *)
(* consumer.  It multiplies the factors of (candidate - 1)! one by one,    *)
(* or cuts them into ranges that threads multiply into slots of their own, *)
(* joins the threads and combines the slots.  Threads interleave one       *)
(* factor at a time, and creating one may fail.                            *)
(***************************************************************************)
EXTENDS Integers, Sequences, FiniteSetsExt

CONSTANT Requests   \* candidates with a WilsonPolicy, in Policed

Policed ==
  [candidate : Nat \ {0, 1}, backend : {"StrictSerial", "StrictParallel"},
   worker_count : Nat, max_factor_visits : Nat]

VARIABLES
  request,
  pc,        \* "download", "serial", "spawn", "join", "combine", "done",
             \* "rejected" or, after std::terminate, "terminated"
  residue,
  next,      \* the loop variable: a factor, or a worker
  ledger,    \* of WilsonBoundaryLedger, what the verifier reads
  threads,   \* the local variables of each thread
  slots,     \* partial and visits
  answer

vars == <<request, pc, residue, next, ledger, threads, slots, answer>>

factor_count == request.candidate - 1

workers == Min({request.worker_count, factor_count})

FreshLedger == [factor_visits |-> 0, executed |-> FALSE]

Idle == threads = <<>> /\ slots = <<>>

Init ==
  /\ request \in Requests
  /\ pc = "download"
  /\ residue = 1 /\ next = 1
  /\ ledger = FreshLedger
  /\ Idle
  /\ answer = [kind |-> "none"]

Times(value) == residue' = (residue * value) % request.candidate

Refuse ==
  /\ pc = "download"
  /\ factor_count > request.max_factor_visits
  /\ answer' = [kind |-> "limit", required |-> factor_count,
                allowed |-> request.max_factor_visits]
  /\ pc' = "done"
  /\ UNCHANGED <<request, residue, next, ledger, threads, slots>>

Serial ==
  \/ request.backend = "StrictSerial"
  \/ request.worker_count <= 1
  \/ factor_count <= 1

Accept ==
  /\ pc = "download"
  /\ factor_count <= request.max_factor_visits
  /\ IF Serial
       THEN pc' = "serial" /\ UNCHANGED slots
       ELSE /\ pc' = "spawn"
            /\ slots' = [w \in 1 .. workers |-> [partial |-> 1, visits |-> 0]]
  /\ UNCHANGED <<request, residue, next, ledger, threads, answer>>

Factor ==
  /\ pc = "serial" /\ next <= factor_count
  /\ Times(next)
  /\ next' = next + 1
  /\ ledger' = [ledger EXCEPT !.factor_visits = @ + 1]
  /\ UNCHANGED <<request, pc, threads, slots, answer>>

(* ------------------------------- threads -------------------------------- *)

\* Workers are numbered from 1 here, from 0 in the code.
LastFactor(w) == (factor_count * w) \div workers

\* Variant: every range begins with the last factor of the one before.
FirstFactorAgain(w) == IF w = 1 THEN 1 ELSE (factor_count * (w - 1)) \div workers

FirstFactor(w) == 1 + (factor_count * (w - 1)) \div workers

Spawn ==
  /\ pc = "spawn" /\ next <= workers
  /\ threads' = Append(threads, [factor |-> FirstFactor(next), value |-> 1, ended |-> FALSE])
  /\ next' = next + 1
  /\ UNCHANGED <<request, pc, residue, ledger, slots, answer>>

\* The exception destroys the vector of threads, and destroying one that has
\* not been joined ends the program.
SpawnFails ==
  /\ pc = "spawn" /\ next <= workers
  /\ IF threads = <<>>
       THEN pc' = "rejected" /\ answer' = [kind |-> "rejected"]
       ELSE pc' = "terminated" /\ UNCHANGED answer
  /\ threads' = <<>> /\ slots' = <<>>
  /\ UNCHANGED <<request, residue, next, ledger>>

Running(w) == w \in DOMAIN threads /\ ~threads[w].ended

ThreadFactor(w) ==
  /\ Running(w) /\ threads[w].factor <= LastFactor(w)
  /\ threads' = [threads EXCEPT ![w].factor = @ + 1,
                                ![w].value = (@ * threads[w].factor) % request.candidate]
  /\ UNCHANGED <<request, pc, residue, next, ledger, slots, answer>>

ThreadEnds(w) ==
  /\ Running(w) /\ threads[w].factor > LastFactor(w)
  /\ slots' = [slots EXCEPT ![w] = [partial |-> threads[w].value,
                                    visits  |-> threads[w].factor - FirstFactor(w)]]
  /\ threads' = [threads EXCEPT ![w].ended = TRUE]
  /\ UNCHANGED <<request, pc, residue, next, ledger, answer>>

Spawned ==
  /\ pc = "spawn" /\ next > workers
  /\ pc' = "join"
  /\ UNCHANGED <<request, residue, next, ledger, threads, slots, answer>>

Join ==
  /\ pc = "join"
  /\ \A w \in DOMAIN threads : threads[w].ended
  /\ pc' = "combine"
  /\ threads' = <<>>
  /\ next' = 1
  /\ UNCHANGED <<request, residue, ledger, slots, answer>>

Combine ==
  /\ pc = "combine" /\ next <= workers
  /\ Times(slots[next].partial)
  /\ ledger' = [ledger EXCEPT !.factor_visits = @ + slots[next].visits]
  /\ next' = next + 1
  /\ UNCHANGED <<request, pc, threads, slots, answer>>

Observe ==
  /\ \/ pc = "serial" /\ next > factor_count
     \/ pc = "combine" /\ next > workers
  /\ ledger' = [ledger EXCEPT !.executed = TRUE]
  /\ answer' = [kind |-> "observation", residue |-> residue,
                prime |-> residue = request.candidate - 1]
  /\ pc' = "done"
  /\ slots' = <<>>
  /\ UNCHANGED <<request, residue, next, threads>>

-------------------------------------------------------------------------------
Thread == \E w \in DOMAIN threads : ThreadFactor(w) \/ ThreadEnds(w)

Next ==
  \/ Refuse \/ Accept \/ Factor
  \/ Spawn \/ SpawnFails \/ Thread \/ Spawned \/ Join \/ Combine
  \/ Observe

Ended == pc \in {"done", "rejected", "terminated"} /\ UNCHANGED vars

Spec == Init /\ [][Next \/ Ended]_vars

-------------------------------------------------------------------------------
(* Properties *)

Observer == INSTANCE WilsonObserver WITH
  Candidates <- {r.candidate : r \in Requests},
  candidate  <- request.candidate,
  outcome    <- IF answer.kind = "limit" THEN [kind |-> "limit"] ELSE answer

Factorial(n) == Observer!FactorialMod(n, request.candidate)

\* The product of the factors of a range.
RangeMod(first, last) ==
  FoldSet(LAMBDA f, value : (value * f) % request.candidate, 1, first .. last)

\* A thread has multiplied the factors of its range up to its loop variable
\* and writes its slot once, at the end; the caller has combined the slots of
\* the workers before, which continue one another without gap or overlap; and
\* no thread is left when the call returns.
IInv ==
  /\ residue \in 0 .. request.candidate - 1
  /\ \A w \in DOMAIN threads :
       /\ threads[w].factor \in FirstFactor(w) .. LastFactor(w) + 1
       /\ threads[w].value = RangeMod(FirstFactor(w), threads[w].factor - 1)
  /\ \A w \in DOMAIN slots :
       slots[w] = IF pc = "combine" \/ (w \in DOMAIN threads /\ threads[w].ended)
                    THEN [partial |-> RangeMod(FirstFactor(w), LastFactor(w)),
                          visits  |-> LastFactor(w) - FirstFactor(w) + 1]
                    ELSE [partial |-> 1, visits |-> 0]
  /\ pc = "serial" => residue = Factorial(next - 1) /\ ledger.factor_visits = next - 1
  /\ pc = "combine" =>
       LET last == IF next = 1 THEN 0 ELSE LastFactor(next - 1)
       IN  residue = Factorial(last) /\ ledger.factor_visits = last
  /\ threads # <<>> => pc \in {"spawn", "join"}

\* WilsonObservationVerifier, of what it does not read off a seal.
Accepted ==
  CASE answer.kind = "observation" ->
         /\ ledger.executed /\ ledger.factor_visits = factor_count
         /\ answer.prime <=> answer.residue = request.candidate - 1
    [] answer.kind = "limit" ->
         /\ answer.required = factor_count /\ answer.required > answer.allowed
         /\ ~ledger.executed
    [] OTHER -> TRUE
===============================================================================
