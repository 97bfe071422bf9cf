------------------------ MODULE PracticalWilson_proofs ------------------------
(***************************************************************************)
(* The linear and the block Wilson consumer keep their invariants, and     *)
(* with them every answer they return is one an exact observer accepts:    *)
(* no run of either settles a candidate wrongly, whatever the candidate,   *)
(* the policy and the interleaving of the workers.                         *)
(***************************************************************************)
EXTENDS PracticalWilson, SharedTheorems

(* ---------------------- ranges of the linear consumer ------------------ *)

\* The last factor of the ranges of w workers out of many.
LastOf(n, many, w) == (n * w) \div many

\* The ranges of the threads follow one another from 1 to the last factor.
LEMMA RangesCover ==
  ASSUME NEW n \in Nat, NEW many \in Nat \ {0}
  PROVE  /\ LastOf(n, many, 0) = 0
         /\ LastOf(n, many, many) = n
         /\ \A w \in Nat : LastOf(n, many, w) \in Nat
         /\ \A w \in Nat : LastOf(n, many, w) <= LastOf(n, many, w + 1)
<1>1. LastOf(n, many, 0) = 0
  <2>1. n * 0 = 0 /\ many * 0 = 0
    OBVIOUS
  <2> QED BY <2>1, QuotientIs DEF LastOf
<1>2. LastOf(n, many, many) = n
  <2>1. n * many \in Nat /\ many * n = n * many
    OBVIOUS
  <2> QED BY <2>1, QuotientIs DEF LastOf
<1>3. ASSUME NEW w \in Nat PROVE n * w \in Nat /\ LastOf(n, many, w) \in Nat
  <2>1. n * w \in Nat
    OBVIOUS
  <2> QED BY <2>1, Division DEF LastOf
<1>4. ASSUME NEW w \in Nat PROVE LastOf(n, many, w) <= LastOf(n, many, w + 1)
  <2> DEFINE a == n * w
             b == n * (w + 1)
             q == LastOf(n, many, w)
             r == LastOf(n, many, w + 1)
  <2>1. a \in Nat /\ b \in Nat /\ a <= b
    <3>1. b = a + n
      OBVIOUS
    <3> QED BY <1>3, <3>1
  <2>2. q = a \div many /\ r = b \div many
    BY DEF LastOf
  <2> HIDE DEF a, b, q, r
  <2>3. q \in Nat /\ many * q <= a /\ r \in Nat /\ b < many * r + many
    BY <2>1, <2>2, Division
  <2> SUFFICES ASSUME q >= r + 1 PROVE FALSE
    BY <2>3 DEF q, r
  <2>4. many * q >= many * (r + 1)
    BY <2>3
  <2>5. many * (r + 1) = many * r + many
    BY <2>3
  <2> QED BY <2>1, <2>3, <2>4, <2>5
<1> QED BY <1>1, <1>2, <1>3, <1>4

(* ------------------- the invariant of the linear consumer -------------- *)

Modulus == request.candidate
Factors == request.candidate - 1
Workers == Min({request.worker_count, Factors})

UpTo(w) == LastOf(Factors, Workers, w)

EmptySlot   == [partial |-> 1, visits |-> 0]
FullSlot(w) == [partial |-> RangeOf(UpTo(w - 1) + 1, UpTo(w), Modulus),
                visits  |-> UpTo(w) - UpTo(w - 1)]

HasEnded(w) == w \in DOMAIN threads /\ threads[w].ended

\* A thread has multiplied its range up to its loop variable.
ThreadSound(w) ==
  /\ threads[w] \in [factor : Int, value : Int, ended : BOOLEAN]
  /\ threads[w].factor \in UpTo(w - 1) + 1 .. UpTo(w) + 1
  /\ threads[w].value = RangeOf(UpTo(w - 1) + 1, threads[w].factor - 1, Modulus)
  /\ threads[w].ended => threads[w].factor = UpTo(w) + 1

Threads == [factor : Int, value : Int, ended : BOOLEAN]

\* Threads have been created up to next, or all of them; a slot is written by
\* the end of its thread and not before.
Threading ==
  /\ Workers \in Nat \ {0}
  /\ residue = 1 /\ ledger.factor_visits = 0
  /\ next \in 1 .. Workers + 1
  /\ threads \in Seq(Threads) /\ Len(threads) = next - 1
  /\ \A w \in DOMAIN threads : ThreadSound(w)
  /\ DOMAIN slots = 1 .. Workers /\ slots = [w \in 1 .. Workers |-> slots[w]]
  /\ \A w \in 1 .. Workers : slots[w] = IF HasEnded(w) THEN FullSlot(w) ELSE EmptySlot

Combining ==
  /\ Workers \in Nat \ {0}
  /\ threads = <<>>
  /\ next \in 1 .. Workers + 1
  /\ DOMAIN slots = 1 .. Workers
  /\ \A w \in 1 .. Workers : slots[w] = FullSlot(w)
  /\ residue = FactorialRest(UpTo(next - 1), Modulus)
  /\ ledger.factor_visits = UpTo(next - 1)

\* What the linear consumer answers.
LinearAnswer ==
  \/ /\ answer = [kind |-> "limit", required |-> Factors, allowed |-> request.max_factor_visits]
     /\ Factors > request.max_factor_visits
     /\ ~ledger.executed
  \/ /\ answer = [kind |-> "observation", residue |-> FactorialRest(Factors, Modulus),
                  prime |-> FactorialRest(Factors, Modulus) = Modulus - 1]
     /\ ledger.executed /\ ledger.factor_visits = Factors

LInv ==
  /\ request \in LinearRequests
  /\ ledger \in [factor_visits : Int, executed : BOOLEAN]
  /\ residue \in 0 .. Modulus - 1
  /\ pc \in {"download", "serial", "spawn", "join", "combine", "done", "rejected", "terminated"}
  /\ pc = "download" => residue = 1 /\ next = 1 /\ ledger.factor_visits = 0
  /\ pc = "serial" =>
       /\ next \in 1 .. Factors + 1
       /\ residue = FactorialRest(next - 1, Modulus)
       /\ ledger.factor_visits = next - 1
  /\ pc \in {"spawn", "join"} => Threading
  /\ pc = "join" => next = Workers + 1
  /\ pc = "combine" => Combining
  /\ pc \notin {"spawn", "join", "combine"} => threads = <<>> /\ slots = <<>>
  /\ pc \notin {"done", "rejected"} => answer = [kind |-> "none"]
  /\ pc # "done" => ~ledger.executed
  /\ pc = "rejected" => answer = [kind |-> "rejected"]
  /\ pc = "done" => LinearAnswer

\* What a request of the linear consumer is.
LEMMA LinearRequestFacts ==
  ASSUME NEW r \in LinearRequests
  PROVE  /\ r \in Linear!Policed
         /\ "backend" \in DOMAIN r
         /\ r.candidate \in Nat \ {0, 1} /\ r.worker_count \in Nat /\ r.max_factor_visits \in Nat
BY CallsAssumption DEF Linear!Policed

\* What a call of the block consumer is.
LEMMA BlockRequestFacts ==
  ASSUME NEW r \in BlockRequests
  PROVE  /\ r \in Block!Policed
         /\ "backend" \notin DOMAIN r
         /\ r.candidate \in Nat \ {0, 1}
BY CallsAssumption DEF Block!Policed

\* The smaller of two numbers.
LEMMA LeastOfTwo ==
  ASSUME NEW a \in Int, NEW b \in Int
  PROVE  Min({a, b}) = IF a <= b THEN a ELSE b
BY DEF Min

\* The operators of the linear consumer are those of the proofs.
LEMMA LinearNames ==
  /\ Linear!factor_count = Factors
  /\ Linear!workers = Workers
  /\ \A w : Linear!LastFactor(w) = UpTo(w)
  /\ \A w : Linear!FirstFactor(w) = 1 + UpTo(w - 1)
BY DEF Linear!factor_count, Factors, Linear!workers, Linear!Min, Workers, Min,
       Linear!LastFactor, UpTo, LastOf, Linear!FirstFactor

\* The sizes a call of the linear consumer works with.
LEMMA RequestSizes ==
  ASSUME LInv
  PROVE  /\ Modulus \in Nat \ {0, 1} /\ Factors \in Nat \ {0} /\ Modulus = Factors + 1
         /\ request.worker_count \in Nat /\ request.max_factor_visits \in Nat
BY LinearRequestFacts DEF LInv, Modulus, Factors

\* A call begins in the invariant.
LEMMA LinearInit ==
  ASSUME Linear!Init
  PROVE  LInv
<1>1. request \in LinearRequests /\ request.candidate \in Nat \ {0, 1}
  BY LinearRequestFacts DEF Linear!Init
<1> QED BY <1>1 DEF Linear!Init, LInv, Modulus, Factors, Linear!Idle, Linear!FreshLedger

\* The policy does not allow as many factors.
LEMMA LinearRefuses ==
  ASSUME LInv, Linear!Refuse
  PROVE  LInv'
<1>1. pc = "download" /\ pc' = "done" /\ UNCHANGED <<request, residue, next, ledger, threads, slots>>
      /\ answer' = [kind |-> "limit", required |-> Factors, allowed |-> request.max_factor_visits]
      /\ Factors > request.max_factor_visits
  BY LinearNames DEF Linear!Refuse
<1>2. LinearAnswer'
  BY <1>1 DEF LInv, LinearAnswer, Factors, Modulus
<1> QED BY <1>1, <1>2 DEF LInv, Modulus, Factors

\* The policy allows them.
LEMMA LinearAccepts ==
  ASSUME LInv, Linear!Accept
  PROVE  LInv'
<1>1. /\ pc = "download" /\ UNCHANGED <<request, residue, next, ledger, threads, answer>>
      /\ threads = <<>> /\ slots = <<>> /\ residue = 1 /\ next = 1
      /\ ledger.factor_visits = 0 /\ ~ledger.executed /\ answer = [kind |-> "none"]
  BY DEF Linear!Accept, LInv
<1>2. /\ Modulus \in Nat \ {0, 1} /\ Factors \in Nat \ {0} /\ Modulus = Factors + 1
      /\ request.worker_count \in Nat
  BY RequestSizes
<1>3. CASE Linear!Serial
  <2>1. pc' = "serial" /\ slots' = slots
    BY <1>3 DEF Linear!Accept
  <2>2. FactorialRest(0, Modulus) = 1
    BY <1>2, FactorialStarts
  <2> QED BY <1>1, <1>2, <2>1, <2>2 DEF LInv, Modulus, Factors
<1>4. CASE ~Linear!Serial
  <2>1. pc' = "spawn" /\ slots' = [w \in 1 .. Workers |-> EmptySlot]
    BY <1>4, LinearNames DEF Linear!Accept, EmptySlot
  <2>2. Workers \in Nat \ {0}
    <3>1. request.worker_count > 1 /\ Factors > 1
      BY <1>2, <1>4, LinearNames DEF Linear!Serial
    <3>2. Workers = IF request.worker_count <= Factors THEN request.worker_count ELSE Factors
      BY <1>2, LeastOfTwo DEF Workers
    <3> QED BY <1>2, <3>1, <3>2
  <2>3. Threading'
    <3>1. threads' = <<>> /\ threads' \in Seq(Threads) /\ Len(threads') = 0 /\ DOMAIN threads' = {}
      BY <1>1
    <3>2. Workers' = Workers
      BY <1>1 DEF Workers, Factors
    <3>3. residue' = 1 /\ ledger'.factor_visits = 0 /\ next' = 1
      BY <1>1
    <3>4. \A w \in 1 .. Workers : slots'[w] = EmptySlot /\ ~(HasEnded(w)')
      BY <2>1, <3>1 DEF HasEnded
    <3>5. \A w \in DOMAIN threads' : ThreadSound(w)'
      BY <3>1
    <3>6. EmptySlot' = EmptySlot
      BY DEF EmptySlot
    <3> QED BY <2>1, <2>2, <3>1, <3>2, <3>3, <3>4, <3>5, <3>6 DEF Threading
  <2> QED BY <1>1, <1>2, <2>1, <2>3 DEF LInv, Modulus, Factors
<1> QED BY <1>3, <1>4

\* One factor of the serial loop.
LEMMA LinearFactor ==
  ASSUME LInv, Linear!Factor
  PROVE  LInv'
<1>1. /\ pc = "serial" /\ next <= Factors /\ next' = next + 1
      /\ residue' = (residue * next) % Modulus
      /\ ledger' = [ledger EXCEPT !.factor_visits = @ + 1]
      /\ UNCHANGED <<request, pc, threads, slots, answer>>
  BY LinearNames DEF Linear!Factor, Linear!Times, Modulus
<1>2. /\ Modulus \in Nat \ {0, 1} /\ Factors \in Nat \ {0} /\ Modulus = Factors + 1
  BY RequestSizes
<1>3. /\ next \in 1 .. Factors /\ residue = FactorialRest(next - 1, Modulus)
      /\ ledger.factor_visits = next - 1
  BY <1>1, <1>2 DEF LInv
<1>4. residue' = FactorialRest(next, Modulus)
  <2>1. PICK k \in Nat : k = next - 1
    BY <1>3
  <2>2. (FactorialRest(k, Modulus) * (k + 1)) % Modulus = FactorialRest(k + 1, Modulus)
    BY <1>2, FactorialGrows
  <2>3. k + 1 = next
    BY <1>3, <2>1
  <2> QED BY <1>1, <1>3, <2>1, <2>2, <2>3
<1>5. residue' \in 0 .. Modulus - 1
  <2>1. residue * next \in Int
    BY <1>2, <1>3 DEF LInv
  <2> QED BY <1>1, <1>2, <2>1
<1>6. /\ ledger' \in [factor_visits : Int, executed : BOOLEAN]
      /\ ledger'.factor_visits = next /\ ledger'.executed = ledger.executed
  BY <1>1, <1>3 DEF LInv
<1>7. next' - 1 = next
  BY <1>1, <1>3
<1> QED BY <1>1, <1>2, <1>3, <1>4, <1>5, <1>6, <1>7 DEF LInv, Modulus, Factors

\* Everything but threads and slots stays.
Outside == <<request, pc, residue, next, ledger, answer>>

\* The ranges while threads run.
LEMMA RangesFacts ==
  ASSUME LInv, pc \in {"spawn", "join", "combine"}
  PROVE  /\ Workers \in Nat \ {0}
         /\ \A w \in Nat : UpTo(w) \in Nat /\ UpTo(w) <= UpTo(w + 1)
         /\ UpTo(0) = 0 /\ UpTo(Workers) = Factors
<1>1. Workers \in Nat \ {0} /\ Factors \in Nat
  BY RequestSizes DEF LInv, Threading, Combining
<1> QED BY <1>1, RangesCover DEF UpTo

\* A thread is created.
LEMMA LinearSpawns ==
  ASSUME LInv, Linear!Spawn
  PROVE  LInv'
<1>1. /\ pc = "spawn" /\ next <= Workers /\ next' = next + 1
      /\ threads' = Append(threads, [factor |-> 1 + UpTo(next - 1), value |-> 1, ended |-> FALSE])
      /\ UNCHANGED <<request, pc, residue, ledger, slots, answer>>
  BY LinearNames DEF Linear!Spawn
<1>2. Modulus \in Nat \ {0, 1} /\ Threading
  BY <1>1, RequestSizes DEF LInv
<1>3. /\ Workers \in Nat \ {0}
      /\ \A w \in Nat : UpTo(w) \in Nat /\ UpTo(w) <= UpTo(w + 1)
  BY <1>1, RangesFacts
<1>4. next \in 1 .. Workers /\ threads \in Seq(Threads) /\ Len(threads) = next - 1
  BY <1>1, <1>2 DEF Threading
<1> DEFINE t == [factor |-> 1 + UpTo(next - 1), value |-> 1, ended |-> FALSE]
<1>5. /\ UpTo(next - 1) \in Nat /\ UpTo(next) \in Nat /\ UpTo(next - 1) <= UpTo(next)
  <2>1. PICK k \in Nat : k = next - 1
    BY <1>4
  <2>2. UpTo(k) \in Nat /\ UpTo(k + 1) \in Nat /\ UpTo(k) <= UpTo(k + 1)
    BY <1>3
  <2>3. k + 1 = next
    BY <1>4, <2>1
  <2> QED BY <2>1, <2>2, <2>3
<1>6. t \in Threads
  BY <1>5 DEF Threads
<1>7. /\ threads' \in Seq(Threads) /\ Len(threads') = next /\ DOMAIN threads' = 1 .. next
      /\ threads'[next] = t
      /\ \A w \in DOMAIN threads : w # next /\ threads'[w] = threads[w]
      /\ DOMAIN threads = 1 .. next - 1
  <2> HIDE DEF t
  <2> QED BY <1>1, <1>4, <1>6 DEF t
<1>8. Workers' = Workers /\ Modulus' = Modulus /\ Factors' = Factors
  BY <1>1 DEF Workers, Modulus, Factors
<1>9. \A w : UpTo(w)' = UpTo(w)
  BY <1>8 DEF UpTo
<1>10. ASSUME NEW w \in DOMAIN threads' PROVE ThreadSound(w)'
  <2>1. CASE w = next
    <3>1. threads'[w] = t
      BY <1>7, <2>1
    <3>2. RangeOf(UpTo(next - 1) + 1, UpTo(next - 1), Modulus) = 1
      BY <1>2, <1>5, RangeOfFacts
    <3>3. (1 + UpTo(next - 1)) - 1 = UpTo(next - 1) /\ 1 + UpTo(next - 1) = UpTo(next - 1) + 1
      BY <1>5
    <3>4. t.value = RangeOf(UpTo(w - 1) + 1, t.factor - 1, Modulus)
      BY <2>1, <3>2, <3>3
    <3>5. t.factor \in UpTo(w - 1) + 1 .. UpTo(w) + 1
      BY <1>5, <2>1
    <3> QED BY <1>6, <1>8, <1>9, <3>1, <3>4, <3>5 DEF ThreadSound, Threads
  <2>2. CASE w # next
    <3>1. w \in DOMAIN threads /\ threads'[w] = threads[w]
      BY <1>7, <2>2, <1>4
    <3>2. ThreadSound(w)
      BY <1>2, <3>1 DEF Threading
    <3> QED BY <1>8, <1>9, <3>1, <3>2 DEF ThreadSound
  <2> QED BY <2>1, <2>2
<1>11. \A w : HasEnded(w)' <=> HasEnded(w)
  <2> SUFFICES ASSUME NEW w PROVE HasEnded(w)' <=> HasEnded(w)
    OBVIOUS
  <2>1. CASE w = next
    BY <1>7, <2>1 DEF HasEnded
  <2>2. CASE w # next
    BY <1>4, <1>7, <2>2 DEF HasEnded
  <2> QED BY <2>1, <2>2
<1>12. \A w : FullSlot(w)' = FullSlot(w)
  BY <1>8, <1>9 DEF FullSlot
<1>13. Threading'
  <2> HIDE DEF t
  <2>1. residue' = 1 /\ ledger'.factor_visits = 0 /\ next' \in 1 .. Workers' + 1 /\ Len(threads') = next' - 1
    BY <1>1, <1>2, <1>4, <1>7, <1>8 DEF Threading
  <2>2. slots' = slots
    BY <1>1
  <2>3. \A w \in 1 .. Workers' : slots'[w] = IF HasEnded(w)' THEN FullSlot(w)' ELSE EmptySlot'
    BY <1>2, <1>8, <1>11, <1>12, <2>2 DEF Threading, EmptySlot
  <2> QED BY <1>2, <1>3, <1>7, <1>8, <1>10, <2>1, <2>2, <2>3 DEF Threading
<1> QED BY <1>1, <1>8, <1>13 DEF LInv

\* A thread cannot be created.
LEMMA LinearSpawnFails ==
  ASSUME LInv, Linear!SpawnFails
  PROVE  LInv'
<1>1. /\ pc = "spawn" /\ threads' = <<>> /\ slots' = <<>>
      /\ UNCHANGED <<request, residue, next, ledger>>
      /\ \/ pc' = "rejected" /\ answer' = [kind |-> "rejected"]
         \/ pc' = "terminated" /\ answer' = answer
  BY DEF Linear!SpawnFails
<1> QED BY <1>1 DEF LInv, Modulus

\* Every thread is created.
LEMMA LinearSpawned ==
  ASSUME LInv, Linear!Spawned
  PROVE  LInv'
<1>1. /\ pc = "spawn" /\ next > Workers /\ pc' = "join"
      /\ UNCHANGED <<request, residue, next, ledger, threads, slots, answer>>
  BY LinearNames DEF Linear!Spawned
<1>2. Threading /\ next = Workers + 1
  BY <1>1 DEF LInv, Threading
<1>3. /\ Workers' = Workers /\ Modulus' = Modulus /\ Factors' = Factors
  BY <1>1 DEF Workers, Modulus, Factors
<1>4. \A w : UpTo(w)' = UpTo(w)
  BY <1>3 DEF UpTo
<1>5. Threading'
  <2>1. \A w : (ThreadSound(w)' <=> ThreadSound(w)) /\ (HasEnded(w)' <=> HasEnded(w)) /\ FullSlot(w)' = FullSlot(w)
    BY <1>1, <1>3, <1>4 DEF ThreadSound, HasEnded, FullSlot
  <2> QED BY <1>1, <1>2, <1>3, <2>1 DEF Threading, EmptySlot
<1> QED BY <1>1, <1>2, <1>3, <1>5 DEF LInv

\* A step of one thread.
LEMMA LinearThread ==
  ASSUME LInv, pc \in {"spawn", "join"}, UNCHANGED Outside,
         NEW w \in DOMAIN threads, NEW t \in Threads,
         threads' = [threads EXCEPT ![w] = t],
         ThreadSound(w)',
         slots' = IF t.ended THEN [slots EXCEPT ![w] = FullSlot(w)] ELSE slots,
         ~threads[w].ended
  PROVE  LInv'
<1>1. Threading
  BY DEF LInv
<1>2. /\ Workers' = Workers /\ Modulus' = Modulus /\ Factors' = Factors
  BY DEF Outside, Workers, Modulus, Factors
<1>3. \A u : UpTo(u)' = UpTo(u)
  BY <1>2 DEF UpTo
<1>4. \A u : FullSlot(u)' = FullSlot(u)
  BY <1>2, <1>3 DEF FullSlot
<1>5. /\ threads' \in Seq(Threads) /\ Len(threads') = Len(threads) /\ DOMAIN threads' = DOMAIN threads
      /\ threads'[w] = t /\ \A u \in DOMAIN threads : u # w => threads'[u] = threads[u]
  BY <1>1 DEF Threading
<1>6. \A u \in DOMAIN threads' : ThreadSound(u)'
  <2> SUFFICES ASSUME NEW u \in DOMAIN threads, u # w PROVE ThreadSound(u)'
    BY <1>5
  <2>1. ThreadSound(u)
    BY <1>1 DEF Threading
  <2> QED BY <1>2, <1>3, <1>5, <2>1 DEF ThreadSound
<1>7. w \in 1 .. Workers /\ DOMAIN slots = 1 .. Workers
  BY <1>1 DEF Threading
<1>8. ASSUME NEW u \in 1 .. Workers
      PROVE  slots'[u] = IF HasEnded(u)' THEN FullSlot(u) ELSE EmptySlot
  <2>1. slots[u] = IF HasEnded(u) THEN FullSlot(u) ELSE EmptySlot
    BY <1>1 DEF Threading
  <2>2. CASE u = w
    <3>1. HasEnded(u)' <=> t.ended
      BY <1>5, <2>2 DEF HasEnded
    <3>2. ~HasEnded(u)
      BY <2>2 DEF HasEnded
    <3> QED BY <1>7, <2>1, <2>2, <3>1, <3>2
  <2>3. CASE u # w
    <3>1. HasEnded(u)' <=> HasEnded(u)
      BY <1>5, <2>3 DEF HasEnded
    <3>2. slots'[u] = slots[u]
      BY <1>7, <2>3
    <3> QED BY <2>1, <3>1, <3>2
  <2> QED BY <2>2, <2>3
<1>9. Threading'
  <2>1. DOMAIN slots' = 1 .. Workers /\ slots' = [u \in 1 .. Workers |-> slots'[u]]
    BY <1>1, <1>7 DEF Threading
  <2>2. EmptySlot' = EmptySlot
    BY DEF EmptySlot
  <2>3. residue' = residue /\ ledger' = ledger /\ next' = next
    BY DEF Outside
  <2>4. Len(threads') = next' - 1 /\ next' \in 1 .. Workers + 1 /\ Workers \in Nat \ {0}
        /\ residue' = 1 /\ ledger'.factor_visits = 0
    BY <1>1, <1>5, <2>3 DEF Threading
  <2> QED BY <1>2, <1>4, <1>5, <1>6, <1>8, <2>1, <2>2, <2>4 DEF Threading
<1> QED BY <1>2, <1>9 DEF LInv, Outside

\* What a step of a thread changes in it.
LEMMA ThreadMoves ==
  ASSUME NEW x \in Threads, NEW f \in Int, NEW v \in Int
  PROVE  /\ [x EXCEPT !.factor = f, !.value = v] = [factor |-> f, value |-> v, ended |-> x.ended]
         /\ [x EXCEPT !.ended = TRUE] = [factor |-> x.factor, value |-> x.value, ended |-> TRUE]
<1> DEFINE y == [x EXCEPT !.factor = f]
           z == [y EXCEPT !.value = v]
           s == [x EXCEPT !.ended = TRUE]
<1>1. y \in Threads /\ y.factor = f /\ y.value = x.value /\ y.ended = x.ended
  BY DEF Threads
<1> HIDE DEF y
<1>2. z \in Threads /\ z.factor = f /\ z.value = v /\ z.ended = x.ended
  BY <1>1 DEF Threads
<1>3. s \in Threads /\ s.factor = x.factor /\ s.value = x.value /\ s.ended = TRUE
  BY DEF Threads
<1> HIDE DEF z, s
<1>4. z = [factor |-> f, value |-> v, ended |-> x.ended]
  BY <1>2 DEF Threads
<1>5. s = [factor |-> x.factor, value |-> x.value, ended |-> TRUE]
  BY <1>3 DEF Threads
<1> QED BY <1>4, <1>5 DEF y, z, s

\* A thread multiplies by its next factor.
LEMMA LinearThreadFactor ==
  ASSUME LInv, NEW w \in DOMAIN threads, Linear!ThreadFactor(w)
  PROVE  LInv'
<1>0. pc \in {"spawn", "join"}
  <2>1. threads # <<>>
    OBVIOUS
  <2> QED BY <2>1 DEF LInv, Combining
<1>1. /\ Modulus \in Nat \ {0, 1} /\ Threading /\ ThreadSound(w)
  BY <1>0, RequestSizes DEF LInv, Threading
<1>2. /\ ~threads[w].ended /\ threads[w].factor <= UpTo(w)
      /\ threads' = [threads EXCEPT ![w].factor = @ + 1,
                                    ![w].value = (@ * threads[w].factor) % Modulus]
      /\ UNCHANGED Outside /\ slots' = slots
  BY LinearNames DEF Linear!ThreadFactor, Linear!Running, Outside, Modulus
<1> DEFINE f == threads[w].factor
           v == threads[w].value
           t == [factor |-> f + 1, value |-> (v * f) % Modulus, ended |-> FALSE]
<1>3. threads[w] \in Threads /\ f \in Int /\ v \in Int
  BY <1>1 DEF ThreadSound, Threads
<1>4. threads' = [threads EXCEPT ![w] = t]
  <2>1. threads[w] = [factor |-> f, value |-> v, ended |-> FALSE]
    BY <1>2, <1>3 DEF Threads
  <2>2. PICK x \in Threads : x = threads[w]
    BY <1>3
  <2>3. PICK u \in Int : u = (v * f) % Modulus
    <3>1. v * f \in Int
      BY <1>3
    <3> HIDE DEF v, f
    <3> QED BY <1>1, <3>1
  <2>4. x.ended = FALSE
    BY <2>1, <2>2
  <2>5. PICK g \in Int : g = f + 1
    BY <1>3
  <2>6. [x EXCEPT !.factor = g, !.value = u] = [factor |-> g, value |-> u, ended |-> FALSE]
    <3>1. [x EXCEPT !.factor = g, !.value = u] = [factor |-> g, value |-> u, ended |-> x.ended]
      BY ThreadMoves, Zenon
    <3> QED BY <2>4, <3>1, Zenon
  <2>7. [factor |-> g, value |-> u, ended |-> FALSE] = t
    BY <2>3, <2>5
  <2>8. threads \in Seq(Threads)
    BY <1>1 DEF Threading
  <2>9. threads' = [threads EXCEPT ![w] = [x EXCEPT !.factor = g, !.value = u]]
    BY <1>2, <2>2, <2>3, <2>5, <2>8
  <2> HIDE DEF t
  <2> QED BY <2>6, <2>7, <2>9
<1>5. w \in Nat /\ w # 0
  BY <1>1 DEF Threading
<1>6. /\ UpTo(w - 1) \in Nat /\ UpTo(w) \in Nat
  <2>1. PICK k \in Nat : k = w - 1
    BY <1>5
  <2>2. UpTo(k) \in Nat /\ UpTo(w) \in Nat
    BY <1>0, <1>5, RangesFacts
  <2> QED BY <2>1, <2>2
<1>7. f \in UpTo(w - 1) + 1 .. UpTo(w) /\ v = RangeOf(UpTo(w - 1) + 1, f - 1, Modulus)
  BY <1>1, <1>2, <1>3, <1>6 DEF ThreadSound
<1>8. (v * f) % Modulus = RangeOf(UpTo(w - 1) + 1, f, Modulus)
  <2>1. PICK g \in Int : g = f - 1
    BY <1>3
  <2>2. g + 1 = f /\ UpTo(w - 1) + 1 <= g + 1 /\ UpTo(w - 1) + 1 \in Int
    BY <1>3, <1>6, <1>7, <2>1
  <2>3. (RangeOf(UpTo(w - 1) + 1, g, Modulus) * (g + 1)) % Modulus = RangeOf(UpTo(w - 1) + 1, g + 1, Modulus)
    BY <1>1, <2>2, RangeGrows
  <2> HIDE DEF f, v
  <2> QED BY <1>7, <2>1, <2>2, <2>3
<1>9. t \in Threads
  <2>1. (v * f) % Modulus \in Int
    <3>1. v * f \in Int
      BY <1>3
    <3> HIDE DEF v, f
    <3> QED BY <1>1, <3>1
  <2> HIDE DEF v, f
  <2> QED BY <1>3, <2>1 DEF Threads
<1>10. ThreadSound(w)'
  <2>1. Modulus' = Modulus /\ UpTo(w)' = UpTo(w) /\ UpTo(w - 1)' = UpTo(w - 1)
    BY <1>2 DEF Outside, Modulus, UpTo, Factors, Workers
  <2>2. threads'[w] = t
    <3>1. threads \in Seq(Threads)
      BY <1>1 DEF Threading
    <3> HIDE DEF t
    <3> QED BY <1>4, <3>1
  <2>3. (f + 1) - 1 = f /\ f + 1 \in UpTo(w - 1) + 1 .. UpTo(w) + 1
    BY <1>3, <1>6, <1>7
  <2> HIDE DEF f, v
  <2>4. t.factor = f + 1 /\ t.value = (v * f) % Modulus /\ t.ended = FALSE
    OBVIOUS
  <2> HIDE DEF t
  <2> QED BY <1>8, <1>9, <2>1, <2>2, <2>3, <2>4 DEF ThreadSound, Threads
<1>11. ~t.ended
  OBVIOUS
<1> HIDE DEF t
<1> QED BY <1>0, <1>2, <1>4, <1>9, <1>10, <1>11, LinearThread

\* A thread writes its slot.
LEMMA LinearThreadEnds ==
  ASSUME LInv, NEW w \in DOMAIN threads, Linear!ThreadEnds(w)
  PROVE  LInv'
<1>0. pc \in {"spawn", "join"}
  <2>1. threads # <<>>
    OBVIOUS
  <2> QED BY <2>1 DEF LInv, Combining
<1>1. /\ Modulus \in Nat \ {0, 1} /\ Threading /\ ThreadSound(w)
  BY <1>0, RequestSizes DEF LInv, Threading
<1> DEFINE f == threads[w].factor
           v == threads[w].value
           t == [factor |-> f, value |-> v, ended |-> TRUE]
<1>2. /\ ~threads[w].ended /\ f > UpTo(w)
      /\ threads' = [threads EXCEPT ![w].ended = TRUE]
      /\ slots' = [slots EXCEPT ![w] = [partial |-> v, visits |-> f - (1 + UpTo(w - 1))]]
      /\ UNCHANGED Outside
  BY LinearNames DEF Linear!ThreadEnds, Linear!Running, Outside
<1>3. threads[w] \in Threads /\ f \in Int /\ v \in Int
  BY <1>1 DEF ThreadSound, Threads
<1>4. threads' = [threads EXCEPT ![w] = t]
  <2>1. threads[w] = [factor |-> f, value |-> v, ended |-> FALSE]
    BY <1>2, <1>3 DEF Threads
  <2>2. PICK x \in Threads : x = threads[w]
    BY <1>3
  <2>3. [x EXCEPT !.ended = TRUE] = t
    BY <2>2, <1>3, ThreadMoves
  <2>4. threads \in Seq(Threads)
    BY <1>1 DEF Threading
  <2>5. threads' = [threads EXCEPT ![w] = [x EXCEPT !.ended = TRUE]]
    BY <1>2, <2>2, <2>4
  <2> QED BY <2>3, <2>5
<1>5. w \in Nat /\ w # 0
  BY <1>1 DEF Threading
<1>6. /\ UpTo(w - 1) \in Nat /\ UpTo(w) \in Nat
  <2>1. PICK k \in Nat : k = w - 1
    BY <1>5
  <2>2. UpTo(k) \in Nat /\ UpTo(w) \in Nat
    BY <1>0, <1>5, RangesFacts
  <2> QED BY <2>1, <2>2
<1>7. f = UpTo(w) + 1 /\ v = RangeOf(UpTo(w - 1) + 1, UpTo(w), Modulus)
  <2>1. f \in UpTo(w - 1) + 1 .. UpTo(w) + 1 /\ v = RangeOf(UpTo(w - 1) + 1, f - 1, Modulus)
    BY <1>1 DEF ThreadSound
  <2>2. f = UpTo(w) + 1
    BY <1>2, <1>3, <1>6, <2>1
  <2>3. f - 1 = UpTo(w)
    BY <1>6, <2>2
  <2> HIDE DEF f, v
  <2> QED BY <2>1, <2>2, <2>3
<1>8. t \in Threads
  BY <1>3 DEF Threads
<1>9. slots' = [slots EXCEPT ![w] = FullSlot(w)]
  <2>1. f - (1 + UpTo(w - 1)) = UpTo(w) - UpTo(w - 1)
    BY <1>6, <1>7
  <2> HIDE DEF f, v
  <2> QED BY <1>2, <1>7, <2>1 DEF FullSlot
<1>10. ThreadSound(w)'
  <2>1. Modulus' = Modulus /\ UpTo(w)' = UpTo(w) /\ UpTo(w - 1)' = UpTo(w - 1)
    BY <1>2 DEF Outside, Modulus, UpTo, Factors, Workers
  <2>2. threads'[w] = t
    <3>1. threads \in Seq(Threads)
      BY <1>1 DEF Threading
    <3> HIDE DEF t
    <3> QED BY <1>4, <3>1
  <2>3. f \in UpTo(w - 1) + 1 .. UpTo(w) + 1 /\ v = RangeOf(UpTo(w - 1) + 1, f - 1, Modulus)
    BY <1>1 DEF ThreadSound
  <2> HIDE DEF f, v
  <2>4. t.factor = f /\ t.value = v /\ t.ended = TRUE
    OBVIOUS
  <2> HIDE DEF t
  <2> QED BY <1>7, <1>8, <2>1, <2>2, <2>3, <2>4 DEF ThreadSound, Threads
<1>11. t.ended
  OBVIOUS
<1> HIDE DEF t
<1> QED BY <1>0, <1>2, <1>4, <1>8, <1>9, <1>10, <1>11, LinearThread

\* The owner joins the threads.
LEMMA LinearJoins ==
  ASSUME LInv, Linear!Join
  PROVE  LInv'
<1>1. /\ pc = "join" /\ \A w \in DOMAIN threads : threads[w].ended
      /\ pc' = "combine" /\ threads' = <<>> /\ next' = 1
      /\ UNCHANGED <<request, residue, ledger, slots, answer>>
  BY DEF Linear!Join
<1>2. Modulus \in Nat \ {0, 1} /\ Threading /\ next = Workers + 1
  BY <1>1, RequestSizes DEF LInv
<1>3. /\ Workers' = Workers /\ Modulus' = Modulus /\ Factors' = Factors
  BY <1>1 DEF Workers, Modulus, Factors
<1>4. \A w : UpTo(w)' = UpTo(w)
  BY <1>3 DEF UpTo
<1>5. \A w : FullSlot(w)' = FullSlot(w)
  BY <1>3, <1>4 DEF FullSlot
<1>6. DOMAIN threads = 1 .. Workers
  BY <1>2 DEF Threading
<1>7. \A w \in 1 .. Workers : slots[w] = FullSlot(w)
  BY <1>1, <1>2, <1>6 DEF Threading, HasEnded
<1>8. UpTo(0) = 0 /\ Workers \in Nat \ {0}
  BY <1>1, RangesFacts
<1>9. FactorialRest(0, Modulus) = 1
  BY <1>2, FactorialStarts
<1>10. Combining'
  <2>1. next' - 1 = 0 /\ next' \in 1 .. Workers + 1
    BY <1>1, <1>8
  <2>2. residue' = 1 /\ ledger'.factor_visits = 0 /\ DOMAIN slots' = 1 .. Workers
    BY <1>1, <1>2 DEF Threading
  <2>3. (UpTo(next - 1))' = 0
    BY <1>3, <1>8, <2>1 DEF UpTo
  <2>4. FactorialRest(0, Modulus') = 1
    BY <1>3, <1>9
  <2> QED BY <1>1, <1>3, <1>5, <1>7, <1>8, <2>1, <2>2, <2>3, <2>4 DEF Combining
<1> QED BY <1>1, <1>3, <1>10 DEF LInv

\* The owner multiplies what one slot holds.
LEMMA LinearCombines ==
  ASSUME LInv, Linear!Combine
  PROVE  LInv'
<1>1. /\ pc = "combine" /\ next <= Workers /\ next' = next + 1
      /\ residue' = (residue * slots[next].partial) % Modulus
      /\ ledger' = [ledger EXCEPT !.factor_visits = @ + slots[next].visits]
      /\ UNCHANGED <<request, pc, threads, slots, answer>>
  BY LinearNames DEF Linear!Combine, Linear!Times, Modulus
<1>2. Modulus \in Nat \ {0, 1} /\ Combining /\ Workers \in Nat \ {0}
  BY <1>1, RequestSizes DEF LInv, Combining
<1>3. /\ Workers' = Workers /\ Modulus' = Modulus /\ Factors' = Factors
  BY <1>1 DEF Workers, Modulus, Factors
<1>4. \A w : UpTo(w)' = UpTo(w)
  BY <1>3 DEF UpTo
<1>5. \A w : FullSlot(w)' = FullSlot(w)
  BY <1>3, <1>4 DEF FullSlot
<1>6. PICK k \in Nat : next = k + 1
  <2>1. next - 1 \in Nat /\ next = (next - 1) + 1
    BY <1>2 DEF Combining
  <2> QED BY <2>1
<1>7. next - 1 = k /\ next \in 1 .. Workers /\ (next + 1) - 1 = next
  BY <1>1, <1>2, <1>6 DEF Combining
<1>8. UpTo(k) \in Nat /\ UpTo(next) \in Nat /\ UpTo(k) <= UpTo(next)
  <2>1. k + 1 \in Nat
    OBVIOUS
  <2> QED BY <1>1, <1>6, <2>1, RangesFacts
<1>9. /\ slots[next] = FullSlot(next)
      /\ residue = FactorialRest(UpTo(k), Modulus) /\ ledger.factor_visits = UpTo(k)
  BY <1>2, <1>7 DEF Combining
<1>10. /\ slots[next].partial = RangeOf(UpTo(k) + 1, UpTo(next), Modulus)
       /\ slots[next].visits = UpTo(next) - UpTo(k)
  BY <1>7, <1>9 DEF FullSlot
<1> DEFINE v == RangeOf(UpTo(k) + 1, UpTo(next), Modulus)
<1>11. v \in Int /\ Same(v, ProductOf(UpTo(k) + 1 .. UpTo(next)), Modulus)
  <2>1. UpTo(k) + 1 \in Int /\ UpTo(next) \in Int
    BY <1>8
  <2>2. RangeOf(UpTo(k) + 1, UpTo(next), Modulus) \in 0 .. Modulus - 1
    BY <1>2, <2>1, RangeOfFacts
  <2>3. v \in Int
    BY <1>2, <2>2
  <2> QED BY <1>2, <2>1, <2>3, RangeOfFacts
<1> HIDE DEF v
<1>12. (FactorialRest(UpTo(k), Modulus) * v) % Modulus = FactorialRest(UpTo(next), Modulus)
  BY <1>2, <1>8, <1>11, FactorialJoins
<1>13. residue' = FactorialRest(UpTo(next), Modulus)
  BY <1>1, <1>9, <1>10, <1>12 DEF v
<1>14. /\ ledger' \in [factor_visits : Int, executed : BOOLEAN]
       /\ ledger'.factor_visits = UpTo(next) /\ ledger'.executed = ledger.executed
  <2>1. ledger \in [factor_visits : Int, executed : BOOLEAN]
    BY DEF LInv
  <2>2. ledger.factor_visits + slots[next].visits = UpTo(next)
    BY <1>8, <1>9, <1>10
  <2> QED BY <1>1, <1>8, <2>1, <2>2
<1>15. residue' \in 0 .. Modulus - 1
  <2>1. residue * v \in Int
    BY <1>2, <1>11 DEF LInv
  <2> QED BY <1>1, <1>2, <1>10, <2>1 DEF v
<1>16. Combining'
  <2>1. next' - 1 = next /\ next' \in 1 .. Workers + 1
    BY <1>1, <1>2, <1>6, <1>7
  <2>2. (UpTo(next - 1))' = UpTo(next)
    BY <1>3, <2>1 DEF UpTo
  <2> QED BY <1>1, <1>2, <1>3, <1>5, <1>13, <1>14, <2>1, <2>2 DEF Combining
<1> QED BY <1>1, <1>3, <1>14, <1>15, <1>16 DEF LInv

\* The owner returns the answer.
LEMMA LinearObserves ==
  ASSUME LInv, Linear!Observe
  PROVE  LInv' /\ answer'.kind = "observation"
<1>1. /\ pc' = "done" /\ slots' = <<>> /\ UNCHANGED <<request, residue, next, threads>>
      /\ answer' = [kind |-> "observation", residue |-> residue, prime |-> residue = Modulus - 1]
      /\ ledger' = [ledger EXCEPT !.executed = TRUE]
      /\ \/ pc = "serial" /\ next > Factors
         \/ pc = "combine" /\ next > Workers
  BY LinearNames DEF Linear!Observe, Modulus
<1>2. Modulus \in Nat \ {0, 1} /\ Factors \in Nat \ {0}
  BY RequestSizes
<1>3. residue = FactorialRest(Factors, Modulus) /\ ledger.factor_visits = Factors /\ threads = <<>>
  <2>1. CASE pc = "serial" /\ next > Factors
    <3>1. next - 1 = Factors
      BY <1>2, <2>1 DEF LInv
    <3> QED BY <2>1, <3>1 DEF LInv
  <2>2. CASE pc = "combine" /\ next > Workers
    <3>1. Combining /\ UpTo(Workers) = Factors /\ Workers \in Nat
      BY <2>2, RangesFacts DEF LInv
    <3>2. next - 1 = Workers
      BY <2>2, <3>1 DEF Combining
    <3> QED BY <3>1, <3>2 DEF Combining
  <2> QED BY <1>1, <2>1, <2>2
<1>4. /\ ledger' \in [factor_visits : Int, executed : BOOLEAN]
      /\ ledger'.factor_visits = Factors /\ ledger'.executed
  BY <1>1, <1>3 DEF LInv
<1>5. Modulus' = Modulus /\ Factors' = Factors
  BY <1>1 DEF Modulus, Factors
<1>6. LinearAnswer'
  BY <1>1, <1>3, <1>4, <1>5 DEF LinearAnswer
<1> QED BY <1>1, <1>3, <1>4, <1>5, <1>6 DEF LInv

\* Every step of the linear consumer keeps the invariant.
LEMMA LinearSteps ==
  ASSUME LInv, Linear!Next
  PROVE  LInv' /\ request' = request
<1>1. CASE Linear!Refuse
  BY <1>1, LinearRefuses DEF Linear!Refuse
<1>2. CASE Linear!Accept
  BY <1>2, LinearAccepts DEF Linear!Accept
<1>3. CASE Linear!Factor
  BY <1>3, LinearFactor DEF Linear!Factor
<1>4. CASE Linear!Spawn
  BY <1>4, LinearSpawns DEF Linear!Spawn
<1>5. CASE Linear!SpawnFails
  BY <1>5, LinearSpawnFails DEF Linear!SpawnFails
<1>6. CASE Linear!Thread
  <2>1. PICK w \in DOMAIN threads : Linear!ThreadFactor(w) \/ Linear!ThreadEnds(w)
    BY <1>6 DEF Linear!Thread
  <2>2. CASE Linear!ThreadFactor(w)
    BY <2>2, LinearThreadFactor DEF Linear!ThreadFactor
  <2>3. CASE Linear!ThreadEnds(w)
    BY <2>3, LinearThreadEnds DEF Linear!ThreadEnds
  <2> QED BY <2>1, <2>2, <2>3
<1>7. CASE Linear!Spawned
  BY <1>7, LinearSpawned DEF Linear!Spawned
<1>8. CASE Linear!Join
  BY <1>8, LinearJoins DEF Linear!Join
<1>9. CASE Linear!Combine
  BY <1>9, LinearCombines DEF Linear!Combine
<1>10. CASE Linear!Observe
  BY <1>10, LinearObserves DEF Linear!Observe
<1> QED BY <1>1, <1>2, <1>3, <1>4, <1>5, <1>6, <1>7, <1>8, <1>9, <1>10 DEF Linear!Next

\* So does a step of anything else.
LEMMA LinearRests ==
  ASSUME LInv, UNCHANGED <<call, linear_vars>>
  PROVE  LInv'
<1>1. UNCHANGED <<request, pc, residue, next, ledger, answer, threads, slots>>
  BY DEF call, linear_vars
<1>2. Modulus' = Modulus /\ Factors' = Factors /\ Workers' = Workers
  BY <1>1 DEF Modulus, Factors, Workers
<1>3. \A w : UpTo(w)' = UpTo(w)
  BY <1>2 DEF UpTo
<1>4. \A w : (ThreadSound(w)' <=> ThreadSound(w)) /\ (HasEnded(w)' <=> HasEnded(w)) /\ FullSlot(w)' = FullSlot(w)
  BY <1>1, <1>2, <1>3 DEF ThreadSound, HasEnded, FullSlot
<1>5. Threading => Threading'
  BY <1>1, <1>2, <1>4 DEF Threading, EmptySlot
<1>6. Combining => Combining'
  <2>1. (UpTo(next - 1))' = UpTo(next - 1)
    BY <1>1, <1>2 DEF UpTo
  <2> QED BY <1>1, <1>2, <1>4, <2>1 DEF Combining
<1>7. LinearAnswer => LinearAnswer'
  BY <1>1, <1>2 DEF LinearAnswer
<1> QED BY <1>1, <1>2, <1>5, <1>6, <1>7 DEF LInv

(* The same products in the words of the consumer. *)

\* Products in the consumer and in the proofs.
LEMMA LinearProducts ==
  ASSUME Modulus \in Nat \ {0}
  PROVE  /\ \A a, b : Linear!RangeMod(a, b) = RangeOf(a, b, Modulus)
         /\ \A n \in Nat : Linear!Factorial(n) = FactorialRest(n, Modulus)
<1>1. \A a, b : Linear!RangeMod(a, b) = RangeOf(a, b, Modulus)
  BY DEF Linear!RangeMod, RangeOf, ReducedProduct, Modulus, Linear!FoldSet, FoldSet,
         Linear!MapThenFoldSet, MapThenFoldSet
<1>2. \A n : Linear!Factorial(n) = HalvingPartial(n, Modulus)[<<0, n>>]
  BY DEF Linear!Factorial, Linear!Observer!FactorialMod, HalvingPartial, HalvingStep, Modulus
<1>3. \A n \in Nat : HalvingPartial(n, Modulus)[<<0, n>>] = FactorialRest(n, Modulus)
  BY HalvingIsRest DEF FactorialRest
<1> QED BY <1>1, <1>2, <1>3

\* A thread holds the product of its range up to its factor.
LEMMA LinearThreadsHold ==
  ASSUME LInv, NEW w \in DOMAIN threads
  PROVE  /\ threads[w].factor \in Linear!FirstFactor(w) .. Linear!LastFactor(w) + 1
         /\ threads[w].value = Linear!RangeMod(Linear!FirstFactor(w), threads[w].factor - 1)
<1>1. threads # <<>>
  OBVIOUS
<1>2. pc \in {"spawn", "join"} /\ Threading
  BY <1>1 DEF LInv, Combining
<1>3. ThreadSound(w) /\ w \in Nat \ {0}
  BY <1>2 DEF Threading
<1>4. Modulus \in Nat \ {0}
  BY RequestSizes
<1>5. UpTo(w - 1) + 1 = 1 + UpTo(w - 1)
  <2>1. PICK k \in Nat : k = w - 1
    BY <1>3
  <2>2. UpTo(k) \in Nat
    BY <1>2, RangesFacts
  <2> QED BY <2>1, <2>2
<1> QED BY <1>3, <1>4, <1>5, LinearNames, LinearProducts DEF ThreadSound

\* A slot holds the product of its thread's range once that has ended.
LEMMA LinearSlotsHold ==
  ASSUME LInv, NEW w \in DOMAIN slots
  PROVE  slots[w] = IF pc = "combine" \/ (w \in DOMAIN threads /\ threads[w].ended)
                      THEN [partial |-> Linear!RangeMod(Linear!FirstFactor(w), Linear!LastFactor(w)),
                            visits  |-> Linear!LastFactor(w) - Linear!FirstFactor(w) + 1]
                      ELSE [partial |-> 1, visits |-> 0]
<1>1. slots # <<>>
  OBVIOUS
<1>2. pc \in {"spawn", "join", "combine"} /\ (pc # "combine" => Threading) /\ (pc = "combine" => Combining)
  BY <1>1 DEF LInv
<1>3. w \in 1 .. Workers /\ Workers \in Nat
  BY <1>2 DEF Threading, Combining
<1>4. Modulus \in Nat \ {0}
  BY RequestSizes
<1>5. UpTo(w - 1) + 1 = 1 + UpTo(w - 1) /\ UpTo(w) - (1 + UpTo(w - 1)) + 1 = UpTo(w) - UpTo(w - 1)
  <2>1. PICK k \in Nat : k = w - 1
    BY <1>3
  <2>2. UpTo(k) \in Nat /\ UpTo(w) \in Nat
    BY <1>2, <1>3, RangesFacts
  <2> QED BY <2>1, <2>2
<1>6. FullSlot(w) = [partial |-> Linear!RangeMod(Linear!FirstFactor(w), Linear!LastFactor(w)),
                     visits  |-> Linear!LastFactor(w) - Linear!FirstFactor(w) + 1]
  BY <1>4, <1>5, LinearNames, LinearProducts DEF FullSlot
<1>7. slots[w] = IF pc = "combine" \/ HasEnded(w) THEN FullSlot(w) ELSE EmptySlot
  <2>1. CASE pc = "combine"
    BY <1>2, <1>3, <2>1 DEF Combining
  <2>2. CASE pc # "combine"
    BY <1>2, <1>3, <2>2 DEF Threading
  <2> QED BY <2>1, <2>2
<1> QED BY <1>6, <1>7 DEF HasEnded, EmptySlot

\* The invariant is stronger than the one the runs check.
LEMMA LinearHolds ==
  ASSUME LInv
  PROVE  Linear!IInv
<1>1. Modulus \in Nat \ {0, 1} /\ Factors \in Nat \ {0}
  BY RequestSizes
<1>2. residue \in 0 .. request.candidate - 1
  BY DEF LInv, Modulus
<1>3. pc = "serial" => residue = Linear!Factorial(next - 1) /\ ledger.factor_visits = next - 1
  <2> SUFFICES ASSUME pc = "serial" PROVE residue = Linear!Factorial(next - 1) /\ ledger.factor_visits = next - 1
    OBVIOUS
  <2>1. next \in 1 .. Factors + 1 /\ residue = FactorialRest(next - 1, Modulus) /\ ledger.factor_visits = next - 1
    BY DEF LInv
  <2>2. next - 1 \in Nat
    BY <1>1, <2>1
  <2> QED BY <1>1, <2>1, <2>2, LinearProducts
<1>4. ASSUME pc = "combine"
      PROVE  LET last == IF next = 1 THEN 0 ELSE Linear!LastFactor(next - 1)
             IN  residue = Linear!Factorial(last) /\ ledger.factor_visits = last
  <2>1. Combining /\ UpTo(0) = 0
    BY <1>4, RangesFacts DEF LInv
  <2>2. PICK k \in Nat : k = next - 1
    BY <2>1 DEF Combining
  <2>3. UpTo(k) \in Nat /\ (next = 1 <=> k = 0)
    BY <1>4, <2>1, <2>2, RangesFacts DEF Combining
  <2>4. (IF next = 1 THEN 0 ELSE Linear!LastFactor(next - 1)) = UpTo(k)
    BY <2>1, <2>2, <2>3, LinearNames
  <2> QED BY <1>1, <2>1, <2>2, <2>3, <2>4, LinearProducts DEF Combining
<1>5. threads # <<>> => pc \in {"spawn", "join"}
  BY DEF LInv, Combining
<1> QED BY <1>2, <1>3, <1>4, <1>5, LinearThreadsHold, LinearSlotsHold DEF Linear!IInv

\* The verifier accepts the answer of the linear consumer.
LEMMA LinearAccepted ==
  ASSUME LInv
  PROVE  Linear!Accepted
<1>1. CASE pc = "done"
  <2>1. CASE answer.kind = "limit"
    <3>1. /\ answer.required = Factors /\ answer.allowed = request.max_factor_visits
          /\ Factors > request.max_factor_visits /\ ~ledger.executed
      BY <1>1, <2>1 DEF LInv, LinearAnswer
    <3> QED BY <2>1, <3>1, LinearNames DEF Linear!Accepted
  <2>2. CASE answer.kind # "limit"
    <3>1. /\ answer.kind = "observation"
          /\ answer.residue = FactorialRest(Factors, Modulus)
          /\ answer.prime = (FactorialRest(Factors, Modulus) = Modulus - 1)
          /\ ledger.executed /\ ledger.factor_visits = Factors
      BY <1>1, <2>2 DEF LInv, LinearAnswer
    <3>2. answer.prime <=> answer.residue = request.candidate - 1
      BY <3>1 DEF Modulus
    <3> QED BY <3>1, <3>2, LinearNames DEF Linear!Accepted
  <2> QED BY <2>1, <2>2
<1>2. CASE pc = "rejected"
  BY <1>2 DEF LInv, Linear!Accepted
<1>3. CASE pc \notin {"done", "rejected"}
  BY <1>3 DEF LInv, Linear!Accepted
<1> QED BY <1>1, <1>2, <1>3

\* Only a policy of its own limits the linear consumer: the adaptive entry
\* gives it candidates up to the cutover, and lets cutover - 1 factors through.
LEMMA LinearLimit ==
  ASSUME LInv, answer.kind = "limit"
  PROVE  request \in LinearCalls
<1>1. pc = "done" /\ Factors > request.max_factor_visits
  <2>1. pc = "done"
    BY DEF LInv
  <2> QED BY <2>1 DEF LInv, LinearAnswer
<1>2. SUFFICES ASSUME NEW c \in PracticalCalls, ToLinear(c), request = LinearRequest(c)
               PROVE  FALSE
  BY DEF LInv, LinearRequests
<1>3. c.cutover \in Nat
  BY CallsAssumption
<1>4. request.candidate = c.candidate /\ request.candidate <= c.cutover
      /\ request.max_factor_visits = (IF c.cutover = 0 THEN 0 ELSE c.cutover - 1)
  BY <1>2 DEF ToLinear, LinearRequest
<1> QED BY <1>1, <1>3, <1>4, RequestSizes DEF Modulus, Factors

(* What an observer promises, in the words of the products. *)

\* What an observer promises, read by Wilson's theorem.
LEMMA PromisedObservation ==
  ASSUME Modulus \in Nat \ {0, 1}
  PROVE  /\ Observer!FactorialMod(request.candidate - 1, request.candidate) = FactorialRest(Factors, Modulus)
         /\ Observer!Prime(request.candidate) <=> FactorialRest(Factors, Modulus) = Modulus - 1
<1>1. Factors \in Nat
  BY DEF Modulus, Factors
<1>2. Observer!FactorialMod(request.candidate - 1, request.candidate)
        = HalvingPartial(Factors, Modulus)[<<0, Factors>>]
  BY DEF Observer!FactorialMod, HalvingPartial, HalvingStep, Modulus, Factors
<1>3. HalvingPartial(Factors, Modulus)[<<0, Factors>>] = FactorialRest(Factors, Modulus)
  <2> Modulus \in Nat \ {0}
    OBVIOUS
  <2> QED BY <1>1, HalvingIsRest DEF FactorialRest
<1>4. Observer!Prime(request.candidate) <=> IsPrime(Modulus)
  BY DEF Observer!Prime, IsPrime, Modulus
<1>5. IsPrime(Modulus) <=> FactorialRest(Factors, Modulus) = Modulus - 1
  BY WilsonsTheorem DEF FactorialRest, Factors, Modulus
<1> QED BY <1>2, <1>3, <1>4, <1>5

\* The answer is given once: from none to what is promised.
LEMMA AnswersAreSteps ==
  ASSUME Modulus \in Nat \ {0, 1}, request' = request,
         answer = [kind |-> "none"],
         \/ answer'.kind = "limit"
         \/ answer' = [kind |-> "rejected"]
         \/ answer' = [kind |-> "observation", residue |-> FactorialRest(Factors, Modulus),
                       prime |-> FactorialRest(Factors, Modulus) = Modulus - 1]
  PROVE  Observer!Next
<1>1. CASE answer'.kind = "limit"
  BY <1>1 DEF Observer!Next, Observer!Refuse
<1>2. CASE answer' = [kind |-> "rejected"]
  BY <1>2 DEF Observer!Next, Observer!Refuse
<1>3. CASE answer' = [kind |-> "observation", residue |-> FactorialRest(Factors, Modulus),
                      prime |-> FactorialRest(Factors, Modulus) = Modulus - 1]
  <2> DEFINE r == FactorialRest(Factors, Modulus)
  <2>1. Observer!FactorialMod(request.candidate - 1, request.candidate) = r
    BY PromisedObservation
  <2>2. Observer!Prime(request.candidate) = (r = Modulus - 1)
    <3>1. Observer!Prime(request.candidate) <=> r = Modulus - 1
      BY PromisedObservation
    <3>2. Observer!Prime(request.candidate) \in BOOLEAN
      BY DEF Observer!Prime
    <3> QED BY <3>1, <3>2
  <2> HIDE DEF r
  <2>3. answer' = [kind |-> "observation", residue |-> r, prime |-> r = Modulus - 1]
    BY <1>3 DEF r
  <2>4. answer'.kind = "observation"
    BY <2>3
  <2> QED BY <2>1, <2>2, <2>3, <2>4 DEF Observer!Next, Observer!Observe
<1> QED BY <1>1, <1>2, <1>3

\* A step of the linear consumer is one of an observer, or none.
LEMMA LinearKeepsPromise ==
  ASSUME LInv, Linear!Next
  PROVE  Observer!Next \/ UNCHANGED Observer!vars
<1>1. Modulus \in Nat \ {0, 1} /\ request' = request
  BY RequestSizes, LinearSteps
<1>2. CASE answer' = answer
  BY <1>1, <1>2 DEF Observer!vars
<1>3. CASE Linear!Refuse
  <2>1. answer = [kind |-> "none"] /\ answer'.kind = "limit"
    BY <1>3 DEF Linear!Refuse, LInv
  <2> QED BY <1>1, <2>1, AnswersAreSteps
<1>4. CASE Linear!SpawnFails /\ answer' # answer
  <2>1. answer = [kind |-> "none"] /\ answer' = [kind |-> "rejected"]
    BY <1>4 DEF Linear!SpawnFails, LInv
  <2> QED BY <1>1, <2>1, AnswersAreSteps
<1>5. CASE Linear!Observe
  <2>1. answer = [kind |-> "none"] /\ pc' = "done"
    BY <1>5 DEF Linear!Observe, LInv
  <2>2. LInv' /\ answer'.kind = "observation"
    BY <1>5, LinearObserves
  <2>3. answer' = [kind |-> "observation", residue |-> FactorialRest(Factors, Modulus),
                   prime |-> FactorialRest(Factors, Modulus) = Modulus - 1]
    <3>1. LinearAnswer' /\ Modulus' = Modulus /\ Factors' = Factors
      BY <1>1, <2>1, <2>2 DEF LInv, Modulus, Factors
    <3> QED BY <2>2, <3>1 DEF LinearAnswer
  <2> QED BY <1>1, <2>1, <2>3, AnswersAreSteps
<1> QED BY <1>2, <1>3, <1>4, <1>5 DEF Linear!Next, Linear!Accept, Linear!Factor, Linear!Spawn,
           Linear!Thread, Linear!ThreadFactor, Linear!ThreadEnds, Linear!Spawned, Linear!Join,
           Linear!Combine

-------------------------------------------------------------------------------
(* The operators of the block consumer are those of the theorems. *)

\* Lists and numbers,
LEMMA SameSmallOperators ==
  /\ \A s : Block!Tuple(s) = Tuple(s)
  /\ \A a, b : Block!Lesser(a, b) = Lesser(a, b)
  /\ \A p : Block!Trim(p) = Trim(p)
  /\ \A p, n : Block!Resize(p, n) = Resize(p, n)
  /\ \A p : Block!Reversed(p) = Reversed(p)
  /\ \A k : Block!PowerOfTwo(k) = PowerOfTwo(k)
  /\ \A k : Block!Rounds(k) = Rounds(k)
<1>1. \A s : Block!Tuple(s) = Tuple(s)
  BY DEF Block!Tuple, Tuple
<1>2. \A a, b : Block!Lesser(a, b) = Lesser(a, b)
  BY DEF Block!Lesser, Lesser
<1>3. \A p : Block!Trim(p) = Trim(p)
  BY <1>1 DEF Block!Trim, Trim, Block!Max, Max
<1>4. \A p, n : Block!Resize(p, n) = Resize(p, n)
  BY <1>1 DEF Block!Resize, Resize
<1>5. \A p : Block!Reversed(p) = Reversed(p)
  BY <1>1 DEF Block!Reversed, Reversed
<1>6. \A k : Block!PowerOfTwo(k) = PowerOfTwo(k)
  BY DEF Block!PowerOfTwo, PowerOfTwo
<1>7. \A k : Block!Rounds(k) = Rounds(k)
  BY <1>6 DEF Block!Rounds, Rounds
<1> QED BY <1>1, <1>2, <1>3, <1>4, <1>5, <1>6, <1>7

\* products,
LEMMA SameProducts ==
  \A p, q, m : Block!Product(p, q, m) = Product(p, q, m)
BY SameSmallOperators
   DEF Block!Product, Product, Block!MapThenSumSet, MapThenSumSet,
       Block!MapThenFoldSet, MapThenFoldSet

\* The recursions of the two remainders as the block consumer has them.
BlockCleared(above, q, c, m) ==
  Block!Tuple([i \in 1 .. c |->
           LET j == i - (c - (Len(q) - 1))
           IN  IF j \in 1 .. Len(q) - 1 THEN (above[i] - above[c + 1] * q[j]) % m
               ELSE above[i]])

BlockRestStep(p, q, m, g) ==
  [c \in Len(q) - 1 .. Len(p) |-> IF c = Len(p) THEN p ELSE BlockCleared(g[c + 1], q, c, m)]

BlockRefined(p, old, n, m) ==
  LET prefix  == SubSeq(p, 1, Block!Lesser(Len(p), n))
      product == Block!Resize(Block!Product(prefix, old, m), n)
  IN  Block!Resize(Block!Product(old, Block!Correction(product, m), m), n)

BlockInverseStep(p, size, m, g) ==
  [k \in 0 .. Block!Rounds(size) |->
     IF k = 0 THEN <<1>> ELSE BlockRefined(p, g[k - 1], Block!Lesser(size, Block!PowerOfTwo(k)), m)]

\* long division,
LEMMA SameClassicalRemainders ==
  ASSUME NEW p, NEW q, NEW m
  PROVE  Block!ClassicalRemainder(p, q, m) = ClassicalRemainder(p, q, m)
<1>1. ASSUME NEW above, NEW c PROVE BlockCleared(above, q, c, m) = Cleared(above, q, c, m)
  BY SameSmallOperators DEF BlockCleared, Cleared
<1>2. ASSUME NEW g PROVE BlockRestStep(p, q, m, g) = RestStep(p, q, m, g)
  BY <1>1 DEF BlockRestStep, RestStep
<1>3. (CHOOSE g : g = BlockRestStep(p, q, m, g)) = Rests(p, q, m)
  BY <1>2 DEF Rests
<1>4. CASE Len(p) < Len(q)
  BY <1>4 DEF Block!ClassicalRemainder, ClassicalRemainder
<1>5. CASE ~(Len(p) < Len(q))
  <2>1. Block!ClassicalRemainder(p, q, m) = Block!Trim((CHOOSE g : g = BlockRestStep(p, q, m, g))[Len(q) - 1])
    BY <1>5 DEF Block!ClassicalRemainder, BlockRestStep, BlockCleared
  <2> QED BY <1>3, <1>5, <2>1, SameSmallOperators, ClassicalIsRest
<1> QED BY <1>4, <1>5

\* inverses,
LEMMA SameSeriesInverses ==
  ASSUME NEW p, NEW size, NEW m
  PROVE  Block!SeriesInverse(p, size, m) = SeriesInverse(p, size, m)
<1>1. \A product : Block!Correction(product, m) = Correction(product, m)
  BY SameSmallOperators DEF Block!Correction, Correction
<1>2. ASSUME NEW old, NEW n PROVE BlockRefined(p, old, n, m) = Refined(p, old, n, m)
  BY <1>1, SameSmallOperators, SameProducts DEF BlockRefined, Refined
<1>3. ASSUME NEW g PROVE BlockInverseStep(p, size, m, g) = InverseStep(p, size, m, g)
  BY <1>2, SameSmallOperators DEF BlockInverseStep, InverseStep
<1>4. (CHOOSE g : g = BlockInverseStep(p, size, m, g)) = Inverses(p, size, m)
  BY <1>3 DEF Inverses
<1>5. Block!SeriesInverse(p, size, m) = (CHOOSE g : g = BlockInverseStep(p, size, m, g))[Block!Rounds(size)]
  BY DEF Block!SeriesInverse, BlockInverseStep, BlockRefined
<1> QED BY <1>4, <1>5, SameSmallOperators, SeriesInverseIs

\* Newton's remainder,
LEMMA SameNewtonRemainders ==
  \A p, q, m : Block!NewtonRemainder(p, q, m) = NewtonRemainder(p, q, m)
BY SameSmallOperators, SameProducts, SameSeriesInverses DEF Block!NewtonRemainder, NewtonRemainder

\* the choice between the two,
LEMMA SameRemainders ==
  \A p, q, m, limits : Block!Remainder(p, q, m, limits) = Remainder(p, q, m, limits)
BY SameClassicalRemainders, SameNewtonRemainders DEF Block!Remainder, Remainder, Block!Classical, Classical

\* values,
LEMMA SameValues ==
  \A p, x, m : Block!Value(p, x, m) = Value(p, x, m)
BY DEF Block!Value, Value

\* trees
LEMMA SameTrees ==
  /\ \A v : Block!IsLeaf(v) = IsLeaf(v) /\ Block!Left(v) = Left(v) /\ Block!Right(v) = Right(v)
  /\ \A root : Block!Nodes(root) = Nodes(root)
  /\ \A leaf, root, m : Block!ProductTree(leaf, root, m) = ProductTree(leaf, root, m)
  /\ \A root, m : Block!FactorLeaves(root, m) = FactorLeaves(root, m)
  /\ \A b, width, m : Block!PointOf(b, width, m) = PointOf(b, width, m)
  /\ \A root, width, m : Block!VanishingLeaves(root, width, m) = VanishingLeaves(root, width, m)
<1>1. \A v : Block!IsLeaf(v) = IsLeaf(v) /\ Block!Left(v) = Left(v) /\ Block!Right(v) = Right(v)
  BY DEF Block!IsLeaf, IsLeaf, Block!Left, Left, Block!Right, Right, Block!Middle, Middle
<1>2. \A root : Block!Within(root) = Within(root)
  BY DEF Block!Within, Within
<1>3. \A root : Block!Nodes(root) = Nodes(root)
  BY <1>1, <1>2 DEF Block!Nodes, Nodes
<1>4. \A leaf, root, m : Block!ProductTree(leaf, root, m) = ProductTree(leaf, root, m)
  BY <1>1, <1>2, SameProducts DEF Block!ProductTree, ProductTree
<1>5. \A root, m : Block!FactorLeaves(root, m) = FactorLeaves(root, m)
  BY DEF Block!FactorLeaves, FactorLeaves
<1>6. \A b, width, m : Block!PointOf(b, width, m) = PointOf(b, width, m)
  BY DEF Block!PointOf, PointOf
<1>7. \A root, width, m : Block!VanishingLeaves(root, width, m) = VanishingLeaves(root, width, m)
  BY <1>6 DEF Block!VanishingLeaves, VanishingLeaves
<1> QED BY <1>1, <1>3, <1>4, <1>5, <1>6, <1>7

\* and square roots.
LEMMA SameRoots ==
  \A n : Block!CeilRoot(n) = CeilRoot(n)
BY DEF Block!CeilRoot, CeilRoot

(* ------------------- the invariant of the block consumer --------------- *)

Wide == ledger.width
Full == ledger.full_blocks

Ledgers ==
  [width : Nat, full_blocks : Nat, covered : Nat, tail : Nat, leaves : Nat, points : Nat,
   block_products : Nat, tail_products : Nat, started : BOOLEAN, completed : BOOLEAN]

\* The plan divides the factors into full blocks and a tail.
Planned ==
  /\ ledger.started
  /\ Wide \in Nat \ {0} /\ Full \in Nat \ {0}
  /\ ledger.covered = Full * Wide
  /\ ledger.covered + ledger.tail = Factors
  /\ ledger.leaves = Wide /\ ledger.points = Full

Below(v) == v[1] .. v[2] - 1

\* What is queued for a branch: ranges from the left to the right, each with a
\* polynomial that is right at its points.
Queued(q, nodes, v, width, m) ==
  /\ q \in Seq([node : nodes, polynomial : Poly(m), reduced : BOOLEAN])
  /\ \A i \in DOMAIN q : /\ RightBelow(q[i].polynomial, q[i].node, width, m)
                         /\ v[1] <= q[i].node[1] /\ q[i].node[2] <= v[2]
  /\ \A i, j \in DOMAIN q : i < j => q[i].node[2] <= q[j].node[1]

\* Each block of the range is queued or has its value.
Covers(q, written, v, width, m) ==
  \A b \in Below(v) :
    \/ \E i \in DOMAIN q : b \in Below(q[i].node)
    \/ written[b] = BlockProduct(b, width) % m

Descending(branch, v) ==
  /\ Queued(branch.tasks, DOMAIN tree, v, Wide, Modulus)
  /\ branch.state = "running" <=> branch.tasks # <<>>
  /\ branch.state \in {"running", "ended"} => Covers(branch.tasks, values, v, Wide, Modulus)

BranchRight(s) ==
  /\ DOMAIN branches[s] = {"state", "tasks", "built"}
  /\ branches[s].state \in {"unborn", "running", "ended", "threw"}
  /\ pc = "factors" /\ branches[s].state = "ended" =>
       FactorsOf(branches[s].built, Block!Ranges[s], Modulus)
  /\ pc = "tree" /\ branches[s].state = "ended" =>
       GoodTree(branches[s].built, Block!Ranges[s], Wide, Modulus)
  /\ pc = "descend" => Descending(branches[s], Block!Ranges[s])

Branching ==
  /\ DOMAIN branches = DOMAIN Block!Ranges
  /\ \A s \in DOMAIN branches : BranchRight(s)
  /\ pc = "descend" => DOMAIN values = 0 .. Full - 1

Staging ==
  /\ residue = 1 /\ next = 0 /\ ledger.block_products = 0 /\ ledger.tail_products = 0
  /\ pc # "factors" => FactorsOf(block, <<0, Wide>>, Modulus)
  /\ pc = "descend" => GoodTree(tree, <<0, Full>>, Wide, Modulus)
  /\ branches # <<>> => Branching

Reading ==
  /\ branches = <<>>
  /\ next \in 0 .. Full
  /\ residue = FactorialRest(next * Wide, Modulus)
  /\ ledger.block_products = next /\ ledger.tail_products = 0
  /\ \A b \in 0 .. Full - 1 : values[b] = BlockProduct(b, Wide) % Modulus

Trailing ==
  /\ branches = <<>>
  /\ next \in ledger.covered + 1 .. Factors + 1
  /\ residue = FactorialRest(next - 1, Modulus)
  /\ ledger.block_products = Full /\ ledger.tail_products = next - 1 - ledger.covered

\* What the block consumer answers.
BlockAnswer ==
  \/ /\ answer.kind = "limit" /\ answer.reason = "BlockWidth"
     /\ ~ledger.started /\ ~ledger.completed /\ answer.required > answer.allowed
  \/ /\ answer.kind = "limit" /\ answer.reason = "PolynomialEngine"
     /\ ledger.started /\ ~ledger.completed
  \/ /\ answer = [kind |-> "observation", residue |-> FactorialRest(Factors, Modulus),
                  prime |-> FactorialRest(Factors, Modulus) = Modulus - 1]
     /\ Planned /\ ledger.completed
     /\ ledger.block_products = Full /\ ledger.tail_products = ledger.tail

BInv ==
  /\ request \in BlockRequests
  /\ ledger \in Ledgers
  /\ residue \in 0 .. Modulus - 1
  /\ pc \in {"download", "factors", "tree", "descend", "blocks", "tail", "done", "rejected"}
  /\ pc = "download" => residue = 1 /\ next = 0 /\ ledger = Block!FreshLedger
  /\ pc \in Block!Stages => Planned /\ Staging
  /\ pc = "blocks" => Planned /\ Reading
  /\ pc = "tail" => Planned /\ Trailing
  /\ pc \notin Block!Stages => branches = <<>>
  /\ pc \notin {"done", "rejected"} => answer = [kind |-> "none"]
  /\ pc # "done" => ~ledger.completed
  /\ pc = "rejected" => answer = [kind |-> "rejected"]
  /\ pc = "done" => BlockAnswer

\* The sizes of the block consumer are those of the proofs.
LEMMA BlockNames ==
  /\ Block!candidate = Modulus
  /\ Block!factor_count = Factors
  /\ Block!policy = request.policy
  /\ Block!natural_width = CeilRoot(Factors)
BY SameRoots DEF Block!candidate, Modulus, Block!factor_count, Factors, Block!policy, Block!natural_width

\* The sizes a call of the block consumer works with.
LEMMA BlockSizes ==
  ASSUME BInv
  PROVE  /\ Modulus \in Nat \ {0, 1} /\ Factors \in Nat \ {0} /\ Modulus = Factors + 1
         /\ request.policy.override \in Nat /\ request.policy.max_width \in Nat
<1>1. request \in Block!Policed
  BY BlockRequestFacts DEF BInv
<1>2. request.candidate \in Nat \ {0, 1} /\ request.policy.override \in Nat /\ request.policy.max_width \in Nat
  BY <1>1 DEF Block!Policed
<1> QED BY <1>2 DEF Modulus, Factors

\* A call begins in the invariant.
LEMMA BlockInit ==
  ASSUME Block!Init
  PROVE  BInv
<1>1. request \in BlockRequests /\ request.candidate \in Nat \ {0, 1}
  BY BlockRequestFacts DEF Block!Init
<1>2. residue = 1 /\ 1 \in 0 .. Modulus - 1
  BY <1>1, BlockNames DEF Block!Init, Modulus
<1>3. ledger \in Ledgers /\ ~ledger.completed
  BY DEF Block!Init, Block!FreshLedger, Ledgers
<1>4. branches = <<>>
  BY DEF Block!Init, Block!Idle, Block!Nobody
<1> QED BY <1>1, <1>2, <1>3, <1>4 DEF Block!Init, BInv, Block!Stages

\* The policy does not allow as wide a block.
LEMMA BlockRefuses ==
  ASSUME BInv, Block!RefuseWidth
  PROVE  BInv' /\ answer'.kind = "limit" /\ pc = "download"
<1>1. /\ pc = "download" /\ pc' = "done" /\ UNCHANGED <<request, residue, next, ledger, branches, block, tree, values>>
      /\ answer' = [kind |-> "limit", reason |-> "BlockWidth",
                    required |-> Block!Width, allowed |-> request.policy.max_width]
      /\ Block!Width > request.policy.max_width
  BY BlockNames DEF Block!RefuseWidth, Block!Limit, Block!work
<1>2. ledger = Block!FreshLedger /\ branches = <<>>
  BY <1>1 DEF BInv, Block!Stages
<1>3. ~ledger.started /\ ~ledger.completed
  BY <1>2 DEF Block!FreshLedger
<1>4. BlockAnswer'
  BY <1>1, <1>3 DEF BlockAnswer
<1>5. Modulus' = Modulus
  BY <1>1 DEF Modulus
<1> QED BY <1>1, <1>2, <1>4, <1>5 DEF BInv, Block!Stages

\* The policy asks for a width that is wider than the range.
LEMMA BlockRejects ==
  ASSUME BInv, Block!Reject
  PROVE  BInv' /\ answer' = [kind |-> "rejected"] /\ pc = "download"
<1>1. /\ pc = "download" /\ pc' = "rejected" /\ UNCHANGED <<request, residue, next, ledger, branches, block, tree, values>>
      /\ answer' = [kind |-> "rejected"]
  BY BlockNames DEF Block!Reject, Block!Rejects, Block!work
<1>2. branches = <<>> /\ Modulus' = Modulus
  BY <1>1 DEF BInv, Block!Stages, Modulus
<1> QED BY <1>1, <1>2 DEF BInv, Block!Stages

\* The width is settled.
LEMMA BlockPlans ==
  ASSUME BInv, Block!Plan
  PROVE  BInv'
<1>1. /\ pc = "download" /\ pc' = "factors"
      /\ UNCHANGED <<request, residue, next, branches, block, tree, values, answer>>
      /\ ~(Block!Width > Factors)
      /\ ledger' = [ledger EXCEPT
                      !.width = Block!Width, !.full_blocks = Factors \div Block!Width,
                      !.covered = (Factors \div Block!Width) * Block!Width,
                      !.tail = Factors - (Factors \div Block!Width) * Block!Width,
                      !.leaves = Block!Width, !.points = Factors \div Block!Width, !.started = TRUE]
  BY BlockNames DEF Block!Plan, Block!work, Block!PolicyRejected
<1>2. Factors \in Nat \ {0} /\ request.policy.override \in Nat
  BY BlockSizes
<1>3. PICK w \in Nat \ {0} : w = Block!Width /\ w <= Factors
  <2>1. CeilRoot(Factors) \in 1 .. Factors
    BY <1>2, CeilRootFacts
  <2>2. Block!Width \in Nat \ {0}
    BY <1>2, <2>1, BlockNames DEF Block!Width
  <2> QED BY <1>1, <1>2, <2>2
<1>4. PICK n \in Nat : n = Factors \div w /\ w * n <= Factors /\ Factors < w * n + w
  BY <1>2, <1>3, Division
<1>5. n # 0
  BY <1>2, <1>3, <1>4
<1>6. n * w = w * n /\ w * n \in Nat /\ Factors - n * w \in Nat /\ n * w + (Factors - n * w) = Factors
  <2>1. n * w = w * n /\ w * n \in Nat
    OBVIOUS
  <2> QED BY <1>2, <1>4, <2>1
<1>7. ledger \in Ledgers /\ ledger = Block!FreshLedger /\ branches = <<>>
  BY <1>1 DEF BInv, Block!Stages
<1>8. ledger' \in Ledgers
  BY <1>1, <1>3, <1>4, <1>6, <1>7 DEF Ledgers
<1>9. /\ ledger'.width = w /\ ledger'.full_blocks = n /\ ledger'.covered = n * w
      /\ ledger'.tail = Factors - n * w /\ ledger'.leaves = w /\ ledger'.points = n
      /\ ledger'.started = TRUE /\ ledger'.completed = FALSE
      /\ ledger'.block_products = 0 /\ ledger'.tail_products = 0
  BY <1>1, <1>3, <1>4, <1>7 DEF Ledgers, Block!FreshLedger
<1>10. Modulus' = Modulus /\ Factors' = Factors
  BY <1>1 DEF Modulus, Factors
<1>11. Planned'
  BY <1>3, <1>5, <1>6, <1>9, <1>10 DEF Planned, Wide, Full
<1>12. Staging'
  BY <1>1, <1>7, <1>9 DEF Staging, BInv
<1> QED BY <1>1, <1>7, <1>8, <1>9, <1>10, <1>11, <1>12 DEF BInv, Block!Stages

(* The range of a stage and those of its branches. *)

\* What the stages build trees over.
LEMMA StageRanges ==
  ASSUME Planned, Factors \in Nat, pc \in Block!Stages
  PROVE  /\ Span(Block!Root) /\ Block!Root[1] = 0
         /\ Block!Root = IF pc = "factors" THEN <<0, Wide>> ELSE <<0, Full>>
         /\ Block!Forked => ~IsLeaf(Block!Root)
         /\ DOMAIN Block!Ranges = IF Block!Forked THEN {"left", "right"} ELSE {"caller"}
         /\ Block!Forked => /\ Block!Ranges["left"] = Left(Block!Root)
                            /\ Block!Ranges["right"] = Right(Block!Root)
         /\ ~Block!Forked => Block!Ranges["caller"] = Block!Root
         /\ \A s \in DOMAIN Block!Ranges : Block!Ranges[s] \in Within(Block!Root) /\ Span(Block!Ranges[s])
<1>1. Block!Root = IF pc = "factors" THEN <<0, Wide>> ELSE <<0, Full>>
  BY DEF Block!Root, Wide, Full
<1>2. Span(Block!Root) /\ Block!Root[1] = 0 /\ Block!Root[2] \in Nat
  BY <1>1 DEF Span, Planned
<1>3. Block!Forked => ~IsLeaf(Block!Root)
  BY <1>2 DEF Block!Forked, IsLeaf
<1>4. Block!Ranges = IF Block!Forked THEN [left |-> Left(Block!Root), right |-> Right(Block!Root)]
                                     ELSE [caller |-> Block!Root]
  BY SameTrees DEF Block!Ranges
<1>5. DOMAIN Block!Ranges = IF Block!Forked THEN {"left", "right"} ELSE {"caller"}
  BY <1>4
<1>6. Block!Forked => Block!Ranges["left"] = Left(Block!Root) /\ Block!Ranges["right"] = Right(Block!Root)
  BY <1>4
<1>7. ~Block!Forked => Block!Ranges["caller"] = Block!Root
  BY <1>4
<1>8. Block!Root \in Within(Block!Root)
  BY <1>2, RootIsWithin
<1>9. Block!Forked => Left(Block!Root) \in Within(Block!Root) /\ Right(Block!Root) \in Within(Block!Root)
  BY <1>2, <1>3, <1>8, HalvesFacts
<1>10. \A s \in DOMAIN Block!Ranges : Block!Ranges[s] \in Within(Block!Root)
  BY <1>5, <1>6, <1>7, <1>8, <1>9
<1>11. \A s \in DOMAIN Block!Ranges : Span(Block!Ranges[s])
  BY <1>2, <1>10, HalvesFacts
<1> QED BY <1>1, <1>2, <1>3, <1>5, <1>6, <1>7, <1>10, <1>11

\* The ranges of the descent are nodes of the tree.
LEMMA RangesAreNodes ==
  ASSUME Planned, Factors \in Nat, pc = "descend", GoodTree(tree, <<0, Full>>, Wide, Modulus),
         NEW s \in DOMAIN Block!Ranges
  PROVE  Block!Ranges[s] \in DOMAIN tree
<1>1. /\ Block!Root = <<0, Full>>
      /\ Block!Forked => ~IsLeaf(Block!Root)
      /\ DOMAIN Block!Ranges = IF Block!Forked THEN {"left", "right"} ELSE {"caller"}
      /\ Block!Forked => /\ Block!Ranges["left"] = Left(Block!Root)
                         /\ Block!Ranges["right"] = Right(Block!Root)
      /\ ~Block!Forked => Block!Ranges["caller"] = Block!Root
  BY StageRanges DEF Block!Stages
<1>2. Block!Root \in DOMAIN tree
  BY <1>1 DEF GoodTree
<1>3. Block!Forked => Left(Block!Root) \in DOMAIN tree /\ Right(Block!Root) \in DOMAIN tree
  BY <1>1, <1>2 DEF GoodTree
<1> QED BY <1>1, <1>2, <1>3

\* A branch with nothing to do.
LEMMA QueueOfNone ==
  ASSUME NEW nodes, NEW v, NEW width, NEW m
  PROVE  Queued(<<>>, nodes, v, width, m)
BY DEF Queued

\* A branch with one node to do.
LEMMA QueueOfOne ==
  ASSUME NEW nodes, NEW v, NEW width, NEW m, v \in nodes,
         NEW p, RightBelow(p, v, width, m), NEW r \in BOOLEAN, v[1] \in Int, v[2] \in Int
  PROVE  LET q == <<[node |-> v, polynomial |-> p, reduced |-> r]>>
         IN  /\ Queued(q, nodes, v, width, m) /\ q # <<>>
             /\ \A written : Covers(q, written, v, width, m)
<1> DEFINE T == [node : nodes, polynomial : Poly(m), reduced : BOOLEAN]
           t == [node |-> v, polynomial |-> p, reduced |-> r]
           q == <<t>>
<1>1. t \in T
  BY DEF RightBelow
<1>2. t.node = v /\ t.polynomial = p
  OBVIOUS
<1> HIDE DEF t, T
<1>3. q \in Seq(T) /\ DOMAIN q = {1} /\ q[1] = t /\ q # <<>>
  BY <1>1
<1> HIDE DEF q
<1>4. Queued(q, nodes, v, width, m)
  BY <1>2, <1>3 DEF Queued, T
<1>5. \A written : Covers(q, written, v, width, m)
  BY <1>2, <1>3 DEF Covers
<1> QED BY <1>3, <1>4, <1>5 DEF q, t

\* A stage starts its branches.
LEMMA BlockStarts ==
  ASSUME BInv, Block!Start
  PROVE  BInv'
<1>1. PICK unborn \in Block!Unborn :
        /\ pc \in Block!Stages /\ branches = <<>>
        /\ branches' = [s \in DOMAIN Block!Ranges |->
                          [state |-> IF s \in unborn THEN "unborn" ELSE "running",
                           tasks |-> IF s \in unborn THEN <<>>
                                     ELSE <<Block!Task(Block!Ranges[s], block, ~Block!Forked)>>,
                           built |-> <<>>]]
        /\ values' = IF pc = "descend" THEN [b \in 0 .. Full - 1 |-> 0] ELSE values
        /\ UNCHANGED <<request, pc, residue, next, ledger, block, tree, answer>>
  BY DEF Block!Start, Block!Nobody, Full
<1>2. Planned /\ Staging /\ Modulus \in Nat \ {0, 1} /\ Factors \in Nat
  BY <1>1, BlockSizes DEF BInv
<1>3. /\ Modulus' = Modulus /\ Factors' = Factors /\ Wide' = Wide /\ Full' = Full
  BY <1>1 DEF Modulus, Factors, Wide, Full
<1>4. Block!Ranges' = Block!Ranges
  BY <1>1 DEF Block!Ranges, Block!Forked, Block!Root, Block!policy
<1>5. Planned'
  BY <1>1, <1>2, <1>3 DEF Planned
<1>6. ASSUME NEW s \in DOMAIN branches' PROVE BranchRight(s)'
  <2>1. /\ s \in DOMAIN Block!Ranges /\ DOMAIN branches'[s] = {"state", "tasks", "built"}
        /\ branches'[s].state = (IF s \in unborn THEN "unborn" ELSE "running")
        /\ branches'[s].tasks = (IF s \in unborn THEN <<>>
                                 ELSE <<Block!Task(Block!Ranges[s], block, ~Block!Forked)>>)
    BY <1>1
  <2>2. branches'[s].state \in {"unborn", "running"} /\ branches'[s].state # "ended"
    BY <2>1
  <2>3. ASSUME pc = "descend" PROVE Descending(branches[s], Block!Ranges[s])'
    <3> DEFINE v == Block!Ranges[s]
               q == branches'[s].tasks
    <3>1. v \in DOMAIN tree
      BY <1>2, <2>1, <2>3, RangesAreNodes DEF Staging
    <3>2. v[1] \in Nat /\ v[2] \in Nat
      BY <1>1, <1>2, <2>1, StageRanges DEF Span
    <3>3. RightBelow(block, v, Wide, Modulus)
      <4>1. FactorsOf(block, <<0, Wide>>, Modulus) /\ Wide \in Nat
        BY <1>2, <2>3 DEF Staging, Planned
      <4> HIDE DEF v
      <4> QED BY <1>2, <3>2, <4>1, BlockPolynomialIsRight
    <3>4. CASE s \in unborn
      <4>1. q = <<>> /\ branches'[s].state = "unborn"
        BY <2>1, <3>4
      <4>2. Queued(q, DOMAIN tree, v, Wide, Modulus)
        BY <4>1, QueueOfNone
      <4> QED BY <1>1, <1>3, <1>4, <4>1, <4>2 DEF Descending
    <3>5. CASE s \notin unborn
      <4>1. q = <<[node |-> v, polynomial |-> block, reduced |-> ~Block!Forked]>>
            /\ branches'[s].state = "running"
        BY <2>1, <3>5 DEF Block!Task
      <4>2. (~Block!Forked) \in BOOLEAN
        OBVIOUS
      <4>3. /\ Queued(q, DOMAIN tree, v, Wide, Modulus) /\ q # <<>>
            /\ Covers(q, values', v, Wide, Modulus)
        <5> PICK r \in BOOLEAN : r = ~Block!Forked
          BY <4>2
        <5> HIDE DEF v
        <5>1. v[1] \in Int /\ v[2] \in Int
          BY <3>2
        <5> QED BY <3>1, <3>3, <4>1, <5>1, QueueOfOne
      <4> QED BY <1>1, <1>3, <1>4, <4>1, <4>3 DEF Descending
    <3> QED BY <3>4, <3>5
  <2> QED BY <1>1, <2>1, <2>2, <2>3 DEF BranchRight
<1>7. pc = "descend" => DOMAIN values' = 0 .. Full - 1
  BY <1>1
<1>8. Branching'
  <2>1. DOMAIN branches' = DOMAIN Block!Ranges'
    BY <1>1, <1>4
  <2> QED BY <1>1, <1>3, <1>6, <1>7, <2>1 DEF Branching
<1>9. Staging'
  BY <1>1, <1>2, <1>3, <1>8 DEF Staging
<1> QED BY <1>1, <1>3, <1>5, <1>9 DEF BInv, Block!Stages

\* A branch builds its polynomial or its tree.
LEMMA BlockBuilds ==
  ASSUME BInv, NEW s \in DOMAIN branches, Block!Build(s)
  PROVE  BInv'
<1>1. /\ pc \in {"factors", "tree"} /\ branches[s].state = "running"
      /\ \/ branches' = [branches EXCEPT ![s].state = "threw", ![s].tasks = <<>>]
         \/ branches' = [branches EXCEPT ![s].state = "ended", ![s].tasks = <<>>,
                                          ![s].built = Block!Built(Block!Ranges[s])]
      /\ UNCHANGED <<request, pc, residue, next, ledger, block, tree, values, answer>>
  BY DEF Block!Build, Block!Running, Block!Throw
<1>2. Planned /\ Staging /\ Modulus \in Nat \ {0, 1} /\ Factors \in Nat
  BY <1>1, BlockSizes DEF BInv, Block!Stages
<1>3. branches # <<>> /\ Branching
  <2>1. branches # <<>>
    OBVIOUS
  <2> QED BY <1>2, <2>1 DEF Staging
<1>4. /\ Modulus' = Modulus /\ Factors' = Factors /\ Wide' = Wide /\ Full' = Full
  BY <1>1 DEF Modulus, Factors, Wide, Full
<1>5. Block!Ranges' = Block!Ranges
  BY <1>1 DEF Block!Ranges, Block!Forked, Block!Root, Block!policy
<1>6. Planned'
  BY <1>1, <1>2, <1>4 DEF Planned
<1>7. /\ DOMAIN branches' = DOMAIN branches
      /\ \A u \in DOMAIN branches : u # s => branches'[u] = branches[u]
      /\ DOMAIN branches'[s] = {"state", "tasks", "built"}
      /\ \/ branches'[s].state = "threw"
         \/ branches'[s].state = "ended" /\ branches'[s].built = Block!Built(Block!Ranges[s])
  <2>1. DOMAIN branches[s] = {"state", "tasks", "built"}
    BY <1>3 DEF Branching, BranchRight
  <2>2. CASE branches' = [branches EXCEPT ![s].state = "threw", ![s].tasks = <<>>]
    BY <2>1, <2>2
  <2>3. CASE branches' = [branches EXCEPT ![s].state = "ended", ![s].tasks = <<>>,
                                          ![s].built = Block!Built(Block!Ranges[s])]
    BY <2>1, <2>3
  <2> QED BY <1>1, <2>2, <2>3
<1>8. Span(Block!Ranges[s])
  BY <1>1, <1>2, <1>3, StageRanges DEF Branching, Block!Stages
<1>9. pc = "factors" => FactorsOf(Block!Built(Block!Ranges[s]), Block!Ranges[s], Modulus)
  <2> SUFFICES ASSUME pc = "factors"
               PROVE  FactorsOf(Block!Built(Block!Ranges[s]), Block!Ranges[s], Modulus)
    OBVIOUS
  <2>1. Block!Built(Block!Ranges[s]) =
          ProductTree(FactorLeaves(Block!Ranges[s], Modulus), Block!Ranges[s], Modulus)
    BY SameTrees, BlockNames DEF Block!Built
  <2> QED BY <1>2, <1>8, <2>1, FactorTreeIsRight
<1>10. pc = "tree" => GoodTree(Block!Built(Block!Ranges[s]), Block!Ranges[s], Wide, Modulus)
  <2> SUFFICES ASSUME pc = "tree"
               PROVE  GoodTree(Block!Built(Block!Ranges[s]), Block!Ranges[s], Wide, Modulus)
    OBVIOUS
  <2>1. \A u : Block!RangeProduct(u) = ProductTree(VanishingLeaves(u, Wide, Modulus), u, Modulus)
    BY SameTrees, BlockNames DEF Block!RangeProduct, Wide
  <2>2. Block!Built(Block!Ranges[s]) =
          [u \in Nodes(Block!Ranges[s]) |-> ProductTree(VanishingLeaves(u, Wide, Modulus), u, Modulus)]
    BY <2>1, SameTrees DEF Block!Built
  <2>3. Wide \in Nat
    BY <1>2 DEF Planned
  <2> QED BY <1>2, <1>8, <2>2, <2>3, BuiltTree
<1>11. ASSUME NEW u \in DOMAIN branches PROVE BranchRight(u)'
  <2>1. CASE u = s
    BY <1>1, <1>4, <1>5, <1>7, <1>9, <1>10, <2>1 DEF BranchRight
  <2>2. CASE u # s
    <3>1. BranchRight(u)
      BY <1>3 DEF Branching
    <3> QED BY <1>1, <1>4, <1>5, <1>7, <2>2, <3>1 DEF BranchRight
  <2> QED BY <2>1, <2>2
<1>12. Branching'
  <2>1. DOMAIN branches' = DOMAIN Block!Ranges'
    BY <1>3, <1>5, <1>7 DEF Branching
  <2> QED BY <1>1, <1>7, <1>11, <2>1 DEF Branching
<1>13. Staging'
  BY <1>1, <1>2, <1>4, <1>12 DEF Staging
<1> QED BY <1>1, <1>4, <1>6, <1>13 DEF BInv, Block!Stages

(* One activation of the descent: the first of the queue is replaced. *)

QueueItems(nodes, m) == [node : nodes, polynomial : Poly(m), reduced : BOOLEAN]

TailFacts(q, r, nodes, m) ==
  /\ Head(q) = q[1] /\ 1 \in DOMAIN q /\ q[1] \in QueueItems(nodes, m)
  /\ r \in Seq(QueueItems(nodes, m))
  /\ \A i \in DOMAIN r : q[1].node[2] <= r[i].node[1]
  /\ \A i \in DOMAIN q : i = 1 \/ (i - 1 \in DOMAIN r /\ r[i - 1] = q[i])

\* A branch takes its first node.
LEMMA QueueTail ==
  ASSUME NEW nodes, NEW v, NEW width, NEW m, NEW q, Queued(q, nodes, v, width, m), q # <<>>
  PROVE  Queued(Tail(q), nodes, v, width, m) /\ TailFacts(q, Tail(q), nodes, m)
<1> DEFINE T == QueueItems(nodes, m)
           r == Tail(q)
<1>1. q \in Seq(T)
  BY DEF Queued, QueueItems
<1> HIDE DEF T
<1>2. /\ r \in Seq(T) /\ Head(q) = q[1] /\ 1 \in DOMAIN q /\ q[1] \in T
      /\ Len(r) = Len(q) - 1 /\ Len(q) \in Nat
      /\ \A i \in DOMAIN r : i \in 1 .. Len(q) - 1 /\ r[i] = q[i + 1] /\ i + 1 \in DOMAIN q
  BY <1>1
<1> HIDE DEF r
<1>3. \A i \in DOMAIN q : i = 1 \/ (i - 1 \in DOMAIN r /\ r[i - 1] = q[i])
  <2> SUFFICES ASSUME NEW i \in DOMAIN q, i # 1 PROVE i - 1 \in DOMAIN r /\ r[i - 1] = q[i]
    OBVIOUS
  <2>1. i \in 1 .. Len(q) /\ DOMAIN r = 1 .. Len(q) - 1
    BY <1>1, <1>2
  <2>2. i - 1 \in DOMAIN r /\ (i - 1) + 1 = i
    BY <1>2, <2>1
  <2> QED BY <1>2, <2>2
<1>4. \A i \in DOMAIN r : q[1].node[2] <= r[i].node[1]
  <2> SUFFICES ASSUME NEW i \in DOMAIN r PROVE q[1].node[2] <= r[i].node[1]
    OBVIOUS
  <2>1. i \in Nat /\ i >= 1 /\ r[i] = q[i + 1] /\ i + 1 \in DOMAIN q /\ 1 < i + 1
    BY <1>2
  <2> QED BY <1>2, <2>1 DEF Queued
<1>5. Queued(r, nodes, v, width, m)
  <2>1. \A i \in DOMAIN r : /\ RightBelow(r[i].polynomial, r[i].node, width, m)
                            /\ v[1] <= r[i].node[1] /\ r[i].node[2] <= v[2]
    BY <1>2 DEF Queued
  <2>2. ASSUME NEW i \in DOMAIN r, NEW j \in DOMAIN r, i < j PROVE r[i].node[2] <= r[j].node[1]
    <3>1. i + 1 < j + 1
      BY <1>2, <2>2
    <3> QED BY <1>2, <3>1 DEF Queued
  <2> QED BY <1>2, <2>1, <2>2 DEF Queued, T, QueueItems
<1> QED BY <1>2, <1>3, <1>4, <1>5 DEF r, T, TailFacts

\* A branch puts a child before the nodes it has.
LEMMA QueuePush ==
  ASSUME NEW nodes, NEW v, NEW width, NEW m, NEW r, Queued(r, nodes, v, width, m),
         NEW t \in QueueItems(nodes, m), RightBelow(t.polynomial, t.node, width, m),
         v[1] <= t.node[1], t.node[2] <= v[2],
         \A i \in DOMAIN r : t.node[2] <= r[i].node[1]
  PROVE  /\ Queued(<<t>> \o r, nodes, v, width, m)
         /\ <<t>> \o r # <<>>
         /\ 1 \in DOMAIN (<<t>> \o r) /\ (<<t>> \o r)[1] = t
         /\ \A i \in DOMAIN r : i + 1 \in DOMAIN (<<t>> \o r) /\ (<<t>> \o r)[i + 1] = r[i]
         /\ \A i \in DOMAIN (<<t>> \o r) :
              i = 1 \/ (i - 1 \in DOMAIN r /\ (<<t>> \o r)[i] = r[i - 1])
<1> DEFINE T == QueueItems(nodes, m)
           q == <<t>> \o r
<1>1. r \in Seq(T)
  BY DEF Queued, QueueItems
<1> HIDE DEF T
<1>2. t \in T
  BY DEF T
<1>3. /\ q \in Seq(T) /\ q # <<>> /\ 1 \in DOMAIN q /\ q[1] = t
      /\ Len(q) = Len(r) + 1 /\ Len(r) \in Nat
      /\ \A i \in DOMAIN r : i + 1 \in DOMAIN q /\ q[i + 1] = r[i]
  BY <1>1, <1>2
<1> HIDE DEF q
<1>4. \A i \in DOMAIN q : i = 1 \/ (i - 1 \in DOMAIN r /\ q[i] = r[i - 1] /\ i \in Nat)
  <2> SUFFICES ASSUME NEW i \in DOMAIN q, i # 1
               PROVE  i - 1 \in DOMAIN r /\ q[i] = r[i - 1] /\ i \in Nat
    OBVIOUS
  <2>1. i \in 1 .. Len(r) + 1 /\ DOMAIN r = 1 .. Len(r)
    BY <1>1, <1>3
  <2>2. i - 1 \in DOMAIN r /\ (i - 1) + 1 = i /\ i \in Nat
    BY <1>3, <2>1
  <2> QED BY <1>3, <2>2
<1>5. \A i \in DOMAIN q : /\ RightBelow(q[i].polynomial, q[i].node, width, m)
                          /\ v[1] <= q[i].node[1] /\ q[i].node[2] <= v[2]
  BY <1>3, <1>4 DEF Queued
<1>6. ASSUME NEW i \in DOMAIN q, NEW j \in DOMAIN q, i < j PROVE q[i].node[2] <= q[j].node[1]
  <2>1. i \in 1 .. Len(q) /\ j \in 1 .. Len(q)
    BY <1>3
  <2>2. j # 1 /\ j - 1 \in DOMAIN r /\ q[j] = r[j - 1]
    BY <1>3, <1>4, <1>6, <2>1
  <2>3. CASE i = 1
    BY <1>3, <2>2, <2>3
  <2>4. CASE i # 1
    <3>1. i - 1 \in DOMAIN r /\ q[i] = r[i - 1] /\ i - 1 < j - 1
      BY <1>3, <1>4, <1>6, <2>1, <2>4
    <3> QED BY <2>2, <3>1 DEF Queued
  <2> QED BY <2>3, <2>4
<1>7. Queued(q, nodes, v, width, m)
  BY <1>3, <1>5, <1>6 DEF Queued, T, QueueItems
<1> QED BY <1>3, <1>4, <1>7 DEF q

\* Blocks of the first of the queue pass to what replaces it, or have got
\* their value.
LEMMA CoversReplaced ==
  ASSUME NEW q, NEW n, NEW w, NEW u, NEW v, NEW width, NEW m,
         Covers(q, w, v, width, m),
         \A b \in Below(v) : u[b] = w[b] \/ u[b] = BlockProduct(b, width) % m,
         \A i \in DOMAIN q : \/ i = 1
                             \/ \E j \in DOMAIN n : n[j] = q[i],
         \A b \in Below(q[1].node) : \/ \E i \in DOMAIN n : b \in Below(n[i].node)
                                     \/ u[b] = BlockProduct(b, width) % m
  PROVE  Covers(n, u, v, width, m)
BY DEF Covers

\* A step of one branch of the descent.
BranchMoves(s) ==
  /\ pc = "descend" /\ UNCHANGED <<request, pc, residue, next, ledger, block, tree, answer>>
  /\ DOMAIN branches' = DOMAIN branches
  /\ \A u \in DOMAIN branches : u # s => branches'[u] = branches[u]
  /\ DOMAIN branches'[s] = {"state", "tasks", "built"}
  /\ branches'[s].state \in {"unborn", "running", "ended", "threw"}
  /\ DOMAIN values' = DOMAIN values
  /\ \A b \in 0 .. Full - 1 : values'[b] = values[b] \/ values'[b] = BlockProduct(b, Wide) % Modulus
  /\ Queued(branches'[s].tasks, DOMAIN tree, Block!Ranges[s], Wide, Modulus)
  /\ branches'[s].state = "running" <=> branches'[s].tasks # <<>>
  /\ branches'[s].state \in {"running", "ended"} =>
       Covers(branches'[s].tasks, values', Block!Ranges[s], Wide, Modulus)

\* What the branches of the descent work on.
LEMMA DescentFacts ==
  ASSUME BInv, pc = "descend", NEW s \in DOMAIN branches
  PROVE  /\ Planned /\ Staging /\ Branching /\ BranchRight(s) /\ Descending(branches[s], Block!Ranges[s])
         /\ Modulus \in Nat \ {0, 1} /\ Factors \in Nat /\ Wide \in Nat /\ Full \in Nat
         /\ GoodTree(tree, <<0, Full>>, Wide, Modulus) /\ Span(<<0, Full>>)
         /\ Below(Block!Ranges[s]) \subseteq 0 .. Full - 1
         /\ DOMAIN values = 0 .. Full - 1
<1>1. branches # <<>>
  OBVIOUS
<1>2. Planned /\ Staging /\ Branching
  BY <1>1 DEF BInv, Block!Stages, Staging
<1>3. BranchRight(s) /\ Descending(branches[s], Block!Ranges[s]) /\ DOMAIN values = 0 .. Full - 1
  BY <1>2 DEF Branching, BranchRight
<1>4. Modulus \in Nat \ {0, 1} /\ Factors \in Nat /\ Wide \in Nat /\ Full \in Nat \ {0}
  BY <1>2, BlockSizes DEF Planned
<1>5. GoodTree(tree, <<0, Full>>, Wide, Modulus) /\ Span(<<0, Full>>)
  BY <1>2, <1>4 DEF Staging, Span
<1>6. Block!Ranges[s] \in Within(Block!Root) /\ Block!Root = <<0, Full>>
  BY <1>2, <1>4, StageRanges DEF Branching, Block!Stages
<1>7. Below(Block!Ranges[s]) \subseteq 0 .. Full - 1
  BY <1>4, <1>5, <1>6, HalvesFacts DEF Below
<1> QED BY <1>2, <1>3, <1>4, <1>5, <1>7

\* A branch that keeps its own promises keeps the invariant.
LEMMA BlockMoves ==
  ASSUME BInv, NEW s \in DOMAIN branches, BranchMoves(s)
  PROVE  BInv'
<1>1. /\ pc = "descend" /\ UNCHANGED <<request, pc, residue, next, ledger, block, tree, answer>>
      /\ DOMAIN branches' = DOMAIN branches
      /\ DOMAIN values' = DOMAIN values
  BY DEF BranchMoves
<1>2. Planned /\ Staging /\ Branching
  BY <1>1, DescentFacts
<1>3. /\ Modulus' = Modulus /\ Factors' = Factors /\ Wide' = Wide /\ Full' = Full
  BY <1>1 DEF Modulus, Factors, Wide, Full
<1>4. Block!Ranges' = Block!Ranges
  BY <1>1 DEF Block!Ranges, Block!Forked, Block!Root, Block!policy
<1>5. Planned'
  BY <1>1, <1>2, <1>3 DEF Planned
<1>6. ASSUME NEW u \in DOMAIN branches PROVE BranchRight(u)'
  <2>1. CASE u = s
    <3>1. Descending(branches[s], Block!Ranges[s])'
      BY <1>1, <1>3, <1>4 DEF BranchMoves, Descending
    <3> QED BY <1>1, <2>1, <3>1 DEF BranchRight, BranchMoves
  <2>2. CASE u # s
    <3>1. branches'[u] = branches[u]
      BY <2>2 DEF BranchMoves
    <3>2. /\ BranchRight(u) /\ Descending(branches[u], Block!Ranges[u])
          /\ Below(Block!Ranges[u]) \subseteq 0 .. Full - 1
      BY <1>1, DescentFacts
    <3>3. Covers(branches[u].tasks, values, Block!Ranges[u], Wide, Modulus)
            => Covers(branches[u].tasks, values', Block!Ranges[u], Wide, Modulus)
      BY <3>2 DEF Covers, BranchMoves
    <3>4. Descending(branches[u], Block!Ranges[u])'
      BY <1>1, <1>3, <1>4, <3>1, <3>2, <3>3 DEF Descending
    <3> QED BY <1>1, <3>1, <3>2, <3>4 DEF BranchRight
  <2> QED BY <2>1, <2>2
<1>7. Branching'
  <2>1. DOMAIN branches' = DOMAIN Block!Ranges'
    BY <1>1, <1>2, <1>4 DEF Branching
  <2>2. pc = "descend" => DOMAIN values' = 0 .. Full - 1
    BY <1>1, <1>2 DEF Branching
  <2> QED BY <1>1, <1>3, <1>6, <2>1, <2>2 DEF Branching
<1>8. Staging'
  BY <1>1, <1>2, <1>3, <1>7 DEF Staging
<1> QED BY <1>1, <1>3, <1>5, <1>8 DEF BInv, Block!Stages

Item(p, v) ==
  [node |-> v, polynomial |-> Remainder(p, tree[v], Modulus, request.policy), reduced |-> TRUE]

Goes(s, tasks) ==
  branches' = [branches EXCEPT ![s].tasks = tasks,
                               ![s].state = IF tasks = <<>> THEN "ended" ELSE "running"]

VisitEffect(s, q, v, p) ==
  \/ /\ IsLeaf(v) /\ Goes(s, Tail(q))
     /\ values' = [values EXCEPT ![v[1]] = Value(p, PointOf(v[1], Wide, Modulus), Modulus)]
  \/ /\ branches' = [branches EXCEPT ![s].state = "threw", ![s].tasks = <<>>]
     /\ values' = values
  \/ /\ Goes(s, <<Item(p, v)>> \o Tail(q))
     /\ values' = values
  \/ /\ ~IsLeaf(v) /\ Goes(s, <<Item(p, Left(v)), Item(p, Right(v))>> \o Tail(q))
     /\ values' = values

\* What a visit does, case by case.
LEMMA VisitCases ==
  ASSUME NEW s, Block!Visit(s),
         NEW q, q = branches[s].tasks, NEW v, v = Head(q).node, NEW p, p = Head(q).polynomial
  PROVE  /\ pc = "descend" /\ s \in DOMAIN branches /\ branches[s].state = "running"
         /\ UNCHANGED <<request, pc, residue, next, ledger, block, tree, answer>>
         /\ VisitEffect(s, q, v, p)
<1> DEFINE task == Head(q)
           divisors == IF ~task.reduced THEN <<v>> ELSE <<Left(v), Right(v)>>
<1>1. /\ pc = "descend" /\ s \in DOMAIN branches /\ branches[s].state = "running"
      /\ UNCHANGED <<request, pc, residue, next, ledger, block, tree, answer>>
  BY DEF Block!Visit, Block!Running
<1>2. \A u : Block!Reduced(p, u) = Item(p, u)
  BY BlockNames, SameRemainders DEF Block!Reduced, Block!Task, Item
<1>3. Block!Point(v[1]) = PointOf(v[1], Wide, Modulus)
  BY BlockNames, SameTrees DEF Block!Point, Wide
<1>4. \A tasks : Block!Continue(s, tasks) <=> Goes(s, tasks)
  BY DEF Block!Continue, Goes
<1>5. CASE task.reduced /\ IsLeaf(v)
  <2>1. /\ values' = [values EXCEPT ![v[1]] = Block!Value(p, Block!Point(v[1]), Block!candidate)]
        /\ Block!Continue(s, Tail(q))
    BY <1>5, SameTrees DEF Block!Visit
  <2> QED BY <1>1, <1>3, <1>4, <1>5, <2>1, BlockNames, SameValues DEF VisitEffect
<1>6. CASE ~(task.reduced /\ IsLeaf(v))
  <2>1. /\ values' = values
        /\ \/ Block!Throw(s)
           \/ Block!Continue(s, [i \in DOMAIN divisors |-> Block!Reduced(p, divisors[i])] \o Tail(q))
    BY <1>6, SameTrees DEF Block!Visit
  <2>2. CASE Block!Throw(s)
    BY <1>1, <2>1, <2>2 DEF Block!Throw, VisitEffect
  <2>3. CASE Block!Continue(s, [i \in DOMAIN divisors |-> Block!Reduced(p, divisors[i])] \o Tail(q))
    <3>1. CASE ~task.reduced
      <4>1. [i \in DOMAIN divisors |-> Block!Reduced(p, divisors[i])] = <<Item(p, v)>>
        BY <1>2, <3>1
      <4> QED BY <1>1, <1>4, <2>1, <2>3, <4>1 DEF VisitEffect
    <3>2. CASE task.reduced
      <4>1. [i \in DOMAIN divisors |-> Block!Reduced(p, divisors[i])] = <<Item(p, Left(v)), Item(p, Right(v))>>
        BY <1>2, <3>2
      <4> QED BY <1>1, <1>4, <1>6, <2>1, <2>3, <3>2, <4>1 DEF VisitEffect
    <3> QED BY <3>1, <3>2
  <2> QED BY <2>1, <2>2, <2>3
<1> QED BY <1>5, <1>6

\* The branch that takes a step, and the other ones.
LEMMA GoesFacts ==
  ASSUME NEW s \in DOMAIN branches, DOMAIN branches[s] = {"state", "tasks", "built"},
         NEW tasks, Goes(s, tasks)
  PROVE  /\ DOMAIN branches' = DOMAIN branches
         /\ \A u \in DOMAIN branches : u # s => branches'[u] = branches[u]
         /\ DOMAIN branches'[s] = {"state", "tasks", "built"}
         /\ branches'[s].tasks = tasks
         /\ branches'[s].state = IF tasks = <<>> THEN "ended" ELSE "running"
BY DEF Goes

\* A branch visits its first node.
LEMMA VisitMoves ==
  ASSUME BInv, NEW s \in DOMAIN branches, Block!Visit(s)
  PROVE  BranchMoves(s)
<1> DEFINE w0 == Block!Ranges[s]
<1>1. PICK q : q = branches[s].tasks
  OBVIOUS
<1>2. PICK v : v = Head(q).node
  OBVIOUS
<1>3. PICK p : p = Head(q).polynomial
  OBVIOUS
<1>4. /\ pc = "descend" /\ branches[s].state = "running"
      /\ UNCHANGED <<request, pc, residue, next, ledger, block, tree, answer>>
  BY <1>1, <1>2, <1>3, VisitCases
<1>5. VisitEffect(s, q, v, p)
  BY <1>1, <1>2, <1>3, VisitCases
<1>6. /\ Planned /\ Staging /\ Branching /\ BranchRight(s) /\ Descending(branches[s], w0)
      /\ Modulus \in Nat \ {0, 1} /\ Factors \in Nat /\ Wide \in Nat /\ Full \in Nat
      /\ GoodTree(tree, <<0, Full>>, Wide, Modulus) /\ Span(<<0, Full>>)
      /\ Below(w0) \subseteq 0 .. Full - 1
      /\ DOMAIN values = 0 .. Full - 1
  BY <1>4, DescentFacts
<1>7. DOMAIN branches[s] = {"state", "tasks", "built"}
  BY <1>6 DEF BranchRight
<1> HIDE DEF w0
<1>8. Queued(q, DOMAIN tree, w0, Wide, Modulus) /\ q # <<>> /\ Covers(q, values, w0, Wide, Modulus)
  BY <1>1, <1>4, <1>6 DEF Descending
<1>9. PICK rest : rest = Tail(q)
  OBVIOUS
<1>10. /\ Queued(rest, DOMAIN tree, w0, Wide, Modulus)
       /\ Head(q) = q[1] /\ 1 \in DOMAIN q /\ q[1] \in QueueItems(DOMAIN tree, Modulus)
       /\ rest \in Seq(QueueItems(DOMAIN tree, Modulus))
       /\ \A i \in DOMAIN rest : q[1].node[2] <= rest[i].node[1]
       /\ \A i \in DOMAIN q : i = 1 \/ (i - 1 \in DOMAIN rest /\ rest[i - 1] = q[i])
  <2> PICK nodes, width, m : nodes = DOMAIN tree /\ width = Wide /\ m = Modulus
    OBVIOUS
  <2>1. Queued(q, nodes, w0, width, m)
    BY <1>8
  <2>2. Queued(Tail(q), nodes, w0, width, m) /\ TailFacts(q, Tail(q), nodes, m)
    BY <1>8, <2>1, QueueTail
  <2>3. Queued(rest, DOMAIN tree, w0, Wide, Modulus) /\ TailFacts(q, rest, DOMAIN tree, Modulus)
    BY <1>9, <2>2
  <2> QED BY <2>3 DEF TailFacts
<1>11. /\ v = q[1].node /\ p = q[1].polynomial /\ v \in DOMAIN tree /\ p \in Poly(Modulus)
       /\ RightBelow(p, v, Wide, Modulus) /\ w0[1] <= v[1] /\ v[2] <= w0[2]
  BY <1>2, <1>3, <1>8, <1>10 DEF Queued, QueueItems
<1>12. /\ v \in Within(<<0, Full>>) /\ Span(v) /\ v[1] \in Nat /\ v[2] \in Nat /\ v[1] < v[2]
       /\ (IsLeaf(v) => v[2] = v[1] + 1)
  <2>1. v \in Within(<<0, Full>>)
    BY <1>6, <1>11 DEF GoodTree
  <2> QED BY <1>6, <2>1, HalvesFacts
<1>13. ASSUME NEW u \in DOMAIN tree, Below(u) \subseteq Below(v)
       PROVE  /\ Item(p, u) \in QueueItems(DOMAIN tree, Modulus)
              /\ Item(p, u).node = u
              /\ RightBelow(Item(p, u).polynomial, Item(p, u).node, Wide, Modulus)
  <2>1. Span(u) /\ RootsAt(tree[u], u, Wide, Modulus)
    <3>1. u \in Within(<<0, Full>>) /\ RootsAt(tree[u], u, Wide, Modulus)
      BY <1>6 DEF GoodTree
    <3> QED BY <1>6, <3>1, HalvesFacts
  <2>2. u[1] .. u[2] - 1 \subseteq v[1] .. v[2] - 1
    BY <1>13 DEF Below
  <2>3. RightBelow(Remainder(p, tree[u], Modulus, request.policy), u, Wide, Modulus)
    BY <1>6, <1>11, <2>1, <2>2, RemainderIsRight
  <2>4. Remainder(p, tree[u], Modulus, request.policy) \in Poly(Modulus)
    BY <2>3 DEF RightBelow
  <2> QED BY <2>3, <2>4 DEF Item, QueueItems
<1>14. CASE /\ IsLeaf(v) /\ Goes(s, Tail(q))
            /\ values' = [values EXCEPT ![v[1]] = Value(p, PointOf(v[1], Wide, Modulus), Modulus)]
  <2>1. v[1] \in Below(v) /\ Below(v) = {v[1]} /\ v[1] \in 0 .. Full - 1
    <3>1. v[2] = v[1] + 1 /\ v[2] <= Full
      BY <1>6, <1>12, <1>14, HalvesFacts
    <3>2. Below(v) = v[1] .. v[1]
      <4>1. (v[1] + 1) - 1 = v[1]
        BY <1>12
      <4> QED BY <3>1, <4>1 DEF Below
    <3>3. v[1] .. v[1] = {v[1]}
      BY <1>12
    <3> QED BY <1>6, <1>12, <3>1, <3>2, <3>3
  <2>2. Value(p, PointOf(v[1], Wide, Modulus), Modulus) = BlockProduct(v[1], Wide) % Modulus
    BY <1>11, <2>1 DEF RightBelow, Below
  <2>3. values'[v[1]] = BlockProduct(v[1], Wide) % Modulus
    BY <1>6, <1>14, <2>1, <2>2
  <2>4. \A b \in 0 .. Full - 1 : values'[b] = values[b] \/ values'[b] = BlockProduct(b, Wide) % Modulus
    <3> SUFFICES ASSUME NEW b \in 0 .. Full - 1
                 PROVE  values'[b] = values[b] \/ values'[b] = BlockProduct(b, Wide) % Modulus
      OBVIOUS
    <3>1. CASE b = v[1]
      BY <2>3, <3>1
    <3>2. CASE b # v[1]
      BY <1>6, <1>14, <3>2
    <3> QED BY <3>1, <3>2
  <2>5. Covers(rest, values', w0, Wide, Modulus)
    <3>1. \A b \in Below(w0) : values'[b] = values[b] \/ values'[b] = BlockProduct(b, Wide) % Modulus
      BY <1>6, <2>4
    <3>2. \A i \in DOMAIN q : i = 1 \/ \E j \in DOMAIN rest : rest[j] = q[i]
      BY <1>10
    <3>3. \A b \in Below(q[1].node) : \/ \E i \in DOMAIN rest : b \in Below(rest[i].node)
                                      \/ values'[b] = BlockProduct(b, Wide) % Modulus
      BY <1>11, <2>1, <2>3
    <3> QED BY <1>8, <3>1, <3>2, <3>3, CoversReplaced
  <2>6. DOMAIN values' = DOMAIN values
    BY <1>14
  <2>7. /\ DOMAIN branches' = DOMAIN branches
        /\ \A u \in DOMAIN branches : u # s => branches'[u] = branches[u]
        /\ DOMAIN branches'[s] = {"state", "tasks", "built"}
        /\ branches'[s].tasks = rest
        /\ branches'[s].state = IF rest = <<>> THEN "ended" ELSE "running"
    BY <1>7, <1>9, <1>14, GoesFacts
  <2> QED BY <1>4, <1>10, <2>4, <2>5, <2>6, <2>7 DEF BranchMoves, w0
<1>15. CASE branches' = [branches EXCEPT ![s].state = "threw", ![s].tasks = <<>>] /\ values' = values
  <2>1. /\ DOMAIN branches' = DOMAIN branches
        /\ \A u \in DOMAIN branches : u # s => branches'[u] = branches[u]
        /\ DOMAIN branches'[s] = {"state", "tasks", "built"}
        /\ branches'[s].tasks = <<>>
        /\ branches'[s].state = "threw"
    BY <1>7, <1>15
  <2>2. Queued(<<>>, DOMAIN tree, Block!Ranges[s], Wide, Modulus)
    BY QueueOfNone
  <2> QED BY <1>4, <1>15, <2>1, <2>2 DEF BranchMoves
<1>16. CASE Goes(s, <<Item(p, v)>> \o Tail(q)) /\ values' = values
  <2>1. PICK t : t = Item(p, v)
    OBVIOUS
  <2>2. /\ t \in QueueItems(DOMAIN tree, Modulus) /\ t.node = v
        /\ RightBelow(t.polynomial, t.node, Wide, Modulus)
    BY <1>11, <1>13, <2>1
  <2>3. PICK n : n = <<t>> \o rest
    OBVIOUS
  <2>4. w0[1] <= t.node[1] /\ t.node[2] <= w0[2] /\ \A i \in DOMAIN rest : t.node[2] <= rest[i].node[1]
    BY <1>10, <1>11, <2>2
  <2>5. /\ Queued(n, DOMAIN tree, w0, Wide, Modulus) /\ n # <<>>
        /\ 1 \in DOMAIN n /\ n[1] = t
        /\ \A i \in DOMAIN rest : i + 1 \in DOMAIN n /\ n[i + 1] = rest[i]
    BY <1>10, <2>2, <2>3, <2>4, QueuePush
  <2>6. Covers(n, values', w0, Wide, Modulus)
    <3>1. \A b \in Below(w0) : values'[b] = values[b] \/ values'[b] = BlockProduct(b, Wide) % Modulus
      BY <1>16
    <3>2. \A i \in DOMAIN q : i = 1 \/ \E j \in DOMAIN n : n[j] = q[i]
      BY <1>10, <2>5
    <3>3. \A b \in Below(q[1].node) : \/ \E i \in DOMAIN n : b \in Below(n[i].node)
                                      \/ values'[b] = BlockProduct(b, Wide) % Modulus
      BY <1>11, <2>2, <2>5
    <3> QED BY <1>8, <3>1, <3>2, <3>3, CoversReplaced
  <2>7. /\ DOMAIN branches' = DOMAIN branches
        /\ \A u \in DOMAIN branches : u # s => branches'[u] = branches[u]
        /\ DOMAIN branches'[s] = {"state", "tasks", "built"}
        /\ branches'[s].tasks = n
        /\ branches'[s].state = IF n = <<>> THEN "ended" ELSE "running"
    BY <1>7, <1>9, <1>16, <2>1, <2>3, GoesFacts
  <2> QED BY <1>4, <1>16, <2>5, <2>6, <2>7 DEF BranchMoves, w0
<1>17. CASE ~IsLeaf(v) /\ Goes(s, <<Item(p, Left(v)), Item(p, Right(v))>> \o Tail(q)) /\ values' = values
  <2>1. PICK a, b : a = Item(p, Left(v)) /\ b = Item(p, Right(v))
    OBVIOUS
  <2>2. /\ Left(v) \in DOMAIN tree /\ Right(v) \in DOMAIN tree
        /\ Left(v)[1] = v[1] /\ Left(v)[2] = Right(v)[1] /\ Right(v)[2] = v[2]
        /\ v[1] < Left(v)[2] /\ Left(v)[2] < v[2] /\ Left(v)[2] \in Nat
    <3>1. Left(v) \in DOMAIN tree /\ Right(v) \in DOMAIN tree
      BY <1>6, <1>11, <1>17 DEF GoodTree
    <3>2. /\ Left(v)[1] = v[1] /\ Left(v)[2] = Right(v)[1] /\ Right(v)[2] = v[2]
          /\ v[1] < Left(v)[2] /\ Left(v)[2] < v[2] /\ Left(v) \in Within(<<0, Full>>)
      BY <1>6, <1>12, <1>17, HalvesFacts
    <3>3. Left(v)[2] \in Nat
      BY <1>6, <3>2, HalvesFacts
    <3> QED BY <3>1, <3>2, <3>3
  <2>3. Below(v) = Below(Left(v)) \cup Below(Right(v))
    BY <1>12, <2>2 DEF Below
  <2>4. /\ a \in QueueItems(DOMAIN tree, Modulus) /\ a.node = Left(v)
        /\ RightBelow(a.polynomial, a.node, Wide, Modulus)
    BY <1>13, <2>1, <2>2, <2>3
  <2>5. /\ b \in QueueItems(DOMAIN tree, Modulus) /\ b.node = Right(v)
        /\ RightBelow(b.polynomial, b.node, Wide, Modulus)
    BY <1>13, <2>1, <2>2, <2>3
  <2>6. PICK h : h = <<b>> \o rest
    OBVIOUS
  <2>7. PICK n : n = <<a, b>> \o rest
    OBVIOUS
  <2>8. n = <<a>> \o h
    <3> PICK T : T = QueueItems(DOMAIN tree, Modulus)
      OBVIOUS
    <3>1. a \in T /\ b \in T /\ rest \in Seq(T)
      BY <1>10, <2>4, <2>5
    <3> QED BY <2>6, <2>7, <3>1, TwoFirst
  <2>9. w0[1] <= b.node[1] /\ b.node[2] <= w0[2] /\ \A i \in DOMAIN rest : b.node[2] <= rest[i].node[1]
    <3>1. b.node[1] = Left(v)[2] /\ b.node[2] = v[2]
      BY <2>2, <2>5
    <3>2. w0[1] \in Int
      BY <1>4, <1>6, StageRanges DEF w0, Branching, Block!Stages, Span
    <3> QED BY <1>10, <1>11, <1>12, <2>2, <3>1, <3>2
  <2>10. /\ Queued(h, DOMAIN tree, w0, Wide, Modulus)
         /\ 1 \in DOMAIN h /\ h[1] = b
         /\ \A i \in DOMAIN rest : i + 1 \in DOMAIN h /\ h[i + 1] = rest[i]
         /\ \A i \in DOMAIN h : i = 1 \/ (i - 1 \in DOMAIN rest /\ h[i] = rest[i - 1])
    BY <1>10, <2>5, <2>6, <2>9, QueuePush
  <2>11. w0[1] <= a.node[1] /\ a.node[2] <= w0[2] /\ \A i \in DOMAIN h : a.node[2] <= h[i].node[1]
    <3>1. a.node[1] = v[1] /\ a.node[2] = Left(v)[2] /\ b.node[1] = Left(v)[2]
      BY <2>2, <2>4, <2>5
    <3>2. w0[2] \in Int
      BY <1>4, <1>6, StageRanges DEF w0, Branching, Block!Stages, Span
    <3>3. a.node[2] <= w0[2]
      BY <1>11, <1>12, <2>2, <3>1, <3>2
    <3>4. ASSUME NEW i \in DOMAIN rest PROVE a.node[2] <= rest[i].node[1]
      <4>1. v[2] <= rest[i].node[1]
        BY <1>10, <1>11
      <4>2. rest[i].node \in Within(<<0, Full>>)
        <5>1. rest[i] \in QueueItems(DOMAIN tree, Modulus)
          BY <1>10
        <5>2. rest[i].node \in DOMAIN tree
          BY <5>1 DEF QueueItems
        <5> QED BY <1>6, <5>2 DEF GoodTree
      <4>3. rest[i].node[1] \in Nat
        BY <1>6, <4>2, HalvesFacts
      <4> QED BY <1>12, <2>2, <3>1, <4>1, <4>3
    <3>5. \A i \in DOMAIN h : a.node[2] <= h[i].node[1]
      <4> SUFFICES ASSUME NEW i \in DOMAIN h PROVE a.node[2] <= h[i].node[1]
        OBVIOUS
      <4>1. CASE i = 1
        BY <2>2, <2>10, <3>1, <4>1
      <4>2. CASE i # 1
        BY <2>10, <3>4, <4>2
      <4> QED BY <4>1, <4>2
    <3> QED BY <1>11, <3>1, <3>3, <3>5
  <2>12. /\ Queued(n, DOMAIN tree, w0, Wide, Modulus) /\ n # <<>>
         /\ 1 \in DOMAIN n /\ n[1] = a
         /\ \A i \in DOMAIN h : i + 1 \in DOMAIN n /\ n[i + 1] = h[i]
    BY <2>4, <2>8, <2>10, <2>11, QueuePush
  <2>13. Covers(n, values', w0, Wide, Modulus)
    <3>1. \A c \in Below(w0) : values'[c] = values[c] \/ values'[c] = BlockProduct(c, Wide) % Modulus
      BY <1>17
    <3>2. \A i \in DOMAIN q : i = 1 \/ \E j \in DOMAIN n : n[j] = q[i]
      BY <1>10, <2>10, <2>12
    <3>3. \A c \in Below(q[1].node) : \/ \E i \in DOMAIN n : c \in Below(n[i].node)
                                      \/ values'[c] = BlockProduct(c, Wide) % Modulus
      <4> SUFFICES ASSUME NEW c \in Below(v) PROVE \E i \in DOMAIN n : c \in Below(n[i].node)
        BY <1>11
      <4>1. 1 + 1 \in DOMAIN n /\ n[1 + 1] = b
        BY <2>10, <2>12
      <4> QED BY <2>3, <2>4, <2>5, <2>12, <4>1
    <3> QED BY <1>8, <3>1, <3>2, <3>3, CoversReplaced
  <2>14. /\ DOMAIN branches' = DOMAIN branches
         /\ \A u \in DOMAIN branches : u # s => branches'[u] = branches[u]
         /\ DOMAIN branches'[s] = {"state", "tasks", "built"}
         /\ branches'[s].tasks = n
         /\ branches'[s].state = IF n = <<>> THEN "ended" ELSE "running"
    BY <1>7, <1>9, <1>17, <2>1, <2>7, GoesFacts
  <2> QED BY <1>4, <1>17, <2>12, <2>13, <2>14 DEF BranchMoves, w0
<1> QED BY <1>5, <1>14, <1>15, <1>16, <1>17 DEF VisitEffect

\* A visit keeps the invariant.
LEMMA BlockVisits ==
  ASSUME BInv, NEW s \in DOMAIN branches, Block!Visit(s)
  PROVE  BInv'
BY VisitMoves, BlockMoves

(* The end of a stage. *)

\* Every block is below one of the branches.
LEMMA RangesCoverBlocks ==
  ASSUME Planned, Factors \in Nat, pc = "descend", NEW b \in 0 .. Full - 1
  PROVE  \E s \in DOMAIN Block!Ranges : b \in Below(Block!Ranges[s])
<1>1. /\ Span(Block!Root) /\ Block!Root = <<0, Full>>
      /\ Block!Forked => ~IsLeaf(Block!Root)
      /\ DOMAIN Block!Ranges = IF Block!Forked THEN {"left", "right"} ELSE {"caller"}
      /\ Block!Forked => /\ Block!Ranges["left"] = Left(Block!Root)
                         /\ Block!Ranges["right"] = Right(Block!Root)
      /\ ~Block!Forked => Block!Ranges["caller"] = Block!Root
      /\ Full \in Nat
  BY StageRanges DEF Block!Stages, Planned
<1>2. CASE Block!Forked
  <2>1. /\ Left(Block!Root)[1] = 0 /\ Left(Block!Root)[2] = Right(Block!Root)[1]
        /\ Right(Block!Root)[2] = Full /\ Left(Block!Root) \in Within(Block!Root)
    BY <1>1, <1>2, RootIsWithin, HalvesFacts
  <2>2. Left(Block!Root)[2] \in Nat
    BY <1>1, <2>1, HalvesFacts
  <2>3. b \in Below(Left(Block!Root)) \/ b \in Below(Right(Block!Root))
    BY <1>1, <2>1, <2>2 DEF Below
  <2> QED BY <1>1, <1>2, <2>3
<1>3. CASE ~Block!Forked
  <2>1. b \in Below(Block!Root)
    BY <1>1 DEF Below
  <2> QED BY <1>1, <1>3, <2>1
<1> QED BY <1>2, <1>3

\* What the branches of a stage have made, together.
LEMMA StageEnds ==
  ASSUME BInv, pc \in Block!Stages, branches # <<>>,
         \A s \in DOMAIN branches : branches[s].state = "ended"
  PROVE  /\ pc = "factors" => FactorsOf(Block!Joined, <<0, Wide>>, Modulus)
         /\ pc = "tree" => GoodTree(Block!Joined, <<0, Full>>, Wide, Modulus)
         /\ pc = "descend" => \A b \in 0 .. Full - 1 : values[b] = BlockProduct(b, Wide) % Modulus
<1>1. /\ Planned /\ Branching /\ Modulus \in Nat \ {0, 1} /\ Factors \in Nat
      /\ Wide \in Nat /\ Full \in Nat
  BY BlockSizes DEF BInv, Staging, Planned
<1>2. /\ Span(Block!Root) /\ Block!Root[1] = 0
      /\ Block!Root = IF pc = "factors" THEN <<0, Wide>> ELSE <<0, Full>>
      /\ Block!Forked => ~IsLeaf(Block!Root)
      /\ DOMAIN Block!Ranges = IF Block!Forked THEN {"left", "right"} ELSE {"caller"}
      /\ Block!Forked => /\ Block!Ranges["left"] = Left(Block!Root)
                         /\ Block!Ranges["right"] = Right(Block!Root)
      /\ ~Block!Forked => Block!Ranges["caller"] = Block!Root
  BY <1>1, StageRanges
<1>3. /\ DOMAIN branches = DOMAIN Block!Ranges
      /\ \A s \in DOMAIN branches : BranchRight(s) /\ branches[s].state = "ended"
  BY <1>1 DEF Branching
<1>4. ASSUME pc = "factors" PROVE FactorsOf(Block!Joined, <<0, Wide>>, Modulus)
  <2>1. \A s \in DOMAIN branches : FactorsOf(branches[s].built, Block!Ranges[s], Modulus)
    BY <1>3, <1>4 DEF BranchRight
  <2>2. CASE Block!Forked
    <3>1. Block!Joined = Product(branches["left"].built, branches["right"].built, Modulus)
      BY <1>4, <2>2, BlockNames, SameProducts DEF Block!Joined
    <3>2. /\ FactorsOf(branches["left"].built, Left(Block!Root), Modulus)
          /\ FactorsOf(branches["right"].built, Right(Block!Root), Modulus)
      BY <1>2, <1>3, <2>1, <2>2
    <3>3. FactorsOf(Block!Joined, Block!Root, Modulus)
      BY <1>1, <1>2, <2>2, <3>1, <3>2, FactorsMultiply
    <3> QED BY <1>2, <1>4, <3>3
  <2>3. CASE ~Block!Forked
    <3>1. Block!Joined = branches["caller"].built
      BY <2>3 DEF Block!Joined
    <3> QED BY <1>2, <1>3, <1>4, <2>1, <2>3, <3>1
  <2> QED BY <2>2, <2>3
<1>5. ASSUME pc = "tree" PROVE GoodTree(Block!Joined, <<0, Full>>, Wide, Modulus)
  <2>1. \A s \in DOMAIN branches : GoodTree(branches[s].built, Block!Ranges[s], Wide, Modulus)
    BY <1>3, <1>5 DEF BranchRight
  <2>2. CASE Block!Forked
    <3>1. Block!Joined = JoinedTree(branches["left"].built, branches["right"].built, Block!Root, Modulus)
      BY <1>5, <2>2, BlockNames, SameProducts, SameTrees DEF Block!Joined, JoinedTree
    <3>2. /\ GoodTree(branches["left"].built, Left(Block!Root), Wide, Modulus)
          /\ GoodTree(branches["right"].built, Right(Block!Root), Wide, Modulus)
      BY <1>2, <1>3, <2>1, <2>2
    <3>3. GoodTree(Block!Joined, Block!Root, Wide, Modulus)
      BY <1>1, <1>2, <2>2, <3>1, <3>2, JoinedTreeIsGood
    <3> QED BY <1>2, <1>5, <3>3
  <2>3. CASE ~Block!Forked
    <3>1. Block!Joined = branches["caller"].built
      BY <2>3 DEF Block!Joined
    <3> QED BY <1>2, <1>3, <1>5, <2>1, <2>3, <3>1
  <2> QED BY <2>2, <2>3
<1>6. ASSUME pc = "descend", NEW b \in 0 .. Full - 1
      PROVE  values[b] = BlockProduct(b, Wide) % Modulus
  <2>1. ASSUME NEW s \in DOMAIN branches, b \in Below(Block!Ranges[s])
        PROVE  values[b] = BlockProduct(b, Wide) % Modulus
    <3>1. Descending(branches[s], Block!Ranges[s]) /\ branches[s].state = "ended"
      BY <1>3, <1>6 DEF BranchRight
    <3>2. branches[s].tasks = <<>> /\ Covers(branches[s].tasks, values, Block!Ranges[s], Wide, Modulus)
      BY <3>1 DEF Descending
    <3> QED BY <2>1, <3>2 DEF Covers
  <2> QED BY <1>1, <1>3, <1>6, <2>1, RangesCoverBlocks
<1> QED BY <1>4, <1>5, <1>6

\* The stage ends: an exception, a refusal, or the next stage.
JoinEffect ==
  \/ pc' = "rejected" /\ answer' = [kind |-> "rejected"]
  \/ /\ pc' = "done" /\ answer'.kind = "limit" /\ answer'.reason = "PolynomialEngine"
  \/ /\ \A s \in DOMAIN branches : branches[s].state = "ended"
     /\ answer' = answer
     /\ \/ pc = "factors" /\ pc' = "tree" /\ block' = Block!Joined
        \/ pc = "tree" /\ pc' = "descend" /\ tree' = Block!Joined /\ block' = block
        \/ pc = "descend" /\ pc' = "blocks" /\ values' = values

\* What joining a stage does, stage by stage.
LEMMA JoinCases ==
  ASSUME BInv, Block!Join
  PROVE  /\ pc \in Block!Stages /\ branches # <<>> /\ branches' = <<>>
         /\ UNCHANGED <<request, residue, next, ledger>>
         /\ JoinEffect
<1>1. /\ pc \in Block!Stages /\ branches # <<>>
      /\ UNCHANGED <<request, residue, next, ledger>>
  BY DEF Block!Join, Block!Nobody
<1>2. Branching
  BY <1>1 DEF BInv, Staging
<1>3. CASE Block!Some("unborn")
  <2>1. Block!Rejects /\ Block!Released
    BY <1>3 DEF Block!Join
  <2>2. pc' = "rejected" /\ answer' = [kind |-> "rejected"] /\ branches' = <<>>
    BY <2>1 DEF Block!Rejects, Block!Released, Block!Nobody
  <2> QED BY <1>1, <2>2 DEF JoinEffect
<1>4. CASE ~Block!Some("unborn") /\ (Block!Some("threw") \/ Block!RootRefused)
  <2>1. Block!EngineRefuses /\ Block!Released
    BY <1>4 DEF Block!Join
  <2>2. /\ pc' = "done" /\ answer'.kind = "limit" /\ answer'.reason = "PolynomialEngine"
        /\ branches' = <<>>
    BY <2>1 DEF Block!EngineRefuses, Block!Limit, Block!Released, Block!Nobody
  <2> QED BY <1>1, <2>2 DEF JoinEffect
<1>5. CASE ~Block!Some("unborn") /\ ~(Block!Some("threw") \/ Block!RootRefused)
  <2>1. ASSUME NEW s \in DOMAIN branches PROVE branches[s].state = "ended"
    <3>1. branches[s].state \in {"unborn", "running", "ended", "threw"}
      BY <1>2 DEF Branching, BranchRight
    <3>2. branches[s].state # "running"
      BY DEF Block!Join, Block!AllAreDone
    <3> QED BY <1>5, <3>1, <3>2 DEF Block!Some
  <2>2. /\ branches' = <<>> /\ answer' = answer
        /\ CASE pc = "factors" -> block' = Block!Joined /\ pc' = "tree" /\ UNCHANGED <<tree, values>>
             [] pc = "tree"    -> tree' = Block!Joined /\ pc' = "descend" /\ UNCHANGED <<block, values>>
             [] pc = "descend" -> pc' = "blocks" /\ UNCHANGED <<block, tree, values>>
    BY <1>5 DEF Block!Join, Block!Nobody
  <2>3. CASE pc = "factors"
    BY <1>1, <2>1, <2>2, <2>3 DEF JoinEffect
  <2>4. CASE pc = "tree"
    BY <1>1, <2>1, <2>2, <2>4 DEF JoinEffect
  <2>5. CASE pc = "descend"
    BY <1>1, <2>1, <2>2, <2>5 DEF JoinEffect
  <2> QED BY <1>1, <2>3, <2>4, <2>5 DEF Block!Stages
<1> QED BY <1>3, <1>4, <1>5

\* The owner joins the branches of a stage.
LEMMA BlockJoins ==
  ASSUME BInv, Block!Join
  PROVE  BInv'
<1>1. /\ pc \in Block!Stages /\ branches # <<>> /\ branches' = <<>>
      /\ UNCHANGED <<request, residue, next, ledger>>
      /\ JoinEffect
  BY JoinCases
<1>2. /\ Planned /\ Staging /\ ~ledger.completed /\ Modulus \in Nat \ {0, 1} /\ Factors \in Nat
      /\ answer = [kind |-> "none"]
  BY <1>1, BlockSizes DEF BInv, Block!Stages
<1>3. /\ Modulus' = Modulus /\ Factors' = Factors /\ Wide' = Wide /\ Full' = Full
  BY <1>1 DEF Modulus, Factors, Wide, Full
<1>4. Planned'
  BY <1>1, <1>2, <1>3 DEF Planned
<1>5. /\ request' \in BlockRequests /\ ledger' \in Ledgers /\ residue' \in 0 .. Modulus' - 1
      /\ ~ledger'.completed
  BY <1>1, <1>2, <1>3 DEF BInv
<1>6. CASE pc' = "rejected" /\ answer' = [kind |-> "rejected"]
  BY <1>1, <1>5, <1>6 DEF BInv, Block!Stages
<1>7. CASE pc' = "done" /\ answer'.kind = "limit" /\ answer'.reason = "PolynomialEngine"
  <2>1. BlockAnswer'
    BY <1>1, <1>2, <1>7 DEF BlockAnswer, Planned
  <2> QED BY <1>1, <1>5, <1>7, <2>1 DEF BInv, Block!Stages
<1>8. CASE /\ \A s \in DOMAIN branches : branches[s].state = "ended"
           /\ answer' = answer
           /\ \/ pc = "factors" /\ pc' = "tree" /\ block' = Block!Joined
              \/ pc = "tree" /\ pc' = "descend" /\ tree' = Block!Joined /\ block' = block
              \/ pc = "descend" /\ pc' = "blocks" /\ values' = values
  <2>1. /\ pc = "factors" => FactorsOf(Block!Joined, <<0, Wide>>, Modulus)
        /\ pc = "tree" => GoodTree(Block!Joined, <<0, Full>>, Wide, Modulus)
        /\ pc = "descend" => \A b \in 0 .. Full - 1 : values[b] = BlockProduct(b, Wide) % Modulus
    BY <1>1, <1>8, StageEnds
  <2>2. CASE pc = "factors" /\ pc' = "tree" /\ block' = Block!Joined
    <3>1. FactorsOf(block, <<0, Wide>>, Modulus)'
      BY <1>3, <2>1, <2>2
    <3>2. Staging'
      BY <1>1, <1>2, <2>2, <3>1 DEF Staging
    <3> QED BY <1>1, <1>2, <1>4, <1>5, <1>8, <2>2, <3>2 DEF BInv, Block!Stages
  <2>3. CASE pc = "tree" /\ pc' = "descend" /\ tree' = Block!Joined /\ block' = block
    <3>1. GoodTree(tree, <<0, Full>>, Wide, Modulus)'
      BY <1>3, <2>1, <2>3
    <3>2. FactorsOf(block, <<0, Wide>>, Modulus)'
      BY <1>2, <1>3, <2>3 DEF Staging
    <3>3. Staging'
      BY <1>1, <1>2, <2>3, <3>1, <3>2 DEF Staging
    <3> QED BY <1>1, <1>2, <1>4, <1>5, <1>8, <2>3, <3>3 DEF BInv, Block!Stages
  <2>4. CASE pc = "descend" /\ pc' = "blocks" /\ values' = values
    <3>1. next * Wide = 0 /\ residue = FactorialRest(0, Modulus)
      BY <1>2, FactorialStarts DEF Staging, Planned
    <3>2. next \in 0 .. Full
      BY <1>2 DEF Staging, Planned
    <3>3. (FactorialRest(next * Wide, Modulus))' = FactorialRest(0, Modulus)
      BY <1>1, <1>3, <3>1
    <3>4. Reading'
      BY <1>1, <1>2, <1>3, <2>1, <2>4, <3>1, <3>2, <3>3 DEF Staging, Reading
    <3> QED BY <1>1, <1>2, <1>4, <1>5, <1>8, <2>4, <3>4 DEF BInv, Block!Stages
  <2> QED BY <1>8, <2>2, <2>3, <2>4
<1> QED BY <1>1, <1>6, <1>7, <1>8 DEF JoinEffect

(* The blocks and the tail are multiplied. *)

\* The owner multiplies by the value of a block.
LEMMA BlockReads ==
  ASSUME BInv, Block!ReadBlock
  PROVE  BInv'
<1>1. /\ pc = "blocks" /\ next < Full /\ next' = next + 1
      /\ residue' = (residue * values[next]) % Modulus
      /\ ledger' = [ledger EXCEPT !.block_products = @ + 1]
      /\ UNCHANGED <<request, pc, branches, block, tree, values, answer>>
  BY BlockNames DEF Block!ReadBlock, Block!Times, Block!work, Full
<1>2. /\ Planned /\ Reading /\ Modulus \in Nat \ {0, 1} /\ Factors \in Nat
      /\ ledger \in Ledgers
  BY <1>1, BlockSizes DEF BInv
<1>3. /\ ledger' \in Ledgers /\ ledger'.block_products = next + 1
      /\ ledger'.width = ledger.width /\ ledger'.full_blocks = ledger.full_blocks
      /\ ledger'.covered = ledger.covered /\ ledger'.tail = ledger.tail
      /\ ledger'.leaves = ledger.leaves /\ ledger'.points = ledger.points
      /\ ledger'.tail_products = ledger.tail_products
      /\ ledger'.started = ledger.started /\ ledger'.completed = ledger.completed
  BY <1>1, <1>2 DEF Ledgers, Reading
<1>4. /\ Modulus' = Modulus /\ Factors' = Factors /\ Wide' = Wide /\ Full' = Full
  BY <1>1, <1>3 DEF Modulus, Factors, Wide, Full
<1>5. Planned'
  BY <1>1, <1>2, <1>3, <1>4 DEF Planned
<1>6. PICK k \in Nat, w \in Nat : k = next /\ w = Wide /\ k < Full /\ Full \in Nat
  BY <1>1, <1>2 DEF Reading, Planned
<1>7. PICK a \in Nat, c \in Nat : a = k * w /\ c = (k + 1) * w /\ c = a + w /\ a <= c
  <2>1. k * w \in Nat /\ (k + 1) * w \in Nat /\ (k + 1) * w = k * w + w
    OBVIOUS
  <2> QED BY <2>1
<1>8. /\ residue = FactorialRest(a, Modulus)
      /\ values[next] = BlockProduct(k, w) % Modulus
  BY <1>2, <1>6, <1>7 DEF Reading
<1>9. BlockProduct(k, w) = ProductOf(a + 1 .. c)
  BY <1>7 DEF BlockProduct
<1>10. PICK p \in Int : p = ProductOf(a + 1 .. c)
  <2>1. a + 1 \in Int /\ c \in Int
    OBVIOUS
  <2> QED BY <2>1, IntervalsAreNumbers, ProductType
<1>11. PICK x \in Int : x = p % Modulus /\ Same(x, p, Modulus) /\ x = values[next]
  <2>1. Modulus \in Nat \ {0}
    BY <1>2
  <2>2. p % Modulus \in 0 .. Modulus - 1 /\ Same(p % Modulus, p, Modulus)
    BY <2>1, SameAsRest
  <2>3. p % Modulus \in Int
    BY <1>2, <2>2
  <2> QED BY <1>8, <1>9, <1>10, <2>2, <2>3
<1>12. (FactorialRest(a, Modulus) * x) % Modulus = FactorialRest(c, Modulus)
  <2>1. Same(x, ProductOf(a + 1 .. c), Modulus)
    BY <1>10, <1>11
  <2> QED BY <1>2, <1>7, <2>1, FactorialJoins
<1>13. residue' = FactorialRest(c, Modulus)
  BY <1>1, <1>8, <1>11, <1>12
<1>14. residue' \in 0 .. Modulus - 1
  <2>1. residue * x \in Int
    BY <1>2 DEF BInv
  <2> QED BY <1>1, <1>2, <1>11, <2>1
<1>15. Reading'
  <2>1. next' = k + 1 /\ Wide' = w /\ next' * Wide' = c /\ next' \in 0 .. Full'
    BY <1>1, <1>4, <1>6, <1>7
  <2>2. (FactorialRest(next * Wide, Modulus))' = FactorialRest(c, Modulus)
    BY <1>4, <2>1
  <2> QED BY <1>1, <1>2, <1>3, <1>4, <1>13, <2>1, <2>2 DEF Reading
<1> QED BY <1>1, <1>2, <1>3, <1>4, <1>5, <1>14, <1>15 DEF BInv, Block!Stages

\* The owner has read every block.
LEMMA BlocksAreRead ==
  ASSUME BInv, Block!BlocksEnd
  PROVE  BInv'
<1>1. /\ pc = "blocks" /\ next = Full /\ pc' = "tail" /\ next' = ledger.covered + 1
      /\ UNCHANGED <<request, residue, ledger, branches, block, tree, values, answer>>
  BY DEF Block!BlocksEnd, Block!work, Full
<1>2. Planned /\ Reading /\ Factors \in Nat /\ ledger \in Ledgers
  BY <1>1, BlockSizes DEF BInv
<1>3. /\ Modulus' = Modulus /\ Factors' = Factors /\ Wide' = Wide /\ Full' = Full
  BY <1>1 DEF Modulus, Factors, Wide, Full
<1>4. Planned'
  BY <1>1, <1>2, <1>3 DEF Planned
<1>5. ledger.covered \in Nat /\ ledger.tail \in Nat
  BY <1>2 DEF Ledgers
<1>6. next' \in ledger.covered + 1 .. Factors + 1 /\ next' - 1 = ledger.covered
  BY <1>1, <1>2, <1>5 DEF Planned
<1>7. residue = FactorialRest(ledger.covered, Modulus)
  BY <1>1, <1>2 DEF Reading, Planned
<1>8. (FactorialRest(next - 1, Modulus))' = FactorialRest(ledger.covered, Modulus)
  BY <1>3, <1>6
<1>9. next' - 1 - ledger'.covered = 0
  BY <1>1, <1>5, <1>6
<1>10. Trailing'
  BY <1>1, <1>2, <1>3, <1>6, <1>7, <1>8, <1>9 DEF Trailing, Reading
<1> QED BY <1>1, <1>3, <1>4, <1>10 DEF BInv, Block!Stages

\* The owner multiplies by a factor of the tail.
LEMMA BlockTails ==
  ASSUME BInv, Block!TailFactor
  PROVE  BInv'
<1>1. /\ pc = "tail" /\ next <= Factors /\ next' = next + 1
      /\ residue' = (residue * (next % Modulus)) % Modulus
      /\ ledger' = [ledger EXCEPT !.tail_products = @ + 1]
      /\ UNCHANGED <<request, pc, branches, block, tree, values, answer>>
  BY BlockNames DEF Block!TailFactor, Block!Times, Block!work
<1>2. /\ Planned /\ Trailing /\ Modulus \in Nat \ {0, 1} /\ Factors \in Nat /\ Modulus = Factors + 1
      /\ ledger \in Ledgers
  BY <1>1, BlockSizes DEF BInv
<1>3. PICK k \in Nat : next = k + 1 /\ k + 1 <= Factors
  <2>1. ledger.covered \in Nat
    BY <1>2 DEF Ledgers
  <2>2. next - 1 \in Nat /\ next = (next - 1) + 1
    BY <1>2, <2>1 DEF Trailing
  <2> QED BY <1>1, <2>2
<1>4. next % Modulus = k + 1 /\ next - 1 = k
  BY <1>2, <1>3
<1>5. (FactorialRest(k, Modulus) * (k + 1)) % Modulus = FactorialRest(k + 1, Modulus)
  BY <1>2, FactorialGrows
<1>6. residue' = FactorialRest(k + 1, Modulus)
  BY <1>1, <1>2, <1>4, <1>5 DEF Trailing
<1>7. residue' \in 0 .. Modulus - 1
  <2>1. residue * (k + 1) \in Int
    BY <1>2 DEF BInv
  <2> QED BY <1>1, <1>2, <1>4, <2>1
<1>8. /\ ledger' \in Ledgers /\ ledger'.tail_products = ledger.tail_products + 1
      /\ ledger'.width = ledger.width /\ ledger'.full_blocks = ledger.full_blocks
      /\ ledger'.covered = ledger.covered /\ ledger'.tail = ledger.tail
      /\ ledger'.leaves = ledger.leaves /\ ledger'.points = ledger.points
      /\ ledger'.block_products = ledger.block_products
      /\ ledger'.started = ledger.started /\ ledger'.completed = ledger.completed
  BY <1>1, <1>2 DEF Ledgers
<1>9. /\ Modulus' = Modulus /\ Factors' = Factors /\ Wide' = Wide /\ Full' = Full
  BY <1>1, <1>8 DEF Modulus, Factors, Wide, Full
<1>10. Planned'
  BY <1>1, <1>2, <1>8, <1>9 DEF Planned
<1>11. next' - 1 = k + 1 /\ next' \in ledger.covered + 1 .. Factors + 1
  <2>1. next \in ledger.covered + 1 .. Factors + 1 /\ ledger.covered \in Nat
    BY <1>2 DEF Trailing, Ledgers
  <2>2. next' = k + 2
    BY <1>1, <1>3
  <2> QED BY <1>2, <1>3, <2>1, <2>2
<1>12. (FactorialRest(next - 1, Modulus))' = FactorialRest(k + 1, Modulus)
  BY <1>9, <1>11
<1>13. ledger'.tail_products = next' - 1 - ledger'.covered
  <2>1. ledger.covered \in Nat /\ ledger.tail_products = next - 1 - ledger.covered
    BY <1>2 DEF Trailing, Ledgers
  <2> QED BY <1>1, <1>3, <1>8, <2>1
<1>14. Trailing'
  BY <1>1, <1>2, <1>6, <1>8, <1>9, <1>11, <1>12, <1>13 DEF Trailing
<1> QED BY <1>1, <1>2, <1>7, <1>8, <1>9, <1>10, <1>14 DEF BInv, Block!Stages

\* The owner returns the answer.
LEMMA BlockObserves ==
  ASSUME BInv, Block!Observe
  PROVE  BInv' /\ answer'.kind = "observation"
<1>1. /\ pc = "tail" /\ next > Factors /\ pc' = "done" /\ branches' = <<>>
      /\ answer' = [kind |-> "observation", residue |-> residue, prime |-> residue = Modulus - 1]
      /\ ledger' = [ledger EXCEPT !.completed = TRUE]
      /\ UNCHANGED <<request, residue, next>>
  BY BlockNames DEF Block!Observe, Block!Verdict, Block!Released, Block!Nobody
<1>2. /\ Planned /\ Trailing /\ Modulus \in Nat \ {0, 1} /\ Factors \in Nat
      /\ ledger \in Ledgers
  BY <1>1, BlockSizes DEF BInv
<1>3. ledger.covered \in Nat /\ ledger.tail \in Nat
  BY <1>2 DEF Ledgers
<1>4. next - 1 = Factors /\ next - 1 - ledger.covered = ledger.tail
  BY <1>1, <1>2, <1>3 DEF Trailing, Planned
<1>5. residue = FactorialRest(Factors, Modulus) /\ ledger.tail_products = ledger.tail
      /\ ledger.block_products = Full
  BY <1>2, <1>4 DEF Trailing
<1>6. /\ ledger' \in Ledgers /\ ledger'.tail_products = ledger.tail_products
      /\ ledger'.width = ledger.width /\ ledger'.full_blocks = ledger.full_blocks
      /\ ledger'.covered = ledger.covered /\ ledger'.tail = ledger.tail
      /\ ledger'.leaves = ledger.leaves /\ ledger'.points = ledger.points
      /\ ledger'.block_products = ledger.block_products
      /\ ledger'.started = ledger.started /\ ledger'.completed = TRUE
  BY <1>1, <1>2 DEF Ledgers
<1>7. /\ Modulus' = Modulus /\ Factors' = Factors /\ Wide' = Wide /\ Full' = Full
  BY <1>1, <1>6 DEF Modulus, Factors, Wide, Full
<1>8. Planned'
  BY <1>2, <1>6, <1>7 DEF Planned
<1>9. BlockAnswer'
  BY <1>1, <1>5, <1>6, <1>7, <1>8 DEF BlockAnswer
<1> QED BY <1>1, <1>2, <1>6, <1>7, <1>9 DEF BInv, Block!Stages

\* Every step of the block consumer keeps the invariant.
LEMMA BlockSteps ==
  ASSUME BInv, Block!Next
  PROVE  BInv' /\ request' = request
<1>1. CASE Block!RefuseWidth
  BY <1>1, BlockRefuses DEF Block!RefuseWidth
<1>2. CASE Block!Reject
  BY <1>2, BlockRejects DEF Block!Reject
<1>3. CASE Block!Plan
  BY <1>3, BlockPlans DEF Block!Plan
<1>4. CASE Block!Start
  BY <1>4, BlockStarts DEF Block!Start
<1>5. CASE Block!Branch
  <2>1. PICK s \in DOMAIN branches : Block!Build(s) \/ Block!Visit(s)
    BY <1>5 DEF Block!Branch
  <2>2. CASE Block!Build(s)
    BY <2>2, BlockBuilds DEF Block!Build
  <2>3. CASE Block!Visit(s)
    BY <2>3, BlockVisits DEF Block!Visit
  <2> QED BY <2>1, <2>2, <2>3
<1>6. CASE Block!Join
  BY <1>6, BlockJoins DEF Block!Join
<1>7. CASE Block!ReadBlock
  BY <1>7, BlockReads DEF Block!ReadBlock
<1>8. CASE Block!BlocksEnd
  BY <1>8, BlocksAreRead DEF Block!BlocksEnd
<1>9. CASE Block!TailFactor
  BY <1>9, BlockTails DEF Block!TailFactor
<1>10. CASE Block!Observe
  BY <1>10, BlockObserves DEF Block!Observe
<1> QED BY <1>1, <1>2, <1>3, <1>4, <1>5, <1>6, <1>7, <1>8, <1>9, <1>10 DEF Block!Next

\* So does a step of anything else.
LEMMA BlockRests ==
  ASSUME BInv, UNCHANGED <<call, block_vars>>
  PROVE  BInv'
<1>1. UNCHANGED <<request, pc, residue, next, ledger, answer, branches, block, tree, values>>
  BY DEF call, block_vars
<1>2. /\ Modulus' = Modulus /\ Factors' = Factors /\ Wide' = Wide /\ Full' = Full
  BY <1>1 DEF Modulus, Factors, Wide, Full
<1>3. Block!Ranges' = Block!Ranges
  BY <1>1 DEF Block!Ranges, Block!Forked, Block!Root, Block!policy
<1>4. Planned <=> Planned'
  BY <1>1, <1>2 DEF Planned
<1>5. \A s : Descending(branches[s], Block!Ranges[s])' <=> Descending(branches[s], Block!Ranges[s])
  BY <1>1, <1>2, <1>3 DEF Descending
<1>6. \A s : BranchRight(s)' <=> BranchRight(s)
  BY <1>1, <1>2, <1>3, <1>5 DEF BranchRight
<1>7. Branching => Branching'
  BY <1>1, <1>2, <1>3, <1>6 DEF Branching
<1>8. Staging => Staging'
  BY <1>1, <1>2, <1>7 DEF Staging
<1>9. Reading => Reading'
  <2>1. (FactorialRest(next * Wide, Modulus))' = FactorialRest(next * Wide, Modulus)
    BY <1>1, <1>2
  <2> QED BY <1>1, <1>2, <2>1 DEF Reading
<1>10. Trailing => Trailing'
  BY <1>1, <1>2 DEF Trailing
<1>11. BlockAnswer => BlockAnswer'
  BY <1>1, <1>2, <1>4 DEF BlockAnswer
<1> QED BY <1>1, <1>2, <1>4, <1>8, <1>9, <1>10, <1>11 DEF BInv

(* The same facts in the words of the consumer. *)

\* Factorials in the consumer and in the proofs.
LEMMA BlockFactorials ==
  ASSUME Modulus \in Nat \ {0}
  PROVE  \A n \in Nat : Block!Observer!FactorialMod(n, Block!candidate) = FactorialRest(n, Modulus)
<1>1. \A n : Block!Observer!FactorialMod(n, Block!candidate) = HalvingPartial(n, Modulus)[<<0, n>>]
  BY BlockNames DEF Block!Observer!FactorialMod, HalvingPartial, HalvingStep
<1>2. \A n \in Nat : HalvingPartial(n, Modulus)[<<0, n>>] = FactorialRest(n, Modulus)
  BY HalvingIsRest DEF FactorialRest
<1> QED BY <1>1, <1>2

\* The product of a block in the consumer and in the proofs.
LEMMA BlockProducts ==
  ASSUME Modulus \in Nat \ {0, 1}, Wide \in Nat \ {0}, NEW b \in Nat
  PROVE  Block!BlockMod(b) = BlockProduct(b, Wide) % Modulus
<1>1. PICK w \in Nat \ {0} : w = Wide
  OBVIOUS
<1>2. PICK a \in Nat, c \in Nat : a = b * w /\ c = (b + 1) * w /\ c = a + w
  <2>1. b * w \in Nat /\ (b + 1) * w \in Nat /\ (b + 1) * w = b * w + w
    OBVIOUS
  <2> QED BY <2>1
<1>3. 1 % Modulus = 1
  OBVIOUS
<1>4. Block!BlockMod(b) = RangeOf(a + 1, c, Modulus)
  <2>1. Block!BlockMod(b) = ReducedProduct(b * Wide + 1 .. (b + 1) * Wide, 1 % Modulus, Modulus)
    BY DEF Block!BlockMod, ReducedProduct, Wide, Block!FoldSet, FoldSet,
           Block!MapThenFoldSet, MapThenFoldSet, Block!candidate, Modulus
  <2>2. b * Wide + 1 .. (b + 1) * Wide = a + 1 .. c
    BY <1>1, <1>2
  <2> QED BY <1>3, <2>1, <2>2 DEF RangeOf
<1>5. a + 1 .. c # {}
  <2>1. c \in a + 1 .. c
    BY <1>1, <1>2
  <2> QED BY <2>1
<1>6. RangeOf(a + 1, c, Modulus) = ProductOf(a + 1 .. c) % Modulus
  <2>1. a + 1 \in Int /\ c \in Int /\ 1 \in Int /\ Modulus \in Nat \ {0}
    OBVIOUS
  <2>2. Numbers(a + 1 .. c) /\ Same(1, 1, Modulus)
    BY <2>1, IntervalsAreNumbers, SameIsReflexive
  <2> QED BY <1>5, <2>1, <2>2, ReducedProductIsRest DEF RangeOf
<1> QED BY <1>1, <1>2, <1>4, <1>6 DEF BlockProduct

\* The size of a single place.
LEMMA SameCardinality ==
  \A t : Block!Cardinality({t}) = 1
<1>1. \A S : Block!Cardinality(S) = Cardinality(S)
  BY DEF Block!Cardinality, Cardinality
<1> QED BY <1>1, FS_Singleton

\* Nodes that wait are nodes of the tree.
LEMMA QueuedNodes ==
  ASSUME NEW q, NEW nodes, NEW v, NEW width, NEW m, Queued(q, nodes, v, width, m), NEW i \in DOMAIN q
  PROVE  q[i].node \in nodes
<1> DEFINE T == [node : nodes, polynomial : Poly(m), reduced : BOOLEAN]
<1>1. q \in Seq(T)
  BY DEF Queued
<1> HIDE DEF T
<1>2. q[i] \in T
  BY <1>1
<1> QED BY <1>2 DEF T

\* Tasks of the descent are apart from each other.
LEMMA TasksAreApart ==
  ASSUME BInv, pc = "descend", NEW b \in 0 .. Full - 1,
         NEW s \in DOMAIN branches, NEW i \in DOMAIN branches[s].tasks,
         NEW u \in DOMAIN branches, NEW j \in DOMAIN branches[u].tasks,
         b \in Below(branches[s].tasks[i].node), b \in Below(branches[u].tasks[j].node)
  PROVE  s = u /\ i = j
<1>1. /\ Descending(branches[s], Block!Ranges[s]) /\ Descending(branches[u], Block!Ranges[u])
      /\ Planned /\ Branching /\ Factors \in Nat /\ Full \in Nat
      /\ GoodTree(tree, <<0, Full>>, Wide, Modulus) /\ Span(<<0, Full>>)
  BY DescentFacts
<1>2. /\ Queued(branches[s].tasks, DOMAIN tree, Block!Ranges[s], Wide, Modulus)
      /\ Queued(branches[u].tasks, DOMAIN tree, Block!Ranges[u], Wide, Modulus)
  BY <1>1 DEF Descending
<1>3. PICK p, q : p = branches[s].tasks[i].node /\ q = branches[u].tasks[j].node
  OBVIOUS
<1>4. p \in DOMAIN tree /\ q \in DOMAIN tree
  BY <1>2, <1>3, QueuedNodes
<1>5. p[1] \in Nat /\ p[2] \in Nat /\ q[1] \in Nat /\ q[2] \in Nat
  <2>1. p \in Within(<<0, Full>>) /\ q \in Within(<<0, Full>>)
    BY <1>1, <1>4 DEF GoodTree
  <2> QED BY <1>1, <2>1, HalvesFacts
<1>6. p[1] <= b /\ b < p[2] /\ q[1] <= b /\ b < q[2]
  BY <1>1, <1>3, <1>5 DEF Below
<1>7. s = u
  <2>1. /\ DOMAIN branches = DOMAIN Block!Ranges
        /\ DOMAIN Block!Ranges = IF Block!Forked THEN {"left", "right"} ELSE {"caller"}
        /\ Block!Forked => /\ Block!Ranges["left"] = Left(Block!Root)
                           /\ Block!Ranges["right"] = Right(Block!Root) /\ ~IsLeaf(Block!Root)
        /\ Span(Block!Root)
    BY <1>1, StageRanges DEF Branching, Block!Stages
  <2>2. CASE ~Block!Forked
    BY <2>1, <2>2
  <2>3. CASE Block!Forked
    <3>1. /\ Left(Block!Root)[2] = Right(Block!Root)[1] /\ Left(Block!Root) \in Within(Block!Root)
      BY <2>1, <2>3, RootIsWithin, HalvesFacts
    <3>2. PICK c \in Nat : c = Left(Block!Root)[2] /\ c = Right(Block!Root)[1]
      BY <2>1, <3>1, HalvesFacts
    <3>3. ASSUME s = "left", u = "right" PROVE FALSE
      <4>1. p[2] <= c /\ c <= q[1]
        BY <1>2, <1>3, <2>1, <2>3, <3>2, <3>3 DEF Queued
      <4> QED BY <1>1, <1>5, <1>6, <4>1
    <3>4. ASSUME s = "right", u = "left" PROVE FALSE
      <4>1. q[2] <= c /\ c <= p[1]
        BY <1>2, <1>3, <2>1, <2>3, <3>2, <3>4 DEF Queued
      <4> QED BY <1>1, <1>5, <1>6, <4>1
    <3> QED BY <2>1, <2>3, <3>3, <3>4
  <2> QED BY <2>2, <2>3
<1>8. i = j
  <2>1. i \in Nat /\ j \in Nat
    BY <1>2, <1>7 DEF Queued
  <2>2. ASSUME i < j PROVE FALSE
    <3>1. p[2] <= q[1]
      BY <1>2, <1>3, <1>7, <2>2 DEF Queued
    <3> QED BY <1>1, <1>5, <1>6, <3>1
  <2>3. ASSUME j < i PROVE FALSE
    <3>1. q[2] <= p[1]
      BY <1>2, <1>3, <1>7, <2>3 DEF Queued
    <3> QED BY <1>1, <1>5, <1>6, <3>1
  <2> QED BY <2>1, <2>2, <2>3
<1> QED BY <1>7, <1>8

\* A block is written, or below one node that waits.
LEMMA BlocksAreWrittenOnce ==
  ASSUME BInv
  PROVE  Block!BlocksWrittenOnce
<1> SUFFICES ASSUME pc = "descend", branches # <<>>, ~Block!Some("unborn"), ~Block!Some("threw"),
                    NEW b \in 0 .. Full - 1
             PROVE  LET owners == {t \in Block!Tasks : b \in Block!Blocks(Block!TaskOf(t).node)}
                    IN  \/ Block!Cardinality(owners) = 1
                        \/ owners = {} /\ values[b] = Block!BlockMod(b)
  BY DEF Block!BlocksWrittenOnce, Block!Nobody, Full
<1> DEFINE owners == {t \in Block!Tasks : b \in Block!Blocks(Block!TaskOf(t).node)}
<1>1. Planned /\ Branching /\ Factors \in Nat /\ Modulus \in Nat \ {0, 1} /\ Full \in Nat
      /\ Wide \in Nat \ {0} /\ DOMAIN branches = DOMAIN Block!Ranges
  BY BlockSizes DEF BInv, Block!Stages, Staging, Planned, Branching
<1>2. \A t : t \in owners <=> \E s \in DOMAIN branches : \E i \in DOMAIN branches[s].tasks :
                                t = <<s, i>> /\ b \in Below(branches[s].tasks[i].node)
  BY DEF Block!Tasks, Block!TaskOf, Block!Blocks, Below
<1> HIDE DEF owners
<1>3. CASE owners # {}
  <2>1. PICK t : t \in owners
    BY <1>3
  <2>2. PICK s \in DOMAIN branches : \E i \in DOMAIN branches[s].tasks :
          t = <<s, i>> /\ b \in Below(branches[s].tasks[i].node)
    BY <1>2, <2>1
  <2> PICK i \in DOMAIN branches[s].tasks : t = <<s, i>> /\ b \in Below(branches[s].tasks[i].node)
    BY <2>2
  <2>3. ASSUME NEW x \in owners PROVE x = t
    <3>1. PICK u \in DOMAIN branches : \E j \in DOMAIN branches[u].tasks :
            x = <<u, j>> /\ b \in Below(branches[u].tasks[j].node)
      BY <1>2, <2>3
    <3>2. PICK j \in DOMAIN branches[u].tasks : x = <<u, j>> /\ b \in Below(branches[u].tasks[j].node)
      BY <3>1
    <3>3. s = u /\ i = j
      BY <3>2, TasksAreApart
    <3> QED BY <3>2, <3>3
  <2>4. owners = {t}
    BY <2>1, <2>3
  <2>5. Block!Cardinality(owners) = 1
    BY <2>4, SameCardinality
  <2> QED BY <2>5 DEF owners
<1>4. CASE owners = {}
  <2>1. PICK s \in DOMAIN branches : b \in Below(Block!Ranges[s])
    BY <1>1, RangesCoverBlocks
  <2>2. Descending(branches[s], Block!Ranges[s]) /\ branches[s].state \in {"running", "ended"}
    BY <1>1 DEF Branching, BranchRight, Block!Some
  <2>3. Covers(branches[s].tasks, values, Block!Ranges[s], Wide, Modulus)
    BY <2>2 DEF Descending
  <2>4. ~ \E i \in DOMAIN branches[s].tasks : b \in Below(branches[s].tasks[i].node)
    BY <1>2, <1>4
  <2>5. values[b] = BlockProduct(b, Wide) % Modulus
    BY <2>1, <2>3, <2>4 DEF Covers
  <2>6. b \in Nat
    BY <1>1
  <2> QED BY <1>1, <1>4, <2>5, <2>6, BlockProducts DEF owners
<1> QED BY <1>3, <1>4 DEF owners

\* Remainders that wait keep the values at the points below them.
LEMMA RemaindersDoAgree ==
  ASSUME BInv
  PROVE  Block!RemaindersAgree
<1> SUFFICES ASSUME pc = "descend", NEW t \in Block!Tasks, NEW b \in Block!Blocks(Block!TaskOf(t).node)
             PROVE  Block!Value(Block!TaskOf(t).polynomial, Block!Point(b), Block!candidate) = Block!BlockMod(b)
  BY DEF Block!RemaindersAgree
<1> PICK s \in DOMAIN branches : \E i \in DOMAIN branches[s].tasks : t = <<s, i>>
  BY DEF Block!Tasks
<1>1. PICK i \in DOMAIN branches[s].tasks : t = <<s, i>>
  OBVIOUS
<1>2. PICK task : task = branches[s].tasks[i] /\ Block!TaskOf(t) = task
  BY <1>1 DEF Block!TaskOf
<1>3. /\ Descending(branches[s], Block!Ranges[s]) /\ Planned
      /\ GoodTree(tree, <<0, Full>>, Wide, Modulus) /\ Span(<<0, Full>>)
      /\ Modulus \in Nat \ {0, 1}
  BY DescentFacts
<1>4. Queued(branches[s].tasks, DOMAIN tree, Block!Ranges[s], Wide, Modulus)
  BY <1>3 DEF Descending
<1>5. RightBelow(task.polynomial, task.node, Wide, Modulus)
  BY <1>2, <1>4 DEF Queued
<1>6. task.node \in DOMAIN tree
  BY <1>2, <1>4, QueuedNodes
<1>7. b \in task.node[1] .. task.node[2] - 1
  BY <1>2 DEF Block!Blocks
<1>8. b \in Nat
  <2>1. task.node \in Within(<<0, Full>>)
    BY <1>3, <1>6 DEF GoodTree
  <2>2. task.node[1] \in Nat /\ task.node[2] \in Nat
    BY <1>3, <2>1, HalvesFacts
  <2> QED BY <1>7, <2>2
<1>9. Value(task.polynomial, PointOf(b, Wide, Modulus), Modulus) = BlockProduct(b, Wide) % Modulus
  BY <1>5, <1>7 DEF RightBelow
<1>10. Block!Value(task.polynomial, Block!Point(b), Block!candidate)
         = Value(task.polynomial, PointOf(b, Wide, Modulus), Modulus)
  BY BlockNames, SameValues, SameTrees DEF Block!Point, Wide
<1>11. Block!BlockMod(b) = BlockProduct(b, Wide) % Modulus
  BY <1>3, <1>8, BlockProducts DEF Planned
<1> QED BY <1>2, <1>9, <1>10, <1>11

\* The invariant is stronger than the one the runs check.
LEMMA BlockHolds ==
  ASSUME BInv
  PROVE  Block!IInv
<1>1. Modulus \in Nat \ {0, 1} /\ Factors \in Nat
  BY BlockSizes
<1>2. residue \in 0 .. Block!candidate - 1
  BY BlockNames DEF BInv
<1>3. Block!BranchesInStage
  BY DEF BInv, Block!BranchesInStage, Block!Nobody
<1>4. pc = "blocks" => residue = Block!Observer!FactorialMod(next * ledger.width, Block!candidate)
  <2> SUFFICES ASSUME pc = "blocks"
               PROVE  residue = Block!Observer!FactorialMod(next * ledger.width, Block!candidate)
    OBVIOUS
  <2>1. Reading /\ Wide \in Nat /\ Full \in Nat
    BY DEF BInv, Planned
  <2>2. PICK n \in Nat : n = next * Wide
    <3>1. next \in Nat
      BY <2>1 DEF Reading
    <3> QED BY <2>1, <3>1
  <2>3. Block!Observer!FactorialMod(n, Block!candidate) = FactorialRest(n, Modulus)
    BY <1>1, BlockFactorials
  <2> QED BY <2>1, <2>2, <2>3 DEF Reading, Wide
<1>5. pc = "tail" => residue = Block!Observer!FactorialMod(next - 1, Block!candidate)
  <2> SUFFICES ASSUME pc = "tail"
               PROVE  residue = Block!Observer!FactorialMod(next - 1, Block!candidate)
    OBVIOUS
  <2>1. Trailing /\ ledger.covered \in Nat
    BY DEF BInv, Ledgers
  <2>2. PICK n \in Nat : n = next - 1
    BY <1>1, <2>1 DEF Trailing
  <2>3. Block!Observer!FactorialMod(n, Block!candidate) = FactorialRest(n, Modulus)
    BY <1>1, BlockFactorials
  <2> QED BY <2>1, <2>2, <2>3 DEF Trailing
<1> QED BY <1>2, <1>3, <1>4, <1>5, BlocksAreWrittenOnce, RemaindersDoAgree DEF Block!IInv

\* The verifier accepts the answer of the block consumer.
LEMMA BlockAccepted ==
  ASSUME BInv
  PROVE  Block!Accepted
<1>1. CASE pc = "done"
  <2>1. CASE answer.kind = "limit"
    <3>1. \/ answer.reason = "BlockWidth" /\ ~ledger.started /\ answer.required > answer.allowed
          \/ answer.reason = "PolynomialEngine" /\ ledger.started
      BY <1>1, <2>1 DEF BInv, BlockAnswer
    <3>2. ~ledger.completed
      BY <1>1, <2>1 DEF BInv, BlockAnswer
    <3> QED BY <2>1, <3>1, <3>2 DEF Block!Accepted
  <2>2. CASE answer.kind # "limit"
    <3>1. /\ answer.kind = "observation"
          /\ answer.residue = FactorialRest(Factors, Modulus)
          /\ answer.prime = (FactorialRest(Factors, Modulus) = Modulus - 1)
          /\ Planned /\ ledger.completed
          /\ ledger.block_products = Full /\ ledger.tail_products = ledger.tail
      BY <1>1, <2>2 DEF BInv, BlockAnswer
    <3>2. Modulus \in Nat \ {0, 1} /\ Factors \in Nat
      BY BlockSizes
    <3>3. answer.prime <=> answer.residue = Block!candidate - 1
      BY <3>1, BlockNames
    <3>4. ledger.width * ledger.full_blocks = ledger.full_blocks * ledger.width
      BY <3>1 DEF Planned, Wide, Full
    <3>5. /\ ledger.width * ledger.full_blocks + ledger.tail = Block!factor_count
          /\ ledger.covered = ledger.width * ledger.full_blocks
          /\ ledger.leaves = ledger.width /\ ledger.points = ledger.full_blocks
          /\ ledger.started
      BY <3>1, <3>4, BlockNames DEF Planned, Wide, Full
    <3>6. answer.residue < Block!candidate
      <4>1. FactorialRest(Factors, Modulus) \in 0 .. Modulus - 1
        <5>1. PICK p \in Int : p = ProductOf(1 .. Factors)
          BY <3>2, IntervalsAreNumbers, ProductType
        <5>2. Modulus \in Nat \ {0}
          BY <3>2
        <5> QED BY <5>1, <5>2, SameAsRest DEF FactorialRest
      <4> QED BY <3>1, <3>2, <4>1, BlockNames
    <3> QED BY <3>1, <3>3, <3>5, <3>6 DEF Block!Accepted, Full
  <2> QED BY <2>1, <2>2
<1>2. CASE pc = "rejected"
  BY <1>2 DEF BInv, Block!Accepted
<1>3. CASE pc \notin {"done", "rejected"}
  BY <1>3 DEF BInv, Block!Accepted
<1> QED BY <1>1, <1>2, <1>3

\* A step of the block consumer is one of an observer, or none.
LEMMA BlockKeepsPromise ==
  ASSUME BInv, Block!Next
  PROVE  Observer!Next \/ UNCHANGED Observer!vars
<1>1. Modulus \in Nat \ {0, 1} /\ request' = request
  BY BlockSizes, BlockSteps
<1>2. CASE answer' = answer
  BY <1>1, <1>2 DEF Observer!vars
<1>3. CASE Block!RefuseWidth
  <2>1. answer'.kind = "limit" /\ pc = "download"
    BY <1>3, BlockRefuses
  <2>2. answer = [kind |-> "none"]
    BY <2>1 DEF BInv
  <2> QED BY <1>1, <2>1, <2>2, AnswersAreSteps
<1>4. CASE Block!Reject
  <2>1. answer' = [kind |-> "rejected"] /\ pc = "download"
    BY <1>4, BlockRejects
  <2>2. answer = [kind |-> "none"]
    BY <2>1 DEF BInv
  <2> QED BY <1>1, <2>1, <2>2, AnswersAreSteps
<1>5. CASE Block!Join
  <2>1. pc \in Block!Stages /\ JoinEffect
    BY <1>5, JoinCases
  <2>2. answer = [kind |-> "none"]
    BY <2>1 DEF BInv, Block!Stages
  <2>3. CASE answer' = answer
    BY <1>2, <2>3
  <2>4. CASE answer'.kind = "limit"
    BY <1>1, <2>2, <2>4, AnswersAreSteps
  <2>5. CASE answer' = [kind |-> "rejected"]
    BY <1>1, <2>2, <2>5, AnswersAreSteps
  <2> QED BY <2>1, <2>3, <2>4, <2>5 DEF JoinEffect
<1>6. CASE Block!Observe
  <2>1. answer = [kind |-> "none"] /\ pc' = "done"
    BY <1>6 DEF Block!Observe, BInv
  <2>2. BInv' /\ answer'.kind = "observation"
    BY <1>6, BlockObserves
  <2>3. answer' = [kind |-> "observation", residue |-> FactorialRest(Factors, Modulus),
                   prime |-> FactorialRest(Factors, Modulus) = Modulus - 1]
    <3>1. BlockAnswer' /\ Modulus' = Modulus /\ Factors' = Factors
      BY <1>1, <2>1, <2>2 DEF BInv, Modulus, Factors
    <3> QED BY <2>2, <3>1 DEF BlockAnswer
  <2> QED BY <1>1, <2>1, <2>3, AnswersAreSteps
<1> QED BY <1>2, <1>3, <1>4, <1>5, <1>6 DEF Block!Next, Block!Plan, Block!Start, Block!Branch,
           Block!Build, Block!Visit, Block!ReadBlock, Block!BlocksEnd, Block!TailFactor

(* ----------------------------- both consumers -------------------------- *)

CInv == IF InLinear THEN LInv ELSE BInv

\* Every call begins in the invariant of its consumer,
LEMMA CallsBegin ==
  ASSUME Init
  PROVE  CInv
<1>1. CASE Linear!Init /\ Block!Idle
  <2>1. LInv
    BY <1>1, LinearInit
  <2>2. InLinear
    BY <2>1, LinearRequestFacts DEF LInv, InLinear
  <2> QED BY <2>1, <2>2 DEF CInv
<1>2. CASE Block!Init /\ Linear!Idle
  <2>1. BInv
    BY <1>2, BlockInit
  <2>2. ~InLinear
    BY <2>1, BlockRequestFacts DEF BInv, InLinear
  <2> QED BY <2>1, <2>2 DEF CInv
<1> QED BY <1>1, <1>2 DEF Init

\* every step keeps it and is one of an observer, or none,
LEMMA CallsContinue ==
  ASSUME CInv, [Next \/ Ended]_vars
  PROVE  CInv' /\ (Observer!Next \/ UNCHANGED Observer!vars)
<1>1. CASE InLinear /\ Linear!Next
  <2>1. LInv
    BY <1>1 DEF CInv
  <2>2. LInv' /\ request' = request
    BY <1>1, <2>1, LinearSteps
  <2>3. InLinear'
    BY <1>1, <2>2 DEF InLinear
  <2> QED BY <1>1, <2>1, <2>2, <2>3, LinearKeepsPromise DEF CInv
<1>2. CASE ~InLinear /\ Block!Next
  <2>1. BInv
    BY <1>2 DEF CInv
  <2>2. BInv' /\ request' = request
    BY <1>2, <2>1, BlockSteps
  <2>3. ~InLinear'
    BY <1>2, <2>2 DEF InLinear
  <2> QED BY <1>2, <2>1, <2>2, <2>3, BlockKeepsPromise DEF CInv
<1>3. CASE UNCHANGED vars
  <2>1. UNCHANGED <<call, linear_vars>> /\ UNCHANGED <<call, block_vars>>
    BY <1>3 DEF vars
  <2>2. request' = request /\ answer' = answer
    BY <2>1 DEF call
  <2>3. InLinear' <=> InLinear
    BY <2>2 DEF InLinear
  <2>4. UNCHANGED Observer!vars
    BY <2>2 DEF Observer!vars
  <2> QED BY <2>1, <2>3, <2>4, LinearRests, BlockRests DEF CInv
<1> QED BY <1>1, <1>2, <1>3 DEF Next, Ended

\* and so it holds throughout.
LEMMA CallsAreSound == Spec => []CInv
<1>1. Init => CInv
  BY CallsBegin
<1>2. CInv /\ [Next \/ Ended]_vars => CInv'
  BY CallsContinue
<1> QED BY <1>1, <1>2, PTL DEF Spec

\* Slots, blocks and branches at every moment of a call, of whichever
\* consumer: threads write their own slots once and fully, every block has one
\* owner or its value, and remainders keep the values at the points below
\* them, although the candidate may be composite.
THEOREM ConsumersHold == Spec => []IInv
<1>1. CInv => IInv
  BY LinearHolds, BlockHolds DEF CInv, IInv
<1> QED BY <1>1, CallsAreSound, PTL

\* The two verifiers accept every answer of their observer, and only a policy
\* of its own limits the linear consumer.
THEOREM AnswersAreAccepted == Spec => []VerifiersAccept
<1>1. CInv => VerifiersAccept
  BY LinearAccepted, BlockAccepted, LinearLimit DEF CInv, VerifiersAccept
<1> QED BY <1>1, CallsAreSound, PTL

\* Each consumer, by whatever entry, answers at most once, and with the
\* residue of (candidate - 1)! and the right verdict or with a refusal: a
\* factorial computed in parts by threads, or by the values of one polynomial
\* at the points of the blocks, and Wilson's theorem, which is proved here and
\* not assumed.
THEOREM ConsumersImplementObserver == Spec => ImplementsObserver
<1>1. Init => Observer!Init
  <2> SUFFICES ASSUME Init PROVE Observer!Init
    OBVIOUS
  <2>1. request \in LinearRequests \cup BlockRequests /\ answer = [kind |-> "none"]
    BY DEF Init, Linear!Init, Block!Init
  <2>2. request.candidate \in {r.candidate : r \in LinearRequests \cup BlockRequests}
    BY <2>1
  <2>3. (IF answer.kind = "limit" THEN [kind |-> "limit"] ELSE answer) = [kind |-> "none"]
    BY <2>1
  <2> QED BY <2>2, <2>3 DEF Observer!Init
<1>2. CInv /\ [Next \/ Ended]_vars => [Observer!Next]_(Observer!vars)
  BY CallsContinue
<1> QED BY <1>1, <1>2, CallsAreSound, PTL DEF Spec, ImplementsObserver, Observer!Spec
===============================================================================
