------------------------ MODULE BehaviorAnalysis_proofs ------------------------
(***************************************************************************)
(* Theorems about the refinement loop of behavior.hpp and the queries on   *)
(* its result, for machines of every size.  First the numbering, then the  *)
(* loop, then its result against words, the complement bits, and last the  *)
(* search, alone and as an entry of the analysis.                          *)
(***************************************************************************)
EXTENDS BehaviorAnalysis, SharedTheorems

LEMMA StatesFinite ==
  /\ IsFiniteSet(States) /\ Cardinality(States) = StateCount
  /\ States \subseteq Nat /\ 0 \in States
BY FS_Interval, SizesAssumption DEF States

\* Every key has a first state.
LEMMA FirstExists ==
  ASSUME NEW key, NEW s \in States
  PROVE  \E f \in States : key[f] = key[s] /\ IsFirst(key, f)
<1> DEFINE T == {t \in States : key[t] = key[s]}
           Segments == {0 .. t : t \in T}
<1>1. T \subseteq Nat /\ s \in T
  BY StatesFinite
<1>2. Segments \subseteq FiniteSubsetsOf(Nat) /\ Segments # {}
  <2>1. ASSUME NEW t \in T PROVE 0 .. t \in FiniteSubsetsOf(Nat)
    BY <1>1, FS_Interval DEF FiniteSubsetsOf
  <2> QED BY <1>1, <2>1
<1>3. PICK m \in Segments : \A y \in Segments : ~ (<<y, m>> \in StrictSubsetOrdering(Nat))
  BY <1>2, WFMin, FS_StrictSubsetOrderingWellFounded
<1>4. PICK f \in T : m = 0 .. f
  OBVIOUS
<1>5. ASSUME NEW t \in T PROVE f <= t
  <2>1. SUFFICES ASSUME t < f PROVE FALSE
    BY <1>1
  <2>2. 0 .. t \subseteq 0 .. f /\ f \in 0 .. f /\ f \notin 0 .. t
    BY <1>1, <2>1
  <2>3. 0 .. t \in SUBSET Nat /\ 0 .. f \in SUBSET Nat /\ 0 .. t \in Segments
    BY <1>1
  <2> QED BY <2>2, <2>3, <1>3, <1>4 DEF StrictSubsetOrdering
<1> QED BY <1>5 DEF IsFirst

\* The keys that turn up before the first state like s, by their first states.
Before(key, s) ==
  {t \in States : IsFirst(key, t) /\ \A u \in States : key[u] = key[s] => t < u}

LEMMA NumberingIsBefore ==
  ASSUME NEW key
  PROVE  Numbering(key) = [s \in States |-> Cardinality(Before(key, s))]
BY DEF Numbering, Before

LEMMA BeforeFinite ==
  ASSUME NEW key, NEW s \in States
  PROVE  /\ IsFiniteSet(Before(key, s))
         /\ Cardinality(Before(key, s)) \in States
<1>1. Before(key, s) \subseteq States \ {s}
  BY StatesFinite DEF Before
<1>2. /\ IsFiniteSet(States \ {s})
      /\ Cardinality(States \ {s}) = StateCount - 1
  BY StatesFinite, FS_RemoveElement
<1>3. /\ IsFiniteSet(Before(key, s))
      /\ Cardinality(Before(key, s)) <= StateCount - 1
  BY <1>1, <1>2, FS_Subset
<1>4. Cardinality(Before(key, s)) \in Nat
  BY <1>3, FS_CardinalityType
<1> QED BY <1>3, <1>4, SizesAssumption DEF States

\* The state whose key turns up later has the larger number.
LEMMA LaterIsLarger ==
  ASSUME NEW key, NEW s \in States, NEW t \in States,
         NEW f \in States, key[f] = key[s], IsFirst(key, f),
         NEW g \in States, key[g] = key[t], IsFirst(key, g),
         f < g
  PROVE  Cardinality(Before(key, s)) < Cardinality(Before(key, t))
<1> USE StatesFinite
<1>1. ASSUME NEW r \in Before(key, s) PROVE r \in Before(key, t)
  <2>1. r \in States /\ IsFirst(key, r) /\ r < f
    BY DEF Before
  <2>2. ASSUME NEW u \in States, key[u] = key[t] PROVE r < u
    <3>1. g <= u
      BY <2>2 DEF IsFirst
    <3> QED BY <2>1, <3>1
  <2> QED BY <2>1, <2>2 DEF Before
<1>2. f \in Before(key, t) /\ f \notin Before(key, s)
  BY DEF Before, IsFirst
<1>3. /\ IsFiniteSet(Before(key, t))
      /\ Cardinality(Before(key, s)) \in Nat /\ Cardinality(Before(key, t)) \in Nat
  BY BeforeFinite DEF States
<1>4. Cardinality(Before(key, s)) <= Cardinality(Before(key, t))
  BY <1>1, <1>3, FS_Subset
<1>5. Cardinality(Before(key, s)) # Cardinality(Before(key, t))
  BY <1>1, <1>2, <1>3, FS_Subset
<1> QED BY <1>3, <1>4, <1>5

\* Two states get one number exactly when they have one key.
LEMMA NumberingIsKey ==
  ASSUME NEW key, NEW s \in States, NEW t \in States
  PROVE  Numbering(key)[s] = Numbering(key)[t] <=> key[s] = key[t]
<1>1. ASSUME key[s] = key[t] PROVE Before(key, s) = Before(key, t)
  BY <1>1 DEF Before
<1>2. ASSUME key[s] # key[t]
      PROVE  Cardinality(Before(key, s)) # Cardinality(Before(key, t))
  <2>1. PICK f \in States : key[f] = key[s] /\ IsFirst(key, f)
    BY FirstExists
  <2>2. PICK g \in States : key[g] = key[t] /\ IsFirst(key, g)
    BY FirstExists
  <2>3. f < g \/ g < f
    BY <1>2, <2>1, <2>2, StatesFinite DEF IsFirst
  <2>4. f < g => Cardinality(Before(key, s)) < Cardinality(Before(key, t))
    BY <2>1, <2>2, LaterIsLarger
  <2>5. g < f => Cardinality(Before(key, t)) < Cardinality(Before(key, s))
    BY <2>1, <2>2, LaterIsLarger
  <2>6. Cardinality(Before(key, s)) \in Nat /\ Cardinality(Before(key, t)) \in Nat
    BY BeforeFinite DEF States
  <2> QED BY <2>3, <2>4, <2>5, <2>6
<1> QED BY <1>1, <1>2, NumberingIsBefore

LEMMA NumberingType ==
  ASSUME NEW key
  PROVE  Numbering(key) \in [States -> States]
BY NumberingIsBefore, BeforeFinite

\* The numbers are canonical: they depend on which states agree, not on keys.
LEMMA SameKernelSameNumbers ==
  ASSUME NEW k1, NEW k2,
         \A s, t \in States : k1[s] = k1[t] <=> k2[s] = k2[t]
  PROVE  Numbering(k1) = Numbering(k2)
<1>1. \A t \in States : IsFirst(k1, t) <=> IsFirst(k2, t)
  BY DEF IsFirst
<1>2. \A s \in States : Before(k1, s) = Before(k2, s)
  BY <1>1 DEF Before
<1> QED BY <1>2, NumberingIsBefore

LEMMA NumberingIsCanonical ==
  ASSUME NEW key
  PROVE  Numbering(Numbering(key)) = Numbering(key)
BY NumberingIsKey, SameKernelSameNumbers

LEMMA DistinctBounded ==
  ASSUME NEW key, key = [s \in States |-> key[s]]
  PROVE  Distinct(key) \in 0 .. StateCount
<1> DEFINE K == {key[s] : s \in States}
<1>1. key \in Surjection(States, K)
  BY DEF Surjection
<1>2. IsFiniteSet(K) /\ Cardinality(K) <= StateCount
  BY <1>1, StatesFinite, FS_Surjection
<1>3. Cardinality(K) \in Nat
  BY <1>2, FS_CardinalityType
<1> QED BY <1>2, <1>3, SizesAssumption DEF Distinct

-------------------------------------------------------------------------------
\* What equality of two signatures says.
LEMMA SignatureIsBoth ==
  ASSUME NEW m, NEW c, NEW s \in States, NEW t \in States
  PROVE  Signature(m, c)[s] = Signature(m, c)[t] <=>
           /\ m.observation[s] = m.observation[t]
           /\ \A a \in Alphabet : c[m.transition[s][a]] = c[m.transition[t][a]]
<1> DEFINE F(x) == [a \in Alphabet |-> c[m.transition[x][a]]]
<1>1. F(s) = F(t) <=> \A a \in Alphabet : c[m.transition[s][a]] = c[m.transition[t][a]]
  <2>1. ASSUME F(s) = F(t), NEW a \in Alphabet
        PROVE  c[m.transition[s][a]] = c[m.transition[t][a]]
    <3>1. F(s)[a] = F(t)[a]
      BY <2>1
    <3> QED BY <3>1
  <2> QED BY <2>1
<1>2. Signature(m, c)[s] = <<m.observation[s], F(s)>> /\ Signature(m, c)[t] = <<m.observation[t], F(t)>>
  BY DEF Signature
<1> QED BY <1>1, <1>2

\* One turn over canonical numbers that signatures only split: the new numbers
\* are canonical, finer, and split by their own signatures only.
LEMMA TurnRefines ==
  ASSUME NEW m, Valid(m), NEW c, Refines(Signature(m, c), c)
  PROVE  LET n == Numbering(Signature(m, c))
         IN  /\ n \in [States -> States] /\ n = Numbering(n)
             /\ Refines(n, c)
             /\ Refines(n, m.observation)
             /\ Refines(Signature(m, n), n)
<1> DEFINE n == Numbering(Signature(m, c))
<1>1. \A s, t \in States : n[s] = n[t] <=> Signature(m, c)[s] = Signature(m, c)[t]
  BY NumberingIsKey
<1>2. n \in [States -> States] /\ n = Numbering(n)
  BY NumberingType, NumberingIsCanonical
<1> HIDE DEF n
<1>3. Refines(n, c)
  BY <1>1 DEF Refines
<1>4. Refines(n, m.observation)
  BY <1>1, SignatureIsBoth DEF Refines
<1>5. ASSUME NEW s \in States, NEW t \in States, Signature(m, n)[s] = Signature(m, n)[t]
      PROVE  n[s] = n[t]
  <2>1. /\ m.observation[s] = m.observation[t]
        /\ \A a \in Alphabet : n[m.transition[s][a]] = n[m.transition[t][a]]
    BY <1>5, SignatureIsBoth
  <2>2. \A a \in Alphabet : m.transition[s][a] \in States /\ m.transition[t][a] \in States
    BY DEF Valid
  <2>3. \A a \in Alphabet : c[m.transition[s][a]] = c[m.transition[t][a]]
    BY <2>1, <2>2, <1>3 DEF Refines
  <2>4. Signature(m, c)[s] = Signature(m, c)[t]
    BY <2>1, <2>3, SignatureIsBoth
  <2> QED BY <2>4, <1>1
<1>6. Refines(Signature(m, n), n)
  BY <1>5 DEF Refines
<1> QED BY <1>2, <1>3, <1>4, <1>6 DEF n

LEMMA SignatureDistinct ==
  ASSUME NEW m, NEW c
  PROVE  Distinct(Signature(m, c)) \in 0 .. StateCount
<1>1. Signature(m, c) = [s \in States |-> Signature(m, c)[s]]
  BY DEF Signature
<1> QED BY <1>1, DistinctBounded

LEMMA InitIInv == Init => IInv
BY MachinesAssumption, StatesFinite, SizesAssumption DEF Init, IInv, TypeOK, Running

LEMMA NextKeepsIInv == IInv /\ [Next]_vars => IInv'
<1> SUFFICES ASSUME IInv, [Next]_vars PROVE IInv'
  OBVIOUS
<1>1. CASE Reject
  BY <1>1 DEF Reject, IInv, TypeOK, Running
<1>2. CASE Seed
  <2> DEFINE o == machine.observation
             n == Numbering(o)
  <2>1. /\ Valid(machine) /\ class_of' = n /\ class_count' = Distinct(o)
        /\ pc' = "refine" /\ machine' = machine /\ machine \in Arrays
    BY <1>2 DEF Seed, IInv, TypeOK
  <2>2. n \in [States -> States] /\ n = Numbering(n)
    BY NumberingType, NumberingIsCanonical
  <2>3. \A s, t \in States : n[s] = n[t] <=> o[s] = o[t]
    BY NumberingIsKey
  <2>4. Distinct(o) \in 0 .. StateCount
    <3>1. o = [s \in States |-> o[s]]
      BY <2>1 DEF Arrays
    <3> QED BY <3>1, DistinctBounded
  <2> HIDE DEF n
  <2>5. Refines(n, o) /\ Refines(Signature(machine, n), n)
    BY <2>3, SignatureIsBoth DEF Refines
  <2> HIDE DEF o
  <2> QED BY <2>1, <2>2, <2>4, <2>5 DEF IInv, TypeOK, Running, o
<1>3. CASE Refine
  <2> DEFINE n == Numbering(Signature(machine, class_of))
  <2>1. /\ Valid(machine) /\ Refines(Signature(machine, class_of), class_of)
        /\ class_of' = n /\ class_count' = Distinct(Signature(machine, class_of))
        /\ pc = "refine" /\ pc' = pc /\ machine' = machine /\ machine \in Arrays
    BY <1>3 DEF Refine, IInv, TypeOK, Running
  <2>2. /\ n \in [States -> States] /\ n = Numbering(n)
        /\ Refines(n, machine.observation)
        /\ Refines(Signature(machine, n), n)
    BY <2>1, TurnRefines
  <2>3. class_count' \in 0 .. StateCount
    BY <2>1, SignatureDistinct
  <2> HIDE DEF n
  <2> QED BY <2>1, <2>2, <2>3 DEF IInv, TypeOK, Running
<1>4. CASE Return
  <2>1. class_count' \in 0 .. StateCount
    BY <1>4, SignatureDistinct DEF Return
  <2> QED BY <1>4, <2>1 DEF Return, IInv, TypeOK, Running
<1>5. CASE UNCHANGED vars
  BY <1>5 DEF vars, IInv, TypeOK, Running
<1> QED BY <1>1, <1>2, <1>3, <1>4, <1>5 DEF Next

\* The strengthened invariant of the loop.
THEOREM InvariantHolds == Spec => []IInv
<1> QED BY InitIInv, NextKeepsIInv, PTL DEF Spec

\* Class numbers are indices of the table: seen[cls] is never out of range.
THEOREM TypeCorrect == Spec => []TypeOK
<1>1. IInv => TypeOK
  BY DEF IInv
<1> QED BY <1>1, InvariantHolds, PTL

\* The partition returned is a congruence for observation and letters.
THEOREM CongruenceReturned == Spec => []ClassesAreCongruent
<1>1. IInv => ClassesAreCongruent
  <2> SUFFICES ASSUME IInv, pc = "returned",
                      NEW p \in {p \in States \X States : class_of[p[1]] = class_of[p[2]]}
               PROVE  /\ machine.observation[p[1]] = machine.observation[p[2]]
                      /\ \A a \in Alphabet :
                           <<machine.transition[p[1]][a], machine.transition[p[2]][a]>>
                             \in {q \in States \X States : class_of[q[1]] = class_of[q[2]]}
    BY DEF ClassesAreCongruent, Bisimulation
  <2>1. Signature(machine, class_of)[p[1]] = Signature(machine, class_of)[p[2]]
    BY NumberingIsKey DEF IInv
  <2>2. /\ machine.observation[p[1]] = machine.observation[p[2]]
        /\ \A a \in Alphabet : class_of[machine.transition[p[1]][a]]
                               = class_of[machine.transition[p[2]][a]]
    BY <2>1, SignatureIsBoth
  <2>3. \A a \in Alphabet : /\ machine.transition[p[1]][a] \in States
                            /\ machine.transition[p[2]][a] \in States
    BY DEF IInv, Running, Valid
  <2> QED BY <2>2, <2>3
<1> QED BY <1>1, InvariantHolds, PTL

LEMMA RefineSplits ==
  ASSUME IInv, Refine
  PROVE  Refines(class_of', class_of) /\ ~Refines(class_of, class_of')
<1>1. /\ class_of' = Numbering(Signature(machine, class_of)) /\ class_of' # class_of
      /\ class_of = Numbering(class_of) /\ class_of' = Numbering(class_of')
      /\ Refines(class_of', class_of)
  BY TurnRefines, NumberingIsCanonical DEF Refine, IInv, Running
<1>2. ASSUME Refines(class_of, class_of') PROVE FALSE
  <2>1. \A s, t \in States : class_of[s] = class_of[t] <=> class_of'[s] = class_of'[t]
    BY <1>1, <1>2 DEF Refines
  <2>2. Numbering(class_of) = Numbering(class_of')
    BY <2>1, SameKernelSameNumbers
  <2> QED BY <1>1, <2>2
<1> QED BY <1>1, <1>2

\* Every turn splits a class and merges none; with at most StateCount classes
\* the loop cannot go on for more turns than there are states.
THEOREM TurnsSplit == Spec => EachTurnSplits
<1>1. IInv /\ [Next]_vars =>
        [pc = "refine" /\ pc' = "refine" =>
           Refines(class_of', class_of) /\ ~Refines(class_of, class_of')]_vars
  <2> SUFFICES ASSUME IInv, Next, pc = "refine", pc' = "refine"
               PROVE  Refines(class_of', class_of) /\ ~Refines(class_of, class_of')
    OBVIOUS
  <2>1. Refine
    BY DEF Next, Reject, Seed, Return
  <2> QED BY <2>1, RefineSplits
<1> QED BY <1>1, InvariantHolds, PTL DEF Spec, EachTurnSplits

-------------------------------------------------------------------------------
Respects(R) == \A p \in R : class_of[p[1]] = class_of[p[2]]

\* No turn separates two states that a bisimulation relates.
NeverSplitsEquivalents ==
  Running => \A R \in SUBSET (States \X States) : Bisimulation(machine, R) => Respects(R)

\* With CongruenceReturned: the partition minimal_partition returns is the
\* coarsest one, whatever the machine.
THEOREM CoarsestReturned == Spec => []NeverSplitsEquivalents
<1>1. Init => NeverSplitsEquivalents
  BY DEF Init, NeverSplitsEquivalents, Running
<1>2. IInv /\ NeverSplitsEquivalents /\ [Next]_vars => NeverSplitsEquivalents'
  <2> SUFFICES ASSUME IInv, NeverSplitsEquivalents, [Next]_vars, Running',
                      NEW R \in SUBSET (States \X States), Bisimulation(machine', R),
                      NEW p \in R
               PROVE  class_of'[p[1]] = class_of'[p[2]]
    BY DEF NeverSplitsEquivalents, Respects
  <2>0. p[1] \in States /\ p[2] \in States
    OBVIOUS
  <2>1. CASE Seed
    <3>1. machine.observation[p[1]] = machine.observation[p[2]]
      BY <2>1 DEF Seed, Bisimulation
    <3> QED BY <2>0, <2>1, <3>1, NumberingIsKey DEF Seed
  <2>2. CASE Refine
    <3>1. Respects(R) /\ machine' = machine
      BY <2>2 DEF Refine, NeverSplitsEquivalents, Running
    <3>2. /\ machine.observation[p[1]] = machine.observation[p[2]]
          /\ \A a \in Alphabet : class_of[machine.transition[p[1]][a]]
                                 = class_of[machine.transition[p[2]][a]]
      BY <3>1 DEF Bisimulation, Respects
    <3>3. Signature(machine, class_of)[p[1]] = Signature(machine, class_of)[p[2]]
      BY <2>0, <3>2, SignatureIsBoth
    <3> QED BY <2>0, <2>2, <3>3, NumberingIsKey DEF Refine
  <2>3. CASE Return \/ UNCHANGED vars
    BY <2>3 DEF Return, vars, NeverSplitsEquivalents, Running, Respects
  <2>4. ~Reject
    BY DEF Reject, Running
  <2> QED BY <2>1, <2>2, <2>3, <2>4 DEF Next
<1> QED BY <1>1, <1>2, InvariantHolds, PTL DEF Spec

-------------------------------------------------------------------------------
(* Words: the classes against what words tell apart. *)

LEMMA AfterIsRun ==
  ASSUME NEW m, NEW s, NEW w
  PROVE  After(m, s, w) = RunOver(m.transition, s, w)
BY DEF After, RunOver

LEMMA ValidMoves ==
  ASSUME NEW m, Valid(m)
  PROVE  Moves(m.transition, States, Alphabet)
BY DEF Valid, Moves

\* No word of at most n letters tells s and t apart.
Agree(m, n, s, t) ==
  \A k \in 0 .. n : \A w \in Letters(k, Alphabet) :
    m.observation[After(m, s, w)] = m.observation[After(m, t, w)]

\* States that agree on words of n + 1 letters show the same, and each letter
\* leads them to states that agree on words of n.
LEMMA AgreeSteps ==
  ASSUME NEW m, Valid(m), NEW n \in Nat, NEW s \in States, NEW t \in States,
         Agree(m, n + 1, s, t)
  PROVE  /\ m.observation[s] = m.observation[t]
         /\ \A a \in Alphabet : Agree(m, n, m.transition[s][a], m.transition[t][a])
<1> DEFINE delta == m.transition
<1>0. Moves(delta, States, Alphabet)
  BY ValidMoves
<1>1. m.observation[s] = m.observation[t]
  <2> DEFINE w == [i \in 1 .. 0 |-> 0]
  <2>1. w \in Letters(0, Alphabet) /\ 0 \in 0 .. n + 1
    BY DEF Letters
  <2> HIDE DEF w
  <2>2. RunOver(delta, s, w) = s /\ RunOver(delta, t, w) = t
    BY <1>0, <2>1, RunOfNone
  <2> QED BY <2>1, <2>2, AfterIsRun DEF Agree
<1>2. ASSUME NEW a \in Alphabet, NEW k \in 0 .. n, NEW v \in Letters(k, Alphabet)
      PROVE  m.observation[After(m, delta[s][a], v)] = m.observation[After(m, delta[t][a], v)]
  <2> DEFINE w == [i \in 1 .. k + 1 |-> IF i = 1 THEN a ELSE v[i - 1]]
             u == [i \in 1 .. k |-> w[i + 1]]
  <2>1. k \in Nat /\ w \in Letters(k + 1, Alphabet) /\ w[1] = a /\ k + 1 \in 0 .. n + 1
    BY DEF Letters
  <2>2. u = v
    <3>1. v = [i \in 1 .. k |-> v[i]]
      BY DEF Letters
    <3>2. ASSUME NEW i \in 1 .. k PROVE w[i + 1] = v[i]
      <4>1. i + 1 \in 1 .. k + 1 /\ i + 1 # 1 /\ (i + 1) - 1 = i
        OBVIOUS
      <4> QED BY <4>1
    <3> HIDE DEF w
    <3> QED BY <3>1, <3>2
  <2> HIDE DEF w, delta, u
  <2>3. ASSUME NEW q \in States PROVE RunOver(delta, q, w) = RunOver(delta, delta[q][a], v)
    <3>1. u = [i \in 1 .. k |-> w[i + 1]]
      BY DEF u
    <3> QED BY <1>0, <2>1, <2>2, <3>1, RunFirstLetter
  <2>4. m.observation[After(m, s, w)] = m.observation[After(m, t, w)]
    BY <2>1 DEF Agree
  <2> USE DEF delta
  <2> QED BY <2>3, <2>4, AfterIsRun
<1> QED BY <1>1, <1>2 DEF Agree

\* States of one class agree on every word, however long.
LEMMA OneClassAgrees ==
  ASSUME NEW m, Valid(m), NEW c,
         \A s, t \in States : c[s] = c[t] =>
           /\ m.observation[s] = m.observation[t]
           /\ \A a \in Alphabet : c[m.transition[s][a]] = c[m.transition[t][a]]
  PROVE  \A n \in Nat : \A s, t \in States : c[s] = c[t] => Agree(m, n, s, t)
<1> DEFINE delta == m.transition
           Agreeing(n) == \A w \in Letters(n, Alphabet) : \A s, t \in States :
                        c[s] = c[t] => c[RunOver(delta, s, w)] = c[RunOver(delta, t, w)]
           T == {n \in Nat : Agreeing(n)}
<1>0. Moves(delta, States, Alphabet)
  BY ValidMoves
<1>1. 0 \in T
  <2> SUFFICES ASSUME NEW w \in Letters(0, Alphabet), NEW s \in States, NEW t \in States, c[s] = c[t]
               PROVE  c[RunOver(delta, s, w)] = c[RunOver(delta, t, w)]
    OBVIOUS
  <2> HIDE DEF delta
  <2>1. RunOver(delta, s, w) = s /\ RunOver(delta, t, w) = t
    BY <1>0, RunOfNone
  <2> QED BY <2>1
<1>2. \A n \in Nat : n \in T => n + 1 \in T
  <2> SUFFICES ASSUME NEW n \in Nat, Agreeing(n), NEW w \in Letters(n + 1, Alphabet),
                      NEW s \in States, NEW t \in States, c[s] = c[t]
               PROVE  c[RunOver(delta, s, w)] = c[RunOver(delta, t, w)]
    OBVIOUS
  <2> DEFINE v == [i \in 1 .. n |-> w[i]]
  <2>1. v = [i \in 1 .. n |-> w[i]]
    OBVIOUS
  <2> HIDE DEF v
  <2>2. ASSUME NEW q \in States
        PROVE  /\ v \in Letters(n, Alphabet)
               /\ RunOver(delta, q, v) \in States
               /\ RunOver(delta, q, w) = delta[RunOver(delta, q, v)][w[n + 1]]
    <3> HIDE DEF delta
    <3> QED BY <1>0, <2>1, RunLastLetter
  <2>3. c[RunOver(delta, s, v)] = c[RunOver(delta, t, v)]
    BY <2>2
  <2>4. w[n + 1] \in Alphabet
    BY DEF Letters
  <2> QED BY <2>2, <2>3, <2>4
<1>3. \A n \in Nat : n \in T
  <2> HIDE DEF T
  <2> QED BY <1>1, <1>2, SetOfAllNaturals
<1>4. ASSUME NEW n \in Nat, NEW s \in States, NEW t \in States, c[s] = c[t],
             NEW k \in 0 .. n, NEW w \in Letters(k, Alphabet)
      PROVE  m.observation[After(m, s, w)] = m.observation[After(m, t, w)]
  <2>1. k \in Nat
    OBVIOUS
  <2>2. c[RunOver(delta, s, w)] = c[RunOver(delta, t, w)]
    BY <1>3, <1>4, <2>1
  <2>3. RunOver(delta, s, w) \in States /\ RunOver(delta, t, w) \in States
    <3> HIDE DEF delta
    <3> QED BY <1>0, <2>1, RunType
  <2> QED BY <2>2, <2>3, AfterIsRun
<1> QED BY <1>4 DEF Agree

LEMMA AgreementIsSameFuture ==
  ASSUME NEW m, NEW s, NEW t
  PROVE  SameFuture(m, s, t) <=> Agree(m, StateCount, s, t)
BY DEF SameFuture, Agree, Words, Letters

-------------------------------------------------------------------------------
(* How many classes there are. *)

Classes(c) == {c[s] : s \in States}

LEMMA ClassesFinite ==
  ASSUME NEW c
  PROVE  /\ IsFiniteSet(Classes(c)) /\ Cardinality(Classes(c)) \in 1 .. StateCount
<1> DEFINE h == [s \in States |-> c[s]]
<1>1. h \in Surjection(States, Classes(c))
  BY DEF Surjection, Classes
<1>2. IsFiniteSet(Classes(c)) /\ Cardinality(Classes(c)) <= StateCount
  BY <1>1, StatesFinite, FS_Surjection
<1>3. Classes(c) # {}
  BY StatesFinite DEF Classes
<1>4. Cardinality(Classes(c)) \in Nat /\ Cardinality(Classes(c)) # 0
  BY <1>2, <1>3, FS_CardinalityType, FS_EmptySet
<1> QED BY <1>2, <1>4, SizesAssumption

\* Two labellings with the same kernel have as many labels.
LEMMA SameKernelSameCount ==
  ASSUME NEW c, NEW d, Refines(c, d), Refines(d, c)
  PROVE  Cardinality(Classes(c)) = Cardinality(Classes(d))
<1> DEFINE h == [k \in Classes(c) |-> d[CHOOSE s \in States : c[s] = k]]
<1>1. ASSUME NEW s \in States PROVE c[s] \in Classes(c) /\ h[c[s]] = d[s]
  <2>1. c[s] \in Classes(c)
    BY DEF Classes
  <2>2. c[CHOOSE q \in States : c[q] = c[s]] = c[s] /\ (CHOOSE q \in States : c[q] = c[s]) \in States
    OBVIOUS
  <2> QED BY <2>1, <2>2 DEF Refines
<1> HIDE DEF h
<1>2. DOMAIN h = Classes(c) /\ h = [k \in Classes(c) |-> h[k]]
  BY DEF h
<1>3. h \in Bijection(Classes(c), Classes(d))
  <2>1. h \in [Classes(c) -> Classes(d)]
    BY <1>1, <1>2 DEF Classes
  <2>2. \A k, l \in Classes(c) : h[k] = h[l] => k = l
    BY <1>1 DEF Classes, Refines
  <2>3. \A k \in Classes(d) : \E l \in Classes(c) : h[l] = k
    BY <1>1 DEF Classes
  <2> QED BY <2>1, <2>2, <2>3 DEF Bijection, Injection, Surjection, IsInjective
<1>4. ExistsBijection(Classes(c), Classes(d)) /\ IsFiniteSet(Classes(c))
  BY <1>3, ClassesFinite DEF ExistsBijection
<1> QED BY <1>4, FS_Bijection, Zenon

\* A labelling that splits a class and merges none has more labels.
LEMMA SplittingAddsAClass ==
  ASSUME NEW c, NEW d, Refines(d, c), ~Refines(c, d)
  PROVE  Cardinality(Classes(c)) + 1 <= Cardinality(Classes(d))
<1>1. PICK p, q \in States : c[p] = c[q] /\ d[p] # d[q]
  BY DEF Refines
<1> DEFINE L == Classes(d) \ {d[p]}
           h == [k \in L |-> c[CHOOSE s \in States : d[s] = k]]
<1>2. ASSUME NEW s \in States, d[s] # d[p] PROVE d[s] \in L /\ h[d[s]] = c[s]
  <2>1. d[s] \in L
    BY <1>2 DEF Classes
  <2>2. d[CHOOSE x \in States : d[x] = d[s]] = d[s] /\ (CHOOSE x \in States : d[x] = d[s]) \in States
    OBVIOUS
  <2> QED BY <2>1, <2>2 DEF Refines
<1>3. h = [k \in L |-> h[k]] /\ d[p] \in Classes(d)
  BY DEF Classes
<1>4. \A k \in L : \E s \in States : k = d[s] /\ d[s] # d[p]
  BY DEF Classes
<1>5. IsFiniteSet(L) /\ Cardinality(L) = Cardinality(Classes(d)) - 1
  BY <1>3, ClassesFinite, FS_RemoveElement
<1> HIDE DEF h, L
<1>6. h \in Surjection(L, Classes(c))
  <2>1. h \in [L -> Classes(c)]
    BY <1>2, <1>3, <1>4 DEF Classes
  <2>2. ASSUME NEW s \in States PROVE \E l \in L : h[l] = c[s]
    <3>1. CASE d[s] # d[p]
      BY <1>2, <3>1
    <3>2. CASE d[s] = d[p]
      <4>1. c[s] = c[q]
        BY <1>1, <3>2 DEF Refines
      <4> QED BY <4>1, <1>1, <1>2
    <3> QED BY <3>1, <3>2
  <2> QED BY <2>1, <2>2 DEF Surjection, Classes
<1>7. Cardinality(Classes(c)) <= Cardinality(L)
  BY <1>5, <1>6, FS_Surjection
<1> QED BY <1>5, <1>7, ClassesFinite

-------------------------------------------------------------------------------
\* A turn of the loop is worth a letter: with k classes, what words of less than
\* k letters do not tell apart is in one class.  And the count that is returned
\* is the count of the last signatures.
ShortWordsDecide ==
  /\ Running =>
       \A s, t \in States :
         Agree(machine, Cardinality(Classes(class_of)) - 1, s, t) => class_of[s] = class_of[t]
  /\ pc = "returned" => class_count = Distinct(Signature(machine, class_of))

LEMMA StepKeepsShortWords == IInv /\ ShortWordsDecide /\ [Next]_vars => ShortWordsDecide'
<1> SUFFICES ASSUME IInv, ShortWordsDecide, [Next]_vars PROVE ShortWordsDecide'
  OBVIOUS
<1>1. CASE Reject
  BY <1>1 DEF Reject, ShortWordsDecide, Running
<1>2. CASE Seed
  <2>1. /\ Valid(machine) /\ machine' = machine /\ class_of' = Numbering(machine.observation)
        /\ pc' = "refine"
    BY <1>2 DEF Seed
  <2> DEFINE n == Cardinality(Classes(class_of')) - 1
  <2>2. ASSUME NEW s \in States, NEW t \in States, Agree(machine, n, s, t)
        PROVE  class_of'[s] = class_of'[t]
    <3>1. n \in Nat
      BY ClassesFinite
    <3>2. machine.observation[s] = machine.observation[t]
      <4> DEFINE w == [i \in 1 .. 0 |-> 0]
      <4>1. w \in Letters(0, Alphabet) /\ 0 \in 0 .. n
        BY <3>1 DEF Letters
      <4> HIDE DEF w, n
      <4>2. After(machine, s, w) = s /\ After(machine, t, w) = t
        BY <2>1, <4>1, ValidMoves, RunOfNone, AfterIsRun
      <4> QED BY <2>2, <4>1, <4>2 DEF Agree
    <3> QED BY <2>1, <3>2, NumberingIsKey
  <2> QED BY <2>1, <2>2 DEF ShortWordsDecide, Running
<1>3. CASE Refine
  <2>1. /\ Valid(machine) /\ machine' = machine /\ pc = "refine" /\ pc' = pc
        /\ class_of' = Numbering(Signature(machine, class_of))
    BY <1>3 DEF Refine, IInv, Running
  <2>2. Refines(class_of', class_of) /\ ~Refines(class_of, class_of')
    BY <1>3, <2>1, RefineSplits
  <2> DEFINE n == Cardinality(Classes(class_of)) - 1
             k == Cardinality(Classes(class_of')) - 1
  <2>3. n \in Nat /\ k \in Nat /\ n + 1 <= k
    BY <2>2, SplittingAddsAClass, ClassesFinite
  <2>4. ASSUME NEW s \in States, NEW t \in States, Agree(machine, k, s, t)
        PROVE  class_of'[s] = class_of'[t]
    <3>1. Agree(machine, n + 1, s, t)
      BY <2>3, <2>4 DEF Agree
    <3> HIDE DEF n, k
    <3>2. /\ machine.observation[s] = machine.observation[t]
          /\ \A a \in Alphabet :
               Agree(machine, n, machine.transition[s][a], machine.transition[t][a])
      BY <2>1, <2>3, <3>1, AgreeSteps
    <3>3. ASSUME NEW a \in Alphabet
          PROVE  class_of[machine.transition[s][a]] = class_of[machine.transition[t][a]]
      <4>1. machine.transition[s][a] \in States /\ machine.transition[t][a] \in States
        BY <2>1 DEF Valid
      <4> QED BY <2>1, <3>2, <4>1 DEF ShortWordsDecide, Running, n
    <3>4. Signature(machine, class_of)[s] = Signature(machine, class_of)[t]
      BY <3>2, <3>3, SignatureIsBoth
    <3> QED BY <2>1, <3>4, NumberingIsKey
  <2> QED BY <2>1, <2>4 DEF ShortWordsDecide, Running
<1>4. CASE Return
  BY <1>4 DEF Return, ShortWordsDecide, Running
<1>5. CASE UNCHANGED vars
  BY <1>5 DEF vars, ShortWordsDecide, Running
<1> QED BY <1>1, <1>2, <1>3, <1>4, <1>5 DEF Next

LEMMA InitShortWords == Init => ShortWordsDecide
BY DEF Init, ShortWordsDecide, Running

\* At the end the classes are the futures.
LEMMA ReturnedIsFuture ==
  ASSUME IInv, ShortWordsDecide, pc = "returned", NEW s \in States, NEW t \in States
  PROVE  class_of[s] = class_of[t] <=> SameFuture(machine, s, t)
<1>0. /\ Valid(machine) /\ StateCount \in Nat
      /\ Numbering(Signature(machine, class_of)) = class_of
  BY SizesAssumption DEF IInv, Running
<1>1. ASSUME NEW p \in States, NEW q \in States, class_of[p] = class_of[q]
      PROVE  /\ machine.observation[p] = machine.observation[q]
             /\ \A a \in Alphabet : class_of[machine.transition[p][a]]
                                    = class_of[machine.transition[q][a]]
  <2>1. Signature(machine, class_of)[p] = Signature(machine, class_of)[q]
    BY <1>0, <1>1, NumberingIsKey
  <2> QED BY <2>1, SignatureIsBoth
<1>2. class_of[s] = class_of[t] => Agree(machine, StateCount, s, t)
  BY <1>0, <1>1, OneClassAgrees
<1>3. ASSUME Agree(machine, StateCount, s, t) PROVE class_of[s] = class_of[t]
  <2> DEFINE n == Cardinality(Classes(class_of)) - 1
  <2>1. n \in Nat /\ n <= StateCount
    BY ClassesFinite, SizesAssumption
  <2>2. Agree(machine, n, s, t)
    BY <1>0, <1>3, <2>1 DEF Agree
  <2> QED BY <2>2 DEF ShortWordsDecide, Running
<1> QED BY <1>2, <1>3, AgreementIsSameFuture

LEMMA ReturnedCountsFutures ==
  IInv /\ ShortWordsDecide => ClassesAreFutures
<1> SUFFICES ASSUME IInv, ShortWordsDecide, pc = "returned"
             PROVE  LET same == {p \in States \X States : SameFuture(machine, p[1], p[2])}
                    IN  /\ \A s, t \in States : FutureEquivalent(s, t) <=> <<s, t>> \in same
                        /\ class_count = Cardinality({{t \in States : <<s, t>> \in same} : s \in States})
  BY DEF ClassesAreFutures
<1> DEFINE same == {p \in States \X States : SameFuture(machine, p[1], p[2])}
           future == [s \in States |-> {t \in States : <<s, t>> \in same}]
           signature == Signature(machine, class_of)
<1>1. \A s, t \in States : <<s, t>> \in same <=> class_of[s] = class_of[t]
  <2> SUFFICES ASSUME NEW s \in States, NEW t \in States
               PROVE  SameFuture(machine, s, t) <=> class_of[s] = class_of[t]
    OBVIOUS
  <2> QED BY ReturnedIsFuture
<1>2. \A s, t \in States : signature[s] = signature[t] <=> class_of[s] = class_of[t]
  BY NumberingIsKey DEF IInv
<1>3. \A s, t \in States : future[s] = future[t] <=> class_of[s] = class_of[t]
  <2> HIDE DEF same
  <2> SUFFICES ASSUME NEW s \in States, NEW t \in States
               PROVE  future[s] = future[t] <=> class_of[s] = class_of[t]
    OBVIOUS
  <2>1. future[s] = {x \in States : class_of[s] = class_of[x]}
        /\ future[t] = {x \in States : class_of[t] = class_of[x]}
    BY <1>1
  <2>2. t \in future[t]
    BY <2>1
  <2> HIDE DEF future
  <2>3. future[s] = future[t] => class_of[s] = class_of[t]
    BY <2>1, <2>2
  <2>4. class_of[s] = class_of[t] => future[s] = future[t]
    BY <2>1
  <2> QED BY <2>3, <2>4
<1>4. Cardinality(Classes(signature)) = Cardinality(Classes(future))
  <2> HIDE DEF signature, future
  <2> QED BY <1>2, <1>3, SameKernelSameCount DEF Refines
<1>5. Classes(future) = {{t \in States : <<s, t>> \in same} : s \in States}
  BY DEF Classes
<1>6. class_count = Cardinality(Classes(signature))
  BY DEF ShortWordsDecide, Distinct, Classes
<1> QED BY <1>1, <1>4, <1>5, <1>6 DEF FutureEquivalent

-------------------------------------------------------------------------------
(* The complement bits. *)

LEMMA CapacityDoubles ==
  /\ Capacity[0] = 1
  /\ \A b \in 1 .. StateCount : Capacity[b] = 2 * Capacity[b - 1]
  /\ \A b \in 0 .. StateCount : Capacity[b] \in Nat /\ Capacity[b] > b
<1> DEFINE D == 0 .. StateCount
           Doubled(g) == [b \in D |-> IF b = 0 THEN 1 ELSE 2 * g[b - 1]]
           rank == [b \in D |-> b]
           G == [g \in [D -> Nat] |-> Doubled(g)]
<1>0. StateCount \in Nat
  BY SizesAssumption
<1>1. \E g : g = Doubled(g)
  <2>1. G \in [[D -> Nat] -> [D -> Nat]]
    <3>1. ASSUME NEW g \in [D -> Nat] PROVE Doubled(g) \in [D -> Nat]
      <4>1. ASSUME NEW b \in D, b # 0 PROVE 2 * g[b - 1] \in Nat
        <5>1. b - 1 \in D
          BY <1>0, <4>1
        <5>2. g[b - 1] \in Nat
          BY <5>1
        <5> QED BY <5>2
      <4> QED BY <4>1
    <3> QED BY <3>1
  <2>2. \A g, h \in [D -> Nat] : \A b \in D :
          (\A c \in D : rank[c] < rank[b] => g[c] = h[c]) => G[g][b] = G[h][b]
    <3> SUFFICES ASSUME NEW g \in [D -> Nat], NEW h \in [D -> Nat], NEW b \in D,
                        \A c \in D : rank[c] < rank[b] => g[c] = h[c]
                 PROVE  G[g][b] = G[h][b]
      OBVIOUS
    <3>1. b # 0 => g[b - 1] = h[b - 1]
      <4>1. b # 0 => b - 1 \in D /\ b - 1 < b
        BY <1>0
      <4>2. \A c \in D : rank[c] = c
        OBVIOUS
      <4> HIDE DEF rank, D
      <4> QED BY <4>1, <4>2
    <3> QED BY <3>1
  <2>3. Recurses(D, Nat, StateCount, rank, G)
    <3>1. rank \in [D -> 0 .. StateCount]
      OBVIOUS
    <3> HIDE DEF D, rank, G
    <3> QED BY <1>0, <2>1, <2>2, <3>1 DEF Recurses
  <2>4. \E g \in [D -> Nat] : g = G[g]
    <3> HIDE DEF D, rank, G
    <3> QED BY <2>3, RecursionHasSolution
  <2> QED BY <2>4
<1>2. Capacity = Doubled(Capacity)
  BY <1>1 DEF Capacity
<1>3. /\ Capacity[0] = 1
      /\ \A b \in 1 .. StateCount : Capacity[b] = 2 * Capacity[b - 1]
  <2> HIDE DEF Capacity
  <2>1. 0 \in D /\ \A b \in 1 .. StateCount : b \in D /\ b # 0
    BY <1>0
  <2> QED BY <1>2, <2>1
<1> DEFINE T == {b \in Nat : b <= StateCount => Capacity[b] \in Nat /\ Capacity[b] > b}
<1> HIDE DEF Capacity
<1>4. 0 \in T
  BY <1>3
<1>5. \A b \in Nat : b \in T => b + 1 \in T
  <2> SUFFICES ASSUME NEW b \in Nat, b \in T, b + 1 <= StateCount
               PROVE  Capacity[b + 1] \in Nat /\ Capacity[b + 1] > b + 1
    OBVIOUS
  <2>1. Capacity[b] \in Nat /\ Capacity[b] > b
    BY <1>0
  <2>2. b + 1 \in 1 .. StateCount /\ (b + 1) - 1 = b
    BY <1>0
  <2>3. Capacity[b + 1] = 2 * Capacity[b]
    BY <1>3, <2>2
  <2> QED BY <2>1, <2>3
<1>6. \A b \in Nat : b \in T
  <2> HIDE DEF T
  <2> QED BY <1>4, <1>5, SetOfAllNaturals
<1> QED BY <1>0, <1>3, <1>6

LEMMA BehindFinite ==
  ASSUME class_of \in [States -> States], NEW s \in States
  PROVE  /\ ClassesBehind(s) \subseteq States /\ class_of[s] \in ClassesBehind(s)
         /\ IsFiniteSet(ClassesBehind(s))
         /\ Cardinality(ClassesBehind(s)) \in 1 .. StateCount
<1>1. ClassesBehind(s) \subseteq States /\ class_of[s] \in ClassesBehind(s)
  BY DEF ClassesBehind
<1>2. /\ IsFiniteSet(ClassesBehind(s)) /\ Cardinality(ClassesBehind(s)) <= StateCount
      /\ Cardinality(ClassesBehind(s)) \in Nat
  BY <1>1, StatesFinite, FS_Subset, FS_CardinalityType
<1>3. Cardinality(ClassesBehind(s)) # 0
  BY <1>1, <1>2, FS_EmptySet
<1> QED BY <1>1, <1>2, <1>3, SizesAssumption

\* The loop over capacity ends, at the first capacity that is enough.
LEMMA BitsAreLeast ==
  ASSUME class_of \in [States -> States]
  PROVE  /\ ComplementBits \in 0 .. StateCount
         /\ \A s \in States : Cardinality(ClassesBehind(s)) <= Capacity[ComplementBits]
         /\ ComplementBits > 0 =>
              \E s \in States : Capacity[ComplementBits - 1] < Cardinality(ClassesBehind(s))
<1> DEFINE Enough(b) == \A s \in States : Cardinality(ClassesBehind(s)) <= Capacity[b]
           T == {b \in 0 .. StateCount : Enough(b)}
<1>0. StateCount \in Nat
  BY SizesAssumption
<1>1. StateCount \in T
  <2>1. ASSUME NEW s \in States
        PROVE  Cardinality(ClassesBehind(s)) <= Capacity[StateCount]
    <3>1. StateCount \in 0 .. StateCount
      BY <1>0
    <3> HIDE DEF Capacity
    <3> QED BY <1>0, <3>1, CapacityDoubles, BehindFinite
  <2> QED BY <1>0, <2>1
<1>2. T \subseteq Nat
  OBVIOUS
<1>3. PICK b \in T : \A c \in T : b <= c
  <2> HIDE DEF T
  <2> QED BY <1>1, <1>2, LeastNatural
<1>4. b > 0 => \E s \in States : Capacity[b - 1] < Cardinality(ClassesBehind(s))
  <2> SUFFICES ASSUME b > 0, \A s \in States : ~(Capacity[b - 1] < Cardinality(ClassesBehind(s)))
               PROVE  FALSE
    OBVIOUS
  <2>1. b - 1 \in 0 .. StateCount
    BY <1>0
  <2>2. \A s \in States : Cardinality(ClassesBehind(s)) <= Capacity[b - 1]
    <3> HIDE DEF Capacity
    <3>1. Capacity[b - 1] \in Nat
      BY <2>1, CapacityDoubles
    <3> QED BY <3>1, BehindFinite
  <2>3. b - 1 \in T
    BY <2>1, <2>2
  <2> QED BY <1>3, <2>3
<1>5. \E x \in 0 .. StateCount :
        /\ \A s \in States : Cardinality(ClassesBehind(s)) <= Capacity[x]
        /\ x > 0 => \E s \in States : Capacity[x - 1] < Cardinality(ClassesBehind(s))
  BY <1>4
<1> QED BY <1>5 DEF ComplementBits

\* The complement of n labels names the class behind every observation.
Separates(label) ==
  \A p \in States \X States :
    machine.observation[p[1]] = machine.observation[p[2]] /\ class_of[p[1]] # class_of[p[2]]
      => label[p[1]] # label[p[2]]

LEMMA EnoughLabels ==
  ASSUME class_of \in [States -> States], NEW n \in Nat,
         \A s \in States : Cardinality(ClassesBehind(s)) <= n
  PROVE  \E label \in [States -> 0 .. n - 1] : Separates(label)
<1> DEFINE Below(s) == {c \in ClassesBehind(s) : c < class_of[s]}
           label == [s \in States |-> Cardinality(Below(s))]
<1>1. ASSUME NEW s \in States
      PROVE  /\ IsFiniteSet(Below(s)) /\ Cardinality(Below(s)) \in 0 .. n - 1
  <2>1. Below(s) \subseteq ClassesBehind(s) \ {class_of[s]}
    <3>1. class_of[s] \in Nat
      BY StatesFinite
    <3> QED BY <3>1
  <2>2. /\ IsFiniteSet(ClassesBehind(s) \ {class_of[s]})
        /\ Cardinality(ClassesBehind(s) \ {class_of[s]}) = Cardinality(ClassesBehind(s)) - 1
    BY BehindFinite, FS_RemoveElement
  <2>3. Cardinality(ClassesBehind(s)) \in 1 .. StateCount /\ Cardinality(ClassesBehind(s)) <= n
    BY BehindFinite
  <2> HIDE DEF Below
  <2>4. /\ IsFiniteSet(Below(s)) /\ Cardinality(Below(s)) \in Nat
        /\ Cardinality(Below(s)) <= Cardinality(ClassesBehind(s) \ {class_of[s]})
    BY <2>1, <2>2, FS_Subset, FS_CardinalityType
  <2> QED BY <2>2, <2>3, <2>4
<1>2. ASSUME NEW s \in States, NEW t \in States,
             machine.observation[s] = machine.observation[t], class_of[s] < class_of[t]
      PROVE  Cardinality(Below(s)) < Cardinality(Below(t))
  <2>0. class_of[s] \in Nat /\ class_of[t] \in Nat /\ ClassesBehind(s) \subseteq Nat
    BY StatesFinite, BehindFinite
  <2>1. ClassesBehind(s) = ClassesBehind(t)
    BY <1>2 DEF ClassesBehind
  <2>2. Below(s) \subseteq Below(t)
    BY <1>2, <2>0, <2>1
  <2>3. class_of[s] \in Below(t) /\ class_of[s] \notin Below(s)
    BY <1>2, <2>0, <2>1, BehindFinite
  <2> HIDE DEF Below
  <2>4. /\ IsFiniteSet(Below(t)) /\ Cardinality(Below(t)) \in Nat /\ Cardinality(Below(s)) \in Nat
    BY <1>1
  <2>5. Cardinality(Below(s)) <= Cardinality(Below(t)) /\ Cardinality(Below(s)) # Cardinality(Below(t))
    BY <2>2, <2>3, <2>4, FS_Subset
  <2> QED BY <2>4, <2>5
<1>3. label \in [States -> 0 .. n - 1]
  BY <1>1
<1>4. ASSUME NEW s \in States, NEW t \in States,
             machine.observation[s] = machine.observation[t], class_of[s] # class_of[t]
      PROVE  label[s] # label[t]
  <2>0. class_of[s] \in Nat /\ class_of[t] \in Nat
    BY StatesFinite
  <2>1. class_of[s] < class_of[t] \/ class_of[t] < class_of[s]
    BY <1>4, <2>0
  <2>2. Cardinality(Below(s)) < Cardinality(Below(t)) \/ Cardinality(Below(t)) < Cardinality(Below(s))
    <3> HIDE DEF Below
    <3> QED BY <1>2, <1>4, <2>1
  <2>3. Cardinality(Below(s)) \in Nat /\ Cardinality(Below(t)) \in Nat
    <3> HIDE DEF Below
    <3> QED BY <1>1
  <2>4. label[s] = Cardinality(Below(s)) /\ label[t] = Cardinality(Below(t))
    OBVIOUS
  <2> HIDE DEF Below, label
  <2> QED BY <2>2, <2>3, <2>4
<1>5. Separates(label)
  <2> HIDE DEF label
  <2> QED BY <1>4 DEF Separates
<1> HIDE DEF label
<1> QED BY <1>3, <1>5

\* No fewer labels do than there are classes behind one observation.
LEMMA FewerLabelsConfuse ==
  ASSUME class_of \in [States -> States], NEW n \in Nat, NEW s \in States,
         n < Cardinality(ClassesBehind(s)),
         NEW label \in [States -> 0 .. n - 1]
  PROVE  ~Separates(label)
<1> DEFINE B == ClassesBehind(s)
           rep(c) == CHOOSE t \in States : machine.observation[t] = machine.observation[s] /\ class_of[t] = c
           h == [c \in B |-> label[rep(c)]]
<1>1. ASSUME NEW c \in B
      PROVE  rep(c) \in States /\ machine.observation[rep(c)] = machine.observation[s] /\ class_of[rep(c)] = c
  <2>1. \E t \in States : machine.observation[t] = machine.observation[s] /\ class_of[t] = c
    BY DEF ClassesBehind
  <2> QED BY <2>1
<1>2. h \in [B -> 0 .. n - 1]
  BY <1>1
<1>3. IsFiniteSet(0 .. n - 1) /\ Cardinality(0 .. n - 1) = n /\ IsFiniteSet(B)
  <2>1. 0 \in Int /\ n - 1 \in Int
    OBVIOUS
  <2>2. /\ IsFiniteSet(0 .. n - 1)
        /\ Cardinality(0 .. n - 1) = IF 0 > n - 1 THEN 0 ELSE (n - 1) - 0 + 1
    BY <2>1, FS_Interval
  <2>3. IsFiniteSet(B)
    BY BehindFinite
  <2> QED BY <2>2, <2>3
<1>4. \E c, d \in B : c # d /\ h[c] = h[d]
  <2>1. Cardinality(0 .. n - 1) < Cardinality(B)
    BY <1>3
  <2> HIDE DEF B, h
  <2> QED BY <1>2, <1>3, <2>1, FS_PigeonHole
<1>5. PICK c \in B, d \in B : c # d /\ h[c] = h[d]
  BY <1>4
<1>6. label[rep(c)] = label[rep(d)]
  BY <1>5
<1>7. /\ rep(c) \in States /\ rep(d) \in States
      /\ machine.observation[rep(c)] = machine.observation[rep(d)]
      /\ class_of[rep(c)] # class_of[rep(d)]
  BY <1>1, <1>5
<1> HIDE DEF rep
<1>8. <<rep(c), rep(d)>> \in States \X States
  BY <1>7
<1> QED BY <1>6, <1>7, <1>8 DEF Separates

LEMMA ReturnedBitsAreTight ==
  IInv /\ ShortWordsDecide => ComplementIsTight
<1> SUFFICES ASSUME IInv, ShortWordsDecide, pc = "returned" PROVE ComplementIsTight
  BY DEF ComplementIsTight
<1> DEFINE confusable == {p \in States \X States :
                            /\ machine.observation[p[1]] = machine.observation[p[2]]
                            /\ ~SameFuture(machine, p[1], p[2])}
           Tells(label) == \A p \in confusable : label[p[1]] # label[p[2]]
<1>0. class_of \in [States -> States]
  BY DEF IInv, TypeOK
<1>1. ASSUME NEW label PROVE Tells(label) <=> Separates(label)
  <2>1. ASSUME NEW p \in States \X States
        PROVE  SameFuture(machine, p[1], p[2]) <=> class_of[p[1]] = class_of[p[2]]
    BY ReturnedIsFuture
  <2> QED BY <2>1 DEF Separates
<1> DEFINE b == ComplementBits
<1>2. /\ b \in 0 .. StateCount
      /\ \A s \in States : Cardinality(ClassesBehind(s)) <= Capacity[b]
      /\ b > 0 => \E s \in States : Capacity[b - 1] < Cardinality(ClassesBehind(s))
  BY <1>0, BitsAreLeast
<1> HIDE DEF b, Capacity
<1>3. Capacity[b] \in Nat /\ (b > 0 => b - 1 \in 0 .. StateCount)
      /\ (b > 0 => Capacity[b - 1] \in Nat /\ Capacity[b - 1] >= 1)
  <2>1. b > 0 => b - 1 \in 0 .. StateCount
    BY <1>2, SizesAssumption
  <2> QED BY <1>2, <2>1, CapacityDoubles
<1>4. \E label \in [States -> 0 .. Capacity[b] - 1] : Tells(label)
  <2>1. \E label \in [States -> 0 .. Capacity[b] - 1] : Separates(label)
    <3> DEFINE n == Capacity[b]
    <3>1. n \in Nat /\ \A s \in States : Cardinality(ClassesBehind(s)) <= n
      BY <1>2, <1>3
    <3> HIDE DEF n
    <3>2. \E label \in [States -> 0 .. n - 1] : Separates(label)
      BY <1>0, <3>1, EnoughLabels
    <3> QED BY <3>2 DEF n
  <2> HIDE DEF Tells
  <2> QED BY <1>1, <2>1
<1>5. b > 0 => ~ \E label \in [States -> 0 .. Capacity[b - 1] - 1] : Tells(label)
  <2> SUFFICES ASSUME b > 0, NEW label \in [States -> 0 .. Capacity[b - 1] - 1]
               PROVE  ~Separates(label)
    <3> HIDE DEF Tells
    <3> QED BY <1>1
  <2> DEFINE n == Capacity[b - 1]
  <2>1. PICK s \in States : n < Cardinality(ClassesBehind(s))
    BY <1>2
  <2>2. n \in Nat /\ label \in [States -> 0 .. n - 1]
    BY <1>3
  <2> HIDE DEF n
  <2> QED BY <1>0, <2>1, <2>2, FewerLabelsConfuse
<1>6. ObservationIsResumable <=> b = 0
  <2>1. ASSUME b = 0, NEW s \in States, NEW t \in States,
               machine.observation[s] = machine.observation[t]
        PROVE  class_of[s] = class_of[t]
    <3>1. Cardinality(ClassesBehind(s)) = 1 /\ IsFiniteSet(ClassesBehind(s))
      <4>1. Cardinality(ClassesBehind(s)) <= Capacity[0]
        BY <1>2, <2>1
      <4> QED BY <1>0, <4>1, CapacityDoubles, BehindFinite
    <3>2. class_of[s] \in ClassesBehind(s) /\ class_of[t] \in ClassesBehind(s)
      BY <2>1 DEF ClassesBehind
    <3>3. PICK c : ClassesBehind(s) = {c}
      BY <3>1, FS_Singleton
    <3> QED BY <3>2, <3>3
  <2>2. ASSUME ObservationIsResumable, b # 0 PROVE FALSE
    <3>1. PICK s \in States : Capacity[b - 1] < Cardinality(ClassesBehind(s))
      BY <1>2, <2>2
    <3>2. ClassesBehind(s) = {class_of[s]}
      BY <2>2 DEF ObservationIsResumable, ClassesBehind
    <3>3. Cardinality(ClassesBehind(s)) = 1
      BY <3>2, FS_Singleton
    <3>4. b > 0
      BY <1>2, <2>2
    <3> QED BY <1>3, <3>1, <3>3, <3>4
  <2> QED BY <2>1, <2>2 DEF ObservationIsResumable
<1> QED BY <1>4, <1>5, <1>6 DEF ComplementIsTight, b

-------------------------------------------------------------------------------
(* The search: its frontier, its mask and its certificate. *)

Elements(q) == {q[i] : i \in 1 .. Len(q)}

\* A push adds one element to the queue, at the back.
LEMMA PushElements ==
  ASSUME NEW q \in Seq(States), NEW s \in States
  PROVE  /\ Append(q, s) \in Seq(States)
         /\ Elements(Append(q, s)) = Elements(q) \cup {s}
<1>1. /\ Append(q, s) \in Seq(States)
      /\ Len(Append(q, s)) = Len(q) + 1
      /\ \A i \in 1 .. Len(q) : Append(q, s)[i] = q[i]
      /\ Append(q, s)[Len(q) + 1] = s
  OBVIOUS
<1>2. Len(q) \in Nat
  OBVIOUS
<1>3. 1 .. Len(q) + 1 = (1 .. Len(q)) \cup {Len(q) + 1}
  BY <1>2
<1> QED BY <1>1, <1>2, <1>3 DEF Elements

\* A pop removes the front element and no other.
LEMMA PopElements ==
  ASSUME NEW q \in Seq(States), q # <<>>
  PROVE  /\ Head(q) \in States
         /\ Tail(q) \in Seq(States)
         /\ Elements(q) = Elements(Tail(q)) \cup {Head(q)}
<1>1. /\ Head(q) \in States /\ Head(q) = q[1]
      /\ Tail(q) \in Seq(States)
      /\ Len(q) \in Nat /\ Len(q) >= 1
      /\ Len(Tail(q)) = Len(q) - 1
      /\ \A i \in 1 .. Len(q) - 1 : Tail(q)[i] = q[i + 1]
  OBVIOUS
<1>2. ASSUME NEW i \in 1 .. Len(q)
      PROVE  q[i] \in Elements(Tail(q)) \cup {Head(q)}
  <2>1. CASE i = 1
    BY <2>1, <1>1
  <2>2. CASE i # 1
    <3>1. i - 1 \in 1 .. Len(Tail(q)) /\ Tail(q)[i - 1] = q[i]
      BY <2>2, <1>1
    <3> QED BY <3>1 DEF Elements
  <2> QED BY <2>1, <2>2
<1>3. ASSUME NEW i \in 1 .. Len(Tail(q))
      PROVE  Tail(q)[i] \in Elements(q)
  <2>1. i + 1 \in 1 .. Len(q) /\ Tail(q)[i] = q[i + 1]
    BY <1>1
  <2> QED BY <2>1 DEF Elements
<1>4. Head(q) \in Elements(q)
  BY <1>1 DEF Elements
<1> QED BY <1>1, <1>2, <1>3, <1>4 DEF Elements

-------------------------------------------------------------------------------
LEMMA SearchInitKeepsIInv == SearchInit => SearchIInv
<1> SUFFICES ASSUME SearchInit PROVE SearchIInv
  OBVIOUS
<1>1. 0 \in States /\ AlphabetSize \in 0 .. AlphabetSize
  BY SizesAssumption DEF States
<1>2. machine \in Arrays
  BY MachinesAssumption DEF SearchInit
<1>3. <<>> \in Seq(States)
  OBVIOUS
<1> QED BY <1>1, <1>2, <1>3 DEF SearchInit, SearchIInv, SearchTypeOK

LEMMA SearchStepKeepsIInv == SearchIInv /\ [SearchNext]_search_vars => SearchIInv'
<1> SUFFICES ASSUME SearchIInv, [SearchNext]_search_vars PROVE SearchIInv'
  OBVIOUS
<1> USE SizesAssumption
<1>T. SearchTypeOK
  BY DEF SearchIInv
<1>0. Queued = Elements(work) /\ Queued' = Elements(work')
  BY DEF Queued, Elements
<1>1. CASE RejectSearch
  BY <1>1 DEF RejectSearch, SearchIInv, SearchTypeOK
<1>2. CASE Begin
  <2>1. start \in States /\ <<start>> \in Seq(States)
    BY <1>2, <1>T DEF Begin, SearchTypeOK, States
  <2>2. Queued' = {start}
    <3>1. work' = <<start>> /\ Len(<<start>>) = 1 /\ <<start>>[1] = start
      BY <1>2 DEF Begin
    <3> QED BY <3>1, <1>0 DEF Elements
  <2>3. symbol = AlphabetSize
    BY <1>2 DEF Begin, SearchIInv
  <2> QED BY <1>2, <1>T, <2>1, <2>2, <2>3 DEF Begin, SearchIInv, SearchTypeOK, Expanded
<1>3. CASE Take
  <2>1. /\ Head(work) \in States /\ Tail(work) \in Seq(States)
        /\ Elements(work) = Elements(Tail(work)) \cup {Head(work)}
    BY <1>3, <1>T, PopElements DEF Take, SearchTypeOK
  <2>2. /\ search = "search" /\ search' = search /\ symbol = AlphabetSize /\ symbol' = 0
        /\ state' = Head(work) /\ work' = Tail(work)
        /\ UNCHANGED <<machine, start, mask, certificate>>
    BY <1>3 DEF Take, FrontAndPop
  <2>3. SearchTypeOK'
    BY <2>1, <2>2, <1>T DEF SearchTypeOK
  <2>4. Queued = Queued' \cup {state'}
    BY <2>1, <2>2, <1>0
  <2>5. \A s \in mask' : Expanded(s)' => Targets(s)' \subseteq mask'
    <3> SUFFICES ASSUME NEW s \in mask, Expanded(s)' PROVE Targets(s) \subseteq mask
      BY <2>2 DEF Targets
    <3>1. s \notin Queued' /\ s # state'
      BY <2>2 DEF Expanded
    <3> QED BY <3>1, <2>2, <2>4 DEF SearchIInv, Expanded
  <2> QED BY <2>2, <2>3, <2>4, <2>5 DEF SearchIInv, Valid
<1>4. CASE Follow
  <2> DEFINE next == machine.transition[state][symbol]
  <2>1. /\ search = "search" /\ search' = search /\ symbol < AlphabetSize /\ symbol' = symbol + 1
        /\ UNCHANGED <<machine, start, state, certificate>>
        /\ Valid(machine) /\ state \in mask /\ symbol \in Nat
        /\ next \in States
    BY <1>4, <1>T DEF Follow, SearchIInv, SearchTypeOK, Valid, Alphabet
  <2>2. /\ mask' = mask \cup {next}
        /\ work' \in Seq(States)
        /\ Queued \subseteq Queued'
        /\ Queued' \subseteq Queued \cup {next}
        /\ next \in mask \/ next \in Queued'
    <3>1. CASE next \in mask
      BY <3>1, <1>4, <1>0, <1>T DEF Follow, SearchTypeOK
    <3>2. CASE next \notin mask
      <4>1. mask' = mask \cup {next} /\ work' = Append(work, next)
        BY <3>2, <1>4 DEF Follow, MarkAndQueue
      <4> HIDE DEF next
      <4> QED BY <4>1, <2>1, <1>0, <1>T, PushElements DEF SearchTypeOK
    <3> QED BY <3>1, <3>2
  <2>3. SearchTypeOK'
    BY <2>1, <2>2, <1>T DEF SearchTypeOK
  <2>4. \A a \in 0 .. symbol' - 1 : machine.transition[state][a] \in mask'
    BY <2>1, <2>2 DEF SearchIInv
  <2>5. \A s \in mask' : Expanded(s)' => Targets(s)' \subseteq mask'
    <3> SUFFICES ASSUME NEW s \in mask', Expanded(s)' PROVE Targets(s) \subseteq mask'
      BY <2>1 DEF Targets
    <3>1. s \in mask /\ s \notin Queued
      BY <2>2 DEF Expanded
    <3>2. CASE s = state
      <4>1. symbol' = AlphabetSize
        BY <3>2, <2>1 DEF Expanded
      <4> QED BY <4>1, <3>2, <2>4 DEF Targets, Alphabet
    <3>3. CASE s # state
      BY <3>1, <3>3, <2>1, <2>2 DEF SearchIInv, Expanded
    <3> QED BY <3>2, <3>3
  <2> HIDE DEF next
  <2> QED BY <2>1, <2>2, <2>3, <2>4, <2>5 DEF SearchIInv
<1>5. CASE Certify
  BY <1>5 DEF Certify, SearchIInv, SearchTypeOK, Alike, Expanded, Targets, Queued
<1>6. CASE UNCHANGED search_vars
  BY <1>6 DEF search_vars, SearchIInv, SearchTypeOK, Queued, Expanded, Targets, Alike, Valid
<1> QED BY <1>1, <1>2, <1>3, <1>4, <1>5, <1>6 DEF SearchNext

\* The strengthened invariant of the search.
THEOREM SearchInvariantHolds == SearchSpec => []SearchIInv
<1> QED BY SearchInitKeepsIInv, SearchStepKeepsIInv, PTL DEF SearchSpec

\* Every variable keeps its type: no bit beyond the table is ever set.
THEOREM SearchTypeCorrect == SearchSpec => []SearchTypeOK
<1>1. SearchIInv => SearchTypeOK
  BY DEF SearchIInv
<1> QED BY <1>1, SearchInvariantHolds, PTL

\* The mask reachable_mask returns is closed under every letter.
THEOREM MaskClosed == SearchSpec => []MaskIsClosed
<1>1. SearchIInv => MaskIsClosed
  <2> SUFFICES ASSUME SearchIInv, search = "returned"
               PROVE  start \in mask /\ \A s \in mask : Targets(s) \subseteq mask
    BY DEF MaskIsClosed
  <2>1. Queued = {}
    BY DEF SearchIInv, SearchTypeOK, Queued
  <2> QED BY <2>1 DEF SearchIInv, Expanded
<1> QED BY <1>1, SearchInvariantHolds, PTL

\* A state is never in the queue twice.
THEOREM NoDuplicates == SearchSpec => []QueuedOnce
<1>1. SearchInit => QueuedOnce
  BY DEF SearchInit, QueuedOnce
<1>2. SearchIInv /\ QueuedOnce /\ [SearchNext]_search_vars => QueuedOnce'
  <2> SUFFICES ASSUME SearchIInv, QueuedOnce, [SearchNext]_search_vars PROVE QueuedOnce'
    OBVIOUS
  <2>T. work \in Seq(States)
    BY DEF SearchIInv, SearchTypeOK
  <2>1. CASE work' = work
    BY <2>1 DEF QueuedOnce
  <2>2. CASE Begin
    <3>1. work' = <<start>> /\ Len(<<start>>) = 1
      BY <2>2 DEF Begin
    <3> QED BY <3>1 DEF QueuedOnce
  <2>3. CASE Take
    <3>1. work' = Tail(work) /\ work # <<>>
      BY <2>3 DEF Take, FrontAndPop
    <3>2. /\ Len(work) \in Nat /\ Len(work') = Len(work) - 1
          /\ \A i \in 1 .. Len(work') : work'[i] = work[i + 1]
      BY <3>1, <2>T
    <3> QED BY <3>2 DEF QueuedOnce
  <2>4. CASE Follow
    <3> DEFINE next == machine.transition[state][symbol]
    <3>1. CASE next \in mask
      BY <3>1, <2>1, <2>4 DEF Follow
    <3>2. CASE next \notin mask
      <4>1. work' = Append(work, next) /\ next \notin Queued
        BY <3>2, <2>4 DEF Follow, MarkAndQueue, SearchIInv
      <4>2. next \in States
        BY <2>4, SizesAssumption DEF Follow, SearchIInv, SearchTypeOK, Valid, Alphabet
      <4> HIDE DEF next
      <4>3. /\ Len(work) \in Nat /\ Len(work') = Len(work) + 1
            /\ \A i \in 1 .. Len(work) : work'[i] = work[i] /\ work[i] # next
            /\ work'[Len(work) + 1] = next
        BY <4>1, <4>2, <2>T DEF Queued
      <4> QED BY <4>3 DEF QueuedOnce
    <3> QED BY <3>1, <3>2
  <2>5. RejectSearch \/ Certify \/ UNCHANGED search_vars => work' = work
    BY DEF RejectSearch, Certify, search_vars
  <2> QED BY <2>1, <2>2, <2>3, <2>4, <2>5 DEF SearchNext
<1> QED BY <1>1, <1>2, SearchInvariantHolds, PTL DEF SearchSpec

-------------------------------------------------------------------------------
ClosedFromStart(C) == start \in C /\ \A s \in C : Targets(s) \subseteq C

\* No state is marked that some closed set around the start leaves out.
MaskIsLeast ==
  search \in {"search", "returned"} =>
    \A C \in SUBSET States : ClosedFromStart(C) => mask \subseteq C

LEMMA MaskStaysLeast == SearchSpec => []MaskIsLeast
<1>1. SearchInit => MaskIsLeast
  BY DEF SearchInit, MaskIsLeast
<1>2. SearchIInv /\ MaskIsLeast /\ [SearchNext]_search_vars => MaskIsLeast'
  <2> SUFFICES ASSUME SearchIInv, MaskIsLeast, [SearchNext]_search_vars PROVE MaskIsLeast'
    OBVIOUS
  <2>0. CASE UNCHANGED <<machine, start, mask>> /\ (search' = search \/ Certify \/ RejectSearch)
    BY <2>0 DEF MaskIsLeast, ClosedFromStart, Targets, Certify, RejectSearch
  <2>1. CASE Begin
    BY <2>1 DEF Begin, MaskIsLeast, ClosedFromStart
  <2>2. CASE Follow
    <3>1. /\ search = "search" /\ search' = search /\ UNCHANGED <<machine, start>>
          /\ mask' \subseteq mask \cup {machine.transition[state][symbol]}
          /\ state \in mask /\ symbol \in Alphabet
      BY <2>2, SizesAssumption DEF Follow, MarkAndQueue, SearchIInv, SearchTypeOK, Alphabet
    <3>2. machine.transition[state][symbol] \in Targets(state)
      BY <3>1 DEF Targets
    <3>3. ASSUME NEW C \in SUBSET States, ClosedFromStart(C)' PROVE mask' \subseteq C
      <4>1. mask \subseteq C
        BY <3>1, <3>3 DEF MaskIsLeast, ClosedFromStart, Targets
      <4>2. Targets(state) \subseteq C
        BY <4>1, <3>1, <3>3 DEF ClosedFromStart, Targets
      <4> QED BY <4>1, <4>2, <3>1, <3>2
    <3> QED BY <3>1, <3>3 DEF MaskIsLeast
  <2>3. Take \/ RejectSearch \/ Certify \/ UNCHANGED search_vars =>
          UNCHANGED <<machine, start, mask>> /\ (search' = search \/ Certify \/ RejectSearch)
    BY DEF Take, RejectSearch, Certify, search_vars
  <2> QED BY <2>0, <2>1, <2>2, <2>3 DEF SearchNext
<1> QED BY <1>1, <1>2, SearchInvariantHolds, PTL DEF SearchSpec

\* The certificate of certify_stability is given exactly when some set of
\* states holds the start, cannot be left and shows one observation: the
\* observation is stable on every legal future, however long.
THEOREM CertificateIsStability ==
  SearchSpec => [](search = "returned" =>
               (certificate = "granted" <=>
                  \E C \in SUBSET States :
                    /\ ClosedFromStart(C)
                    /\ \A s \in C : machine.observation[s] = machine.observation[start]))
<1>1. SearchIInv /\ MaskIsClosed /\ MaskIsLeast =>
        (search = "returned" =>
           (certificate = "granted" <=>
              \E C \in SUBSET States :
                /\ ClosedFromStart(C)
                /\ \A s \in C : machine.observation[s] = machine.observation[start]))
  <2> SUFFICES ASSUME SearchIInv, MaskIsClosed, MaskIsLeast, search = "returned"
               PROVE  certificate = "granted" <=>
                        \E C \in SUBSET States :
                          /\ ClosedFromStart(C)
                          /\ \A s \in C : machine.observation[s] = machine.observation[start]
    OBVIOUS
  <2>1. /\ certificate = IF Alike THEN "granted" ELSE "nullopt"
        /\ mask \in SUBSET States
    BY DEF SearchIInv, SearchTypeOK
  <2>2. ClosedFromStart(mask)
    BY DEF MaskIsClosed, ClosedFromStart
  <2>3. ASSUME NEW C \in SUBSET States, ClosedFromStart(C) PROVE mask \subseteq C
    BY <2>3 DEF MaskIsLeast
  <2> QED BY <2>1, <2>2, <2>3 DEF Alike
<1> QED BY <1>1, SearchInvariantHolds, MaskClosed, MaskStaysLeast, PTL

-------------------------------------------------------------------------------
(* Words: the mask against what words lead to. *)

\* Some word of at most n letters leads from the start to s.
Led(m, from, n, s) ==
  \E k \in 0 .. n : \E w \in Letters(k, Alphabet) : After(m, from, w) = s

LEMMA NoLetterLeads ==
  ASSUME NEW m, Valid(m), NEW from \in States, NEW n \in Nat
  PROVE  Led(m, from, n, from)
<1> DEFINE w == [i \in 1 .. 0 |-> 0]
<1>1. w \in Letters(0, Alphabet)
  BY DEF Letters
<1> HIDE DEF w
<1>2. After(m, from, w) = from
  BY <1>1, ValidMoves, RunOfNone, AfterIsRun
<1> QED BY <1>1, <1>2 DEF Led

LEMMA OneLetterMore ==
  ASSUME NEW m, Valid(m), NEW from \in States, NEW n \in Nat, NEW s,
         Led(m, from, n, s), NEW a \in Alphabet
  PROVE  Led(m, from, n + 1, m.transition[s][a])
<1>1. PICK k \in 0 .. n : \E w \in Letters(k, Alphabet) : After(m, from, w) = s
  BY DEF Led
<1>2. PICK w \in Letters(k, Alphabet) : After(m, from, w) = s
  BY <1>1
<1> DEFINE u == [i \in 1 .. k + 1 |-> IF i = k + 1 THEN a ELSE w[i]]
           v == [i \in 1 .. k |-> u[i]]
<1>3. k \in Nat /\ u \in Letters(k + 1, Alphabet) /\ u[k + 1] = a
  BY DEF Letters
<1>4. v = w
  <2>1. w = [i \in 1 .. k |-> w[i]]
    BY DEF Letters
  <2>2. \A i \in 1 .. k : u[i] = w[i]
    OBVIOUS
  <2> QED BY <2>1, <2>2
<1>5. RunOver(m.transition, from, u) = m.transition[RunOver(m.transition, from, v)][u[k + 1]]
  <2> DEFINE delta == m.transition
  <2>1. Moves(delta, States, Alphabet)
    BY ValidMoves
  <2>2. v = [i \in 1 .. k |-> u[i]]
    OBVIOUS
  <2> HIDE DEF u, v
  <2>3. k \in Nat
    OBVIOUS
  <2>4. RunOver(delta, from, u) = delta[RunOver(delta, from, v)][u[k + 1]]
    <3> HIDE DEF delta
    <3> QED BY <2>1, <2>2, <2>3, <1>3, RunLastLetter
  <2> QED BY <2>4
<1>6. After(m, from, u) = m.transition[s][a]
  BY <1>2, <1>3, <1>4, <1>5, AfterIsRun
<1>7. k + 1 \in 0 .. n + 1
  OBVIOUS
<1> HIDE DEF u
<1> QED BY <1>3, <1>6, <1>7 DEF Led

\* A set no letter leaves holds all that words lead to.
LEMMA WordsStayClosed ==
  ASSUME NEW m, Valid(m), NEW from \in States, NEW C, from \in C, C \subseteq States,
         \A s \in C : \A a \in Alphabet : m.transition[s][a] \in C
  PROVE  \A n \in Nat : \A w \in Letters(n, Alphabet) : After(m, from, w) \in C
<1> DEFINE T == {n \in Nat : \A w \in Letters(n, Alphabet) : After(m, from, w) \in C}
           delta == m.transition
<1>0. Moves(delta, States, Alphabet)
  BY ValidMoves
<1>1. 0 \in T
  <2> SUFFICES ASSUME NEW w \in Letters(0, Alphabet) PROVE After(m, from, w) \in C
    OBVIOUS
  <2>1. RunOver(delta, from, w) = from
    BY <1>0, RunOfNone
  <2> QED BY <2>1, AfterIsRun
<1>2. \A n \in Nat : n \in T => n + 1 \in T
  <2> SUFFICES ASSUME NEW n \in Nat, n \in T, NEW w \in Letters(n + 1, Alphabet)
               PROVE  After(m, from, w) \in C
    OBVIOUS
  <2> DEFINE v == [i \in 1 .. n |-> w[i]]
  <2>1. /\ v \in Letters(n, Alphabet)
        /\ RunOver(delta, from, w) = delta[RunOver(delta, from, v)][w[n + 1]]
    <3> HIDE DEF delta
    <3> QED BY <1>0, RunLastLetter
  <2>2. w[n + 1] \in Alphabet
    BY DEF Letters
  <2>3. After(m, from, v) \in C
    <3> HIDE DEF v
    <3> QED BY <2>1
  <2> QED BY <2>1, <2>2, <2>3, AfterIsRun
<1>3. \A n \in Nat : n \in T
  <2> HIDE DEF T
  <2> QED BY <1>1, <1>2, SetOfAllNaturals
<1> QED BY <1>3

\* Every marked state is led to by a word shorter than the mask is large: so the
\* words up to the number of states are enough.
MaskIsLed ==
  search \in {"search", "returned"} =>
    \A s \in mask : Led(machine, start, Cardinality(mask) - 1, s)

LEMMA StatesAreFinite ==
  IsFiniteSet(States) /\ Cardinality(States) = StateCount /\ States \subseteq Nat
BY FS_Interval, SizesAssumption DEF States

LEMMA StepKeepsLed == SearchIInv /\ MaskIsLed /\ [SearchNext]_search_vars => MaskIsLed'
<1> SUFFICES ASSUME SearchIInv, MaskIsLed, [SearchNext]_search_vars PROVE MaskIsLed'
  OBVIOUS
<1>0. CASE UNCHANGED <<machine, start, mask>> /\ (search' = search \/ Certify \/ RejectSearch)
  BY <1>0 DEF MaskIsLed, Certify, RejectSearch
<1>1. CASE Begin
  <2>1. /\ mask' = {start} /\ start' = start /\ machine' = machine
        /\ Valid(machine) /\ start \in States
    <3>1. start \in States
      BY <1>1, SizesAssumption DEF Begin, SearchIInv, SearchTypeOK, States
    <3> QED BY <1>1, <3>1 DEF Begin
  <2>2. Cardinality({start}) = 1
    BY FS_Singleton
  <2>3. Led(machine, start, 0, start)
    BY <2>1, NoLetterLeads
  <2>4. Cardinality(mask') - 1 = 0
    BY <2>1, <2>2
  <2>5. \A s \in mask' : Led(machine', start', Cardinality(mask') - 1, s)
    BY <2>1, <2>3, <2>4
  <2> QED BY <2>5 DEF MaskIsLed
<1>2. CASE Follow
  <2> DEFINE next == machine.transition[state][symbol]
  <2>1. CASE next \in mask
    BY <1>0, <1>2, <2>1 DEF Follow
  <2>2. CASE next \notin mask
    <3>1. /\ mask' = mask \cup {next} /\ start' = start /\ machine' = machine
          /\ Valid(machine) /\ start \in States /\ start \in mask
          /\ state \in mask /\ symbol \in Alphabet
          /\ search = "search" /\ search' = search /\ mask \subseteq States
      BY <1>2, <2>2, SizesAssumption DEF Follow, MarkAndQueue, SearchIInv, SearchTypeOK, Alphabet
    <3>2. /\ IsFiniteSet(mask) /\ Cardinality(mask) \in Nat
          /\ Cardinality(mask') = Cardinality(mask) + 1
      <4>1. IsFiniteSet(mask)
        BY <3>1, StatesAreFinite, FS_Subset
      <4> HIDE DEF next
      <4> QED BY <4>1, <3>1, <2>2, FS_AddElement, FS_CardinalityType
    <3>3. Cardinality(mask) # 0
      BY <3>1, <3>2, FS_EmptySet
    <3> DEFINE n == Cardinality(mask) - 1
    <3>4. n \in Nat /\ Cardinality(mask') - 1 = n + 1
      BY <3>2, <3>3
    <3>5. \A s \in mask : Led(machine, start, n, s)
      BY <3>1 DEF MaskIsLed
    <3> HIDE DEF n
    <3>6. Led(machine, start, n + 1, next)
      BY <3>1, <3>4, <3>5, OneLetterMore
    <3>7. \A s \in mask : Led(machine, start, n + 1, s)
      BY <3>4, <3>5 DEF Led
    <3> HIDE DEF next
    <3>8. \A s \in mask' : Led(machine', start', Cardinality(mask') - 1, s)
      BY <3>1, <3>4, <3>6, <3>7
    <3> QED BY <3>8 DEF MaskIsLed
  <2> QED BY <2>1, <2>2
<1>3. Take \/ RejectSearch \/ Certify \/ UNCHANGED search_vars =>
        UNCHANGED <<machine, start, mask>> /\ (search' = search \/ Certify \/ RejectSearch)
  BY DEF Take, RejectSearch, Certify, search_vars
<1> QED BY <1>0, <1>1, <1>2, <1>3 DEF SearchNext

LEMMA InitLed == SearchInit => MaskIsLed
BY DEF SearchInit, MaskIsLed

\* What the invariants say of the result.
LEMMA ReturnedMaskIsReach == SearchIInv /\ MaskIsLed => MaskIsReach
<1> SUFFICES ASSUME SearchIInv, MaskIsLed, search = "returned"
             PROVE  mask = {After(machine, start, w) : w \in Words}
  BY DEF MaskIsReach
<1>1. /\ Valid(machine) /\ mask \subseteq States /\ start \in mask /\ start \in States
      /\ Queued = {} /\ symbol = AlphabetSize
  BY DEF SearchIInv, SearchTypeOK, Queued
<1>2. \A s \in mask : \A a \in Alphabet : machine.transition[s][a] \in mask
  BY <1>1 DEF SearchIInv, Expanded, Targets
<1>3. ASSUME NEW w \in Words PROVE After(machine, start, w) \in mask
  <2>1. PICK n \in 0 .. StateCount : w \in Letters(n, Alphabet)
    BY DEF Words, Letters
  <2>2. n \in Nat
    BY SizesAssumption
  <2> QED BY <1>1, <1>2, <2>1, <2>2, WordsStayClosed
<1>4. ASSUME NEW s \in mask PROVE \E w \in Words : After(machine, start, w) = s
  <2>1. /\ IsFiniteSet(mask) /\ Cardinality(mask) \in Nat
        /\ Cardinality(mask) <= StateCount
    BY <1>1, StatesAreFinite, FS_Subset, FS_CardinalityType
  <2>2. PICK k \in 0 .. Cardinality(mask) - 1 :
          \E w \in Letters(k, Alphabet) : After(machine, start, w) = s
    BY DEF MaskIsLed, Led
  <2>3. k \in 0 .. StateCount
    BY <2>1, SizesAssumption
  <2> QED BY <2>2, <2>3 DEF Words, Letters
<1> QED BY <1>3, <1>4

LEMMA ReachMakesCertificateExact == SearchIInv /\ MaskIsReach => CertificateIsExact
<1> SUFFICES ASSUME SearchIInv, MaskIsReach, search = "returned"
             PROVE  certificate = "granted" <=>
                      \A w \in Words : machine.observation[After(machine, start, w)]
                                       = machine.observation[start]
  BY DEF CertificateIsExact
<1>1. certificate = "granted" <=> Alike
  BY DEF SearchIInv
<1> QED BY <1>1 DEF MaskIsReach, Alike

\* The mask reachable_mask returns holds the states words lead to, all and only.
THEOREM MaskReturned == SearchSpec => []MaskIsReach
<1> QED BY SearchInvariantHolds, InitLed, StepKeepsLed, ReturnedMaskIsReach, PTL DEF SearchSpec

\* certify_stability grants a certificate exactly when no word changes what the
\* start shows.
THEOREM CertificateReturned == SearchSpec => []CertificateIsExact
<1> QED BY SearchInvariantHolds, MaskReturned, ReachMakesCertificateExact, PTL

-------------------------------------------------------------------------------
(* The analysis: one call of either entry. *)

\* Either the loop runs, and the search never starts, or the other way round.
AnalysisInv ==
  \/ search = "idle" /\ IInv /\ ShortWordsDecide
  \/ pc = "idle" /\ SearchIInv /\ MaskIsLed

LEMMA AnalysisInvHolds == AnalysisSpec => []AnalysisInv
<1>1. AnalysisInit => AnalysisInv
  <2>1. Init /\ NoSearch => AnalysisInv
    BY InitIInv, InitShortWords DEF AnalysisInv, NoSearch
  <2>2. SearchInit /\ NoPartition => AnalysisInv
    BY SearchInitKeepsIInv, InitLed DEF AnalysisInv, NoPartition
  <2> QED BY <2>1, <2>2 DEF AnalysisInit
<1>2. AnalysisInv /\ [AnalysisNext]_all_vars => AnalysisInv'
  <2> SUFFICES ASSUME AnalysisInv, [AnalysisNext]_all_vars PROVE AnalysisInv'
    OBVIOUS
  <2>1. CASE search = "idle" /\ IInv /\ ShortWordsDecide
    <3>1. ~SearchNext
      BY <2>1 DEF SearchNext, RejectSearch, Begin, Take, Follow, Certify
    <3>2. [Next]_vars /\ search' = search
      BY <3>1 DEF AnalysisNext, all_vars, search_vars
    <3> QED BY <2>1, <3>2, NextKeepsIInv, StepKeepsShortWords DEF AnalysisInv
  <2>2. CASE pc = "idle" /\ SearchIInv /\ MaskIsLed
    <3>1. ~Next
      BY <2>2 DEF Next, Reject, Seed, Refine, Return
    <3>2. [SearchNext]_search_vars /\ pc' = pc
      BY <3>1 DEF AnalysisNext, all_vars, vars
    <3> QED BY <2>2, <3>2, SearchStepKeepsIInv, StepKeepsLed DEF AnalysisInv
  <2> QED BY <2>1, <2>2 DEF AnalysisInv
<1> QED BY <1>1, <1>2, PTL DEF AnalysisSpec

\* future_equivalent is equality of futures, over words of every length that
\* matters, and class_count is how many futures there are.
THEOREM ClassesReturnedAreFutures == AnalysisSpec => []ClassesAreFutures
<1>1. AnalysisInv => ClassesAreFutures
  BY ReturnedCountsFutures DEF AnalysisInv, ClassesAreFutures
<1> QED BY <1>1, AnalysisInvHolds, PTL

\* The complement bits name the future behind what is seen, one bit fewer does
\* not, and there are none exactly when the observation alone resumes.
THEOREM ComplementIsLeast == AnalysisSpec => []ComplementIsTight
<1>1. AnalysisInv => ComplementIsTight
  BY ReturnedBitsAreTight DEF AnalysisInv, ComplementIsTight
<1> QED BY <1>1, AnalysisInvHolds, PTL

\* The search of the analysis returns what words reach and certifies what no
\* word changes.
THEOREM SearchReturnsReach == AnalysisSpec => []SearchIsExact
<1>1. AnalysisInv => SearchIsExact
  <2> SUFFICES ASSUME AnalysisInv PROVE SearchIsExact
    OBVIOUS
  <2>1. CASE search = "idle"
    BY <2>1 DEF SearchIsExact, MaskIsReach, CertificateIsExact
  <2>2. CASE SearchIInv /\ MaskIsLed
    <3>1. MaskIsReach /\ CertificateIsExact
      BY <2>2, ReturnedMaskIsReach, ReachMakesCertificateExact
    <3> QED BY <3>1 DEF SearchIsExact
  <2> QED BY <2>1, <2>2 DEF AnalysisInv
<1> QED BY <1>1, AnalysisInvHolds, PTL
===============================================================================
