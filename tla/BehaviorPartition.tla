--------------------------- MODULE BehaviorPartition ---------------------------
(***************************************************************************)
(* minimal_partition of angel/boundary/behavior.hpp, and the three queries *)
(* that read its result.  One step per turn of the refinement loop.  The   *)
(* loop ends when a turn leaves the array of class numbers unchanged, so   *)
(* it relies on the numbers themselves being canonical: a partition that   *)
(* did not change must get the same numbers again.                         *)
(***************************************************************************)
EXTENDS MooreMachine

VARIABLES
  class_of,      \* partition.class_of, zero before the first pass
  class_count,   \* partition.class_count
  pc             \* "start", "refine", "returned" or "threw"

vars == <<machine, class_of, class_count, pc>>

-------------------------------------------------------------------------------
\* key[s] is what the find over the states before s compares.
IsFirst(key, s) == \A t \in States : key[t] = key[s] => s <= t

\* Variant: a hit of the find is treated as a miss.
NumberingByMisses(key) ==
  [s \in States |-> Cardinality({t \in States : t < s /\ key[t] # key[s]})]

\* The position of a key in the vector push_back builds: how many different
\* keys turned up before the first state that has it.
Numbering(key) ==
  [s \in States |->
     Cardinality({t \in States :
       /\ IsFirst(key, t)
       /\ \A u \in States : key[u] = key[s] => t < u})]

Distinct(key) == Cardinality({key[s] : s \in States})

\* Variant: the observation is left out.
TargetsOnly(m, class) ==
  [s \in States |-> <<0, [a \in Alphabet |-> class[m.transition[s][a]]]>>]

\* Variant: only the first letter is compared.
FirstLetter(m, class) ==
  [s \in States |-> <<m.observation[s], [a \in Alphabet |-> class[m.transition[s][0]]]>>]

Signature(m, class) ==
  [s \in States |->
     <<m.observation[s], [a \in Alphabet |-> class[m.transition[s][a]]]>>]

Init ==
  /\ machine \in Machines
  /\ class_of = [s \in States |-> 0]
  /\ class_count = 0
  /\ pc = "start"

Reject ==
  /\ pc = "start" /\ ~Valid(machine)
  /\ pc' = "threw"
  /\ UNCHANGED <<machine, class_of, class_count>>

\* The first pass groups the states by what they show.
Seed ==
  /\ pc = "start" /\ Valid(machine)
  /\ class_of' = Numbering(machine.observation)
  /\ class_count' = Distinct(machine.observation)
  /\ pc' = "refine"
  /\ UNCHANGED machine

Refine ==
  LET signature == Signature(machine, class_of)
      next      == Numbering(signature)
  IN  /\ pc = "refine"
      /\ next # class_of
      /\ class_of' = next
      /\ class_count' = Distinct(signature)
      /\ UNCHANGED <<machine, pc>>

Return ==
  LET signature == Signature(machine, class_of)
  IN  /\ pc = "refine"
      /\ Numbering(signature) = class_of
      /\ class_count' = Distinct(signature)
      /\ pc' = "returned"
      /\ UNCHANGED <<machine, class_of>>

Next == Reject \/ Seed \/ Refine \/ Return

\* The function is one sequential loop: its thread is scheduled until it ends.
Spec == Init /\ [][Next]_vars /\ WF_vars(Next)

-------------------------------------------------------------------------------
(* The queries, on the partition minimal_partition has returned. *)

FutureEquivalent(left, right) == class_of[left] = class_of[right]

ObservationIsResumable ==
  \A s, t \in States :
    machine.observation[s] = machine.observation[t] => class_of[s] = class_of[t]

ClassesBehind(s) ==
  {class_of[t] : t \in {t \in States : machine.observation[t] = machine.observation[s]}}

\* capacity after so many turns of its loop.
Capacity[b \in 0 .. StateCount] == IF b = 0 THEN 1 ELSE 2 * Capacity[b - 1]

\* Variant: capacity <= maximum.
ComplementBitsBeyond ==
  CHOOSE b \in 0 .. StateCount :
    /\ \A s \in States : Cardinality(ClassesBehind(s)) < Capacity[b]
    /\ b > 0 => \E s \in States : Capacity[b - 1] <= Cardinality(ClassesBehind(s))

\* capacity doubles until it reaches the largest number of classes that share
\* an observation.
ComplementBits ==
  CHOOSE b \in 0 .. StateCount :
    /\ \A s \in States : Cardinality(ClassesBehind(s)) <= Capacity[b]
    /\ b > 0 => \E s \in States : Capacity[b - 1] < Cardinality(ClassesBehind(s))

-------------------------------------------------------------------------------
TypeOK ==
  /\ machine \in Arrays
  /\ class_of \in [States -> States]
  /\ class_count \in 0 .. StateCount
  /\ pc \in {"start", "refine", "returned", "threw"}

Running == pc \in {"refine", "returned"}

Refines(finer, coarser) ==
  \A s, t \in States : finer[s] = finer[t] => coarser[s] = coarser[t]

\* What every turn of the loop keeps: only a valid machine is refined, the
\* numbers are canonical, and the signatures can only split classes.
IInv ==
  /\ TypeOK
  /\ Running =>
       /\ Valid(machine)
       /\ class_of = Numbering(class_of)
       /\ Refines(class_of, machine.observation)
       /\ Refines(Signature(machine, class_of), class_of)
  /\ pc = "returned" => Numbering(Signature(machine, class_of)) = class_of

\* The classes returned are a congruence: one class, one observation and, letter
\* by letter, one class of targets (minimal_partition).
ClassesAreCongruent ==
  pc = "returned" =>
    Bisimulation(machine, {p \in States \X States : class_of[p[1]] = class_of[p[2]]})

\* future_equivalent answers as a caller would who tried every word: nothing is
\* merged that some future tells apart and nothing split that none does, and
\* class_count counts the futures there are.
ClassesAreFutures ==
  pc = "returned" =>
    LET same == {p \in States \X States : SameFuture(machine, p[1], p[2])}
    IN  /\ \A s, t \in States : FutureEquivalent(s, t) <=> <<s, t>> \in same
        /\ class_count = Cardinality({{t \in States : <<s, t>> \in same} : s \in States})

\* The number of complement bits is enough to name the future behind what is
\* seen, and one bit fewer is not; no bits exactly when the observation alone
\* resumes (resume_complement_lower_bound_bits, observation_is_resumable).
ComplementIsTight ==
  pc = "returned" =>
    LET confusable  == {p \in States \X States :
                          /\ machine.observation[p[1]] = machine.observation[p[2]]
                          /\ ~SameFuture(machine, p[1], p[2])}
        Resumes(n)  == \E label \in [States -> 0 .. n - 1] :
                         \A p \in confusable : label[p[1]] # label[p[2]]
    IN  /\ Resumes(Capacity[ComplementBits])
        /\ ComplementBits > 0 => ~Resumes(Capacity[ComplementBits - 1])
        /\ ObservationIsResumable <=> ComplementBits = 0

\* Every turn that does not return splits a class and merges none, so there are
\* at most StateCount turns (the loop of minimal_partition has no other bound).
EachTurnSplits ==
  [][pc = "refine" /\ pc' = "refine" =>
       Refines(class_of', class_of) /\ ~Refines(class_of, class_of')]_vars

\* minimal_partition ends for every machine.
PartitionEnds == <>(pc \in {"returned", "threw"})

===============================================================================
