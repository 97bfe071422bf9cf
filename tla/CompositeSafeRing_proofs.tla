------------------------ MODULE CompositeSafeRing_proofs -----------------------
(***************************************************************************)
(* The executor and the ring that keeps one; their proofs share no step.   *)
(* The executor, for every finite pool, every bound on the batches and     *)
(* every modulus of the generation counter: IInv is inductive, the safety  *)
(* properties follow from it, and the pool implements the contract of      *)
(* run().  The ring, for every modulus, policy and basis of primes:        *)
(* transforms are exact modulo their prime, the mixed-radix digits put     *)
(* together what the primes hold, Newton's iteration leaves the rest of    *)
(* long division, and ServiceInv carries this through the calls.           *)
(***************************************************************************)
EXTENDS NTTBatchExecutor, CompositeSafeRing, SharedTheorems

-------------------------------------------------------------------------------
(* The executor *)

\* The next generation is another one: the counter has at least two values.
LEMMA GenerationMoves ==
  ASSUME NEW g \in 0..(GenModulus - 1)
  PROVE  /\ (g + 1) % GenModulus \in 0..(GenModulus - 1)
         /\ (g + 1) % GenModulus # g
<1>1. CASE g + 1 < GenModulus
  <2>1. (g + 1) % GenModulus = g + 1
    BY <1>1, GenerationAssumption
  <2> QED BY <1>1, <2>1, GenerationAssumption
<1>2. CASE g + 1 = GenModulus
  <2>1. (g + 1) % GenModulus = 0
    BY <1>2, GenerationAssumption
  <2> QED BY <1>2, <2>1, GenerationAssumption
<1> QED BY <1>1, <1>2, GenerationAssumption

\* The holders are a finite set, so that they can be counted.
LEMMA HoldersFinite ==
  /\ IsFiniteSet(Holders)
  /\ Cardinality(Holders) \in Nat
  /\ Cardinality(Holders) = 0 <=> Holders = {}
<1>1. Holders \subseteq Workers
  BY DEF Holders
<1>2. IsFiniteSet(Holders)
  BY <1>1, WorkersAssumption, FS_Subset
<1> QED BY <1>2, FS_CardinalityType, FS_EmptySet

\* The number of holders after a worker took an index or gave one back.
LEMMA HoldersCount ==
  ASSUME NEW w \in Workers
  PROVE  /\ w \notin Holders => Cardinality(Holders \cup {w}) = Cardinality(Holders) + 1
         /\ w \in Holders => Cardinality(Holders \ {w}) = Cardinality(Holders) - 1
BY HoldersFinite, FS_AddElement, FS_RemoveElement

LEMMA InitEstablishesIInv == Init => IInv
<1> SUFFICES ASSUME Init PROVE IInv
  OBVIOUS
<1>0. MaxTasks \in 0..MaxTasks /\ 0 \in 0..MaxTasks /\ 0 \in 0..(GenModulus - 1)
  BY TasksAssumption, GenerationAssumption
<1>1. TypeOK
  BY <1>0 DEF Init, TypeOK, CallerStates, WorkerStates, NoIndex, EmptySlots
<1>2. Holders = {}
  BY DEF Init, Holders, Holding
<1>3. CountsAgree
  BY <1>2, FS_EmptySet DEF Init, CountsAgree
<1>4. QuietOutsideRun
  BY <1>2 DEF Init, QuietOutsideRun, InRun
<1>5. IndicesAgree /\ SlotsAgree
  BY <1>2 DEF Init, IndicesAgree, SlotsAgree, EmptySlots, Indices
<1>6. ErrorAgrees
  BY DEF Init, ErrorAgrees, EmptySlots, Indices
<1>7. GenerationsAgree
  BY <1>2, WorkersAssumption DEF Init, GenerationsAgree, InRun
<1>8. LifeCycle
  BY DEF Init, LifeCycle, InRun
<1> QED BY <1>1, <1>3, <1>4, <1>5, <1>6, <1>7, <1>8 DEF IInv

\* Steps that change neither the batch nor who holds an index leave the
\* parts of the invariant about counts, indices and slots alone.
LEMMA SameHolders ==
  ASSUME CountsAgree, IndicesAgree, Holders' = Holders,
         UNCHANGED <<index, task_count, next_task, completed_tasks, slot>>
  PROVE  CountsAgree' /\ IndicesAgree'
BY DEF CountsAgree, IndicesAgree

(* ------------------------- the owner's steps ------------------------- *)

LEMMA SpawnKeepsIInv ==
  ASSUME IInv, NEW w \in Workers, Spawn(w)
  PROVE  IInv'
<1> USE DEF IInv, Spawn, batch, results
<1>1. TypeOK'
  BY DEF TypeOK, WorkerStates
<1>2. Holders' = Holders
  BY DEF TypeOK, Holders, Holding
<1>3. CountsAgree' /\ IndicesAgree'
  BY <1>2, SameHolders
<1>4. QuietOutsideRun'
  BY <1>2 DEF QuietOutsideRun, InRun
<1>5. SlotsAgree'
  BY DEF TypeOK, SlotsAgree
<1>6. ErrorAgrees'
  BY DEF TypeOK, ErrorAgrees
<1>7. GenerationsAgree'
  BY <1>2 DEF TypeOK, GenerationsAgree, InRun
<1>8. LifeCycle'
  BY DEF TypeOK, LifeCycle, InRun
<1> QED BY <1>1, <1>3, <1>4, <1>5, <1>6, <1>7, <1>8

\* Steps of the owner that move nobody else and touch no member.
LEMMA OwnerMoveKeepsIInv ==
  ASSUME IInv, ConstructorReturns \/ SpawnFails \/ SpuriousDone \/ WaitAgain \/ Joined
  PROVE  IInv'
<1> USE DEF IInv, batch, results
<1>0. UNCHANGED <<worker, observed, index, task, task_count, next_task,
                  completed_tasks, error, generation, stopping, slot, outcome>>
  BY DEF ConstructorReturns, SpawnFails, SpuriousDone, WaitAgain, Joined
<1>1. TypeOK'
  BY <1>0 DEF TypeOK, CallerStates, ConstructorReturns, SpawnFails,
              SpuriousDone, WaitAgain, Joined
<1>2. Holders' = Holders
  BY <1>0 DEF Holders, Holding
<1>3. CountsAgree' /\ IndicesAgree'
  BY <1>0, <1>2, SameHolders
<1>4. InRun' <=> InRun
  BY DEF InRun, ConstructorReturns, SpawnFails, SpuriousDone, WaitAgain, Joined
<1>5. QuietOutsideRun'
  BY <1>0, <1>2, <1>4 DEF QuietOutsideRun
<1>6. SlotsAgree' /\ ErrorAgrees'
  BY <1>0 DEF SlotsAgree, ErrorAgrees
<1>7. GenerationsAgree'
  BY <1>0, <1>2, <1>4 DEF GenerationsAgree
<1>8. LifeCycle'
  BY <1>0, <1>4 DEF LifeCycle, ConstructorReturns, SpawnFails, SpuriousDone,
                    WaitAgain, Joined, BatchComplete
<1> QED BY <1>1, <1>3, <1>5, <1>6, <1>7, <1>8

LEMMA RunKeepsIInv ==
  ASSUME IInv, NEW n \in 1..MaxTasks, Run(n)
  PROVE  IInv'
<1> USE TasksAssumption DEF IInv, Run, LoadBatch, NextGeneration, NotifyAllStart
<1>1. /\ generation' \in 0..(GenModulus - 1)
      /\ generation' # generation
  BY GenerationMoves DEF TypeOK
<1>2. TypeOK'
  BY <1>1 DEF TypeOK, CallerStates, WorkerStates, NoIndex, EmptySlots, Indices
<1>3. ~InRun /\ Holders = {}
  BY DEF QuietOutsideRun, InRun
<1>4. Holders' = {}
  BY <1>3 DEF TypeOK, Holders, Holding
<1>5. CountsAgree'
  BY <1>4, FS_EmptySet DEF CountsAgree
<1>6. QuietOutsideRun'
  BY DEF QuietOutsideRun, InRun
<1>7. IndicesAgree'
  BY <1>4 DEF IndicesAgree, EmptySlots, Indices
<1>8. SlotsAgree'
  <2>1. \A w \in Workers : worker'[w] \notin {"running", "catch"}
    BY <1>4 DEF Holders, Holding
  <2>2. \A i \in Indices : ~(i < next_task')
    BY DEF Indices
  <2> QED BY <2>1, <2>2 DEF SlotsAgree
<1>9. ErrorAgrees'
  BY DEF ErrorAgrees, EmptySlots, Indices
<1>10. PICK v \in Workers : observed[v] = generation
  BY <1>3 DEF GenerationsAgree, LifeCycle
<1>11. worker[v] \in {"top", "waiting"}
  BY <1>3 DEF TypeOK, WorkerStates, Holders, Holding, LifeCycle
<1>12. worker'[v] = "top" /\ observed'[v] # generation'
  BY <1>1, <1>10, <1>11 DEF TypeOK
<1>13. \A w \in Workers : worker'[w] # "waiting"
  BY DEF TypeOK
<1>14. GenerationsAgree'
  BY <1>4, <1>12, <1>13 DEF GenerationsAgree, InRun
<1>15. LifeCycle'
  BY DEF TypeOK, LifeCycle, InRun
<1> QED BY <1>2, <1>5, <1>6, <1>7, <1>8, <1>9, <1>14, <1>15

LEMMA RunReturnsKeepsIInv ==
  ASSUME IInv, RunReturns
  PROVE  IInv'
<1> USE DEF IInv, RunReturns, BatchComplete
<1>1. TypeOK'
  BY DEF TypeOK, CallerStates
<1>2. Holders' = Holders
  BY DEF Holders, Holding
<1>3. CountsAgree' /\ IndicesAgree'
  BY <1>2, SameHolders
<1>4. next_task = task_count /\ Holders = {}
  BY HoldersFinite DEF TypeOK, CountsAgree
<1>5. QuietOutsideRun'
  BY <1>2, <1>4 DEF QuietOutsideRun, InRun
<1>6. SlotsAgree' /\ ErrorAgrees'
  BY DEF SlotsAgree, ErrorAgrees
<1>7. next_task # 0
  BY <1>4 DEF TypeOK, LifeCycle, InRun
<1>8. GenerationsAgree'
  BY <1>2, <1>4, <1>7 DEF GenerationsAgree, InRun
<1>9. LifeCycle'
  BY DEF LifeCycle, InRun
<1> QED BY <1>1, <1>3, <1>5, <1>6, <1>8, <1>9

LEMMA StopKeepsIInv ==
  ASSUME IInv, Stop
  PROVE  IInv'
<1> USE DEF IInv, Stop, NextGeneration, NotifyAllStart, batch, results
<1>1. TypeOK'
  BY GenerationMoves DEF TypeOK, CallerStates, WorkerStates
<1>2. Holders' = Holders
  BY DEF TypeOK, Holders, Holding
<1>3. CountsAgree' /\ IndicesAgree'
  BY <1>2, SameHolders
<1>4. ~InRun /\ ~InRun' /\ Holders = {}
  BY DEF QuietOutsideRun, InRun
<1>5. QuietOutsideRun'
  BY <1>2, <1>4 DEF QuietOutsideRun
<1>6. SlotsAgree'
  BY DEF TypeOK, SlotsAgree
<1>7. ErrorAgrees'
  BY DEF TypeOK, ErrorAgrees
<1>8. GenerationsAgree'
  BY <1>2, <1>4 DEF TypeOK, GenerationsAgree
<1>9. LifeCycle'
  BY <1>4 DEF TypeOK, LifeCycle
<1> QED BY <1>1, <1>3, <1>5, <1>6, <1>7, <1>8, <1>9

(* ------------------------ the workers' steps ------------------------- *)

\* Moves between the states of a worker that holds no index.
LEMMA IdleWorkerKeepsIInv ==
  ASSUME IInv, NEW w \in Workers, Wait(w) \/ SpuriousStart(w) \/ Exit(w)
  PROVE  IInv'
<1> USE DEF IInv, batch, results
<1>0. /\ UNCHANGED <<caller, observed, index, task, task_count, next_task,
                     completed_tasks, error, generation, stopping, slot, outcome>>
      /\ worker[w] \in {"top", "waiting"}
      /\ \E s \in {"top", "waiting", "exited"} :
           /\ worker' = [worker EXCEPT ![w] = s]
           /\ s = "waiting" => generation = observed[w] /\ ~stopping
           /\ s = "exited" => stopping
           /\ s = "waiting" \/ worker[w] = "waiting" \/ stopping
  BY DEF Wait, SpuriousStart, Exit
<1>1. TypeOK'
  BY <1>0 DEF TypeOK, WorkerStates
<1>2. Holders' = Holders
  BY <1>0 DEF TypeOK, Holders, Holding
<1>3. CountsAgree' /\ IndicesAgree'
  BY <1>0, <1>2, SameHolders
<1>4. InRun' <=> InRun
  BY <1>0 DEF InRun
<1>5. QuietOutsideRun'
  BY <1>0, <1>2, <1>4 DEF QuietOutsideRun
<1>6. SlotsAgree'
  BY <1>0 DEF TypeOK, SlotsAgree
<1>7. ErrorAgrees'
  BY <1>0 DEF TypeOK, ErrorAgrees
<1>8. GenerationsAgree'
  <2>1. \A v \in Workers : worker'[v] = "waiting" => observed'[v] = generation' /\ ~stopping'
    BY <1>0 DEF TypeOK, GenerationsAgree
  <2>2. ASSUME InRun', next_task' = 0
        PROVE  \E v \in Workers : worker'[v] = "top" /\ observed'[v] # generation'
    <3>1. PICK v \in Workers : worker[v] = "top" /\ observed[v] # generation
      BY <1>0, <1>4, <2>2 DEF GenerationsAgree
    <3>2. ~stopping
      BY <1>4, <2>2 DEF LifeCycle, InRun
    <3> QED BY <1>0, <3>1, <3>2 DEF TypeOK, GenerationsAgree
  <2> QED BY <1>0, <1>2, <1>4, <2>1, <2>2 DEF GenerationsAgree
<1>9. LifeCycle'
  BY <1>0, <1>4 DEF TypeOK, LifeCycle
<1> QED BY <1>1, <1>3, <1>5, <1>6, <1>7, <1>8, <1>9

LEMMA ObserveKeepsIInv ==
  ASSUME IInv, NEW w \in Workers, Observe(w)
  PROVE  IInv'
<1> USE TasksAssumption DEF IInv, Observe, results
<1>0. w \notin Holders /\ index \in [Workers -> 0..MaxTasks]
  BY DEF TypeOK, Holders, Holding
<1>1. CASE next_task < task_count
  <2> USE <1>1
  <2>0. /\ worker' = [worker EXCEPT ![w] = "running"]
        /\ index' = [index EXCEPT ![w] = next_task]
        /\ next_task' = next_task + 1
    BY DEF TakeOrLeave, TypeOK
  <2>1. TypeOK'
    BY <2>0 DEF TypeOK, WorkerStates
  <2>2. Holders' = Holders \cup {w}
    BY <2>0 DEF TypeOK, Holders, Holding
  <2>3. CountsAgree'
    BY <1>0, <2>0, <2>2, HoldersCount, HoldersFinite DEF CountsAgree, TypeOK
  <2>4. InRun /\ InRun'
    BY DEF InRun, QuietOutsideRun, TypeOK
  <2>5. QuietOutsideRun'
    BY <2>4 DEF QuietOutsideRun
  <2>6. next_task \in Indices /\ slot[next_task] = "empty"
    BY DEF IndicesAgree, TypeOK, Indices
  <2>7. IndicesAgree'
    BY <1>0, <2>0, <2>2 DEF IndicesAgree, TypeOK, Indices, Holders
  <2>8. SlotsAgree'
    BY <2>0, <2>6 DEF SlotsAgree, TypeOK, Indices
  <2>9. ErrorAgrees'
    BY <2>0 DEF ErrorAgrees, TypeOK, Indices
  <2>10. GenerationsAgree'
    BY <2>0, <2>2 DEF GenerationsAgree, TypeOK, Holders
  <2>11. LifeCycle'
    BY <2>0, <2>4 DEF LifeCycle, TypeOK
  <2> QED BY <2>1, <2>3, <2>5, <2>7, <2>8, <2>9, <2>10, <2>11
<1>2. CASE ~(next_task < task_count)
  <2> USE <1>2
  <2>0. /\ worker' = [worker EXCEPT ![w] = "top"]
        /\ index' = [index EXCEPT ![w] = NoIndex]
        /\ next_task' = next_task
    BY DEF TakeOrLeave
  <2>1. TypeOK'
    BY <2>0, TasksAssumption DEF TypeOK, WorkerStates, NoIndex
  <2>2. Holders' = Holders
    BY <2>0 DEF TypeOK, Holders, Holding
  <2>3. CountsAgree'
    BY <2>0, <2>2 DEF CountsAgree
  <2>4. InRun' <=> InRun
    BY DEF InRun
  <2>5. QuietOutsideRun'
    BY <2>0, <2>2, <2>4 DEF QuietOutsideRun
  <2>7. IndicesAgree'
    BY <1>0, <2>0, <2>2 DEF IndicesAgree, TypeOK, Holders
  <2>8. SlotsAgree'
    BY <2>0 DEF SlotsAgree, TypeOK
  <2>9. ErrorAgrees'
    BY <2>0 DEF ErrorAgrees, TypeOK
  <2>10. GenerationsAgree'
    <3>1. ~(InRun /\ next_task = 0)
      BY DEF LifeCycle, TypeOK
    <3> QED BY <2>0, <2>2, <2>4, <3>1, <1>0 DEF GenerationsAgree, TypeOK, Holders
  <2>11. LifeCycle'
    BY <2>0, <2>4 DEF LifeCycle, TypeOK
  <2> QED BY <2>1, <2>3, <2>5, <2>7, <2>8, <2>9, <2>10, <2>11
<1> QED BY <1>1, <1>2

LEMMA ExecuteKeepsIInv ==
  ASSUME IInv, NEW w \in Workers, Execute(w)
  PROVE  IInv'
<1> USE TasksAssumption DEF IInv, Execute, batch
<1>0. /\ w \in Holders
      /\ index[w] < next_task
      /\ index[w] \in Indices
      /\ slot[index[w]] = "empty"
      /\ InRun /\ InRun'
  BY DEF Holders, Holding, IndicesAgree, SlotsAgree, QuietOutsideRun, InRun,
         TypeOK, Indices
<1>1. PICK r \in {"written", "threw"} :
        /\ slot' = [slot EXCEPT ![index[w]] = r]
        /\ worker' = [worker EXCEPT ![w] = IF r = "threw" THEN "catch" ELSE "finish"]
  OBVIOUS
<1>2. TypeOK'
  BY <1>1 DEF TypeOK, WorkerStates
<1>3. Holders' = Holders
  BY <1>1 DEF TypeOK, Holders, Holding
<1>4. CountsAgree'
  BY <1>3 DEF CountsAgree
<1>5. QuietOutsideRun'
  BY <1>0 DEF QuietOutsideRun
<1>6. IndicesAgree'
  BY <1>0, <1>1, <1>3 DEF IndicesAgree, TypeOK, Indices
<1>7. SlotsAgree'
  <2>1. \A v \in Workers \ {w} : v \in Holders => index[v] # index[w]
    BY <1>0 DEF IndicesAgree, Holders
  <2> QED BY <1>0, <1>1, <2>1 DEF SlotsAgree, TypeOK, Holders, Holding
<1>8. ErrorAgrees'
  BY <1>0, <1>1 DEF ErrorAgrees, TypeOK, Indices
<1>9. GenerationsAgree'
  BY <1>0, <1>1, <1>3 DEF GenerationsAgree, TypeOK, Holders
<1>10. LifeCycle'
  BY <1>0, <1>1 DEF LifeCycle, TypeOK
<1> QED BY <1>2, <1>4, <1>5, <1>6, <1>7, <1>8, <1>9, <1>10

LEMMA CatchKeepsIInv ==
  ASSUME IInv, NEW w \in Workers, Catch(w)
  PROVE  IInv'
<1> USE TasksAssumption DEF IInv, Catch, results
<1>0. /\ w \in Holders
      /\ index[w] < next_task
      /\ index[w] \in Indices
      /\ index[w] # NoIndex
      /\ slot[index[w]] = "threw"
      /\ InRun /\ InRun'
  BY DEF Holders, Holding, IndicesAgree, SlotsAgree, QuietOutsideRun, InRun,
         TypeOK, Indices, NoIndex
<1>1. /\ worker' = [worker EXCEPT ![w] = "finish"]
      /\ error' # NoIndex
      /\ error' \in {error, index[w]}
  BY <1>0
<1>2. TypeOK'
  BY <1>1 DEF TypeOK, WorkerStates
<1>3. Holders' = Holders
  BY <1>1 DEF TypeOK, Holders, Holding
<1>4. CountsAgree' /\ IndicesAgree'
  BY <1>3, SameHolders
<1>5. QuietOutsideRun'
  BY <1>0 DEF QuietOutsideRun
<1>7. SlotsAgree'
  BY <1>0, <1>1 DEF SlotsAgree, TypeOK
<1>8. ErrorAgrees'
  BY <1>0, <1>1 DEF ErrorAgrees
<1>9. GenerationsAgree'
  BY <1>0, <1>1, <1>3 DEF GenerationsAgree, TypeOK, Holders
<1>10. LifeCycle'
  BY <1>0, <1>1 DEF LifeCycle, TypeOK
<1> QED BY <1>2, <1>4, <1>5, <1>7, <1>8, <1>9, <1>10

LEMMA FinishKeepsIInv ==
  ASSUME IInv, NEW w \in Workers, Finish(w)
  PROVE  IInv'
<1> USE TasksAssumption DEF IInv, Finish, results
<1>0. /\ w \in Holders
      /\ InRun /\ InRun'
      /\ index \in [Workers -> 0..MaxTasks]
  BY DEF Holders, Holding, QuietOutsideRun, InRun, NotifyDone, TypeOK
<1>1. /\ completed_tasks' = completed_tasks + 1
      /\ completed_tasks + 1 <= next_task
  BY <1>0, HoldersFinite DEF CountsAgree, TypeOK
<1>2. caller' \in {"waitDone", "wakeDone"}
      /\ (caller' = "waitDone" => completed_tasks' # task_count)
  BY <1>0 DEF InRun, NotifyDone
<1>3. next_task # 0
  BY <1>1 DEF TypeOK
<1>4. CASE next_task < task_count
  <2> USE <1>4
  <2>0. /\ worker' = [worker EXCEPT ![w] = "running"]
        /\ index' = [index EXCEPT ![w] = next_task]
        /\ next_task' = next_task + 1
    BY DEF TakeOrLeave, TypeOK
  <2>1. TypeOK'
    BY <1>1, <1>2, <2>0 DEF TypeOK, WorkerStates, CallerStates
  <2>2. Holders' = Holders
    BY <2>0 DEF TypeOK, Holders, Holding
  <2>3. CountsAgree'
    BY <1>1, <2>0, <2>2, HoldersFinite DEF CountsAgree, TypeOK
  <2>5. QuietOutsideRun'
    BY <1>0 DEF QuietOutsideRun
  <2>6. next_task \in Indices /\ slot[next_task] = "empty"
    BY DEF IndicesAgree, TypeOK, Indices
  <2>7. IndicesAgree'
    BY <1>0, <2>0, <2>2 DEF IndicesAgree, TypeOK, Indices, Holders
  <2>8. SlotsAgree'
    BY <2>0, <2>6 DEF SlotsAgree, TypeOK, Indices
  <2>9. ErrorAgrees'
    BY <2>0 DEF ErrorAgrees, TypeOK, Indices
  <2>10. GenerationsAgree'
    BY <1>3, <2>0, <2>2 DEF GenerationsAgree, TypeOK, Holders
  <2>11. LifeCycle'
    BY <1>0, <1>2, <2>0 DEF LifeCycle, TypeOK, InRun
  <2> QED BY <2>1, <2>3, <2>5, <2>7, <2>8, <2>9, <2>10, <2>11
<1>5. CASE ~(next_task < task_count)
  <2> USE <1>5
  <2>0. /\ worker' = [worker EXCEPT ![w] = "top"]
        /\ index' = [index EXCEPT ![w] = NoIndex]
        /\ next_task' = next_task
    BY DEF TakeOrLeave
  <2>1. TypeOK'
    BY <1>1, <1>2, <2>0 DEF TypeOK, WorkerStates, CallerStates, NoIndex
  <2>2. Holders' = Holders \ {w}
    BY <2>0 DEF TypeOK, Holders, Holding
  <2>3. CountsAgree'
    BY <1>0, <1>1, <2>0, <2>2, HoldersCount, HoldersFinite DEF CountsAgree, TypeOK
  <2>5. QuietOutsideRun'
    BY <1>0 DEF QuietOutsideRun
  <2>7. IndicesAgree'
    BY <1>0, <2>0, <2>2 DEF IndicesAgree, TypeOK, Holders
  <2>8. SlotsAgree'
    BY <2>0 DEF SlotsAgree, TypeOK
  <2>9. ErrorAgrees'
    BY <2>0 DEF ErrorAgrees, TypeOK
  <2>10. GenerationsAgree'
    BY <1>3, <2>0, <2>2 DEF GenerationsAgree, TypeOK, Holders
  <2>11. LifeCycle'
    BY <1>0, <1>2, <2>0 DEF LifeCycle, TypeOK, InRun
  <2> QED BY <2>1, <2>3, <2>5, <2>7, <2>8, <2>9, <2>10, <2>11
<1> QED BY <1>4, <1>5

LEMMA StutterKeepsIInv ==
  ASSUME IInv, UNCHANGED vars
  PROVE  IInv'
<1> USE DEF IInv, vars, batch, results
<1>1. Holders' = Holders /\ (InRun' <=> InRun)
  BY DEF Holders, Holding, InRun
<1>2. TypeOK'
  BY DEF TypeOK
<1>3. CountsAgree' /\ IndicesAgree' /\ QuietOutsideRun'
  BY <1>1 DEF CountsAgree, IndicesAgree, QuietOutsideRun
<1>4. SlotsAgree' /\ ErrorAgrees'
  BY DEF SlotsAgree, ErrorAgrees
<1>5. GenerationsAgree' /\ LifeCycle'
  BY <1>1 DEF GenerationsAgree, LifeCycle
<1> QED BY <1>2, <1>3, <1>4, <1>5

LEMMA NextKeepsIInv == IInv /\ [Next]_vars => IInv'
<1> SUFFICES ASSUME IInv, [Next]_vars PROVE IInv'
  OBVIOUS
<1>1. CASE Owner
  <2>1. CASE ConstructorReturns \/ SpawnFails \/ SpuriousDone \/ WaitAgain \/ Joined
    BY <2>1, OwnerMoveKeepsIInv
  <2>2. ASSUME NEW w \in Workers, Spawn(w) PROVE IInv'
    BY <2>2, SpawnKeepsIInv
  <2>3. ASSUME NEW n \in 1..MaxTasks, Run(n) PROVE IInv'
    BY <2>3, RunKeepsIInv
  <2>4. CASE RunReturns
    BY <2>4, RunReturnsKeepsIInv
  <2>5. CASE Stop
    BY <2>5, StopKeepsIInv
  <2> QED BY <1>1, <2>1, <2>2, <2>3, <2>4, <2>5 DEF Owner
<1>2. ASSUME NEW w \in Workers, WorkerStep(w) PROVE IInv'
  <2>1. CASE Wait(w) \/ SpuriousStart(w) \/ Exit(w)
    BY <2>1, IdleWorkerKeepsIInv
  <2>2. CASE Observe(w)
    BY <2>2, ObserveKeepsIInv
  <2>3. CASE Execute(w)
    BY <2>3, ExecuteKeepsIInv
  <2>4. CASE Catch(w)
    BY <2>4, CatchKeepsIInv
  <2>5. CASE Finish(w)
    BY <2>5, FinishKeepsIInv
  <2> QED BY <1>2, <2>1, <2>2, <2>3, <2>4, <2>5 DEF WorkerStep
<1>3. CASE Ended \/ UNCHANGED vars
  BY <1>3, StutterKeepsIInv DEF Ended
<1> QED BY <1>1, <1>2, <1>3 DEF Next

(* --------------------------- the theorems ----------------------------- *)

\* The members of the executor and the threads' positions stay consistent:
\* counters, held indices, result slots, the kept exception and generations.
THEOREM InvariantHolds == Spec => []IInv
<1>1. Init => IInv
  BY InitEstablishesIInv
<1>2. IInv /\ [Next]_vars => IInv'
  BY NextKeepsIInv
<1> QED BY <1>1, <1>2, PTL DEF Spec

\* Every member keeps its type.
THEOREM TypeCorrect == Spec => []TypeOK
<1>1. IInv => TypeOK
  BY DEF IInv
<1> QED BY <1>1, InvariantHolds, PTL

\* No worker executes or reports on a task outside the run() whose stack
\* frame the task writes.
THEOREM TasksConfined == Spec => []TasksStayInsideRun
<1>1. IInv => TasksStayInsideRun
  BY DEF IInv, QuietOutsideRun, TasksStayInsideRun, Holders
<1> QED BY <1>1, InvariantHolds, PTL

\* The result slot of an index is written by one worker, once per batch.
THEOREM IndicesExclusive == Spec => []NoIndexTwice
<1>1. IInv => NoIndexTwice
  BY DEF IInv, IndicesAgree, SlotsAgree, NoIndexTwice, Holders, Holding
<1> QED BY <1>1, InvariantHolds, PTL

\* Both: what a task writes belongs to it and to a run() that still lasts.
THEOREM SlotsOwned == Spec => []SlotsAreOwned
BY TasksConfined, IndicesExclusive, PTL DEF SlotsAreOwned

\* Whatever wakeups are lost or spurious, an unfinished batch always has a
\* worker that will go on with it and a finished one an awake owner.
THEOREM WakeupsSuffice == Spec => []NoLostWakeup
<1> SUFFICES ASSUME IInv PROVE NoLostWakeup
  BY InvariantHolds, PTL
<1>1. caller = "waitDone" => completed_tasks # task_count
  BY DEF IInv, LifeCycle
<1>2. ASSUME InRun, completed_tasks < task_count, Holders = {}
      PROVE  \E w \in Workers : worker[w] = "top" /\ observed[w] # generation
  <2>1. completed_tasks = next_task
    BY <1>2, FS_EmptySet DEF IInv, CountsAgree, TypeOK
  <2>2. next_task = 0
    BY <1>2, <2>1 DEF IInv, CountsAgree, TypeOK
  <2> QED BY <1>2, <2>2 DEF IInv, GenerationsAgree
<1> QED BY <1>1, <1>2 DEF NoLostWakeup, Holders

(* ---------------------------- refinement ------------------------------ *)

LEMMA StutterMaps ==
  ASSUME Phase' = Phase, UNCHANGED <<task_count, slot, outcome>>
  PROVE  UNCHANGED Contract!vars
BY DEF Contract!vars

LEMMA InitMaps == Init => Contract!Init
BY DEF Init, Contract!Init, Phase, EmptySlots, Contract!EmptySlots, Indices,
       Contract!Indices

\* Every step of a thread is a step of the contract or leaves it unchanged.
LEMMA StepMaps == IInv /\ [Next]_vars => [Contract!Next]_(Contract!vars)
<1> SUFFICES ASSUME IInv, [Next]_vars
             PROVE  Contract!Next \/ UNCHANGED Contract!vars
  OBVIOUS
<1> USE DEF Phase, InRun, batch, results
<1>1. CASE ConstructorReturns \/ SpawnFails
  <2>1. Contract!Build
    BY <1>1 DEF Contract!Build, ConstructorReturns, SpawnFails
  <2> QED BY <2>1 DEF Contract!Next
<1>2. ASSUME NEW w \in Workers, Spawn(w) PROVE UNCHANGED Contract!vars
  BY <1>2, StutterMaps DEF Spawn
<1>3. ASSUME NEW n \in 1..MaxTasks, Run(n) PROVE Contract!Next
  <2>1. Contract!Start(n)
    BY <1>3 DEF Run, LoadBatch, Contract!Start, Contract!EmptySlots,
                Contract!Indices, EmptySlots, Indices
  <2> QED BY <2>1 DEF Contract!Next
<1>4. CASE SpuriousDone \/ WaitAgain \/ Joined
  <2>1. Phase' = Phase /\ UNCHANGED <<task_count, slot, outcome>>
    BY <1>4 DEF SpuriousDone, WaitAgain, Joined
  <2> QED BY <2>1, StutterMaps
<1>5. ASSUME RunReturns PROVE Contract!Next
  <2> USE <1>5 DEF RunReturns, BatchComplete, IInv
  <2>1. next_task = task_count /\ Holders = {}
    BY HoldersFinite DEF TypeOK, CountsAgree
  <2>2. Contract!Finished
    BY <2>1 DEF Contract!Finished, Contract!Indices, Indices, SlotsAgree,
                Holders, Holding
  <2>3. Contract!Threw <=> error # NoIndex
    <3>1. ASSUME error # NoIndex PROVE Contract!Threw
      BY <2>1, <3>1, TasksAssumption DEF ErrorAgrees, TypeOK, Contract!Threw,
         Contract!Indices, NoIndex
    <3>2. ASSUME Contract!Threw PROVE error # NoIndex
      BY <2>1, <3>2 DEF ErrorAgrees, Contract!Threw, Contract!Indices, Indices,
         Holders, Holding
    <3> QED BY <3>1, <3>2
  <2>4. Contract!Return
    BY <2>2, <2>3 DEF Contract!Return
  <2> QED BY <2>4 DEF Contract!Next
<1>6. ASSUME Stop PROVE Contract!Next
  <2>1. Contract!Close
    BY <1>6 DEF Stop, Contract!Close
  <2> QED BY <2>1 DEF Contract!Next
<1>7. ASSUME NEW w \in Workers, WorkerStep(w)
      PROVE  Contract!Next \/ UNCHANGED Contract!vars
  <2>1. CASE Wait(w) \/ SpuriousStart(w) \/ Exit(w) \/ Observe(w) \/ Catch(w)
    <3>1. UNCHANGED <<caller, task_count, slot, outcome>>
      BY <2>1 DEF Wait, SpuriousStart, Exit, Observe, Catch
    <3> QED BY <3>1, StutterMaps
  <2>2. CASE Finish(w)
    <3>1. UNCHANGED <<task_count, slot, outcome>> /\ Phase' = Phase
      BY <2>2 DEF Finish, NotifyDone
    <3> QED BY <3>1, StutterMaps
  <2>3. CASE Execute(w)
    <3> USE <2>3, TasksAssumption DEF Execute, IInv
    <3>1. /\ w \in Holders
          /\ index[w] < next_task
          /\ index[w] \in Contract!Indices
          /\ index[w] < task_count
          /\ slot[index[w]] = "empty"
          /\ InRun
      BY DEF Holders, Holding, IndicesAgree, CountsAgree, SlotsAgree,
             QuietOutsideRun, TypeOK, Contract!Indices
    <3>2. Contract!Call(index[w])
      BY <3>1 DEF Contract!Call
    <3> QED BY <3>1, <3>2 DEF Contract!Next
  <2> QED BY <1>7, <2>1, <2>2, <2>3 DEF WorkerStep
<1>8. CASE Ended \/ UNCHANGED vars
  <2>1. UNCHANGED <<caller, task_count, slot, outcome>>
    BY <1>8 DEF Ended, vars
  <2> QED BY <2>1, StutterMaps
<1> QED BY <1>1, <1>2, <1>3, <1>4, <1>5, <1>6, <1>7, <1>8 DEF Next, Owner

\* run() calls the task once for every index of the batch, returns only after
\* the last call and rethrows exactly when a call of this batch threw.
THEOREM Refinement == Spec => ImplementsContract
<1>1. Init => Contract!Init
  BY InitMaps
<1>2. IInv /\ [Next]_vars => [Contract!Next]_(Contract!vars)
  BY StepMaps
<1> QED BY <1>1, <1>2, InvariantHolds, PTL DEF Spec, ImplementsContract, Contract!Spec

-------------------------------------------------------------------------------
(* The ring *)

(* ------------------------------- powers -------------------------------- *)

\* The powers of a number, exactly.
Powers(b) == CHOOSE g : Iterates(Int, 1, [v \in Int |-> v * b], g)
Pw(b, e)  == Powers(b)[e]

LEMMA PwFacts ==
  ASSUME NEW b \in Int
  PROVE  /\ \A e \in Nat : Pw(b, e) \in Int
         /\ Pw(b, 0) = 1
         /\ \A e \in Nat : Pw(b, e + 1) = Pw(b, e) * b
<1> DEFINE step == [v \in Int |-> v * b]
<1>1. 1 \in Int /\ step \in [Int -> Int]
  OBVIOUS
<1>2. Iterates(Int, 1, step, Powers(b))
  <2> HIDE DEF step
  <2>1. \E g : Iterates(Int, 1, step, g)
    BY <1>1, IterationExists
  <2> QED BY <2>1 DEF Powers, step
<1> DEFINE g == Powers(b)
<1>3. g \in [Nat -> Int] /\ g[0] = 1 /\ \A n \in Nat : g[n + 1] = step[g[n]]
  BY <1>2 DEF Iterates
<1> HIDE DEF g
<1>4. \A n \in Nat : g[n] \in Int /\ g[n + 1] = g[n] * b
  BY <1>3
<1> QED BY <1>3, <1>4 DEF g, Pw

LEMMA PwAdds ==
  ASSUME NEW b \in Int, NEW d \in Nat
  PROVE  \A e \in Nat : Pw(b, d + e) = Pw(b, d) * Pw(b, e)
<1> DEFINE T == {e \in Nat : Pw(b, d + e) = Pw(b, d) * Pw(b, e)}
<1>1. 0 \in T
  <2>1. d + 0 = d /\ Pw(b, 0) = 1 /\ Pw(b, d) \in Int
    BY PwFacts
  <2> QED BY <2>1
<1>2. \A n \in Nat : n \in T => n + 1 \in T
  <2> SUFFICES ASSUME NEW n \in Nat, Pw(b, d + n) = Pw(b, d) * Pw(b, n)
               PROVE  Pw(b, d + (n + 1)) = Pw(b, d) * Pw(b, n + 1)
    OBVIOUS
  <2>1. PICK s \in Nat : s = d + n
    OBVIOUS
  <2>2. Pw(b, s + 1) = Pw(b, s) * b /\ Pw(b, n + 1) = Pw(b, n) * b
    BY PwFacts
  <2>3. PICK x \in Int, y \in Int : x = Pw(b, d) /\ y = Pw(b, n)
    BY PwFacts
  <2>4. Pw(b, s + 1) = (x * y) * b /\ Pw(b, n + 1) = y * b
    BY <2>1, <2>2, <2>3
  <2>5. (x * y) * b = x * (y * b)
    OBVIOUS
  <2>6. d + (n + 1) = s + 1
    BY <2>1
  <2> QED BY <2>3, <2>4, <2>5, <2>6
<1> HIDE DEF T
<1>3. \A n \in Nat : n \in T
  BY <1>1, <1>2, SetOfAllNaturals
<1> QED BY <1>3 DEF T

LEMMA PwOfSame ==
  ASSUME NEW a \in Int, NEW b \in Int, NEW m \in Int, Same(a, b, m)
  PROVE  \A e \in Nat : Same(Pw(a, e), Pw(b, e), m)
<1> DEFINE T == {e \in Nat : Same(Pw(a, e), Pw(b, e), m)}
<1>1. 0 \in T
  <2>1. Pw(a, 0) = 1 /\ Pw(b, 0) = 1 /\ Same(1, 1, m)
    BY PwFacts, SameIsReflexive
  <2> QED BY <2>1
<1>2. \A n \in Nat : n \in T => n + 1 \in T
  <2> SUFFICES ASSUME NEW n \in Nat, Same(Pw(a, n), Pw(b, n), m)
               PROVE  Same(Pw(a, n + 1), Pw(b, n + 1), m)
    OBVIOUS
  <2>1. Pw(a, n + 1) = Pw(a, n) * a /\ Pw(b, n + 1) = Pw(b, n) * b
    BY PwFacts
  <2>2. Pw(a, n) \in Int /\ Pw(b, n) \in Int
    BY PwFacts
  <2>3. Same(Pw(a, n) * a, Pw(b, n) * b, m)
    BY <2>2, SameTimes
  <2> QED BY <2>1, <2>3
<1> HIDE DEF T
<1>3. \A n \in Nat : n \in T
  BY <1>1, <1>2, SetOfAllNaturals
<1> QED BY <1>3 DEF T

\* A power of a power.
LEMMA PwOfPw ==
  ASSUME NEW b \in Int, NEW d \in Nat
  PROVE  \A e \in Nat : d * e \in Nat /\ Pw(Pw(b, d), e) = Pw(b, d * e)
<1>0. \A e \in Nat : d * e \in Nat
  OBVIOUS
<1> DEFINE T == {e \in Nat : Pw(Pw(b, d), e) = Pw(b, d * e)}
<1>a. Pw(b, d) \in Int
  BY PwFacts
<1>1. 0 \in T
  <2>1. d * 0 = 0 /\ Pw(b, 0) = 1 /\ Pw(Pw(b, d), 0) = 1
    BY <1>a, PwFacts
  <2> QED BY <2>1
<1>2. \A n \in Nat : n \in T => n + 1 \in T
  <2> SUFFICES ASSUME NEW n \in Nat, Pw(Pw(b, d), n) = Pw(b, d * n)
               PROVE  Pw(Pw(b, d), n + 1) = Pw(b, d * (n + 1))
    OBVIOUS
  <2>1. PICK s \in Nat : s = d * n
    BY <1>0
  <2>2. d * (n + 1) = s + d
    BY <2>1
  <2>3. Pw(b, s + d) = Pw(b, s) * Pw(b, d)
    BY PwAdds
  <2>4. Pw(Pw(b, d), n + 1) = Pw(Pw(b, d), n) * Pw(b, d)
    BY <1>a, PwFacts
  <2> QED BY <2>1, <2>2, <2>3, <2>4
<1> HIDE DEF T
<1>3. \A n \in Nat : n \in T
  BY <1>1, <1>2, SetOfAllNaturals
<1> QED BY <1>0, <1>3 DEF T

\* The powers of one are one.
LEMMA PwOfOne ==
  ASSUME NEW b \in Int, NEW m \in Int, Same(b, 1, m)
  PROVE  \A e \in Nat : Same(Pw(b, e), 1, m)
<1> DEFINE T == {e \in Nat : Same(Pw(b, e), 1, m)}
<1>1. 0 \in T
  <2>1. Pw(b, 0) = 1 /\ Same(1, 1, m)
    BY PwFacts, SameIsReflexive
  <2> QED BY <2>1
<1>2. \A n \in Nat : n \in T => n + 1 \in T
  <2> SUFFICES ASSUME NEW n \in Nat, Same(Pw(b, n), 1, m)
               PROVE  Same(Pw(b, n + 1), 1, m)
    OBVIOUS
  <2>1. Pw(b, n + 1) = Pw(b, n) * b /\ Pw(b, n) \in Int
    BY PwFacts
  <2>2. Same(Pw(b, n) * b, 1 * 1, m)
    BY <2>1, SameTimes
  <2> QED BY <2>1, <2>2
<1> HIDE DEF T
<1>3. \A n \in Nat : n \in T
  BY <1>1, <1>2, SetOfAllNaturals
<1> QED BY <1>3 DEF T

(* ---------------------------- prime moduli ----------------------------- *)

\* A factor that does not vanish can be cancelled.
LEMMA PrimeHasInverse ==
  ASSUME NEW p \in Nat, IsPrime(p), NEW a \in Int, ~Same(a, 0, p)
  PROVE  /\ a % p \in 1 .. p - 1
         /\ \E b \in 1 .. p - 1 : Same(a * b, 1, p)
<1>0. p \in Nat \ {0}
  BY DEF IsPrime
<1>1. a % p \in 0 .. p - 1 /\ Same(a, a % p, p)
  BY <1>0, SameAsRest
<1>2. a % p # 0
  BY <1>1
<1>3. a % p \in 1 .. p - 1
  BY <1>0, <1>1, <1>2
<1>4. PICK b \in 1 .. p - 1 : Cancel(a % p, b, p)
  BY <1>3, InverseExists
<1>5. a % p \in Int /\ b \in Int
  BY <1>3
<1>6. Same(b, b, p)
  BY <1>5, SameIsReflexive
<1>7. Same(a * b, (a % p) * b, p)
  BY <1>1, <1>5, <1>6, SameTimes
<1>8. Same((a % p) * b, 1, p)
  BY <1>4 DEF Cancel
<1>9. a * b \in Int /\ (a % p) * b \in Int
  BY <1>5
<1>10. Same(a * b, 1, p)
  BY <1>7, <1>8, <1>9, SameIsTransitive
<1> QED BY <1>3, <1>10

LEMMA PrimeDividesFactor ==
  ASSUME NEW p \in Nat, IsPrime(p), NEW a \in Int, NEW b \in Int, Same(a * b, 0, p)
  PROVE  Same(a, 0, p) \/ Same(b, 0, p)
<1> SUFFICES ASSUME ~Same(a, 0, p) PROVE Same(b, 0, p)
  OBVIOUS
<1>1. PICK c \in 1 .. p - 1 : Same(a * c, 1, p)
  BY PrimeHasInverse
<1>2. c \in Int
  OBVIOUS
<1>3. PICK j \in Int : a * b = 0 + j * p
  BY DEF Same
<1>4. PICK k \in Int : a * c = 1 + k * p
  BY <1>1 DEF Same
<1>5. (a * b) * c = (a * c) * b
  BY <1>2
<1>6. (j * p) * c = (1 + k * p) * b
  BY <1>2, <1>3, <1>4, <1>5
<1>7. b = 0 + (j * c - k * b) * p
  BY <1>2, <1>6
<1>8. j * c - k * b \in Int
  BY <1>2
<1> QED BY <1>7, <1>8 DEF Same

\* The multiples of a by the first n numbers.
Multiples(a, p, n) == {(a * i) % p : i \in 1 .. n}

LEMMA MultiplesMultiply ==
  ASSUME NEW p \in Nat, IsPrime(p), NEW a \in Int, ~Same(a, 0, p)
  PROVE  \A n \in Nat : n <= p - 1 =>
           /\ Numbers(Multiples(a, p, n))
           /\ Same(ProductOf(Multiples(a, p, n)), Pw(a, n) * ProductOf(1 .. n), p)
<1>0. p \in Nat \ {0}
  BY DEF IsPrime
<1> DEFINE M(n) == Multiples(a, p, n)
           Good(n) == /\ Numbers(M(n))
                      /\ Same(ProductOf(M(n)), Pw(a, n) * ProductOf(1 .. n), p)
           T == {n \in Nat : n <= p - 1 => Good(n)}
<1>1. 0 \in T
  <2>1. M(0) = {} /\ 1 .. 0 = {}
    BY DEF Multiples
  <2>2. Numbers({}) /\ ProductOf({}) = 1 /\ Pw(a, 0) = 1 /\ Same(1, 1, p)
    BY ProductOfNone, PwFacts, SameIsReflexive, FS_EmptySet DEF Numbers
  <2>3. 1 * 1 = 1
    OBVIOUS
  <2>4. Good(0)
    BY <2>1, <2>2, <2>3
  <2> HIDE DEF Good
  <2> QED BY <2>4
<1>2. \A n \in Nat : n \in T => n + 1 \in T
  <2> SUFFICES ASSUME NEW n \in Nat, n + 1 <= p - 1, Good(n)
               PROVE  Good(n + 1)
    OBVIOUS
  <2> DEFINE x == (a * (n + 1)) % p
  <2>1. a * (n + 1) \in Int
    OBVIOUS
  <2>2. x \in 0 .. p - 1 /\ Same(x, a * (n + 1), p)
    BY <1>0, <2>1, SameAsRest
  <2>3. M(n + 1) = M(n) \cup {x}
    <3>1. 1 .. n + 1 = (1 .. n) \cup {n + 1}
      OBVIOUS
    <3> QED BY <3>1 DEF Multiples
  <2>4. x \notin M(n)
    <3> SUFFICES ASSUME NEW i \in 1 .. n, x = (a * i) % p PROVE FALSE
      BY DEF Multiples
    <3>1. a * i \in Int
      OBVIOUS
    <3>2. Same(a * i, x, p)
      BY <1>0, <3>1, SameAsRest
    <3>3. x \in Int
      BY <2>2
    <3>4. Same(a * i, a * (n + 1), p)
      BY <2>1, <2>2, <3>1, <3>2, <3>3, SameIsTransitive
    <3>5. PICK k \in Int : a * i = a * (n + 1) + k * p
      BY <3>4 DEF Same
    <3>6. PICK d \in Int : d = n + 1 - i
      OBVIOUS
    <3>7. a * d = 0 + (-k) * p
      BY <3>5, <3>6
    <3>8. Same(a * d, 0, p)
      <4>1. -k \in Int
        OBVIOUS
      <4> QED BY <3>7, <4>1 DEF Same
    <3>9. Same(d, 0, p)
      BY <3>8, PrimeDividesFactor
    <3>10. d \in 0 .. p - 1 /\ 0 \in 0 .. p - 1 /\ d # 0
      BY <1>0, <3>6
    <3> QED BY <1>0, <3>9, <3>10, SameOfSmall
  <2>5. /\ ProductOf(M(n) \cup {x}) = x * ProductOf(M(n))
        /\ Numbers(M(n) \cup {x})
    <3>1. x \in Int /\ Numbers(M(n))
      BY <2>2
    <3> HIDE DEF x, M
    <3> QED BY <2>4, <3>1, ProductWith
  <2>6. ProductOf(1 .. n + 1) = (n + 1) * ProductOf(1 .. n)
    BY IntervalNext
  <2>7. Pw(a, n + 1) = Pw(a, n) * a
    BY PwFacts
  <2>8. Numbers(1 .. n)
    BY IntervalsAreNumbers
  <2>9. PICK u \in Int, f \in Int, w \in Int :
          u = ProductOf(M(n)) /\ f = ProductOf(1 .. n) /\ w = Pw(a, n)
    BY <2>8, ProductType, PwFacts
  <2>10. x \in Int /\ w * f \in Int
    BY <2>2
  <2>11. Same(x * u, (a * (n + 1)) * (w * f), p)
    <3>1. Same(u, w * f, p)
      BY <2>9
    <3> HIDE DEF x, M
    <3> QED BY <2>1, <2>2, <2>10, <3>1, SameTimes
  <2>12. (a * (n + 1)) * (w * f) = (w * a) * ((n + 1) * f)
    OBVIOUS
  <2> HIDE DEF x
  <2> QED BY <2>3, <2>5, <2>6, <2>7, <2>9, <2>11, <2>12
<1> HIDE DEF T
<1>3. \A n \in Nat : n \in T
  BY <1>1, <1>2, SetOfAllNaturals
<1> QED BY <1>3 DEF T

\* Fermat's little theorem.
THEOREM FermatsTheorem ==
  ASSUME NEW p \in Nat, IsPrime(p), NEW a \in Int, ~Same(a, 0, p)
  PROVE  Same(Pw(a, p - 1), 1, p)
<1>0. p \in Nat \ {0} /\ p - 1 \in Nat /\ p - 1 <= p - 1
  BY DEF IsPrime
<1>1. Multiples(a, p, p - 1) = 1 .. p - 1
  <2>1. ASSUME NEW i \in 1 .. p - 1 PROVE (a * i) % p \in 1 .. p - 1
    <3>1. i \in 0 .. p - 1 /\ 0 \in 0 .. p - 1 /\ i # 0 /\ i \in Int
      BY <1>0
    <3>2. ~Same(i, 0, p)
      BY <1>0, <3>1, SameOfSmall
    <3>3. ~Same(a * i, 0, p)
      BY <3>1, <3>2, PrimeDividesFactor
    <3>4. a * i \in Int
      OBVIOUS
    <3> QED BY <3>3, <3>4, PrimeHasInverse
  <2>2. ASSUME NEW t \in 1 .. p - 1 PROVE \E i \in 1 .. p - 1 : t = (a * i) % p
    <3>1. PICK b \in 1 .. p - 1 : Same(a * b, 1, p)
      BY PrimeHasInverse
    <3>2. b \in Int /\ t \in Int
      OBVIOUS
    <3>3. PICK k \in Int : a * b = 1 + k * p
      BY <3>1 DEF Same
    <3>4. b * t \in Int
      BY <3>2
    <3> DEFINE i == (b * t) % p
    <3>5. i \in 0 .. p - 1 /\ Same(i, b * t, p)
      BY <1>0, <3>4, SameAsRest
    <3>6. PICK j \in Int : i = b * t + j * p
      BY <3>5 DEF Same
    <3>7. a * i = (a * b) * t + (a * j) * p
      BY <3>2, <3>6
    <3>8. a * i = t + (k * t + a * j) * p
      BY <3>2, <3>3, <3>7
    <3>9. k * t + a * j \in Int
      BY <3>2
    <3>10. Same(a * i, t, p)
      BY <3>8, <3>9 DEF Same
    <3>11. a * i \in Int /\ t \in 0 .. p - 1
      BY <3>5
    <3>12. (a * i) % p = t
      BY <1>0, <3>10, <3>11, RestIsSmall
    <3>13. i # 0
      <4> SUFFICES ASSUME i = 0 PROVE FALSE
        OBVIOUS
      <4>1. a * i = 0 /\ 0 \in 0 .. p - 1
        BY <1>0
      <4>2. Same(0, t, p)
        BY <3>10, <4>1
      <4> QED BY <1>0, <3>11, <4>1, <4>2, SameOfSmall
    <3>14. i \in 1 .. p - 1
      BY <3>5, <3>13
    <3> QED BY <3>12, <3>14
  <2> QED BY <2>1, <2>2 DEF Multiples
<1>2. Same(ProductOf(1 .. p - 1), Pw(a, p - 1) * ProductOf(1 .. p - 1), p)
  BY <1>0, <1>1, MultiplesMultiply
<1>3. PICK f \in Int, w \in Int : f = ProductOf(1 .. p - 1) /\ w = Pw(a, p - 1)
  <2>1. 1 \in Int /\ p - 1 \in Int
    OBVIOUS
  <2>2. Numbers(1 .. p - 1)
    BY <2>1, IntervalsAreNumbers
  <2> QED BY <1>0, <2>2, ProductType, PwFacts
<1>4. f % p = p - 1
  BY <1>3, FactorialOfPrime
<1>5. Same(f, p - 1, p)
  BY <1>0, <1>4, SameAsRest
<1>6. PICK k \in Int : f = p - 1 + k * p
  BY <1>5 DEF Same
<1>7. PICK j \in Int : f = w * f + j * p
  BY <1>2, <1>3 DEF Same
<1>8. p - 1 + k * p = w * (p - 1 + k * p) + j * p
  BY <1>6, <1>7
<1>9. w = 1 + (w + w * k + j - 1 - k) * p
  BY <1>8
<1>10. w + w * k + j - 1 - k \in Int
  OBVIOUS
<1> QED BY <1>3, <1>9, <1>10 DEF Same

(* --------------------------- powers by halving ------------------------- *)

PowerStep(base, exponent, p, g) ==
  [e \in 0 .. exponent |->
     IF e = 0 THEN 1
     ELSE (((g[e \div 2] * g[e \div 2]) % p) * (IF e % 2 = 1 THEN base ELSE 1)) % p]
HalvedPowers(base, exponent, p) == CHOOSE g : g = PowerStep(base, exponent, p, g)

LEMMA PowerIsHalved ==
  ASSUME NEW base, NEW exponent, NEW p
  PROVE  Power(base, exponent, p) = HalvedPowers(base, exponent, p)[exponent]
BY DEF Power, HalvedPowers, PowerStep

\* One squaring.
LEMMA SquareAndMultiply ==
  ASSUME NEW p \in Nat \ {0, 1}, NEW base \in Int, NEW e \in Nat \ {0}
  PROVE  /\ e \div 2 \in Nat /\ e \div 2 < e
         /\ Pw(base, e) % p =
              ((((Pw(base, e \div 2) % p) * (Pw(base, e \div 2) % p)) % p)
                 * (IF e % 2 = 1 THEN base ELSE 1)) % p
<1>1. PICK h \in Nat : h = e \div 2 /\ h < e /\ (e = h + h \/ e = (h + h) + 1)
  <2>1. e \div 2 \in Nat /\ e \div 2 < e
    OBVIOUS
  <2>2. e = 2 * (e \div 2) + (e % 2) /\ e % 2 \in 0 .. 1
    OBVIOUS
  <2> QED BY <2>1, <2>2
<1>0. p \in Nat \ {0}
  OBVIOUS
<1>2. PICK x \in Int : x = Pw(base, h)
  BY PwFacts
<1>3. Pw(base, h + h) = x * x
  BY <1>2, PwAdds
<1>4. h + h \in Nat /\ Pw(base, (h + h) + 1) = (x * x) * base
  BY <1>3, PwFacts
<1>5. ((x % p) * (x % p)) % p = (x * x) % p
  BY <1>0, RestOfProductOfRests
<1>6. PICK c \in Int : c = (IF e % 2 = 1 THEN base ELSE 1)
  OBVIOUS
<1>7. Pw(base, e) = (x * x) * c
  <2>1. CASE e = h + h
    <3>1. e % 2 = 0
      BY <2>1
    <3> QED BY <1>3, <1>6, <2>1, <3>1
  <2>2. CASE e = (h + h) + 1
    <3>1. e % 2 = 1
      BY <2>2
    <3> QED BY <1>4, <1>6, <2>2, <3>1
  <2> QED BY <1>1, <2>1, <2>2
<1>8. (((x * x) % p) * c) % p = ((x * x) * c) % p
  <2>0. x * x \in Int
    OBVIOUS
  <2>1. (x * x) % p \in Int /\ Same((x * x) % p, x * x, p) /\ Same(c, c, p)
    BY <1>0, <2>0, SameAsRest, SameIsReflexive
  <2>2. PICK y \in Int : y = (x * x) % p
    BY <2>1
  <2>3. Same(y * c, (x * x) * c, p)
    <3>1. Same(y, x * x, p) /\ p \in Int
      BY <2>1, <2>2
    <3> QED BY <2>0, <2>1, <3>1, SameTimes
  <2>4. y * c \in Int /\ (x * x) * c \in Int
    OBVIOUS
  <2> QED BY <1>0, <2>2, <2>3, <2>4, RestsOfSame
<1>9. Pw(base, e) % p = ((((x % p) * (x % p)) % p) * c) % p
  BY <1>5, <1>7, <1>8
<1>10. Pw(base, e) % p = ((((Pw(base, h) % p) * (Pw(base, h) % p)) % p) * c) % p
  BY <1>2, <1>9
<1>11. e \div 2 = h
  BY <1>1
<1>12. e \div 2 \in Nat /\ e \div 2 < e
  BY <1>1
<1> QED BY ONLY <1>6, <1>10, <1>11, <1>12

LEMMA PowerIs ==
  ASSUME NEW p \in Nat \ {0, 1}, NEW base \in Int, NEW exponent \in Nat
  PROVE  Power(base, exponent, p) = Pw(base, exponent) % p
<1> DEFINE W == [e \in 0 .. exponent |-> Pw(base, e) % p]
           g == HalvedPowers(base, exponent, p)
<1>1. W = PowerStep(base, exponent, p, W)
  <2>1. ASSUME NEW e \in 0 .. exponent
        PROVE  Pw(base, e) % p = PowerStep(base, exponent, p, W)[e]
    <3>1. CASE e = 0
      <4>1. Pw(base, 0) = 1 /\ 1 % p = 1
        BY PwFacts
      <4> QED BY <3>1, <4>1 DEF PowerStep
    <3>2. CASE e # 0
      <4>1. e \in Nat \ {0}
        BY <3>2
      <4>2. e \div 2 \in Nat /\ e \div 2 < e
        BY <4>1, SquareAndMultiply
      <4>3. e \div 2 \in 0 .. exponent
        BY <4>2
      <4>4. W[e \div 2] = Pw(base, e \div 2) % p
        BY <4>3
      <4>5. PowerStep(base, exponent, p, W)[e] =
              (((W[e \div 2] * W[e \div 2]) % p) * (IF e % 2 = 1 THEN base ELSE 1)) % p
        BY <3>2 DEF PowerStep
      <4> HIDE DEF W
      <4> QED BY <4>1, <4>4, <4>5, SquareAndMultiply
    <3> QED BY <3>1, <3>2
  <2> QED BY <2>1 DEF PowerStep
<1>2. g = PowerStep(base, exponent, p, g)
  <2> HIDE DEF W
  <2> QED BY <1>1 DEF HalvedPowers
<1> HIDE DEF g, W
<1> DEFINE T == {n \in Nat : \A e \in 0 .. exponent : e <= n => g[e] = Pw(base, e) % p}
<1>3. ASSUME NEW e \in 0 .. exponent, e # 0
      PROVE  g[e] = (((g[e \div 2] * g[e \div 2]) % p) * (IF e % 2 = 1 THEN base ELSE 1)) % p
  BY <1>2, <1>3 DEF PowerStep
<1>4. g[0] = Pw(base, 0) % p
  <2>1. Pw(base, 0) = 1 /\ 1 % p = 1
    BY PwFacts
  <2> QED BY <1>2, <2>1 DEF PowerStep
<1>5. 0 \in T
  BY <1>4
<1>6. \A n \in Nat : n \in T => n + 1 \in T
  <2> SUFFICES ASSUME NEW n \in Nat, n \in T, NEW e \in 0 .. exponent, e <= n + 1
               PROVE  g[e] = Pw(base, e) % p
    OBVIOUS
  <2>1. CASE e = 0
    BY <1>4, <2>1
  <2>2. CASE e # 0
    <3>1. e \in Nat \ {0}
      BY <2>2
    <3>2. e \div 2 \in Nat /\ e \div 2 < e
      BY <3>1, SquareAndMultiply
    <3>3. e \div 2 \in 0 .. exponent /\ e \div 2 <= n
      BY <3>2
    <3>4. g[e \div 2] = Pw(base, e \div 2) % p
      BY <3>3
    <3>5. g[e] = (((g[e \div 2] * g[e \div 2]) % p) * (IF e % 2 = 1 THEN base ELSE 1)) % p
      BY <1>3, <2>2
    <3> HIDE DEF T
    <3> QED BY <3>1, <3>4, <3>5, SquareAndMultiply
  <2> QED BY <2>1, <2>2
<1>7. exponent \in T
  <2> HIDE DEF T
  <2> QED BY <1>5, <1>6, SetOfAllNaturals
<1> QED BY <1>7, PowerIsHalved DEF g

LEMMA PowerFacts ==
  ASSUME NEW p \in Nat \ {0, 1}, NEW base \in Int, NEW exponent \in Nat
  PROVE  /\ Power(base, exponent, p) \in 0 .. p - 1
         /\ Same(Power(base, exponent, p), Pw(base, exponent), p)
<1>1. Pw(base, exponent) \in Int /\ p \in Nat \ {0}
  BY PwFacts
<1> QED BY <1>1, PowerIs, SameAsRest

\* Fermat's exponent inverts.
LEMMA InvertedCancels ==
  ASSUME NEW p \in Nat, IsPrime(p), NEW x \in Int, Same(Pw(x, p - 1), 1, p)
  PROVE  /\ Inverted(x, p) \in 0 .. p - 1
         /\ Same(x * Inverted(x, p), 1, p)
<1>0. p \in Nat \ {0, 1} /\ p - 2 \in Nat
  BY DEF IsPrime
<1>1. PICK k \in Nat : k = p - 2 /\ p - 1 = k + 1
  BY <1>0
<1>2. /\ Inverted(x, p) \in 0 .. p - 1
      /\ Same(Inverted(x, p), Pw(x, k), p)
  BY <1>0, <1>1, PowerFacts DEF Inverted
<1>3. Pw(x, k) \in Int /\ Pw(x, k + 1) = Pw(x, k) * x
  BY PwFacts
<1>4. PICK v \in Int : v = Inverted(x, p)
  BY <1>2
<1>5. p \in Int /\ Same(x, x, p)
  BY SameIsReflexive
<1>6. Same(x * v, x * Pw(x, k), p)
  BY <1>2, <1>3, <1>4, <1>5, SameTimes
<1>7. x * Pw(x, k) = Pw(x, p - 1)
  BY <1>1, <1>3
<1>8. x * v \in Int /\ Pw(x, p - 1) \in Int
  BY <1>3, <1>7
<1>9. Same(x * v, 1, p)
  BY <1>5, <1>6, <1>7, <1>8, SameIsTransitive
<1> QED BY <1>2, <1>4, <1>9

LEMMA InverseOfUnit ==
  ASSUME NEW p \in Nat, IsPrime(p), NEW x \in Int, ~Same(x, 0, p)
  PROVE  /\ Inverted(x, p) \in 0 .. p - 1
         /\ Same(x * Inverted(x, p), 1, p)
BY FermatsTheorem, InvertedCancels

(* ---------------------------- powers of two ---------------------------- *)

LEMMA TwoPowersGrow ==
  ASSUME NEW a \in Nat
  PROVE  /\ PowerOfTwo(a) \in Nat \ {0}
         /\ \A d \in Nat : PowerOfTwo(a + d) = PowerOfTwo(a) * PowerOfTwo(d)
         /\ \A b \in Nat : a <= b => PowerOfTwo(a) <= PowerOfTwo(b)
         /\ \A b \in Nat : a < b => PowerOfTwo(a) < PowerOfTwo(b)
<1>1. \A k \in Nat : PowerOfTwo(k) \in Nat \ {0}
  BY PowersOfTwo
<1> DEFINE T == {d \in Nat : PowerOfTwo(a + d) = PowerOfTwo(a) * PowerOfTwo(d)}
<1>2. 0 \in T
  <2>1. a + 0 = a /\ PowerOfTwo(0) = 1 /\ PowerOfTwo(a) * 1 = PowerOfTwo(a)
    BY <1>1, PowersOfTwo
  <2> QED BY <2>1
<1>3. \A n \in Nat : n \in T => n + 1 \in T
  <2> SUFFICES ASSUME NEW n \in Nat, PowerOfTwo(a + n) = PowerOfTwo(a) * PowerOfTwo(n)
               PROVE  PowerOfTwo(a + (n + 1)) = PowerOfTwo(a) * PowerOfTwo(n + 1)
    OBVIOUS
  <2>1. PICK s \in Nat : s = a + n
    OBVIOUS
  <2>2. PowerOfTwo(s + 1) = 2 * PowerOfTwo(s) /\ PowerOfTwo(n + 1) = 2 * PowerOfTwo(n)
    BY PowersOfTwo
  <2>3. PICK x \in Int, y \in Int : x = PowerOfTwo(a) /\ y = PowerOfTwo(n)
    BY <1>1
  <2>4. 2 * (x * y) = x * (2 * y) /\ a + (n + 1) = s + 1
    BY <2>1
  <2> QED BY <2>1, <2>2, <2>3, <2>4
<1> HIDE DEF T
<1>4. \A n \in Nat : n \in T
  BY <1>2, <1>3, SetOfAllNaturals
<1>5. ASSUME NEW b \in Nat, a <= b
      PROVE  PowerOfTwo(a) <= PowerOfTwo(b) /\ (a < b => PowerOfTwo(a) < PowerOfTwo(b))
  <2>1. PICK d \in Nat : b = a + d /\ (a < b => d > 0)
    <3>1. b - a \in Nat /\ b = a + (b - a)
      BY <1>5
    <3> QED BY <3>1
  <2>2. PICK x \in Nat \ {0}, y \in Nat \ {0} : x = PowerOfTwo(a) /\ y = PowerOfTwo(d)
    BY <1>1
  <2>3. PowerOfTwo(b) = x * y
    BY <1>4, <2>1, <2>2 DEF T
  <2>4. y >= 1 /\ (a < b => y > 1)
    BY <2>1, <2>2, PowersOfTwo
  <2>5. x * y >= x /\ (a < b => x * y > x)
    <3>1. x * (y - 1) >= 0 /\ (a < b => x * (y - 1) > 0)
      BY <2>4
    <3>2. x * y = x * (y - 1) + x
      OBVIOUS
    <3>3. PICK z \in Int : z = x * (y - 1)
      OBVIOUS
    <3>4. PICK w \in Int : w = x * y
      OBVIOUS
    <3> QED BY <3>1, <3>2, <3>3, <3>4
  <2> QED BY <2>2, <2>3, <2>5
<1>6. \A b \in Nat : a < b => PowerOfTwo(a) < PowerOfTwo(b)
  <2> SUFFICES ASSUME NEW b \in Nat, a < b PROVE PowerOfTwo(a) < PowerOfTwo(b)
    OBVIOUS
  <2>1. a <= b
    OBVIOUS
  <2> QED BY <1>5, <2>1
<1> QED BY <1>1, <1>4, <1>5, <1>6 DEF T

\* The rounds that reach a size are the fewest that do,
LEMMA RoundsFacts ==
  ASSUME NEW n \in Nat
  PROVE  /\ Rounds(n) \in Nat
         /\ PowerOfTwo(Rounds(n)) >= n
         /\ \A k \in Nat : PowerOfTwo(k) >= n => Rounds(n) <= k
<1>1. Rounds(n) \in 0 .. n /\ PowerOfTwo(Rounds(n)) >= n
  BY RoundsReach
<1> DEFINE T == {k \in Nat : PowerOfTwo(k) >= n}
<1>2. PICK r \in T : \A t \in T : r <= t
  <2>1. Rounds(n) \in T
    BY <1>1
  <2>2. T \subseteq Nat /\ T # {}
    BY <2>1
  <2> HIDE DEF T
  <2> QED BY <2>2, LeastNatural
<1>3. r \in 0 .. n
  <2>1. n \in T
    BY PowersOfTwo
  <2> QED BY <1>2, <2>1
<1>4. r = 0 \/ PowerOfTwo(r - 1) < n
  <2> SUFFICES ASSUME r # 0 PROVE PowerOfTwo(r - 1) < n
    OBVIOUS
  <2>1. r - 1 \in Nat
    BY <1>3
  <2>2. r - 1 \notin T /\ PowerOfTwo(r - 1) \in Nat
    BY <1>2, <2>1, PowersOfTwo
  <2> QED BY <2>1, <2>2
<1>5. PICK s : s = Rounds(n)
  OBVIOUS
<1>6. s \in 0 .. n /\ PowerOfTwo(s) >= n /\ (s = 0 \/ PowerOfTwo(s - 1) < n)
  <2>1. \E k \in 0 .. n : PowerOfTwo(k) >= n /\ (k = 0 \/ PowerOfTwo(k - 1) < n)
    BY <1>2, <1>3, <1>4
  <2> QED BY <1>5, <2>1 DEF Rounds
<1>7. s = r
  <2>1. r <= s
    BY <1>2, <1>6
  <2>2. ~(r < s)
    <3> SUFFICES ASSUME r < s PROVE FALSE
      OBVIOUS
    <3>1. s - 1 \in Nat /\ r <= s - 1 /\ s # 0 /\ r \in Nat
      BY <1>3, <1>6
    <3>2. PowerOfTwo(r) <= PowerOfTwo(s - 1) /\ PowerOfTwo(s - 1) \in Nat
      BY <3>1, TwoPowersGrow
    <3>3. PowerOfTwo(r) \in Nat
      BY <3>1, PowersOfTwo
    <3> QED BY <1>2, <1>6, <3>1, <3>2, <3>3
  <2> QED BY <1>3, <1>6, <2>1, <2>2
<1> QED BY <1>2, <1>5, <1>6, <1>7

\* and a power of two is reached in its exponent.
LEMMA RoundsOfPower ==
  ASSUME NEW k \in Nat
  PROVE  Rounds(PowerOfTwo(k)) = k
<1>1. PICK n \in Nat : n = PowerOfTwo(k)
  BY PowersOfTwo
<1>2. PICK r \in Nat : r = Rounds(n) /\ PowerOfTwo(r) >= n /\ r <= k
  BY <1>1, RoundsFacts
<1>3. ~(r < k)
  <2> SUFFICES ASSUME r < k PROVE FALSE
    OBVIOUS
  <2>1. PowerOfTwo(r) < PowerOfTwo(k) /\ PowerOfTwo(r) \in Nat
    BY TwoPowersGrow
  <2> QED BY <1>1, <1>2, <2>1
<1> QED BY <1>1, <1>2, <1>3

(* ---------------------------- bit reversal ----------------------------- *)

ReversalStep(n, g) ==
  [i \in 0 .. n - 1 |-> IF i = 0 THEN 0 ELSE (g[i \div 2] + (i % 2) * n) \div 2]

LEMMA BitReversalIs ==
  ASSUME NEW n
  PROVE  BitReversal(n) = CHOOSE g : g = ReversalStep(n, g)
BY DEF BitReversal, ReversalStep

\* The step stays below n.
LEMMA ReversalStaysBelow ==
  ASSUME NEW n \in Nat \ {0}, NEW i \in 0 .. n - 1, i # 0, NEW v \in 0 .. n - 1
  PROVE  /\ i \div 2 \in 0 .. n - 1 /\ i \div 2 < i
         /\ (v + (i % 2) * n) \div 2 \in 0 .. n - 1
<1>1. i \div 2 \in Nat /\ i \div 2 < i
  OBVIOUS
<1>2. PICK c \in 0 .. 1 : c = i % 2
  OBVIOUS
<1>3. (v + c * n) \div 2 \in 0 .. n - 1
  <2>1. CASE c = 0
    <3>1. c * n = 0
      BY <2>1
    <3>2. v \div 2 \in 0 .. n - 1
      OBVIOUS
    <3> QED BY <3>1, <3>2
  <2>2. CASE c = 1
    <3>1. c * n = n
      BY <2>2
    <3>2. (v + n) \div 2 \in 0 .. n - 1
      OBVIOUS
    <3> QED BY <3>1, <3>2
  <2> QED BY <2>1, <2>2
<1> QED BY <1>1, <1>2, <1>3

LEMMA BitReversalEquation ==
  ASSUME NEW n \in Nat \ {0}
  PROVE  LET rev == BitReversal(n)
         IN  /\ rev \in [0 .. n - 1 -> 0 .. n - 1]
             /\ rev[0] = 0
             /\ \A i \in 0 .. n - 1 : i # 0 =>
                  rev[i] = (rev[i \div 2] + (i % 2) * n) \div 2
<1> DEFINE D == 0 .. n - 1
           rank == [k \in D |-> k]
           G == [g \in [D -> D] |-> ReversalStep(n, g)]
           rev == BitReversal(n)
<1>1. ASSUME NEW g \in [D -> D] PROVE ReversalStep(n, g) \in [D -> D]
  <2>1. ASSUME NEW i \in D PROVE ReversalStep(n, g)[i] \in D
    <3>1. CASE i = 0
      BY <3>1 DEF ReversalStep
    <3>2. CASE i # 0
      <4>1. i \div 2 \in D
        BY <3>2, ReversalStaysBelow
      <4>2. PICK v \in D : v = g[i \div 2]
        BY <4>1
      <4>3. (v + (i % 2) * n) \div 2 \in D
        BY <3>2, ReversalStaysBelow
      <4> QED BY <3>2, <4>2, <4>3 DEF ReversalStep
    <3> QED BY <3>1, <3>2
  <2> QED BY <2>1 DEF ReversalStep
<1>2. Recurses(D, D, n, rank, G)
  <2>1. D # {} /\ n \in Nat
    OBVIOUS
  <2>2. rank \in [D -> 0 .. n]
    OBVIOUS
  <2>3. G \in [[D -> D] -> [D -> D]]
    BY <1>1
  <2>4. ASSUME NEW g \in [D -> D], NEW h \in [D -> D], NEW k \in D,
               \A t \in D : rank[t] < rank[k] => g[t] = h[t]
        PROVE  G[g][k] = G[h][k]
    <3>1. CASE k = 0
      BY <3>1 DEF ReversalStep
    <3>2. CASE k # 0
      <4>0. 0 \in D
        OBVIOUS
      <4>1. k \div 2 \in D /\ k \div 2 < k
        BY <3>2, <4>0, ReversalStaysBelow
      <4>2. g[k \div 2] = h[k \div 2]
        BY <2>4, <4>1
      <4> QED BY <3>2, <4>2 DEF ReversalStep
    <3> QED BY <3>1, <3>2
  <2> HIDE DEF D, rank, G
  <2> QED BY <2>1, <2>2, <2>3, <2>4 DEF Recurses
<1>3. PICK g \in [D -> D] : g = ReversalStep(n, g)
  <2>1. \E g \in [D -> D] : g = G[g]
    <3> HIDE DEF D, G
    <3> QED BY <1>2, RecursionHasSolution
  <2> QED BY <2>1
<1>4. rev = ReversalStep(n, rev)
  BY <1>3, BitReversalIs
<1> HIDE DEF rev
<1>5. rev[0] = 0
  BY <1>4 DEF ReversalStep
<1>6. \A i \in D : i # 0 => rev[i] = (rev[i \div 2] + (i % 2) * n) \div 2
  BY <1>4 DEF ReversalStep
<1> DEFINE T == {k \in Nat : \A i \in D : i <= k => rev[i] \in D}
<1>7. 0 \in T
  BY <1>5
<1>8. ASSUME NEW k \in Nat, k \in T PROVE k + 1 \in T
  <2> SUFFICES ASSUME NEW i \in D, i <= k + 1 PROVE rev[i] \in D
    OBVIOUS
  <2>1. CASE i = 0
    BY <1>5, <2>1
  <2>2. CASE i # 0
    <3>0. 0 \in D
      OBVIOUS
    <3>1. i \div 2 \in D /\ i \div 2 < i
      BY <2>2, <3>0, ReversalStaysBelow
    <3>2. i \div 2 <= k
      BY <3>1
    <3>3. PICK v \in D : v = rev[i \div 2]
      BY <1>8, <3>1, <3>2
    <3>4. (v + (i % 2) * n) \div 2 \in D
      BY <2>2, ReversalStaysBelow
    <3> QED BY <1>6, <2>2, <3>3, <3>4
  <2> QED BY <2>1, <2>2
<1>9. \A k \in Nat : k \in T
  <2> HIDE DEF T
  <2> QED BY <1>7, <1>8, SetOfAllNaturals
<1>10. \A i \in D : rev[i] \in D
  BY <1>9
<1>11. rev \in [D -> D]
  BY <1>4, <1>10 DEF ReversalStep
<1> QED BY <1>5, <1>6, <1>11 DEF rev

\* What one step does to an even and to an odd number.
LEMMA ReversalHalves ==
  ASSUME NEW n \in Nat \ {0}, NEW rev, rev = BitReversal(n), NEW j \in Nat
  PROVE  /\ 2 * j < n => rev[2 * j] = rev[j] \div 2
         /\ 2 * j + 1 < n => rev[2 * j + 1] = (rev[j] + n) \div 2
<1>0. /\ rev \in [0 .. n - 1 -> 0 .. n - 1] /\ rev[0] = 0
      /\ \A i \in 0 .. n - 1 : i # 0 => rev[i] = (rev[i \div 2] + (i % 2) * n) \div 2
  BY BitReversalEquation
<1>1. ASSUME 2 * j < n PROVE rev[2 * j] = rev[j] \div 2
  <2>1. CASE j = 0
    BY <1>0, <2>1
  <2>2. CASE j # 0
    <3>1. PICK i \in 0 .. n - 1 : i = 2 * j
      BY <1>1
    <3>2. i # 0 /\ i \div 2 = j /\ i % 2 = 0 /\ j \in 0 .. n - 1
      BY <2>2, <3>1
    <3>3. rev[j] \in Nat /\ rev[j] + 0 * n = rev[j]
      BY <1>0, <3>2
    <3> QED BY <1>0, <3>1, <3>2, <3>3
  <2> QED BY <2>1, <2>2
<1>2. ASSUME 2 * j + 1 < n PROVE rev[2 * j + 1] = (rev[j] + n) \div 2
  <2>1. PICK i \in 0 .. n - 1 : i = 2 * j + 1
    BY <1>2
  <2>2. i # 0 /\ i \div 2 = j /\ i % 2 = 1 /\ 1 * n = n
    BY <2>1
  <2> QED BY <1>0, <2>1, <2>2
<1> QED BY <1>1, <1>2

\* A bit of the number is the mirrored bit of its reversal.
LEMMA ReversalOfBit ==
  ASSUME NEW R \in Nat, NEW n, n = PowerOfTwo(R), NEW rev, rev = BitReversal(n)
  PROVE  \A l \in Nat : \A b \in Nat :
           l < R /\ b * PowerOfTwo(l + 1) + PowerOfTwo(l) < n
             => rev[b * PowerOfTwo(l + 1) + PowerOfTwo(l)]
                  = rev[b * PowerOfTwo(l + 1)] + PowerOfTwo(R - 1 - l)
<1>0. n \in Nat \ {0} /\ rev \in [0 .. n - 1 -> 0 .. n - 1]
  BY TwoPowersGrow, BitReversalEquation
<1>1. ASSUME NEW w \in Nat, 2 * w < n PROVE rev[2 * w] = rev[w] \div 2
  <2>1. PICK N \in Nat \ {0} : N = n /\ rev = BitReversal(N) /\ 2 * w < N
    BY <1>0, <1>1
  <2> QED BY <2>1, ReversalHalves
<1> DEFINE T == {l \in Nat : \A b \in Nat :
                   l < R /\ b * PowerOfTwo(l + 1) + PowerOfTwo(l) < n
                     => rev[b * PowerOfTwo(l + 1) + PowerOfTwo(l)]
                          = rev[b * PowerOfTwo(l + 1)] + PowerOfTwo(R - 1 - l)}
<1>2. 0 \in T
  <2> SUFFICES ASSUME NEW b \in Nat, 0 < R, b * PowerOfTwo(0 + 1) + PowerOfTwo(0) < n
               PROVE  rev[b * PowerOfTwo(0 + 1) + PowerOfTwo(0)]
                        = rev[b * PowerOfTwo(0 + 1)] + PowerOfTwo(R - 1 - 0)
    OBVIOUS
  <2>1. PowerOfTwo(0) = 1 /\ PowerOfTwo(0 + 1) = 2
    BY PowersOfTwo
  <2>2. PICK q \in Nat : q = R - 1 /\ q + 1 = R
    OBVIOUS
  <2>3. PICK y \in Nat : y = PowerOfTwo(q) /\ n = 2 * y
    BY <2>2, PowersOfTwo
  <2>4. b * 2 = 2 * b /\ 2 * b + 1 < n /\ 2 * b < n /\ b \in 0 .. n - 1
    BY <1>0, <2>1
  <2>5. rev[2 * b] = rev[b] \div 2 /\ rev[2 * b + 1] = (rev[b] + n) \div 2
    BY <1>0, <2>4, ReversalHalves
  <2>6. PICK x \in Nat : x = rev[b]
    BY <1>0, <2>4
  <2>7. (x + 2 * y) \div 2 = x \div 2 + y
    OBVIOUS
  <2>8. R - 1 - 0 = q
    BY <2>2
  <2> QED BY <2>1, <2>3, <2>4, <2>5, <2>6, <2>7, <2>8
<1>3. \A l \in Nat : l \in T => l + 1 \in T
  <2> SUFFICES ASSUME NEW l \in Nat, l \in T, NEW b \in Nat, l + 1 < R,
                      b * PowerOfTwo((l + 1) + 1) + PowerOfTwo(l + 1) < n
               PROVE  rev[b * PowerOfTwo((l + 1) + 1) + PowerOfTwo(l + 1)]
                        = rev[b * PowerOfTwo((l + 1) + 1)] + PowerOfTwo(R - 1 - (l + 1))
    OBVIOUS
  <2>1. PICK u \in Nat : u = PowerOfTwo(l)
    BY PowersOfTwo
  <2>2. l + 1 \in Nat /\ PowerOfTwo(l + 1) = 2 * u /\ PowerOfTwo((l + 1) + 1) = 2 * (2 * u)
    BY <2>1, PowersOfTwo
  <2>3. PICK q \in Nat : q = R - 1 - (l + 1) /\ q + 1 = R - 1 - l
    OBVIOUS
  <2>4. PICK y \in Nat : y = PowerOfTwo(q) /\ PowerOfTwo(R - 1 - l) = 2 * y
    BY <2>3, PowersOfTwo
  <2>5. PICK j \in Nat : j = b * (2 * u)
    BY <2>1
  <2>6. b * (2 * (2 * u)) = 2 * j /\ 2 * j + 2 * u = 2 * (j + u)
    BY <2>5
  <2>7. 2 * (j + u) < n
    BY <2>2, <2>6
  <2>8. j + u < n /\ j < n /\ 2 * j < n /\ j + u \in 0 .. n - 1 /\ j \in 0 .. n - 1
    BY <1>0, <2>7
  <2>9. rev[j + u] = rev[j] + 2 * y
    <3>1. l < R
      OBVIOUS
    <3>2. b * PowerOfTwo(l + 1) + PowerOfTwo(l) < n
      BY <2>1, <2>2, <2>5, <2>8
    <3>3. rev[b * PowerOfTwo(l + 1) + PowerOfTwo(l)]
            = rev[b * PowerOfTwo(l + 1)] + PowerOfTwo(R - 1 - l)
      BY <3>1, <3>2
    <3> QED BY <2>1, <2>2, <2>4, <2>5, <3>3
  <2>10. rev[2 * (j + u)] = rev[j + u] \div 2 /\ rev[2 * j] = rev[j] \div 2
    <3>1. PICK w \in Nat : w = j + u /\ 2 * w < n
      BY <2>7
    <3>2. rev[2 * w] = rev[w] \div 2 /\ rev[2 * j] = rev[j] \div 2
      BY <1>1, <2>8, <3>1
    <3> QED BY <3>1, <3>2
  <2>11. PICK x \in Nat : x = rev[j]
    BY <1>0, <2>8
  <2>12. (x + 2 * y) \div 2 = x \div 2 + y
    OBVIOUS
  <2> QED BY <2>2, <2>3, <2>4, <2>6, <2>9, <2>10, <2>11, <2>12
<1>4. \A l \in Nat : l \in T
  <2> HIDE DEF T
  <2> QED BY <1>2, <1>3, SetOfAllNaturals
<1> QED BY <1>4

(* ------------------------- values at a point --------------------------- *)

Even(f) == [k \in Nat |-> f[2 * k]]
Odd(f)  == [k \in Nat |-> f[2 * k + 1]]

LEMMA EvenAndOdd ==
  ASSUME NEW f \in Series
  PROVE  /\ Even(f) \in Series /\ Odd(f) \in Series /\ Shift(Shift(f)) \in Series
         /\ Even(Shift(Shift(f))) = Shift(Even(f))
         /\ Odd(Shift(Shift(f))) = Shift(Odd(f))
         /\ Even(f)[0] = f[0] /\ Odd(f)[0] = f[1] /\ Shift(f)[0] = f[1]
<1>1. \A k \in Nat : 2 * k \in Nat /\ 2 * k + 1 \in Nat
  OBVIOUS
<1>2. Even(f) \in Series /\ Odd(f) \in Series
  BY <1>1 DEF Series, Even, Odd
<1>3. Shift(f) \in Series /\ Shift(Shift(f)) \in Series
  BY SeriesTypes
<1>4. \A k \in Nat : Shift(Shift(f))[k] = f[k + 2]
  <2> SUFFICES ASSUME NEW k \in Nat PROVE Shift(Shift(f))[k] = f[k + 2]
    OBVIOUS
  <2>1. k + 1 \in Nat /\ (k + 1) + 1 = k + 2
    OBVIOUS
  <2> QED BY <2>1 DEF Shift
<1>5. Even(Shift(Shift(f))) = Shift(Even(f))
  <2>1. ASSUME NEW k \in Nat PROVE Shift(Shift(f))[2 * k] = Even(f)[k + 1]
    <3>1. 2 * k \in Nat /\ 2 * k + 2 = 2 * (k + 1) /\ k + 1 \in Nat
      OBVIOUS
    <3> QED BY <1>4, <3>1 DEF Even
  <2> QED BY <2>1 DEF Even, Shift
<1>6. Odd(Shift(Shift(f))) = Shift(Odd(f))
  <2>1. ASSUME NEW k \in Nat PROVE Shift(Shift(f))[2 * k + 1] = Odd(f)[k + 1]
    <3>1. 2 * k + 1 \in Nat /\ (2 * k + 1) + 2 = 2 * (k + 1) + 1 /\ k + 1 \in Nat
      OBVIOUS
    <3> QED BY <1>4, <3>1 DEF Odd
  <2> QED BY <2>1 DEF Odd, Shift
<1>7. Even(f)[0] = f[0] /\ Odd(f)[0] = f[1] /\ Shift(f)[0] = f[1]
  <2>1. 2 * 0 = 0 /\ 2 * 0 + 1 = 1 /\ 0 + 1 = 1
    OBVIOUS
  <2> QED BY <2>1 DEF Even, Odd, Shift
<1> QED BY <1>2, <1>3, <1>5, <1>6, <1>7

\* The value at x comes from the values of two halves at the square of x.
LEMMA EvSplits ==
  ASSUME NEW x \in Int
  PROVE  \A n \in Nat : \A f \in Series :
           Ev(x, 2 * n, f) = Ev(x * x, n, Even(f)) + x * Ev(x * x, n, Odd(f))
<1>0. x * x \in Int
  OBVIOUS
<1> DEFINE T == {n \in Nat : \A f \in Series :
                   Ev(x, 2 * n, f) = Ev(x * x, n, Even(f)) + x * Ev(x * x, n, Odd(f))}
<1>1. 0 \in T
  <2> SUFFICES ASSUME NEW f \in Series
               PROVE  Ev(x, 2 * 0, f) = Ev(x * x, 0, Even(f)) + x * Ev(x * x, 0, Odd(f))
    OBVIOUS
  <2>1. Ev(x, 0, f) = 0 /\ Ev(x * x, 0, Even(f)) = 0 /\ Ev(x * x, 0, Odd(f)) = 0
    BY <1>0, EvenAndOdd, EvEquations
  <2> QED BY <2>1
<1>2. ASSUME NEW n \in Nat, n \in T PROVE n + 1 \in T
  <2> SUFFICES ASSUME NEW f \in Series
               PROVE  Ev(x, 2 * (n + 1), f)
                        = Ev(x * x, n + 1, Even(f)) + x * Ev(x * x, n + 1, Odd(f))
    OBVIOUS
  <2> DEFINE g == Shift(Shift(f))
  <2>1. g \in Series /\ Shift(f) \in Series /\ Even(f) \in Series /\ Odd(f) \in Series
    BY EvenAndOdd, SeriesTypes
  <2>2. PICK c \in Nat : c = 2 * n /\ 2 * (n + 1) = (c + 1) + 1 /\ c + 1 \in Nat
    OBVIOUS
  <2>3. /\ Ev(x, (c + 1) + 1, f) = f[0] + x * Ev(x, c + 1, Shift(f))
        /\ Ev(x, c + 1, Shift(f)) = Shift(f)[0] + x * Ev(x, c, g)
    BY <2>1, <2>2, EvEquations
  <2>4. /\ Ev(x * x, n + 1, Even(f)) = Even(f)[0] + (x * x) * Ev(x * x, n, Shift(Even(f)))
        /\ Ev(x * x, n + 1, Odd(f)) = Odd(f)[0] + (x * x) * Ev(x * x, n, Shift(Odd(f)))
    BY <1>0, <2>1, EvEquations
  <2>5. Ev(x, c, g) = Ev(x * x, n, Even(g)) + x * Ev(x * x, n, Odd(g))
    BY <1>2, <2>1, <2>2
  <2>6. Even(g) = Shift(Even(f)) /\ Odd(g) = Shift(Odd(f))
    BY EvenAndOdd
  <2>7. PICK u \in Int, v \in Int :
          u = Ev(x * x, n, Even(g)) /\ v = Ev(x * x, n, Odd(g))
    <3>1. Even(g) \in Series /\ Odd(g) \in Series
      BY <2>1, EvenAndOdd
    <3> HIDE DEF g
    <3> QED BY <1>0, <3>1, EvEquations
  <2>8. PICK a \in Int, b \in Int : /\ a = f[0] /\ b = f[1]
                                    /\ Even(f)[0] = a /\ Odd(f)[0] = b /\ Shift(f)[0] = b
    BY EvenAndOdd DEF Series
  <2>9. a + x * (b + x * (u + x * v)) = (a + (x * x) * u) + x * (b + (x * x) * v)
    OBVIOUS
  <2> HIDE DEF g
  <2> QED BY <2>2, <2>3, <2>4, <2>5, <2>6, <2>7, <2>8, <2>9
<1>3. \A n \in Nat : n \in T
  <2> HIDE DEF T
  <2> QED BY <1>1, <1>2, SetOfAllNaturals
<1> QED BY <1>3

\* Congruent points have congruent values.
LEMMA EvOfSamePoint ==
  ASSUME NEW m \in Int, NEW x \in Int, NEW y \in Int, Same(x, y, m)
  PROVE  \A n \in Nat : \A f \in Series : Same(Ev(x, n, f), Ev(y, n, f), m)
<1> DEFINE T == {n \in Nat : \A f \in Series : Same(Ev(x, n, f), Ev(y, n, f), m)}
<1>1. 0 \in T
  <2> SUFFICES ASSUME NEW f \in Series PROVE Same(Ev(x, 0, f), Ev(y, 0, f), m)
    OBVIOUS
  <2>1. Ev(x, 0, f) = 0 /\ Ev(y, 0, f) = 0 /\ Same(0, 0, m)
    BY EvEquations, SameIsReflexive
  <2> QED BY <2>1
<1>2. ASSUME NEW n \in Nat, n \in T PROVE n + 1 \in T
  <2> SUFFICES ASSUME NEW f \in Series PROVE Same(Ev(x, n + 1, f), Ev(y, n + 1, f), m)
    OBVIOUS
  <2>1. Shift(f) \in Series /\ f[0] \in Int
    BY SeriesTypes
  <2>2. PICK u \in Int, v \in Int : u = Ev(x, n, Shift(f)) /\ v = Ev(y, n, Shift(f))
    BY <2>1, EvEquations
  <2>3. Same(u, v, m) /\ Same(f[0], f[0], m)
    BY <1>2, <2>1, <2>2, SameIsReflexive
  <2>4. Same(x * u, y * v, m)
    BY <2>3, SameTimes
  <2>5. x * u \in Int /\ y * v \in Int
    OBVIOUS
  <2>6. Same(f[0] + x * u, f[0] + y * v, m)
    BY <2>1, <2>3, <2>4, <2>5, SamePlus
  <2>7. Ev(x, n + 1, f) = f[0] + x * u /\ Ev(y, n + 1, f) = f[0] + y * v
    BY <2>2, EvEquations
  <2> QED BY <2>6, <2>7
<1>3. \A n \in Nat : n \in T
  <2> HIDE DEF T
  <2> QED BY <1>1, <1>2, SetOfAllNaturals
<1> QED BY <1>3

\* The first terms, and the rest.
LEMMA EvCuts ==
  ASSUME NEW x \in Int, NEW n \in Nat
  PROVE  \A h \in Nat : \A f \in Series :
           Ev(x, h + n, f) = Ev(x, h, f) + Pw(x, h) * Ev(x, n, Drop(f, h))
<1> DEFINE T == {h \in Nat : \A f \in Series :
                   Ev(x, h + n, f) = Ev(x, h, f) + Pw(x, h) * Ev(x, n, Drop(f, h))}
<1>1. 0 \in T
  <2> SUFFICES ASSUME NEW f \in Series
               PROVE  Ev(x, 0 + n, f) = Ev(x, 0, f) + Pw(x, 0) * Ev(x, n, Drop(f, 0))
    OBVIOUS
  <2>1. Drop(f, 0) = f /\ Ev(x, 0, f) = 0 /\ Pw(x, 0) = 1 /\ Ev(x, n, f) \in Int
    BY DropFacts, EvEquations, PwFacts
  <2> QED BY <2>1
<1>2. ASSUME NEW h \in Nat, h \in T PROVE h + 1 \in T
  <2> SUFFICES ASSUME NEW f \in Series
               PROVE  Ev(x, (h + 1) + n, f)
                        = Ev(x, h + 1, f) + Pw(x, h + 1) * Ev(x, n, Drop(f, h + 1))
    OBVIOUS
  <2>1. Shift(f) \in Series /\ f[0] \in Int
    BY SeriesTypes
  <2>2. Drop(Shift(f), h) = Drop(f, h + 1)
    <3>1. ASSUME NEW k \in Nat PROVE Shift(f)[k + h] = f[k + (h + 1)]
      <4>1. k + h \in Nat /\ (k + h) + 1 = k + (h + 1)
        OBVIOUS
      <4> QED BY <4>1 DEF Shift
    <3> QED BY <3>1 DEF Drop
  <2>3. Ev(x, h + n, Shift(f))
          = Ev(x, h, Shift(f)) + Pw(x, h) * Ev(x, n, Drop(Shift(f), h))
    BY <1>2, <2>1
  <2>4. PICK c \in Nat : c = h + n /\ (h + 1) + n = c + 1
    OBVIOUS
  <2>5. /\ Ev(x, c + 1, f) = f[0] + x * Ev(x, c, Shift(f))
        /\ Ev(x, h + 1, f) = f[0] + x * Ev(x, h, Shift(f))
    BY EvEquations
  <2>6. PICK u \in Int, v \in Int, w \in Int :
          u = Ev(x, h, Shift(f)) /\ v = Ev(x, n, Drop(f, h + 1)) /\ w = Pw(x, h)
    <3>1. h + 1 \in Nat
      OBVIOUS
    <3>2. Drop(f, h + 1) \in Series
      BY <3>1, DropFacts
    <3> QED BY <2>1, <3>2, EvEquations, PwFacts
  <2>7. Pw(x, h + 1) = w * x
    BY <2>6, PwFacts
  <2>8. f[0] + x * (u + w * v) = (f[0] + x * u) + (w * x) * v
    BY <2>1
  <2> QED BY <2>2, <2>3, <2>4, <2>5, <2>6, <2>7, <2>8
<1>3. \A h \in Nat : h \in T
  <2> HIDE DEF T
  <2> QED BY <1>1, <1>2, SetOfAllNaturals
<1> QED BY <1>3

(* ----------------------------- butterflies ----------------------------- *)

\* A position lies in the lower or in the upper half of its block.
LEMMA PositionInBlock ==
  ASSUME NEW h \in Nat \ {0}, NEW c \in Nat, NEW k \in 1 .. c * (2 * h)
  PROVE  \E b \in Nat, i \in Nat :
           /\ b < c /\ i < 2 * h
           /\ k = b * (2 * h) + i + 1
<1>1. PICK L \in Nat \ {0} : L = 2 * h
  OBVIOUS
<1>2. PICK q \in Nat : q = k - 1
  BY <1>1
<1>3. PICK b \in Nat : L * b <= q /\ q < L * b + L
  <2>1. q \div L \in Nat /\ L * (q \div L) <= q /\ q < L * (q \div L) + L
    BY Division
  <2> QED BY <2>1
<1>4. PICK i \in Nat : i = q - L * b /\ i < L
  <2>1. PICK w \in Nat : w = L * b
    OBVIOUS
  <2> QED BY <1>3, <2>1
<1>5. L * b = b * L
  OBVIOUS
<1>6. b < c
  <2> SUFFICES ASSUME c <= b PROVE FALSE
    OBVIOUS
  <2>1. PICK d \in Nat : b = c + d
    <3>1. b - c \in Nat /\ b = c + (b - c)
      OBVIOUS
    <3> QED BY <3>1
  <2>2. b * L = c * L + d * L /\ d * L \in Nat /\ c * L \in Nat
    BY <2>1
  <2>3. k <= c * L
    BY <1>1
  <2> QED BY <1>2, <1>3, <1>5, <2>2, <2>3
<1> QED BY <1>1, <1>2, <1>4, <1>5, <1>6

\* The place of a position in its block.
LEMMA PlaceInBlock ==
  ASSUME NEW L \in Nat \ {0}, NEW b \in Nat, NEW i \in Nat, i < L
  PROVE  (b * L + i + 1 - 1) % L = i
<1>1. PICK q \in Int : q = b * L + i + 1 - 1 /\ q = i + b * L
  OBVIOUS
<1>2. Same(q, i, L)
  BY <1>1 DEF Same
<1>3. i \in 0 .. L - 1
  OBVIOUS
<1> QED BY <1>1, <1>2, <1>3, RestIsSmall

RawButterflies(values, L, h, root, p) ==
  [k \in DOMAIN values |->
     IF (k - 1) % L < h
       THEN (values[k] + values[k + h] * Power(root, (k - 1) % L, p)) % p
       ELSE (values[k - h] - values[k] * Power(root, ((k - 1) % L) - h, p)) % p]

LEMMA ButterfliesAre ==
  ASSUME NEW h \in Nat, NEW values, NEW root, NEW p
  PROVE  Butterflies(values, 2 * h, root, p) = Tuple(RawButterflies(values, 2 * h, h, root, p))
<1>1. (2 * h) \div 2 = h
  OBVIOUS
<1> QED BY <1>1 DEF Butterflies, RawButterflies

LEMMA ButterfliesAt ==
  ASSUME NEW p \in Nat \ {0, 1}, NEW h \in Nat \ {0}, NEW c \in Nat, NEW n \in Nat,
         n = c * (2 * h), NEW values \in [1 .. n -> 0 .. p - 1], NEW root \in Int,
         NEW B, B = Butterflies(values, 2 * h, root, p)
  PROVE  /\ B \in [1 .. n -> 0 .. p - 1]
         /\ \A b, i, k \in Nat :
              b < c /\ i < h /\ k = b * (2 * h) + i + 1 =>
                /\ k \in 1 .. n /\ k + h \in 1 .. n
                /\ Same(B[k], values[k] + values[k + h] * Pw(root, i), p)
                /\ Same(B[k + h], values[k] - values[k + h] * Pw(root, i), p)
<1> DEFINE raw == RawButterflies(values, 2 * h, h, root, p)
<1>0. p \in Nat \ {0} /\ p \in Int /\ 2 * h \in Nat \ {0}
  OBVIOUS
<1>1. ASSUME NEW b \in Nat, NEW i \in Nat, NEW k \in Nat,
             b < c, i < h, k = b * (2 * h) + i + 1
      PROVE  k \in 1 .. n /\ k + h \in 1 .. n
  <2>1. PICK d \in Nat : c = b + 1 + d
    <3>1. c - b - 1 \in Nat /\ c = b + 1 + (c - b - 1)
      BY <1>1
    <3> QED BY <3>1
  <2>2. n = b * (2 * h) + 2 * h + d * (2 * h) /\ d * (2 * h) \in Nat /\ b * (2 * h) \in Nat
    BY <2>1
  <2>3. PICK u \in Nat, v \in Nat : u = b * (2 * h) /\ v = d * (2 * h)
    BY <2>2
  <2> QED BY <1>1, <2>2, <2>3
<1>2. ASSUME NEW b \in Nat, NEW i \in Nat, NEW k \in Nat,
             b < c, i < h, k = b * (2 * h) + i + 1
      PROVE  /\ raw[k] = (values[k] + values[k + h] * Power(root, i, p)) % p
             /\ raw[k + h] = (values[k] - values[k + h] * Power(root, i, p)) % p
             /\ raw[k] \in 0 .. p - 1 /\ raw[k + h] \in 0 .. p - 1
             /\ Same(raw[k], values[k] + values[k + h] * Pw(root, i), p)
             /\ Same(raw[k + h], values[k] - values[k + h] * Pw(root, i), p)
  <2>1. k \in 1 .. n /\ k + h \in 1 .. n
    BY <1>1, <1>2
  <2>2. (k - 1) % (2 * h) = i
    <3>1. i < 2 * h
      BY <1>2
    <3> QED BY <1>0, <1>2, <3>1, PlaceInBlock
  <2>3. (k + h - 1) % (2 * h) = i + h
    <3>1. i + h < 2 * h /\ i + h \in Nat
      BY <1>2
    <3>2. PICK j \in Nat : j = i + h /\ j < 2 * h
      BY <3>1
    <3>3. (b * (2 * h) + j + 1 - 1) % (2 * h) = j
      BY <1>0, <3>2, PlaceInBlock
    <3>4. PICK w \in Nat : w = b * (2 * h)
      OBVIOUS
    <3>5. k + h - 1 = b * (2 * h) + j + 1 - 1
      BY <1>2, <3>2, <3>4
    <3> QED BY <3>2, <3>3, <3>5
  <2>4. PICK t \in Int : t = Power(root, i, p) /\ Same(t, Pw(root, i), p)
    <3>1. Power(root, i, p) \in 0 .. p - 1 /\ Same(Power(root, i, p), Pw(root, i), p)
      BY PowerFacts
    <3>2. Power(root, i, p) \in Int
      BY <3>1
    <3> QED BY <3>1, <3>2
  <2>5. PICK x \in Int, y \in Int, w \in Int :
          x = values[k] /\ y = values[k + h] /\ w = Pw(root, i)
    <3>1. values[k] \in 0 .. p - 1 /\ values[k + h] \in 0 .. p - 1 /\ Pw(root, i) \in Int
      BY <2>1, PwFacts
    <3>2. values[k] \in Int /\ values[k + h] \in Int
      BY <3>1
    <3> HIDE DEF raw
    <3> QED BY <3>1, <3>2
  <2>6. raw[k] = (x + y * t) % p
    <3>1. i < h /\ k \in DOMAIN values
      BY <1>2, <2>1
    <3> QED BY <2>2, <2>4, <2>5, <3>1 DEF RawButterflies
  <2>7. raw[k + h] = (x - y * t) % p
    <3>1. ~(i + h < h) /\ k + h \in DOMAIN values /\ (k + h) - h = k /\ (i + h) - h = i
      BY <1>2, <2>1
    <3>2. raw[k + h] = (values[(k + h) - h] - values[k + h] * Power(root, (i + h) - h, p)) % p
      BY <2>3, <3>1 DEF RawButterflies
    <3> QED BY <2>4, <2>5, <3>1, <3>2
  <2>8. Same(y * t, y * w, p) /\ Same(x, x, p) /\ Same(y, y, p)
    <3>1. Same(x, x, p) /\ Same(y, y, p) /\ Same(t, w, p)
      BY <1>0, <2>4, <2>5, SameIsReflexive
    <3> QED BY <1>0, <3>1, SameTimes
  <2>9. PICK s \in Int, v \in Int : s = y * t /\ v = y * w /\ Same(s, v, p)
    BY <2>8
  <2>10. Same(x + s, x + v, p)
    BY <1>0, <2>8, <2>9, SamePlus
  <2>11. Same(x - s, x - v, p)
    <3>1. PICK a \in Int : s = v + a * p
      BY <2>9 DEF Same
    <3>2. -a \in Int /\ x - s = (x - v) + (-a) * p
      BY <3>1
    <3> QED BY <3>2 DEF Same
  <2>12. x + s \in Int /\ x - s \in Int /\ x + v \in Int /\ x - v \in Int
    OBVIOUS
  <2>13. /\ (x + s) % p \in 0 .. p - 1 /\ Same((x + s) % p, x + s, p)
         /\ (x - s) % p \in 0 .. p - 1 /\ Same((x - s) % p, x - s, p)
    BY <1>0, <2>12, SameAsRest
  <2>14. PICK e \in Int, f \in Int : e = (x + s) % p /\ f = (x - s) % p
    BY <2>13
  <2>15. Same(e, x + v, p) /\ Same(f, x - v, p)
    BY <1>0, <2>10, <2>11, <2>12, <2>13, <2>14, SameIsTransitive
  <2> HIDE DEF raw
  <2> QED BY <2>4, <2>5, <2>6, <2>7, <2>9, <2>13, <2>14, <2>15
<1>3. raw \in [1 .. n -> 0 .. p - 1]
  <2>2. DOMAIN raw = 1 .. n /\ raw = [k \in 1 .. n |-> raw[k]]
    BY DEF RawButterflies
  <2> HIDE DEF raw
  <2>1. ASSUME NEW k \in 1 .. n PROVE raw[k] \in 0 .. p - 1
    <3>1. PICK b \in Nat, i \in Nat : b < c /\ i < 2 * h /\ k = b * (2 * h) + i + 1
      BY PositionInBlock
    <3>2. CASE i < h
      <4>1. raw[k] \in 0 .. p - 1 /\ raw[k + h] \in 0 .. p - 1
        <5>1. k \in Nat
          OBVIOUS
        <5> QED BY ONLY <1>2, <3>1, <3>2, <5>1
      <4> QED BY <4>1
    <3>3. CASE ~(i < h)
      <4>1. PICK j \in Nat : i = j + h /\ j < h
        <5>1. i - h \in Nat /\ i = (i - h) + h /\ i - h < h
          BY <3>1, <3>3
        <5> QED BY <5>1
      <4>2. PICK q \in Nat : q = b * (2 * h) + j + 1
        OBVIOUS
      <4>3. raw[q + h] \in 0 .. p - 1
        BY ONLY <1>2, <3>1, <4>1, <4>2
      <4>4. k = q + h
        <5>1. PICK w \in Nat : w = b * (2 * h)
          OBVIOUS
        <5> QED BY <3>1, <4>1, <4>2, <5>1
      <4> QED BY <4>3, <4>4
    <3> QED BY <3>2, <3>3
  <2> QED BY <2>1, <2>2
<1>4. B = raw
  <2>1. B = Tuple(raw)
    BY ButterfliesAre
  <2> HIDE DEF raw
  <2> QED BY <1>3, <2>1, TupleIs
<1> HIDE DEF raw
<1> QED BY <1>1, <1>2, <1>3, <1>4

(* ------------------------------ transforms ----------------------------- *)

LEMMA PwOfSquare ==
  ASSUME NEW b \in Int, NEW e \in Nat
  PROVE  Pw(b, e) * Pw(b, e) = Pw(b * b, e)
<1>1. Pw(b, e + e) = Pw(b, e) * Pw(b, e)
  BY PwAdds
<1>2. Pw(b, 2) = b * b
  <2>1. Pw(b, 0 + 1) = Pw(b, 0) * b /\ Pw(b, 1 + 1) = Pw(b, 1) * b /\ Pw(b, 0) = 1
    BY PwFacts
  <2> QED BY <2>1
<1>3. Pw(Pw(b, 2), e) = Pw(b, 2 * e)
  <2>1. 2 \in Nat
    OBVIOUS
  <2> QED BY <2>1, PwOfPw
<1>4. 2 * e = e + e
  OBVIOUS
<1> QED BY <1>1, <1>2, <1>3, <1>4

Integers3(a) == a[1] \in Int /\ a[2] \in Int /\ a[3] \in Int

\* A butterfly puts two values at the square together.
LEMMA ButterflyValue ==
  ASSUME NEW p \in Int, NEW h \in Nat, NEW f \in Series, NEW y \in Int, NEW w \in Int,
         Same(y * y, w, p), NEW u, NEW v, NEW e, Integers3(<<u, v, e>>),
         Same(u, Ev(w, h, Even(f)), p), Same(v, Ev(w, h, Odd(f)), p), Same(e, u + v * y, p)
  PROVE  Same(e, Ev(y, 2 * h, f), p)
<1>0. u \in Int /\ v \in Int /\ e \in Int
  BY DEF Integers3
<1>1. Even(f) \in Series /\ Odd(f) \in Series
  BY EvenAndOdd
<1>2. PICK s \in Int : s = y * y
  OBVIOUS
<1>3. Ev(y, 2 * h, f) = Ev(s, h, Even(f)) + y * Ev(s, h, Odd(f))
  BY <1>2, EvSplits
<1>4. /\ Same(Ev(w, h, Even(f)), Ev(s, h, Even(f)), p)
      /\ Same(Ev(w, h, Odd(f)), Ev(s, h, Odd(f)), p)
  <2>1. Same(w, s, p)
    BY <1>2, SameIsSymmetric
  <2> QED BY <1>1, <2>1, EvOfSamePoint
<1>5. PICK a \in Int, b \in Int, c \in Int, d \in Int :
        /\ a = Ev(w, h, Even(f)) /\ b = Ev(s, h, Even(f))
        /\ c = Ev(w, h, Odd(f)) /\ d = Ev(s, h, Odd(f))
  <2>1. /\ Ev(w, h, Even(f)) \in Int /\ Ev(s, h, Even(f)) \in Int
        /\ Ev(w, h, Odd(f)) \in Int /\ Ev(s, h, Odd(f)) \in Int
    BY <1>1, EvEquations
  <2> QED BY <2>1
<1>6. PICK j1 \in Int : u = a + j1 * p
  BY <1>5 DEF Same
<1>7. PICK j2 \in Int : v = c + j2 * p
  BY <1>5 DEF Same
<1>8. PICK j3 \in Int : e = (u + v * y) + j3 * p
  BY DEF Same
<1>9. PICK j4 \in Int : a = b + j4 * p
  BY <1>4, <1>5 DEF Same
<1>10. PICK j5 \in Int : c = d + j5 * p
  BY <1>4, <1>5 DEF Same
<1>11. PICK k \in Int : k = j1 + j4 + (j2 + j5) * y + j3
  OBVIOUS
<1>12. e = (b + y * d) + k * p
  <2>1. u = b + (j1 + j4) * p
    BY <1>0, <1>6, <1>9
  <2>2. v = d + (j2 + j5) * p
    BY <1>0, <1>7, <1>10
  <2>3. v * y = d * y + ((j2 + j5) * y) * p
    BY <1>0, <2>2
  <2>4. e = b + (j1 + j4) * p + d * y + ((j2 + j5) * y) * p + j3 * p
    BY <1>0, <1>8, <2>1, <2>3
  <2>5. PICK z \in Int : z = (j2 + j5) * y
    OBVIOUS
  <2>6. (j1 + j4 + z + j3) * p = (j1 + j4) * p + z * p + j3 * p
    OBVIOUS
  <2> QED BY <1>0, <1>11, <2>4, <2>5, <2>6
<1>13. Ev(y, 2 * h, f) = b + y * d
  BY <1>3, <1>5
<1> QED BY <1>12, <1>13 DEF Same

\* The coefficients that a block of a level is the transform of.
Sub(values, rev, R, l, b) ==
  [j \in Nat |-> Ser(values)[rev[b * PowerOfTwo(l)] + j * PowerOfTwo(R - l)]]

\* Each root is the square of the next, and half its turn is -1.
RootLadder(W, R, p) ==
  /\ W \in [0 .. R -> Int]
  /\ \A l \in Nat : l < R => Same(W[l + 1] * W[l + 1], W[l], p)
                          /\ Same(Pw(W[l + 1], PowerOfTwo(l)), -1, p)

Levels(values, rev, W, R, p, g) ==
  LET n == PowerOfTwo(R)
  IN  /\ g \in [0 .. R -> [1 .. n -> 0 .. p - 1]]
      /\ \A k \in 1 .. n : g[0][k] = values[rev[k - 1] + 1]
      /\ \A l \in Nat : l < R => g[l + 1] = Butterflies(g[l], 2 * PowerOfTwo(l), W[l + 1], p)

\* A level is the transform of its blocks.
EvaluatedAt(values, rev, W, R, p, g, l) ==
  \A b, i, k \in Nat :
    b < PowerOfTwo(R - l) /\ i < PowerOfTwo(l) /\ k = b * PowerOfTwo(l) + i + 1 =>
      Same(g[l][k], Ev(Pw(W[l], i), PowerOfTwo(l), Sub(values, rev, R, l, b)), p)

LEMMA SubFacts ==
  ASSUME NEW p \in Nat \ {0}, NEW values \in Poly(p), NEW R \in Nat,
         NEW rev, rev = BitReversal(PowerOfTwo(R)), NEW l \in Nat, l < R,
         NEW b \in Nat, b < PowerOfTwo(R - (l + 1))
  PROVE  /\ Sub(values, rev, R, l + 1, b) \in Series
         /\ Even(Sub(values, rev, R, l + 1, b)) = Sub(values, rev, R, l, 2 * b)
         /\ Odd(Sub(values, rev, R, l + 1, b)) = Sub(values, rev, R, l, 2 * b + 1)
<1>0. PICK q \in Nat : q = R - (l + 1) /\ R - l = q + 1 /\ R = (l + 1) + q /\ q = R - 1 - l
  OBVIOUS
<1>1. PICK h \in Nat \ {0}, c \in Nat \ {0} :
        /\ h = PowerOfTwo(l) /\ c = PowerOfTwo(q)
        /\ PowerOfTwo(l + 1) = 2 * h /\ PowerOfTwo(R - l) = 2 * c
        /\ PowerOfTwo(R) = (2 * h) * c
  <2>1. PowerOfTwo((l + 1) + q) = PowerOfTwo(l + 1) * PowerOfTwo(q) /\ l + 1 \in Nat
    BY TwoPowersGrow
  <2>2. PICK h \in Nat \ {0}, c \in Nat \ {0} : h = PowerOfTwo(l) /\ c = PowerOfTwo(q)
    BY TwoPowersGrow
  <2>3. PowerOfTwo(l + 1) = 2 * h /\ PowerOfTwo(q + 1) = 2 * c
    BY <2>2, PowersOfTwo
  <2>4. PowerOfTwo(R) = (2 * h) * c /\ PowerOfTwo(R - l) = 2 * c
    BY <1>0, <2>1, <2>2, <2>3
  <2> QED BY <2>2, <2>3, <2>4
<1>2. PICK n \in Nat \ {0} : n = PowerOfTwo(R) /\ n = (2 * h) * c
  BY <1>1, TwoPowersGrow
<1>3. rev \in [0 .. n - 1 -> 0 .. n - 1]
  BY <1>2, BitReversalEquation
<1>4. b * (2 * h) + h < n /\ b * (2 * h) \in 0 .. n - 1
  <2>1. PICK d \in Nat : c = b + 1 + d
    <3>1. b < c
      BY <1>0, <1>1
    <3>2. c - b - 1 \in Nat /\ c = b + 1 + (c - b - 1)
      BY <3>1
    <3> QED BY <3>2
  <2>2. n = b * (2 * h) + 2 * h + d * (2 * h) /\ d * (2 * h) \in Nat /\ b * (2 * h) \in Nat
    BY <1>2, <2>1
  <2>3. PICK u \in Nat, v \in Nat : u = b * (2 * h) /\ v = d * (2 * h)
    BY <2>2
  <2> QED BY <2>2, <2>3
<1>5. PICK r \in Nat : r = rev[b * (2 * h)] /\ rev[b * (2 * h) + h] = r + c
  <2>1. rev[b * PowerOfTwo(l + 1) + PowerOfTwo(l)]
          = rev[b * PowerOfTwo(l + 1)] + PowerOfTwo(R - 1 - l)
    <3>1. l < R /\ b * PowerOfTwo(l + 1) + PowerOfTwo(l) < PowerOfTwo(R)
      BY <1>1, <1>2, <1>4
    <3> QED BY <3>1, ReversalOfBit
  <2>2. rev[b * (2 * h)] \in Nat
    <3>1. PICK s \in 0 .. n - 1 : s = b * (2 * h)
      BY <1>4
    <3>2. rev[s] \in 0 .. n - 1
      BY <1>3
    <3>3. rev[s] \in Nat
      BY <3>2
    <3> QED BY <3>1, <3>3
  <2>3. rev[b * (2 * h) + h] = rev[b * (2 * h)] + c
    BY <1>0, <1>1, <2>1
  <2> QED BY <2>2, <2>3
<1>6. \A k \in Nat : Ser(values)[k] \in Int
  BY PolyFacts
<1>7. \A j \in Nat : Sub(values, rev, R, l + 1, b)[j] = Ser(values)[r + j * c]
  BY <1>0, <1>1, <1>5 DEF Sub
<1>8. \A j \in Nat : r + j * c \in Nat
  BY <1>1
<1>9. Sub(values, rev, R, l + 1, b) \in Series
  BY <1>6, <1>7, <1>8 DEF Series, Sub
<1>10. Even(Sub(values, rev, R, l + 1, b)) = Sub(values, rev, R, l, 2 * b)
  <2>1. ASSUME NEW j \in Nat
        PROVE  Sub(values, rev, R, l + 1, b)[2 * j]
                 = Ser(values)[rev[(2 * b) * PowerOfTwo(l)] + j * PowerOfTwo(R - l)]
    <3>1. 2 * j \in Nat /\ (2 * j) * c = j * (2 * c) /\ (2 * b) * h = b * (2 * h)
      BY <1>1
    <3> QED BY <1>1, <1>5, <1>7, <3>1
  <2> QED BY <2>1 DEF Even, Sub
<1>11. Odd(Sub(values, rev, R, l + 1, b)) = Sub(values, rev, R, l, 2 * b + 1)
  <2>1. ASSUME NEW j \in Nat
        PROVE  Sub(values, rev, R, l + 1, b)[2 * j + 1]
                 = Ser(values)[rev[(2 * b + 1) * PowerOfTwo(l)] + j * PowerOfTwo(R - l)]
    <3>1. /\ 2 * j + 1 \in Nat /\ (2 * j + 1) * c = c + j * (2 * c)
          /\ (2 * b + 1) * h = b * (2 * h) + h
      BY <1>1
    <3>2. r + (2 * j + 1) * c = (r + c) + j * (2 * c)
      BY <1>1, <3>1
    <3> QED BY <1>1, <1>5, <1>7, <3>1, <3>2
  <2> QED BY <2>1 DEF Odd, Sub
<1> QED BY <1>9, <1>10, <1>11

\* A butterfly of two blocks of one level is a block of the next.
LEMMA BlockEvaluates ==
  ASSUME NEW p \in Nat \ {0, 1}, NEW values \in Poly(p), NEW R \in Nat,
         NEW rev, rev = BitReversal(PowerOfTwo(R)),
         NEW W, RootLadder(W, R, p), NEW g, Levels(values, rev, W, R, p, g),
         NEW l \in Nat, l < R, EvaluatedAt(values, rev, W, R, p, g, l),
         NEW b \in Nat, b < PowerOfTwo(R - (l + 1)), NEW i \in Nat, i < PowerOfTwo(l),
         NEW k, k = b * (2 * PowerOfTwo(l)) + i + 1
  PROVE  LET f == Sub(values, rev, R, l + 1, b)
         IN  /\ Same(g[l + 1][k], Ev(Pw(W[l + 1], i), 2 * PowerOfTwo(l), f), p)
             /\ Same(g[l + 1][k + PowerOfTwo(l)],
                     Ev(Pw(W[l + 1], i + PowerOfTwo(l)), 2 * PowerOfTwo(l), f), p)
<1> DEFINE f == Sub(values, rev, R, l + 1, b)
<1>0. p \in Nat \ {0} /\ p \in Int
  OBVIOUS
<1>1. PICK q \in Nat : q = R - (l + 1) /\ R - l = q + 1 /\ R = (l + 1) + q
  OBVIOUS
<1>2. PICK h \in Nat \ {0}, c \in Nat \ {0} : h = PowerOfTwo(l) /\ c = PowerOfTwo(q)
  BY TwoPowersGrow
<1>3. PowerOfTwo(l + 1) = 2 * h /\ PowerOfTwo(q + 1) = 2 * c
  BY <1>2, PowersOfTwo
<1>4. PICK n \in Nat : n = PowerOfTwo(R) /\ n = c * (2 * h)
  <2>1. PowerOfTwo((l + 1) + q) = PowerOfTwo(l + 1) * PowerOfTwo(q) /\ l + 1 \in Nat
    BY TwoPowersGrow
  <2>2. (2 * h) * c = c * (2 * h) /\ c * (2 * h) \in Nat
    OBVIOUS
  <2> QED BY <1>1, <1>2, <1>3, <2>1, <2>2
<1>5. f \in Series /\ Even(f) = Sub(values, rev, R, l, 2 * b)
      /\ Odd(f) = Sub(values, rev, R, l, 2 * b + 1)
  BY <1>0, SubFacts
<1> HIDE DEF f
<1>6. /\ l \in 0 .. R /\ l + 1 \in 0 .. R
      /\ g[l] \in [1 .. n -> 0 .. p - 1]
      /\ g[l + 1] = Butterflies(g[l], 2 * h, W[l + 1], p)
  <2>1. l \in 0 .. R /\ l + 1 \in 0 .. R
    OBVIOUS
  <2> QED BY <1>2, <1>4, <2>1 DEF Levels
<1>7. /\ W[l] \in Int /\ W[l + 1] \in Int
      /\ Same(W[l + 1] * W[l + 1], W[l], p) /\ Same(Pw(W[l + 1], h), -1, p)
  BY <1>2, <1>6 DEF RootLadder
<1>8. PICK w \in Int, r \in Int : w = W[l] /\ r = W[l + 1]
  BY <1>7
<1>9. b < c /\ i < h /\ k \in Nat /\ k = b * (2 * h) + i + 1
  BY <1>1, <1>2
<1>10. PICK B : B = g[l + 1]
  OBVIOUS
<1>11. /\ B \in [1 .. n -> 0 .. p - 1] /\ k \in 1 .. n /\ k + h \in 1 .. n
       /\ Same(B[k], g[l][k] + g[l][k + h] * Pw(r, i), p)
       /\ Same(B[k + h], g[l][k] - g[l][k + h] * Pw(r, i), p)
  <2>1. PICK vs : vs = g[l]
    OBVIOUS
  <2>2. vs \in [1 .. n -> 0 .. p - 1] /\ B = Butterflies(vs, 2 * h, r, p)
    BY <1>6, <1>8, <1>10, <2>1
  <2>3. p \in Nat \ {0, 1} /\ h \in Nat \ {0} /\ c \in Nat /\ n \in Nat /\ r \in Int
        /\ n = c * (2 * h)
    BY <1>4
  <2>4. /\ B \in [1 .. n -> 0 .. p - 1]
        /\ \A bb, ii, kk \in Nat :
              bb < c /\ ii < h /\ kk = bb * (2 * h) + ii + 1 =>
                /\ kk \in 1 .. n /\ kk + h \in 1 .. n
                /\ Same(B[kk], vs[kk] + vs[kk + h] * Pw(r, ii), p)
                /\ Same(B[kk + h], vs[kk] - vs[kk + h] * Pw(r, ii), p)
    BY ONLY <2>2, <2>3, ButterfliesAt, ZenonT(40)
  <2> QED BY ONLY <1>9, <2>1, <2>4, b \in Nat, i \in Nat
<1>12. /\ Same(g[l][k], Ev(Pw(w, i), h, Even(f)), p)
       /\ Same(g[l][k + h], Ev(Pw(w, i), h, Odd(f)), p)
  <2>1. /\ 2 * b \in Nat /\ 2 * b + 1 \in Nat
        /\ 2 * b < PowerOfTwo(R - l) /\ 2 * b + 1 < PowerOfTwo(R - l)
    BY <1>1, <1>3, <1>9
  <2>2. k = (2 * b) * h + i + 1 /\ k + h = (2 * b + 1) * h + i + 1 /\ k + h \in Nat
    <3>1. b * (2 * h) = (2 * b) * h /\ (2 * b + 1) * h = (2 * b) * h + h
      OBVIOUS
    <3>2. PICK z \in Nat : z = (2 * b) * h
      OBVIOUS
    <3> QED BY <1>9, <3>1, <3>2
  <2>3. Same(g[l][k], Ev(Pw(W[l], i), h, Sub(values, rev, R, l, 2 * b)), p)
    BY <1>2, <1>9, <2>1, <2>2 DEF EvaluatedAt
  <2>4. Same(g[l][k + h], Ev(Pw(W[l], i), h, Sub(values, rev, R, l, 2 * b + 1)), p)
    BY <1>2, <1>9, <2>1, <2>2 DEF EvaluatedAt
  <2> QED BY <1>5, <1>8, <2>3, <2>4
<1>13. PICK u \in Int, v \in Int, e1 \in Int, e2 \in Int, y \in Int, z \in Int :
         /\ u = g[l][k] /\ v = g[l][k + h] /\ e1 = B[k] /\ e2 = B[k + h]
         /\ y = Pw(r, i) /\ z = Pw(w, i)
  <2>1. /\ g[l][k] \in 0 .. p - 1 /\ g[l][k + h] \in 0 .. p - 1
        /\ B[k] \in 0 .. p - 1 /\ B[k + h] \in 0 .. p - 1
    BY <1>6, <1>11
  <2>2. Pw(r, i) \in Int /\ Pw(w, i) \in Int
    BY PwFacts
  <2>3. g[l][k] \in Int /\ g[l][k + h] \in Int /\ B[k] \in Int /\ B[k + h] \in Int
    BY <2>1
  <2> QED BY <2>2, <2>3
<1>14. Same(y * y, z, p)
  <2>1. y * y = Pw(r * r, i)
    BY <1>13, PwOfSquare
  <2>2. Same(r * r, w, p)
    BY <1>7, <1>8
  <2>3. r * r \in Int
    OBVIOUS
  <2>4. Same(Pw(r * r, i), Pw(w, i), p)
    BY <1>0, <2>2, <2>3, PwOfSame
  <2> QED BY <1>13, <2>1, <2>4
<1>15. Same(e1, Ev(y, 2 * h, f), p)
  <2>1. /\ Same(e1, u + v * y, p) /\ Same(u, Ev(z, h, Even(f)), p)
        /\ Same(v, Ev(z, h, Odd(f)), p)
    BY <1>11, <1>12, <1>13
  <2>2. Integers3(<<u, v, e1>>)
    BY DEF Integers3
  <2>3. h \in Nat
    OBVIOUS
  <2> QED BY <1>0, <1>5, <1>14, <2>1, <2>2, <2>3, ButterflyValue
<1>16. PICK y2 \in Int : y2 = Pw(r, i + h) /\ Same(y2, -y, p)
  <2>1. Pw(r, i + h) = y * Pw(r, h) /\ Pw(r, h) \in Int
    <3>1. h \in Nat /\ Pw(r, h) \in Int
      BY PwFacts
    <3>2. Pw(r, i + h) = Pw(r, i) * Pw(r, h)
      BY ONLY <3>1, i \in Nat, r \in Int, PwAdds
    <3> QED BY <1>13, <3>1, <3>2
  <2>2. PICK j \in Int : Pw(r, h) = -1 + j * p
    BY <1>7, <1>8 DEF Same
  <2>3. y * (-1 + j * p) = -y + (y * j) * p /\ y * j \in Int
    BY <1>0
  <2>4. Same(y * Pw(r, h), -y, p)
    BY <2>2, <2>3 DEF Same
  <2>5. y * Pw(r, h) \in Int
    BY <2>1
  <2> QED BY <2>1, <2>4, <2>5
<1>17. Same(y2 * y2, z, p)
  <2>1. PICK j \in Int : y2 = -y + j * p
    BY <1>16 DEF Same
  <2>2. y2 * y2 = y * y + (j * j * p - 2 * (y * j)) * p
    BY <1>0, <2>1
  <2>3. j * j * p - 2 * (y * j) \in Int
    BY <1>0
  <2>4. Same(y2 * y2, y * y, p)
    BY <2>2, <2>3 DEF Same
  <2>5. y2 * y2 \in Int /\ y * y \in Int
    OBVIOUS
  <2> QED BY <1>0, <1>14, <2>4, <2>5, SameIsTransitive
<1>18. Same(e2, Ev(y2, 2 * h, f), p)
  <2>1. /\ Same(e2, u - v * y, p) /\ Same(u, Ev(z, h, Even(f)), p)
        /\ Same(v, Ev(z, h, Odd(f)), p)
    BY <1>11, <1>12, <1>13
  <2>2. Integers3(<<u, v, e2>>)
    BY DEF Integers3
  <2>3. h \in Nat
    OBVIOUS
  <2>4. Same(e2, u + v * y2, p)
    <3>1. PICK a \in Int : e2 = (u - v * y) + a * p
      BY <2>1 DEF Same
    <3>2. PICK j \in Int : y2 = -y + j * p
      BY <1>16 DEF Same
    <3>3. v * y2 = -(v * y) + (v * j) * p
      BY <1>0, <3>2
    <3>4. e2 = (u + v * y2) + (a - v * j) * p
      <4>1. PICK s \in Int, t \in Int : s = v * y /\ t = v * j
        OBVIOUS
      <4>2. v * y2 = -s + t * p /\ e2 = (u - s) + a * p
        BY <3>1, <3>3, <4>1
      <4>3. (a - t) * p = a * p - t * p
        BY <1>0
      <4> QED BY <1>0, <4>1, <4>2, <4>3
    <3>5. a - v * j \in Int
      OBVIOUS
    <3> QED BY <3>4, <3>5 DEF Same
  <2> QED BY <1>0, <1>5, <1>17, <2>1, <2>2, <2>3, <2>4, ButterflyValue
<1> QED BY <1>2, <1>8, <1>10, <1>13, <1>15, <1>16, <1>18 DEF f

LEMMA LevelsEvaluate ==
  ASSUME NEW p \in Nat \ {0, 1}, NEW values \in Poly(p), NEW R \in Nat,
         Len(values) = PowerOfTwo(R),
         NEW rev, rev = BitReversal(PowerOfTwo(R)),
         NEW W, RootLadder(W, R, p), NEW g, Levels(values, rev, W, R, p, g)
  PROVE  \A l \in Nat : l <= R => EvaluatedAt(values, rev, W, R, p, g, l)
<1>0. p \in Nat \ {0} /\ p \in Int
  OBVIOUS
<1> DEFINE T == {l \in Nat : l <= R => EvaluatedAt(values, rev, W, R, p, g, l)}
<1>1. 0 \in T
  <2> SUFFICES ASSUME NEW b \in Nat, NEW i \in Nat, NEW k \in Nat,
                      b < PowerOfTwo(R - 0), i < PowerOfTwo(0), k = b * PowerOfTwo(0) + i + 1
               PROVE  Same(g[0][k], Ev(Pw(W[0], i), PowerOfTwo(0),
                                       Sub(values, rev, R, 0, b)), p)
    BY DEF EvaluatedAt
  <2>1. PowerOfTwo(0) = 1 /\ R - 0 = R
    BY PowersOfTwo
  <2>2. i = 0 /\ k = b + 1 /\ b * 1 = b
    BY <2>1
  <2>3. PICK n \in Nat \ {0} : n = PowerOfTwo(R) /\ b < n /\ k \in 1 .. n /\ k - 1 = b
    <3>1. PICK n \in Nat \ {0} : n = PowerOfTwo(R)
      BY TwoPowersGrow
    <3>2. b < n /\ k = b + 1
      BY <2>1, <2>2, <3>1
    <3>3. k \in 1 .. n /\ k - 1 = b
      BY <3>2
    <3> QED BY <3>1, <3>2, <3>3
  <2>4. g[0][k] = values[rev[b] + 1]
    BY <2>3 DEF Levels
  <2>5. PICK s \in 0 .. n - 1 : s = rev[b]
    <3>1. rev = BitReversal(n)
      BY <2>3
    <3>2. rev \in [0 .. n - 1 -> 0 .. n - 1]
      BY <3>1, BitReversalEquation
    <3>3. b \in 0 .. n - 1
      BY <2>3
    <3> QED BY <3>2, <3>3
  <2>6. PICK f : f = Sub(values, rev, R, 0, b)
    OBVIOUS
  <2>7. f[0] = values[s + 1] /\ values[s + 1] \in Int
    <3>1. 0 * PowerOfTwo(R - 0) = 0 /\ s + 0 = s /\ s \in Nat /\ s < Len(values)
      BY <2>1, <2>3
    <3>2. f[0] = Ser(values)[s + 0 * PowerOfTwo(R - 0)]
      BY <2>1, <2>2, <2>5, <2>6 DEF Sub
    <3>3. Ser(values)[s] = values[s + 1]
      BY <3>1 DEF Ser
    <3>4. Ser(values)[s] \in 0 .. p - 1
      BY <1>0, <3>1, PolyFacts
    <3>5. values[s + 1] \in Int
      BY <3>3, <3>4
    <3>6. s + 0 * PowerOfTwo(R - 0) = s
      BY <3>1
    <3> QED BY <3>2, <3>3, <3>5, <3>6
  <2>8. f \in Series
    <3>1. \A j \in Nat : rev[b * PowerOfTwo(0)] + j * PowerOfTwo(R - 0) \in Nat
      <4>1. PowerOfTwo(R - 0) \in Nat /\ rev[b * PowerOfTwo(0)] = s
        BY <2>1, <2>2, <2>3, <2>5
      <4> QED BY <4>1
    <3>2. \A x \in Nat : Ser(values)[x] \in Int
      BY <1>0, PolyFacts
    <3> QED BY <2>6, <3>1, <3>2 DEF Sub, Series
  <2>9. W[0] \in Int
    BY DEF RootLadder
  <2>10. PICK x \in Int : x = Pw(W[0], i)
    BY <2>9, PwFacts
  <2>11. Ev(x, 0 + 1, f) = f[0] + x * Ev(x, 0, Shift(f)) /\ Ev(x, 0, Shift(f)) = 0
    BY <2>8, SeriesTypes, EvEquations
  <2>12. Ev(x, 1, f) = values[s + 1]
    BY <2>7, <2>11
  <2>13. Same(values[s + 1], values[s + 1], p)
    BY <1>0, <2>7, SameIsReflexive
  <2> QED BY <2>1, <2>4, <2>5, <2>6, <2>10, <2>12, <2>13
<1>2. ASSUME NEW l \in Nat, l \in T PROVE l + 1 \in T
  <2> SUFFICES ASSUME l + 1 <= R PROVE EvaluatedAt(values, rev, W, R, p, g, l + 1)
    OBVIOUS
  <2>1. l < R /\ EvaluatedAt(values, rev, W, R, p, g, l)
    BY <1>2
  <2> SUFFICES ASSUME NEW b \in Nat, NEW i \in Nat, NEW k \in Nat,
                      b < PowerOfTwo(R - (l + 1)), i < PowerOfTwo(l + 1),
                      k = b * PowerOfTwo(l + 1) + i + 1
               PROVE  Same(g[l + 1][k], Ev(Pw(W[l + 1], i), PowerOfTwo(l + 1),
                                           Sub(values, rev, R, l + 1, b)), p)
    BY DEF EvaluatedAt
  <2>2. PICK h \in Nat \ {0} : h = PowerOfTwo(l) /\ PowerOfTwo(l + 1) = 2 * h
    BY TwoPowersGrow, PowersOfTwo
  <2>3. CASE i < h
    <3>1. i < PowerOfTwo(l) /\ k = b * (2 * PowerOfTwo(l)) + i + 1
      BY <2>2, <2>3
    <3>2. Same(g[l + 1][k], Ev(Pw(W[l + 1], i), 2 * PowerOfTwo(l),
                               Sub(values, rev, R, l + 1, b)), p)
      BY <2>1, <3>1, BlockEvaluates
    <3> QED BY <2>2, <3>2
  <2>4. CASE ~(i < h)
    <3>1. PICK j \in Nat : i = j + h /\ j < h
      <4>1. i - h \in Nat /\ i = (i - h) + h /\ i - h < h
        BY <2>2, <2>4, SMTT(30)
      <4> QED BY <4>1
    <3>0. PICK z \in Nat : z = b * (2 * h)
      OBVIOUS
    <3>2. PICK q \in Nat : q = b * (2 * PowerOfTwo(l)) + j + 1
      <4>1. PICK q \in Nat : q = z + j + 1
        OBVIOUS
      <4> QED BY <2>2, <3>0, <4>1
    <3>3. k = q + PowerOfTwo(l)
      <4>1. k = z + i + 1 /\ q = z + j + 1
        BY <2>2, <3>2, <3>0
      <4> QED BY <2>2, <3>1, <4>1, SMTT(30)
    <3>4. j < PowerOfTwo(l)
      BY <2>2, <3>1
    <3>5. Same(g[l + 1][q + PowerOfTwo(l)],
               Ev(Pw(W[l + 1], j + PowerOfTwo(l)), 2 * PowerOfTwo(l),
                  Sub(values, rev, R, l + 1, b)), p)
      BY <2>1, <3>2, <3>4, BlockEvaluates
    <3> QED BY <2>2, <3>1, <3>3, <3>5
  <2> QED BY <2>3, <2>4
<1>3. \A l \in Nat : l \in T
  <2> HIDE DEF T
  <2> QED BY <1>1, <1>2, SetOfAllNaturals
<1> QED BY <1>3

(* ------------------------- the levels of ntt --------------------------- *)

RootAt(invert, prime, length) ==
  IF invert
    THEN Inverted(Power(prime.root, (prime.modulus - 1) \div length, prime.modulus),
                  prime.modulus)
    ELSE Power(prime.root, (prime.modulus - 1) \div length, prime.modulus)

LevelStep(values, invert, prime, g) ==
  [l \in 0 .. Rounds(Len(values)) |->
     IF l = 0
       THEN Tuple([k \in 1 .. Len(values) |-> values[BitReversal(Len(values))[k - 1] + 1]])
       ELSE Butterflies(g[l - 1], PowerOfTwo(l), RootAt(invert, prime, PowerOfTwo(l)),
                        prime.modulus)]
AllLevels(values, invert, prime) == CHOOSE g : g = LevelStep(values, invert, prime, g)

LEMMA TransformedIs ==
  ASSUME NEW values, NEW invert, NEW prime
  PROVE  Transformed(values, invert, prime)
           = AllLevels(values, invert, prime)[Rounds(Len(values))]
BY DEF Transformed, AllLevels, LevelStep, RootAt

\* The points of the transform of a prime.
Points(invert, prime, R) == [l \in 0 .. R |-> RootAt(invert, prime, PowerOfTwo(l))]

\* A level of a transform has the type of its values.
LEMMA ButterfliesType ==
  ASSUME NEW p \in Nat \ {0, 1}, NEW R \in Nat, NEW l \in Nat, l < R,
         NEW vs \in [1 .. PowerOfTwo(R) -> 0 .. p - 1], NEW root \in Int
  PROVE  /\ Butterflies(vs, PowerOfTwo(l + 1), root, p) \in [1 .. PowerOfTwo(R) -> 0 .. p - 1]
         /\ PowerOfTwo(l + 1) = 2 * PowerOfTwo(l)
<1>1. PICK q \in Nat : q = R - (l + 1) /\ R = (l + 1) + q
  OBVIOUS
<1>2. PICK h \in Nat \ {0}, c \in Nat \ {0} : h = PowerOfTwo(l) /\ c = PowerOfTwo(q)
  BY TwoPowersGrow
<1>3. PowerOfTwo(l + 1) = 2 * h
  BY <1>2, PowersOfTwo
<1>4. PICK n \in Nat : n = PowerOfTwo(R) /\ n = c * (2 * h)
  <2>1. PowerOfTwo((l + 1) + q) = PowerOfTwo(l + 1) * PowerOfTwo(q)
    <3>1. l + 1 \in Nat
      OBVIOUS
    <3> QED BY <3>1, TwoPowersGrow
  <2>2. (2 * h) * c = c * (2 * h) /\ c * (2 * h) \in Nat
    OBVIOUS
  <2> QED BY <1>1, <1>2, <1>3, <2>1, <2>2
<1>5. PICK B : B = Butterflies(vs, 2 * h, root, p)
  OBVIOUS
<1>6. h \in Nat \ {0} /\ c \in Nat /\ vs \in [1 .. n -> 0 .. p - 1]
  BY <1>4
<1>7. B \in [1 .. n -> 0 .. p - 1]
  BY ONLY p \in Nat \ {0, 1}, root \in Int, n \in Nat, <1>4, <1>5, <1>6, ButterfliesAt, Zenon
<1> QED BY <1>2, <1>3, <1>4, <1>5, <1>7

LEMMA LevelsAre ==
  ASSUME NEW prime, prime.modulus \in Nat \ {0, 1}, NEW invert, NEW R \in Nat,
         NEW values \in Poly(prime.modulus), Len(values) = PowerOfTwo(R),
         NEW W, W = Points(invert, prime, R), \A l \in 0 .. R : W[l] \in Int
  PROVE  /\ Levels(values, BitReversal(PowerOfTwo(R)), W, R, prime.modulus,
                   AllLevels(values, invert, prime))
         /\ Transformed(values, invert, prime) = AllLevels(values, invert, prime)[R]
<1> DEFINE p == prime.modulus
           D == 0 .. R
           V == [1 .. PowerOfTwo(R) -> 0 .. p - 1]
           rank == [k \in D |-> k]
           G == [g \in [D -> V] |-> LevelStep(values, invert, prime, g)]
           first == [k \in 1 .. Len(values) |-> values[BitReversal(Len(values))[k - 1] + 1]]
<1>0. PICK n \in Nat \ {0} : n = PowerOfTwo(R) /\ Rounds(Len(values)) = R /\ Len(values) = n
  BY RoundsOfPower, TwoPowersGrow
<1>a. p \in Nat \ {0, 1} /\ p \in Nat \ {0}
  OBVIOUS
<1>b. \A i \in 1 .. n : values[i] \in 0 .. p - 1
  BY <1>0, <1>a, PolyFacts
<1>1. Tuple(first) \in V /\ \A k \in 1 .. n : Tuple(first)[k] = values[BitReversal(n)[k - 1] + 1]
  <2>1. PICK rev : rev = BitReversal(n)
    OBVIOUS
  <2>2. rev \in [0 .. n - 1 -> 0 .. n - 1]
    BY <2>1, BitReversalEquation
  <2>3. ASSUME NEW k \in 1 .. n PROVE values[rev[k - 1] + 1] \in 0 .. p - 1
    <3>1. k - 1 \in 0 .. n - 1
      OBVIOUS
    <3>2. PICK s \in 0 .. n - 1 : s = rev[k - 1]
      BY <2>2, <3>1
    <3>3. s + 1 \in 1 .. n
      OBVIOUS
    <3> QED BY <1>b, <3>2, <3>3
  <2>4. first = [k \in 1 .. n |-> values[rev[k - 1] + 1]]
    BY <1>0, <2>1
  <2>5. first \in [1 .. n -> 0 .. p - 1]
    BY <2>3, <2>4
  <2>6. Tuple(first) = first
    <3> HIDE DEF first, p
    <3> QED BY <2>5, TupleIs
  <2> HIDE DEF p
  <2> QED BY <1>0, <2>1, <2>4, <2>5, <2>6
<1>2. ASSUME NEW g, NEW l \in D
      PROVE  LevelStep(values, invert, prime, g)[l] =
               IF l = 0 THEN Tuple(first)
               ELSE Butterflies(g[l - 1], PowerOfTwo(l), W[l], p)
  BY <1>0 DEF LevelStep, Points
<1>3. ASSUME NEW l \in D, l # 0, NEW v \in V
      PROVE  Butterflies(v, PowerOfTwo(l), W[l], p) \in V
  <2>1. PICK j \in Nat : l = j + 1 /\ j < R
    <3>1. l - 1 \in Nat /\ l = (l - 1) + 1 /\ l - 1 < R
      BY <1>3
    <3> QED BY <3>1
  <2>2. W[l] \in Int
    OBVIOUS
  <2> HIDE DEF p
  <2> QED BY <1>a, <2>1, <2>2, ButterfliesType
<1>4. ASSUME NEW g \in [D -> V] PROVE LevelStep(values, invert, prime, g) \in [D -> V]
  <2>1. ASSUME NEW l \in D PROVE LevelStep(values, invert, prime, g)[l] \in V
    <3>1. CASE l = 0
      BY <1>1, <1>2, <3>1
    <3>2. CASE l # 0
      <4>1. l - 1 \in D
        BY <3>2
      <4>2. g[l - 1] \in V
        BY <4>1
      <4> HIDE DEF V
      <4> QED BY <1>2, <1>3, <3>2, <4>2
    <3> QED BY <3>1, <3>2
  <2>2. LevelStep(values, invert, prime, g)
          = [l \in D |-> LevelStep(values, invert, prime, g)[l]]
    BY <1>0 DEF LevelStep
  <2> HIDE DEF V, D
  <2> QED BY <2>1, <2>2
<1>5. Recurses(D, V, R, rank, G)
  <2>1. V # {} /\ R \in Nat
    BY <1>1
  <2>2. rank \in [D -> 0 .. R]
    OBVIOUS
  <2>3. G \in [[D -> V] -> [D -> V]]
    BY <1>4
  <2>4. ASSUME NEW g \in [D -> V], NEW h \in [D -> V], NEW k \in D,
               \A t \in D : rank[t] < rank[k] => g[t] = h[t]
        PROVE  G[g][k] = G[h][k]
    <3>1. CASE k = 0
      BY <1>2, <3>1
    <3>2. CASE k # 0
      <4>1. k - 1 \in D /\ k - 1 < k
        BY <3>2
      <4>2. g[k - 1] = h[k - 1]
        BY <2>4, <4>1
      <4> HIDE DEF V, D, p, first
      <4> QED BY <1>2, <3>2, <4>2
    <3> QED BY <3>1, <3>2
  <2> HIDE DEF D, V, rank, G
  <2> QED BY <2>1, <2>2, <2>3, <2>4 DEF Recurses
<1>6. PICK g \in [D -> V] : g = LevelStep(values, invert, prime, g)
  <2>1. \E g \in [D -> V] : g = G[g]
    <3> HIDE DEF D, V, G, rank
    <3> QED BY <1>5, RecursionHasSolution
  <2> QED BY <2>1
<1> DEFINE all == AllLevels(values, invert, prime)
<1>7. all = LevelStep(values, invert, prime, all)
  <2> HIDE DEF D, V
  <2> QED BY <1>6 DEF AllLevels
<1> HIDE DEF all
<1>8. all[0] = Tuple(first)
  <2>1. 0 \in D
    OBVIOUS
  <2> HIDE DEF D, first, p
  <2> QED BY <1>2, <1>7, <2>1
<1>9. \A l \in D : l # 0 => all[l] = Butterflies(all[l - 1], PowerOfTwo(l), W[l], p)
  <2> HIDE DEF D, first, p
  <2> QED BY <1>2, <1>7
<1> DEFINE T == {k \in Nat : k <= R => all[k] \in V}
<1>10. 0 \in T
  BY <1>1, <1>8
<1>11. ASSUME NEW k \in Nat, k \in T PROVE k + 1 \in T
  <2> SUFFICES ASSUME k + 1 <= R PROVE all[k + 1] \in V
    OBVIOUS
  <2>1. all[k] \in V
    BY <1>11
  <2>2. k + 1 \in D /\ k + 1 # 0 /\ (k + 1) - 1 = k
    OBVIOUS
  <2> HIDE DEF V, D, p
  <2> QED BY <1>3, <1>9, <2>1, <2>2
<1>12. \A k \in Nat : k \in T
  <2> HIDE DEF T
  <2> QED BY <1>10, <1>11, SetOfAllNaturals
<1>13. all \in [D -> V]
  <2>1. \A l \in D : all[l] \in V
    BY <1>12
  <2>2. all = [l \in D |-> all[l]]
    BY <1>0, <1>7 DEF LevelStep
  <2> HIDE DEF V, D
  <2> QED BY <2>1, <2>2
<1>14. \A k \in 1 .. n : all[0][k] = values[BitReversal(n)[k - 1] + 1]
  <2> HIDE DEF first
  <2> QED BY <1>1, <1>8
<1>15. \A l \in Nat : l < R => all[l + 1] = Butterflies(all[l], 2 * PowerOfTwo(l), W[l + 1], p)
  <2> SUFFICES ASSUME NEW l \in Nat, l < R
               PROVE  all[l + 1] = Butterflies(all[l], 2 * PowerOfTwo(l), W[l + 1], p)
    OBVIOUS
  <2>1. l + 1 \in D /\ l + 1 # 0 /\ (l + 1) - 1 = l
    OBVIOUS
  <2>2. PowerOfTwo(l + 1) = 2 * PowerOfTwo(l)
    BY PowersOfTwo
  <2> HIDE DEF D, p
  <2> QED BY <1>9, <2>1, <2>2
<1>16. Levels(values, BitReversal(n), W, R, p, all)
  <2> HIDE DEF p
  <2> QED BY <1>0, <1>13, <1>14, <1>15 DEF Levels, V, D
<1> QED BY <1>0, <1>16, TransformedIs DEF all

\* The values of a transform are those of the polynomial at the points.
LEMMA TransformAt ==
  ASSUME NEW prime, NEW p, p = prime.modulus, p \in Nat \ {0, 1}, NEW invert, NEW R \in Nat,
         NEW values \in Poly(p), NEW n, n = PowerOfTwo(R), Len(values) = n,
         NEW W, W = Points(invert, prime, R), RootLadder(W, R, p)
  PROVE  /\ Transformed(values, invert, prime) \in [1 .. n -> 0 .. p - 1]
         /\ \A k \in Nat : k < n =>
              Same(Transformed(values, invert, prime)[k + 1],
                   Ev(Pw(W[R], k), n, Ser(values)), p)
<1> DEFINE g == AllLevels(values, invert, prime)
           rev == BitReversal(n)
<1>0. n \in Nat \ {0} /\ p \in Nat \ {0}
  BY TwoPowersGrow
<1>1. Levels(values, rev, W, R, p, g) /\ Transformed(values, invert, prime) = g[R]
  <2>1. \A l \in 0 .. R : W[l] \in Int
    BY DEF RootLadder
  <2>2. /\ Levels(values, BitReversal(PowerOfTwo(R)), W, R, prime.modulus,
                  AllLevels(values, invert, prime))
        /\ Transformed(values, invert, prime) = AllLevels(values, invert, prime)[R]
    BY <2>1, LevelsAre
  <2> QED BY <2>2
<1>2. rev = BitReversal(PowerOfTwo(R)) /\ rev \in [0 .. n - 1 -> 0 .. n - 1] /\ rev[0] = 0
  BY <1>0, BitReversalEquation
<1> HIDE DEF g, rev
<1>3. EvaluatedAt(values, rev, W, R, p, g, R)
  <2>1. R <= R /\ Len(values) = PowerOfTwo(R)
    OBVIOUS
  <2> QED BY <1>1, <1>2, <2>1, LevelsEvaluate
<1>4. g[R] \in [1 .. n -> 0 .. p - 1]
  <2>1. R \in 0 .. R
    OBVIOUS
  <2> QED BY <1>1, <2>1 DEF Levels
<1>5. Sub(values, rev, R, R, 0) = Ser(values)
  <2>1. PowerOfTwo(R - R) = 1 /\ 0 * PowerOfTwo(R) = 0
    <3>1. R - R = 0 /\ 0 * n = 0
      BY <1>0
    <3> QED BY <3>1, PowersOfTwo
  <2>2. \A j \in Nat : rev[0 * PowerOfTwo(R)] + j * PowerOfTwo(R - R) = j
    BY <1>2, <2>1
  <2>3. Sub(values, rev, R, R, 0) = [j \in Nat |-> Ser(values)[j]]
    BY <2>2 DEF Sub
  <2>4. Ser(values) = [j \in Nat |-> Ser(values)[j]]
    BY DEF Ser
  <2> QED BY <2>3, <2>4
<1>6. ASSUME NEW k \in Nat, k < n
      PROVE  Same(g[R][k + 1], Ev(Pw(W[R], k), n, Ser(values)), p)
  <2>1. PICK q \in Nat : q = k + 1
    OBVIOUS
  <2>2. 0 < PowerOfTwo(R - R) /\ k < PowerOfTwo(R) /\ q = 0 * PowerOfTwo(R) + k + 1
    <3>1. R - R = 0 /\ 0 * n + k + 1 = q
      BY <1>0, <2>1
    <3> QED BY <1>6, <3>1, PowersOfTwo
  <2>3. Same(g[R][q], Ev(Pw(W[R], k), PowerOfTwo(R), Sub(values, rev, R, R, 0)), p)
    BY <1>3, <2>2 DEF EvaluatedAt
  <2> QED BY <1>5, <2>1, <2>3
<1> QED BY <1>1, <1>4, <1>6

(* ------------------------------ the points ----------------------------- *)

LEMMA PwOfProduct ==
  ASSUME NEW a \in Int, NEW b \in Int
  PROVE  \A e \in Nat : Pw(a * b, e) = Pw(a, e) * Pw(b, e)
<1> DEFINE T == {e \in Nat : Pw(a * b, e) = Pw(a, e) * Pw(b, e)}
<1>a. a * b \in Int
  OBVIOUS
<1>1. 0 \in T
  <2>1. Pw(a, 0) = 1 /\ Pw(b, 0) = 1 /\ Pw(a * b, 0) = 1
    BY <1>a, PwFacts
  <2> QED BY <2>1
<1>2. ASSUME NEW n \in Nat, n \in T PROVE n + 1 \in T
  <2>1. Pw(a, n + 1) = Pw(a, n) * a /\ Pw(b, n + 1) = Pw(b, n) * b
        /\ Pw(a * b, n + 1) = Pw(a * b, n) * (a * b)
    BY <1>a, PwFacts
  <2>2. PICK x \in Int, y \in Int : x = Pw(a, n) /\ y = Pw(b, n)
    BY PwFacts
  <2>3. (x * y) * (a * b) = (x * a) * (y * b)
    OBVIOUS
  <2>4. Pw(a * b, n) = x * y
    BY <1>2, <2>2
  <2> QED BY <2>1, <2>2, <2>3, <2>4
<1>3. \A n \in Nat : n \in T
  <2> HIDE DEF T
  <2> QED BY <1>1, <1>2, SetOfAllNaturals
<1> QED BY <1>3

\* What PrimesAssumption says of a prime.
Transforms(prime, p, s) ==
  /\ p = prime.modulus /\ p \in Nat \ {0, 1, 2} /\ IsPrime(p)
  /\ s = prime.power /\ s \in Nat /\ prime.root \in Int
  /\ \E d \in Nat : p - 1 = PowerOfTwo(s) * d
  /\ \E e \in Nat : p - 1 = 2 * e /\ Same(Pw(prime.root, e), -1, p)

\* The exponent of a point.
LEMMA ExponentOf ==
  ASSUME NEW prime, NEW p, NEW s, Transforms(prime, p, s), NEW l \in Nat, l <= s
  PROVE  \E e \in Nat : /\ p - 1 = PowerOfTwo(l) * e
                        /\ (p - 1) \div PowerOfTwo(l) = e
<1>1. p - 1 \in Nat /\ s \in Nat
  BY DEF Transforms
<1>2. PICK d \in Nat : p - 1 = PowerOfTwo(s) * d
  BY DEF Transforms
<1>3. PICK q \in Nat : s = l + q
  <2>1. s - l \in Nat /\ s = l + (s - l)
    BY <1>1
  <2> QED BY <2>1
<1>4. PICK h \in Nat \ {0}, c \in Nat : h = PowerOfTwo(l) /\ c = PowerOfTwo(q)
  BY TwoPowersGrow
<1>5. PowerOfTwo(s) = h * c
  BY <1>3, <1>4, TwoPowersGrow
<1>6. PICK e \in Nat : e = c * d
  BY <1>4
<1>7. p - 1 = h * e
  <2>1. (h * c) * d = h * (c * d)
    BY <1>4
  <2> QED BY <1>2, <1>5, <1>6, <2>1
<1>8. (p - 1) \div h = e
  <2>1. h * e <= p - 1 /\ p - 1 < h * e + h
    BY <1>1, <1>7
  <2> QED BY <1>1, <2>1, QuotientIs
<1> QED BY <1>4, <1>7, <1>8

LEMMA ForwardPoint ==
  ASSUME NEW prime, NEW p, NEW s, Transforms(prime, p, s), NEW l \in Nat, l <= s
  PROVE  \E e \in Nat :
           /\ p - 1 = PowerOfTwo(l) * e
           /\ RootAt(FALSE, prime, PowerOfTwo(l)) \in 0 .. p - 1
           /\ Same(RootAt(FALSE, prime, PowerOfTwo(l)), Pw(prime.root, e), p)
<1>1. PICK e \in Nat : p - 1 = PowerOfTwo(l) * e /\ (p - 1) \div PowerOfTwo(l) = e
  BY ExponentOf
<1>2. p = prime.modulus /\ p \in Nat \ {0, 1} /\ prime.root \in Int
  BY DEF Transforms
<1>3. RootAt(FALSE, prime, PowerOfTwo(l)) = Power(prime.root, e, p)
  BY <1>1, <1>2 DEF RootAt
<1>4. Power(prime.root, e, p) \in 0 .. p - 1 /\ Same(Power(prime.root, e, p), Pw(prime.root, e), p)
  BY <1>2, PowerFacts
<1> QED BY <1>1, <1>3, <1>4

LEMMA ForwardLadder ==
  ASSUME NEW prime, NEW p, NEW s, Transforms(prime, p, s), NEW R \in Nat, R <= s,
         NEW W, W = Points(FALSE, prime, R)
  PROVE  RootLadder(W, R, p)
<1>0. p \in Int /\ s \in Nat /\ prime.root \in Int
  BY DEF Transforms
<1>1. \A l \in 0 .. R : W[l] = RootAt(FALSE, prime, PowerOfTwo(l))
  BY DEF Points
<1>2. \A l \in 0 .. R : W[l] \in Int
  <2> SUFFICES ASSUME NEW l \in 0 .. R PROVE W[l] \in Int
    OBVIOUS
  <2>1. l \in Nat /\ l <= s
    BY <1>0
  <2>2. RootAt(FALSE, prime, PowerOfTwo(l)) \in 0 .. p - 1
    BY <2>1, ForwardPoint
  <2>3. RootAt(FALSE, prime, PowerOfTwo(l)) \in Int
    <3>1. \A i \in 0 .. p - 1 : i \in Int
      BY <1>0
    <3> QED BY <2>2, <3>1
  <2> QED BY <1>1, <2>3
<1>3. W \in [0 .. R -> Int]
  BY <1>2 DEF Points
<1>4. ASSUME NEW l \in Nat, l < R
      PROVE  /\ Same(W[l + 1] * W[l + 1], W[l], p)
             /\ Same(Pw(W[l + 1], PowerOfTwo(l)), -1, p)
  <2>1. PICK h \in Nat \ {0} : h = PowerOfTwo(l) /\ PowerOfTwo(l + 1) = 2 * h
    BY TwoPowersGrow, PowersOfTwo
  <2>2. PICK g \in Int : g = prime.root
    BY <1>0
  <2>3. PICK x \in Int, y \in Int : x = W[l + 1] /\ y = W[l]
    <3>1. l \in 0 .. R /\ l + 1 \in 0 .. R
      BY <1>4
    <3> QED BY <1>2, <3>1
  <2>4. PICK e \in Nat : p - 1 = (2 * h) * e /\ Same(x, Pw(g, e), p)
    <3>1. l + 1 \in Nat /\ l + 1 <= s /\ l + 1 \in 0 .. R
      BY <1>0, <1>4
    <3>2. \E e \in Nat :
           /\ p - 1 = PowerOfTwo(l + 1) * e
           /\ RootAt(FALSE, prime, PowerOfTwo(l + 1)) \in 0 .. p - 1
           /\ Same(RootAt(FALSE, prime, PowerOfTwo(l + 1)), Pw(prime.root, e), p)
      BY <3>1, ForwardPoint
    <3> QED BY <1>1, <2>1, <2>2, <2>3, <3>1, <3>2
  <2>5. PICK d \in Nat : p - 1 = h * d /\ Same(y, Pw(g, d), p)
    <3>1. l \in Nat /\ l <= s /\ l \in 0 .. R
      BY <1>0, <1>4
    <3>2. \E c \in Nat :
           /\ p - 1 = PowerOfTwo(l) * c
           /\ RootAt(FALSE, prime, PowerOfTwo(l)) \in 0 .. p - 1
           /\ Same(RootAt(FALSE, prime, PowerOfTwo(l)), Pw(prime.root, c), p)
      BY <3>1, ForwardPoint
    <3> QED BY <1>1, <2>1, <2>2, <2>3, <3>1, <3>2
  <2>6. d = e + e
    <3>1. h * d = h * (e + e)
      BY <2>4, <2>5
    <3>2. h * (d - (e + e)) = 0
      BY <3>1
    <3>3. PICK z \in Int : z = d - (e + e)
      OBVIOUS
    <3>4. h * z = 0 => z = 0
      OBVIOUS
    <3>5. z = 0
      BY <3>2, <3>3, <3>4
    <3> QED BY <3>3, <3>5
  <2>7. PICK v \in Int : v = Pw(g, e) /\ Pw(g, d) = v * v
    <3>1. Pw(g, e + e) = Pw(g, e) * Pw(g, e) /\ Pw(g, e) \in Int
      BY PwAdds, PwFacts
    <3> QED BY <2>6, <3>1
  <2>8. Same(x * x, y, p)
    <3>1. Same(x * x, v * v, p)
      BY <1>0, <2>4, <2>7, SameTimes
    <3>2. Same(v * v, y, p)
      <4>1. v * v \in Int
        OBVIOUS
      <4> QED BY <1>0, <2>5, <2>7, <4>1, SameIsSymmetric
    <3>3. x * x \in Int /\ v * v \in Int
      OBVIOUS
    <3> QED BY <1>0, <3>1, <3>2, <3>3, SameIsTransitive
  <2>9. Same(Pw(x, h), -1, p)
    <3>1. Same(Pw(x, h), Pw(v, h), p)
      BY <1>0, <2>4, <2>7, PwOfSame
    <3>2. Pw(v, h) = Pw(g, e * h)
      BY <2>7, PwOfPw
    <3>3. PICK c \in Nat : p - 1 = 2 * c /\ Same(Pw(g, c), -1, p)
      BY <2>2 DEF Transforms
    <3>4. c = e * h
      <4>1. (2 * h) * e = 2 * (e * h) /\ e * h \in Int
        OBVIOUS
      <4>2. PICK z \in Int : z = e * h
        BY <4>1
      <4> QED BY <2>4, <3>3, <4>1, <4>2
    <3>5. Pw(x, h) \in Int /\ Pw(v, h) \in Int
      BY PwFacts
    <3>7. -1 \in Int
      OBVIOUS
    <3>6. Same(Pw(v, h), -1, p)
      BY <3>2, <3>3, <3>4
    <3> QED BY ONLY <1>0, <3>1, <3>5, <3>6, <3>7, SameIsTransitive
  <2> QED BY <2>1, <2>3, <2>8, <2>9
<1> QED BY <1>3, <1>4 DEF RootLadder

\* A product with one is nothing.
LEMMA SameByOne ==
  ASSUME NEW p \in Int, NEW a \in Int, NEW b \in Int, Same(b, 1, p)
  PROVE  Same(a * b, a, p)
<1>1. PICK k \in Int : b = 1 + k * p
  BY DEF Same
<1>2. a * b = a + (a * k) * p /\ a * k \in Int
  BY <1>1
<1> QED BY <1>2 DEF Same

\* The inverse points are inverses of the points.
LEMMA BackwardPoint ==
  ASSUME NEW prime, NEW p, NEW s, Transforms(prime, p, s), NEW l \in Nat, l <= s,
         NEW w, w = RootAt(FALSE, prime, PowerOfTwo(l)),
         NEW v, v = RootAt(TRUE, prime, PowerOfTwo(l))
  PROVE  w \in 0 .. p - 1 /\ v \in 0 .. p - 1 /\ Same(w * v, 1, p)
<1>0. p \in Nat /\ IsPrime(p) /\ p \in Int /\ p - 1 \in Nat /\ prime.root \in Int
  BY DEF Transforms
<1>1. PICK e \in Nat :
           /\ p - 1 = PowerOfTwo(l) * e
           /\ w \in 0 .. p - 1
           /\ Same(w, Pw(prime.root, e), p)
  BY ForwardPoint
<1>2. PICK g \in Int, x \in Int : g = prime.root /\ x = w
  <2>1. \A i \in 0 .. p - 1 : i \in Int
    BY <1>0
  <2> QED BY <1>0, <1>1, <2>1
<1>3. PICK c \in Nat : p - 1 = 2 * c /\ Same(Pw(g, c), -1, p)
  BY <1>2 DEF Transforms
<1>4. Same(Pw(g, p - 1), 1, p)
  <2>1. Pw(g, c + c) = Pw(g, c) * Pw(g, c) /\ Pw(g, c) \in Int
    BY PwAdds, PwFacts
  <2>2. PICK y \in Int : y = Pw(g, c)
    BY <2>1
  <2>3. -1 \in Int
    OBVIOUS
  <2>4. Same(y * y, (-1) * (-1), p)
    BY <1>0, <1>3, <2>2, <2>3, SameTimes
  <2>5. (-1) * (-1) = 1 /\ p - 1 = c + c
    BY <1>3
  <2> QED BY <2>1, <2>2, <2>4, <2>5
<1>5. Same(Pw(x, p - 1), 1, p)
  <2>1. PICK y \in Int : y = Pw(g, e)
    BY PwFacts
  <2>2. Same(Pw(x, p - 1), Pw(y, p - 1), p)
    BY <1>0, <1>1, <1>2, <2>1, PwOfSame
  <2>3. Pw(y, p - 1) = Pw(Pw(g, p - 1), e)
    <3>1. Pw(y, p - 1) = Pw(g, e * (p - 1))
      BY <1>0, <2>1, PwOfPw
    <3>2. Pw(Pw(g, p - 1), e) = Pw(g, (p - 1) * e)
      BY <1>0, PwOfPw
    <3>3. e * (p - 1) = (p - 1) * e
      BY <1>0
    <3> QED BY <3>1, <3>2, <3>3
  <2>4. Same(Pw(Pw(g, p - 1), e), 1, p)
    <3>1. Pw(g, p - 1) \in Int
      BY <1>0, PwFacts
    <3> QED BY <1>0, <1>4, <3>1, PwOfOne
  <2>5. Pw(x, p - 1) \in Int /\ Pw(y, p - 1) \in Int
    BY <1>0, PwFacts
  <2> QED BY <1>0, <2>2, <2>3, <2>4, <2>5, SameIsTransitive
<1>6. Inverted(x, p) \in 0 .. p - 1 /\ Same(x * Inverted(x, p), 1, p)
  BY <1>0, <1>5, InvertedCancels
<1>7. v = Inverted(x, p)
  <2>1. p = prime.modulus
    BY DEF Transforms
  <2> QED BY <1>2, <2>1 DEF RootAt
<1> QED BY <1>1, <1>2, <1>6, <1>7

LEMMA BackwardLadder ==
  ASSUME NEW prime, NEW p, NEW s, Transforms(prime, p, s), NEW R \in Nat, R <= s,
         NEW W, W = Points(FALSE, prime, R), NEW V, V = Points(TRUE, prime, R)
  PROVE  /\ RootLadder(W, R, p) /\ RootLadder(V, R, p)
         /\ \A l \in 0 .. R : Same(W[l] * V[l], 1, p)
<1>0. p \in Int /\ p \in Nat /\ s \in Nat
  BY DEF Transforms
<1>1. RootLadder(W, R, p)
  BY ForwardLadder
<1>2. \A l \in 0 .. R : W[l] = RootAt(FALSE, prime, PowerOfTwo(l))
                     /\ V[l] = RootAt(TRUE, prime, PowerOfTwo(l))
  BY DEF Points
<1>3. \A l \in 0 .. R : W[l] \in Int /\ V[l] \in Int /\ Same(W[l] * V[l], 1, p)
  <2> SUFFICES ASSUME NEW l \in 0 .. R
               PROVE  W[l] \in Int /\ V[l] \in Int /\ Same(W[l] * V[l], 1, p)
    OBVIOUS
  <2>1. l \in Nat /\ l <= s
    BY <1>0
  <2>2. W[l] \in 0 .. p - 1 /\ V[l] \in 0 .. p - 1 /\ Same(W[l] * V[l], 1, p)
    BY <1>2, <2>1, BackwardPoint
  <2>3. \A i \in 0 .. p - 1 : i \in Int
    BY <1>0
  <2> QED BY <2>2, <2>3
<1>4. V \in [0 .. R -> Int]
  BY <1>3 DEF Points
<1>5. ASSUME NEW l \in Nat, l < R
      PROVE  /\ Same(V[l + 1] * V[l + 1], V[l], p)
             /\ Same(Pw(V[l + 1], PowerOfTwo(l)), -1, p)
  <2>1. PICK w \in Int, v \in Int, x \in Int, y \in Int :
          w = W[l + 1] /\ v = V[l + 1] /\ x = W[l] /\ y = V[l]
    <3>1. l \in 0 .. R /\ l + 1 \in 0 .. R
      BY <1>5
    <3> QED BY <1>3, <3>1
  <2>2. Same(w * v, 1, p) /\ Same(x * y, 1, p)
    <3>1. l \in 0 .. R /\ l + 1 \in 0 .. R
      BY <1>5
    <3> QED BY <1>3, <2>1, <3>1
  <2>3. PICK h \in Nat : h = PowerOfTwo(l) /\ Same(w * w, x, p) /\ Same(Pw(w, h), -1, p)
    <3>1. PICK h \in Nat : h = PowerOfTwo(l)
      BY TwoPowersGrow
    <3> QED BY <1>1, <1>5, <2>1, <3>1 DEF RootLadder
  <2>4. Same(v * v, y, p)
    <3>1. PICK i \in Int : w * v = 1 + i * p
      BY <2>2 DEF Same
    <3>2. PICK j \in Int : x * y = 1 + j * p
      BY <2>2 DEF Same
    <3>3. PICK k \in Int : w * w = x + k * p
      BY <2>3 DEF Same
    <3>4. (w * v) * (w * v) = (w * w) * (v * v)
      OBVIOUS
    <3>5. PICK u \in Int : u = v * v
      OBVIOUS
    <3>6. (1 + i * p) * (1 + i * p) = (x + k * p) * u
      BY <3>1, <3>3, <3>4, <3>5
    <3>7. PICK a \in Int : a = 2 * i + i * i * p /\ 1 + a * p = (x + k * p) * u
      <4>1. (1 + i * p) * (1 + i * p) = 1 + (2 * i + i * i * p) * p
        BY <1>0
      <4>2. 2 * i + i * i * p \in Int
        BY <1>0
      <4> QED BY <3>6, <4>1, <4>2
    <3>8. y + (a * y) * p = (x * y) * u + (k * u * y) * p
      <4>1. y * (1 + a * p) = y * ((x + k * p) * u)
        BY <3>7
      <4>2. y * (1 + a * p) = y + (a * y) * p
        BY <1>0
      <4>3. y * ((x + k * p) * u) = (x * y) * u + (k * u * y) * p
        BY <1>0
      <4> QED BY <4>1, <4>2, <4>3
    <3>9. (x * y) * u = u + (j * u) * p
      BY <1>0, <3>2
    <3>10. PICK c \in Int, d \in Int, f \in Int : c = a * y /\ d = k * u * y /\ f = j * u
      OBVIOUS
    <3>11. u = y + (c - d - f) * p
      <4>1. y + c * p = u + f * p + d * p
        BY <3>8, <3>9, <3>10
      <4>2. (c - d - f) * p = c * p - d * p - f * p
        BY <1>0
      <4>3. PICK cp \in Int, dp \in Int, fp \in Int : cp = c * p /\ dp = d * p /\ fp = f * p
        BY <1>0
      <4>4. y + cp = u + fp + dp
        BY <4>1, <4>3
      <4>5. (c - d - f) * p = cp - dp - fp
        BY <4>2, <4>3
      <4>6. PICK q \in Int : q = (c - d - f) * p
        BY <1>0
      <4>7. u = y + q
        BY ONLY <4>4, <4>5, <4>6, u \in Int, y \in Int, cp \in Int, dp \in Int, fp \in Int
      <4> QED BY <4>6, <4>7
    <3>12. c - d - f \in Int
      OBVIOUS
    <3> QED BY <3>5, <3>11, <3>12 DEF Same
  <2>5. Same(Pw(v, h), -1, p)
    <3>1. Pw(w * v, h) = Pw(w, h) * Pw(v, h)
      BY PwOfProduct
    <3>2. Same(Pw(w * v, h), 1, p)
      <4>1. w * v \in Int
        OBVIOUS
      <4> QED BY <1>0, <2>2, <4>1, PwOfOne
    <3>3. PICK b \in Int, c \in Int : b = Pw(w, h) /\ c = Pw(v, h)
      BY PwFacts
    <3>4. PICK i \in Int : b = -1 + i * p
      BY <2>3, <3>3 DEF Same
    <3>5. PICK j \in Int : b * c = 1 + j * p
      BY <3>1, <3>2, <3>3 DEF Same
    <3>6. c = -1 + (i * c - j) * p
      <4>1. (-1 + i * p) * c = -c + (i * c) * p
        BY <1>0
      <4>2. PICK z \in Int : z = i * c
        OBVIOUS
      <4>3. (z - j) * p = z * p - j * p
        BY <1>0
      <4>4. PICK zp \in Int, jp \in Int : zp = z * p /\ jp = j * p
        BY <1>0
      <4> QED BY <3>4, <3>5, <4>1, <4>2, <4>3, <4>4
    <3>7. i * c - j \in Int
      OBVIOUS
    <3> QED BY <3>3, <3>6, <3>7 DEF Same
  <2> QED BY <2>1, <2>3, <2>4, <2>5
<1> QED BY <1>1, <1>3, <1>4, <1>5 DEF RootLadder

(* ------------------------------ inversion ------------------------------ *)

Scaled(w, f) == [k \in Nat |-> Pw(w, k) * f[k]]

\* Terms that a power scales are the terms at another point.
LEMMA EvOfScaled ==
  ASSUME NEW x \in Int, NEW w \in Int
  PROVE  /\ \A f \in Series : Scaled(w, f) \in Series
         /\ \A n \in Nat : \A f \in Series : Ev(x, n, Scaled(w, f)) = Ev(x * w, n, f)
<1>0. x * w \in Int
  OBVIOUS
<1>1. \A f \in Series : Scaled(w, f) \in Series
  <2> SUFFICES ASSUME NEW f \in Series, NEW k \in Nat PROVE Pw(w, k) * f[k] \in Int
    BY DEF Scaled, Series
  <2>1. Pw(w, k) \in Int /\ f[k] \in Int
    BY PwFacts DEF Series
  <2> QED BY <2>1
<1> DEFINE T == {n \in Nat : \A f \in Series : Ev(x, n, Scaled(w, f)) = Ev(x * w, n, f)}
<1>2. 0 \in T
  <2> SUFFICES ASSUME NEW f \in Series PROVE Ev(x, 0, Scaled(w, f)) = Ev(x * w, 0, f)
    OBVIOUS
  <2> QED BY <1>0, <1>1, EvEquations
<1>3. ASSUME NEW n \in Nat, n \in T PROVE n + 1 \in T
  <2> SUFFICES ASSUME NEW f \in Series
               PROVE  Ev(x, n + 1, Scaled(w, f)) = Ev(x * w, n + 1, f)
    OBVIOUS
  <2>1. Shift(f) \in Series /\ f[0] \in Int /\ Constant(0) \in Series
    BY SeriesTypes
  <2>2. PICK u \in Series : u = Scaled(w, Shift(f))
    BY <1>1, <2>1
  <2>3. Shift(Scaled(w, f)) = Combine(w, u, Constant(0))
    <3>1. ASSUME NEW k \in Nat
          PROVE  Pw(w, k + 1) * f[k + 1] = w * (Pw(w, k) * f[k + 1]) + 0
      <4>1. k + 1 \in Nat
        OBVIOUS
      <4>2. PICK a \in Int, b \in Int : a = Pw(w, k) /\ b = f[k + 1]
        BY <4>1, PwFacts DEF Series
      <4>3. Pw(w, k + 1) = a * w
        BY <4>2, PwFacts
      <4> QED BY <4>2, <4>3
    <3>2. Shift(Scaled(w, f)) = [k \in Nat |-> Pw(w, k + 1) * f[k + 1]]
      <4>1. \A k \in Nat : k + 1 \in Nat
        OBVIOUS
      <4> QED BY <4>1 DEF Shift, Scaled
    <3>3. Combine(w, u, Constant(0)) = [k \in Nat |-> w * (Pw(w, k) * f[k + 1]) + 0]
      <4>1. \A k \in Nat : Constant(0)[k] = 0
        BY DEF Constant
      <4>2. \A k \in Nat : u[k] = Pw(w, k) * f[k + 1]
        BY <2>2 DEF Scaled, Shift
      <4> QED BY <4>1, <4>2 DEF Combine
    <3> QED BY <3>1, <3>2, <3>3
  <2>4. Ev(x, n, Constant(0)) = 0
    <3>1. Short(Constant(0), 0)
      BY DEF Short, Constant
    <3>2. Ev(x, n, Constant(0)) = Ev(x, 0, Constant(0))
      BY <2>1, <3>1, EvOfShort
    <3> QED BY <2>1, <3>2, EvEquations
  <2>5. Ev(x, n, Shift(Scaled(w, f))) = w * Ev(x, n, u) + 0
    BY <2>1, <2>3, <2>4, EvIsLinear
  <2>6. PICK z \in Int : z = Ev(x * w, n, Shift(f)) /\ z = Ev(x, n, u)
    <3>1. Ev(x * w, n, Shift(f)) \in Int
      BY <1>0, <2>1, EvEquations
    <3>2. Ev(x, n, u) = Ev(x * w, n, Shift(f))
      BY <1>3, <2>1, <2>2
    <3> QED BY <3>1, <3>2
  <2>7. Scaled(w, f)[0] = f[0]
    <3>1. Pw(w, 0) = 1
      BY PwFacts
    <3>2. 1 * f[0] = f[0]
      BY <2>1
    <3> QED BY <3>1, <3>2 DEF Scaled
  <2>8. /\ Ev(x, n + 1, Scaled(w, f)) = Scaled(w, f)[0] + x * Ev(x, n, Shift(Scaled(w, f)))
        /\ Ev(x * w, n + 1, f) = f[0] + (x * w) * Ev(x * w, n, Shift(f))
    BY <1>0, <1>1, EvEquations
  <2>9. x * (w * z + 0) = (x * w) * z
    OBVIOUS
  <2> QED BY <2>5, <2>6, <2>7, <2>8, <2>9
<1>4. \A n \in Nat : n \in T
  <2> HIDE DEF T
  <2> QED BY <1>2, <1>3, SetOfAllNaturals
<1> QED BY <1>1, <1>4

\* The values of f at the powers of w.
ValuesOf(X, f, w, n, p) ==
  \A i \in Nat : i < n => Same(X[i], Ev(Pw(w, i), n, f), p)

Spectrum(f, w, n) == [i \in Nat |-> Ev(Pw(w, i), n, f)]

LEMMA SpectrumFacts ==
  ASSUME NEW f \in Series, NEW w \in Int, NEW n \in Nat, NEW p \in Int
  PROVE  Spectrum(f, w, n) \in Series /\ ValuesOf(Spectrum(f, w, n), f, w, n, p)
<1>1. \A i \in Nat : Ev(Pw(w, i), n, f) \in Int
  BY PwFacts, EvEquations
<1>2. \A i \in Nat : Same(Spectrum(f, w, n)[i], Ev(Pw(w, i), n, f), p)
  BY <1>1, SameIsReflexive DEF Spectrum
<1> QED BY <1>1, <1>2 DEF Spectrum, Series, ValuesOf

\* The halves of the values come from the values of the even and the odd terms.
LEMMA HalvesOfValues ==
  ASSUME NEW p \in Int, NEW h \in Nat \ {0}, NEW w \in Int, NEW w0 \in Int,
         Same(w * w, w0, p), Same(Pw(w, h), -1, p),
         NEW f \in Series, NEW X \in Series, ValuesOf(X, f, w, 2 * h, p),
         NEW A, A = Spectrum(Even(f), w0, h), NEW B, B = Spectrum(Odd(f), w0, h)
  PROVE  \A i \in Nat : i < h =>
           /\ Same(X[i], A[i] + Pw(w, i) * B[i], p)
           /\ Same(X[i + h], A[i] - Pw(w, i) * B[i], p)
<1> SUFFICES ASSUME NEW i \in Nat, i < h
             PROVE  /\ Same(X[i], A[i] + Pw(w, i) * B[i], p)
                    /\ Same(X[i + h], A[i] - Pw(w, i) * B[i], p)
  OBVIOUS
<1>1. Even(f) \in Series /\ Odd(f) \in Series /\ h \in Nat
  BY EvenAndOdd
<1>2. PICK z \in Int, y \in Int, u \in Int, v \in Int :
        /\ z = Pw(w0, i) /\ y = Pw(w, i) /\ u = A[i] /\ v = B[i]
        /\ Same(u, Ev(z, h, Even(f)), p) /\ Same(v, Ev(z, h, Odd(f)), p)
  <2>1. Pw(w0, i) \in Int /\ Pw(w, i) \in Int
    BY PwFacts
  <2>2. A[i] = Ev(Pw(w0, i), h, Even(f)) /\ B[i] = Ev(Pw(w0, i), h, Odd(f))
    BY DEF Spectrum
  <2>3. Ev(Pw(w0, i), h, Even(f)) \in Int /\ Ev(Pw(w0, i), h, Odd(f)) \in Int
    BY <1>1, <2>1, EvEquations
  <2> QED BY <2>1, <2>2, <2>3, SameIsReflexive
<1>3. Same(y * y, z, p)
  <2>1. y * y = Pw(w * w, i)
    BY <1>2, PwOfSquare
  <2>2. w * w \in Int
    OBVIOUS
  <2>3. Same(Pw(w * w, i), Pw(w0, i), p)
    BY <2>2, PwOfSame
  <2> QED BY <1>2, <2>1, <2>3
<1>4. PICK y2 \in Int : y2 = Pw(w, i + h) /\ Same(y2, -y, p)
  <2>1. Pw(w, h) \in Int
    BY <1>1, PwFacts
  <2>2. Pw(w, i + h) = Pw(w, i) * Pw(w, h)
    BY <1>1, PwAdds
  <2>3. PICK j \in Int : Pw(w, h) = -1 + j * p
    BY DEF Same
  <2>4. y * (-1 + j * p) = -y + (y * j) * p /\ y * j \in Int
    OBVIOUS
  <2>5. Same(y * Pw(w, h), -y, p)
    BY <2>3, <2>4 DEF Same
  <2>6. y * Pw(w, h) \in Int
    BY <2>1
  <2> QED BY <1>2, <2>2, <2>5, <2>6
<1>5. PICK k \in Int : y2 = -y + k * p
  BY <1>4 DEF Same
<1>6. Same(y2 * y2, z, p)
  <2>1. y2 * y2 = y * y + (k * k * p - 2 * (y * k)) * p
    BY <1>5
  <2>2. k * k * p - 2 * (y * k) \in Int
    OBVIOUS
  <2>3. Same(y2 * y2, y * y, p)
    BY <2>1, <2>2 DEF Same
  <2>4. y2 * y2 \in Int /\ y * y \in Int
    OBVIOUS
  <2> QED BY <1>3, <2>3, <2>4, SameIsTransitive
<1>7. Same(u + v * y, Ev(y, 2 * h, f), p)
  <2>1. PICK e \in Int : e = u + v * y
    OBVIOUS
  <2>2. Integers3(<<u, v, e>>) /\ Same(e, u + v * y, p)
    BY <2>1, SameIsReflexive DEF Integers3
  <2>3. Same(e, Ev(y, 2 * h, f), p)
    BY <1>1, <1>2, <1>3, <2>2, ButterflyValue
  <2> QED BY <2>1, <2>3
<1>8. Same(u + v * y2, Ev(y2, 2 * h, f), p)
  <2>1. PICK e \in Int : e = u + v * y2
    OBVIOUS
  <2>2. Integers3(<<u, v, e>>) /\ Same(e, u + v * y2, p)
    BY <2>1, SameIsReflexive DEF Integers3
  <2>3. Same(e, Ev(y2, 2 * h, f), p)
    BY <1>1, <1>2, <1>6, <2>2, ButterflyValue
  <2> QED BY <2>1, <2>3
<1>9. 2 * h \in Nat /\ i < 2 * h /\ i + h < 2 * h /\ i + h \in Nat
  OBVIOUS
<1>10. PICK a \in Int, b \in Int : a = Ev(y, 2 * h, f) /\ b = Ev(y2, 2 * h, f)
  BY <1>9, EvEquations
<1>11. PICK x \in Int, x2 \in Int :
         x = X[i] /\ x2 = X[i + h] /\ Same(x, a, p) /\ Same(x2, b, p)
  <2>1. X[i] \in Int /\ X[i + h] \in Int
    BY <1>9 DEF Series
  <2> QED BY <1>2, <1>4, <1>9, <1>10, <2>1 DEF ValuesOf
<1>12. Same(x, u + v * y, p)
  <2>1. Same(a, u + v * y, p) /\ u + v * y \in Int
    BY <1>7, <1>10, SameIsSymmetric
  <2> QED BY <1>11, <2>1, SameIsTransitive
<1>13. Same(x2, u - v * y, p)
  <2>1. Same(b, u + v * y2, p) /\ u + v * y2 \in Int
    BY <1>8, <1>10, SameIsSymmetric
  <2>2. Same(u + v * y2, u - v * y, p)
    <3>1. v * y2 = -(v * y) + (v * k) * p
      BY <1>5
    <3>2. PICK s \in Int, t \in Int : s = v * y /\ t = v * k
      OBVIOUS
    <3>3. u + v * y2 = (u - v * y) + (v * k) * p
      BY <3>1, <3>2
    <3>4. v * k \in Int
      OBVIOUS
    <3> QED BY <3>3, <3>4 DEF Same
  <2>3. u - v * y \in Int
    OBVIOUS
  <2>4. Same(x2, u + v * y2, p)
    BY <1>11, <2>1, SameIsTransitive
  <2> QED BY <2>1, <2>2, <2>3, <2>4, SameIsTransitive
<1>14. v * y = y * v
  OBVIOUS
<1> QED BY <1>2, <1>11, <1>12, <1>13, <1>14

\* Values at a point whose half turn is c.
LEMMA FoldedValue ==
  ASSUME NEW p \in Int, NEW h \in Nat, NEW x \in Int, NEW c \in Int, Same(Pw(x, h), c, p),
         NEW X \in Series, NEW Y \in Series, AgreeBelow(Combine(c, Drop(X, h), X), Y, h, p)
  PROVE  Same(Ev(x, 2 * h, X), Ev(x, h, Y), p)
<1>1. Drop(X, h) \in Series
  BY DropFacts
<1>2. Combine(c, Drop(X, h), X) \in Series
  BY <1>1, SeriesTypes
<1>3. PICK a \in Int, b \in Int, e \in Int, d \in Int :
        /\ a = Ev(x, h, X) /\ b = Ev(x, h, Drop(X, h)) /\ e = Ev(x, h, Y) /\ d = Pw(x, h)
  BY <1>1, EvEquations, PwFacts
<1>4. Ev(x, h + h, X) = a + d * b
  BY <1>3, EvCuts
<1>5. Ev(x, h, Combine(c, Drop(X, h), X)) = c * b + a
  BY <1>1, <1>3, EvIsLinear
<1>6. Same(c * b + a, e, p)
  BY <1>2, <1>3, <1>5, EvAgrees
<1>7. PICK k \in Int : d = c + k * p
  BY <1>3 DEF Same
<1>8. d * b = c * b + (k * b) * p
  BY <1>7
<1>9. a + d * b = (c * b + a) + (k * b) * p
  <2>1. PICK s \in Int, t \in Int : s = c * b /\ t = (k * b) * p
    OBVIOUS
  <2> QED BY <1>8, <2>1
<1>10. Same(a + d * b, c * b + a, p)
  <2>1. k * b \in Int
    OBVIOUS
  <2> QED BY <1>9, <2>1 DEF Same
<1>11. a + d * b \in Int /\ c * b + a \in Int
  OBVIOUS
<1>12. Same(a + d * b, e, p)
  BY <1>6, <1>10, <1>11, SameIsTransitive
<1>13. h + h = 2 * h
  OBVIOUS
<1> QED BY <1>3, <1>4, <1>12, <1>13

\* The half turn of an even and of an odd power.
LEMMA HalfTurns ==
  ASSUME NEW p \in Int, NEW h \in Nat, NEW v \in Int, NEW v0 \in Int,
         Same(v * v, v0, p), Same(Pw(v, h), -1, p), NEW m \in Nat
  PROVE  /\ Same(Pw(v, 2 * m), Pw(v0, m), p)
         /\ Same(Pw(Pw(v, 2 * m), h), 1, p)
         /\ Same(Pw(Pw(v, 2 * m + 1), h), -1, p)
<1>0. 2 * m \in Nat /\ 2 * m + 1 \in Nat /\ 2 \in Nat /\ m + m = 2 * m
  OBVIOUS
<1>1. Same(Pw(v, 2 * m), Pw(v0, m), p)
  <2>1. Pw(v, m + m) = Pw(v, m) * Pw(v, m)
    BY PwAdds
  <2>2. Pw(v, m) * Pw(v, m) = Pw(v * v, m)
    BY PwOfSquare
  <2>3. v * v \in Int
    OBVIOUS
  <2>4. Same(Pw(v * v, m), Pw(v0, m), p)
    BY <2>3, PwOfSame
  <2> QED BY <1>0, <2>1, <2>2, <2>4
<1>2. PICK t \in Int : t = Pw(v, h) /\ Same(t, -1, p)
  BY PwFacts
<1>3. Same(t * t, 1, p)
  <2>1. -1 \in Int
    OBVIOUS
  <2>2. Same(t * t, (-1) * (-1), p)
    BY <1>2, <2>1, SameTimes
  <2>3. (-1) * (-1) = 1
    OBVIOUS
  <2> QED BY <2>2, <2>3
<1>4. PICK d \in Int : d = Pw(t, 2 * m) /\ Same(d, 1, p)
  <2>1. Pw(t, m + m) = Pw(t, m) * Pw(t, m)
    BY PwAdds
  <2>2. Pw(t, m) * Pw(t, m) = Pw(t * t, m)
    BY PwOfSquare
  <2>3. t * t \in Int
    OBVIOUS
  <2>4. Same(Pw(t * t, m), 1, p)
    BY <1>3, <2>3, PwOfOne
  <2>5. Pw(t, 2 * m) \in Int
    BY <1>0, PwFacts
  <2> QED BY <1>0, <2>1, <2>2, <2>4, <2>5
<1>5. Pw(t, 2 * m + 1) = d * t
  BY <1>0, <1>4, PwFacts
<1>6. \A e \in Nat : Pw(Pw(v, e), h) = Pw(t, e)
  <2> SUFFICES ASSUME NEW e \in Nat PROVE Pw(Pw(v, e), h) = Pw(t, e)
    OBVIOUS
  <2>1. Pw(Pw(v, e), h) = Pw(v, e * h)
    BY PwOfPw
  <2>2. Pw(Pw(v, h), e) = Pw(v, h * e)
    BY PwOfPw
  <2>3. e * h = h * e
    OBVIOUS
  <2> QED BY <1>2, <2>1, <2>2, <2>3
<1>7. Same(d * t, -1, p)
  <2>1. -1 \in Int /\ 1 \in Int
    OBVIOUS
  <2>2. Same(d * t, 1 * (-1), p)
    BY <1>2, <1>4, <2>1, SameTimes
  <2>3. 1 * (-1) = -1
    OBVIOUS
  <2> QED BY <2>2, <2>3
<1>8. Pw(Pw(v, 2 * m), h) = d
  BY <1>0, <1>4, <1>6
<1>9. Pw(Pw(v, 2 * m + 1), h) = d * t
  BY <1>0, <1>5, <1>6
<1> QED BY <1>1, <1>4, <1>7, <1>8, <1>9

\* A transform of the values at the powers of w is n times the terms.
Inverts(v, w, n, p) ==
  \A f, X \in Series :
    ValuesOf(X, f, w, n, p) =>
      \A j \in Nat : j < n => Same(Ev(Pw(v, j), n, X), n * f[j], p)

\* Twice a series.
LEMMA EvOfDouble ==
  ASSUME NEW x \in Int, NEW n \in Nat, NEW f \in Series
  PROVE  /\ Combine(2, f, Constant(0)) \in Series
         /\ Ev(x, n, Combine(2, f, Constant(0))) = 2 * Ev(x, n, f)
<1>1. Constant(0) \in Series
  BY SeriesTypes
<1>2. Short(Constant(0), 0)
  BY DEF Short, Constant
<1>3. Ev(x, n, Constant(0)) = Ev(x, 0, Constant(0))
  BY <1>1, <1>2, EvOfShort
<1>4. Ev(x, n, Constant(0)) = 0
  BY <1>1, <1>3, EvEquations
<1>5. Ev(x, n, Combine(2, f, Constant(0))) = 2 * Ev(x, n, f) + Ev(x, n, Constant(0))
  BY <1>1, EvIsLinear
<1>6. Ev(x, n, f) \in Int
  BY EvEquations
<1>7. Combine(2, f, Constant(0)) \in Series
  <2>1. \A c \in Int : \A g \in Series : Combine(c, f, g) \in Series
    BY SeriesTypes
  <2> QED BY <1>1, <2>1
<1> QED BY <1>4, <1>5, <1>6, <1>7

\* From the inverse of half the length, at an even position
LEMMA InvertsEven ==
  ASSUME NEW p \in Int, NEW h \in Nat \ {0}, NEW w \in Int, NEW w0 \in Int,
         NEW v \in Int, NEW v0 \in Int, Same(w * w, w0, p), Same(v * v, v0, p),
         Same(Pw(w, h), -1, p), Same(Pw(v, h), -1, p), Inverts(v0, w0, h, p),
         NEW f \in Series, NEW X \in Series, ValuesOf(X, f, w, 2 * h, p),
         NEW m \in Nat, m < h
  PROVE  Same(Ev(Pw(v, 2 * m), 2 * h, X), (2 * h) * f[2 * m], p)
<1>0. h \in Nat /\ 2 * m \in Nat /\ Even(f) \in Series /\ Odd(f) \in Series
  BY EvenAndOdd
<1>1. PICK A : A = Spectrum(Even(f), w0, h) /\ A \in Series /\ ValuesOf(A, Even(f), w0, h, p)
  BY <1>0, SpectrumFacts
<1>2. PICK B : B = Spectrum(Odd(f), w0, h) /\ B \in Series
  BY <1>0, SpectrumFacts
<1>3. \A i \in Nat : i < h =>
           /\ Same(X[i], A[i] + Pw(w, i) * B[i], p)
           /\ Same(X[i + h], A[i] - Pw(w, i) * B[i], p)
  BY <1>1, <1>2, HalvesOfValues
<1>4. PICK x \in Int, z \in Int :
        x = Pw(v, 2 * m) /\ z = Pw(v0, m) /\ Same(x, z, p) /\ Same(Pw(x, h), 1, p)
  <2>1. Pw(v, 2 * m) \in Int /\ Pw(v0, m) \in Int
    BY <1>0, PwFacts
  <2> QED BY <1>0, <2>1, HalfTurns
<1>5. PICK Y \in Series : Y = Combine(2, A, Constant(0))
  BY <1>0, <1>1, <1>4, EvOfDouble
<1>6. AgreeBelow(Combine(1, Drop(X, h), X), Y, h, p)
  <2> SUFFICES ASSUME NEW i \in Nat, i < h PROVE Same(1 * X[i + h] + X[i], 2 * A[i] + 0, p)
    BY <1>5 DEF AgreeBelow, Combine, Drop, Constant
  <2>1. PICK a \in Int, b \in Int, y \in Int, c \in Int, d \in Int :
          a = A[i] /\ b = B[i] /\ y = Pw(w, i) /\ c = X[i] /\ d = X[i + h]
    <3>1. i + h \in Nat
      OBVIOUS
    <3>2. Pw(w, i) \in Int
      BY PwFacts
    <3> QED BY <1>1, <1>2, <3>1, <3>2 DEF Series
  <2>2. PICK k1 \in Int : c = (a + y * b) + k1 * p
    BY <1>3, <2>1 DEF Same
  <2>3. PICK k2 \in Int : d = (a - y * b) + k2 * p
    BY <1>3, <2>1 DEF Same
  <2>4. 1 * d + c = (2 * a + 0) + (k1 + k2) * p
    <3>1. PICK s \in Int : s = y * b
      OBVIOUS
    <3> QED BY <2>2, <2>3, <3>1
  <2>5. k1 + k2 \in Int
    OBVIOUS
  <2> QED BY <2>1, <2>4, <2>5 DEF Same
<1>7. Same(Ev(x, 2 * h, X), Ev(x, h, Y), p)
  <2>1. 1 \in Int
    OBVIOUS
  <2> QED BY <1>0, <1>4, <1>6, <2>1, FoldedValue
<1>8. Ev(x, h, Y) = 2 * Ev(x, h, A)
  BY <1>0, <1>1, <1>4, <1>5, EvOfDouble
<1>9. Same(Ev(x, h, A), Ev(z, h, A), p)
  BY <1>0, <1>1, <1>4, EvOfSamePoint
<1>10. Same(Ev(z, h, A), h * f[2 * m], p)
  <2>1. Same(Ev(Pw(v0, m), h, A), h * Even(f)[m], p)
    BY <1>0, <1>1 DEF Inverts
  <2>2. Even(f)[m] = f[2 * m]
    BY DEF Even
  <2> QED BY <1>4, <2>1, <2>2
<1>11. PICK a \in Int, b \in Int, e \in Int, g \in Int :
         a = Ev(x, h, A) /\ b = Ev(z, h, A) /\ e = Ev(x, 2 * h, X) /\ g = f[2 * m]
  <2>1. 2 * h \in Nat
    OBVIOUS
  <2>2. f[2 * m] \in Int
    BY <1>0 DEF Series
  <2> QED BY <1>0, <1>1, <2>1, <2>2, EvEquations
<1>12. Same(e, (2 * h) * g, p)
  <2>1. PICK k1 \in Int : e = 2 * a + k1 * p
    BY <1>7, <1>8, <1>11 DEF Same
  <2>2. PICK k2 \in Int : a = b + k2 * p
    BY <1>9, <1>11 DEF Same
  <2>3. PICK k3 \in Int : b = h * g + k3 * p
    BY <1>10, <1>11 DEF Same
  <2>4. e = (2 * h) * g + (k1 + 2 * k2 + 2 * k3) * p
    <3>1. PICK s \in Int : s = h * g /\ (2 * h) * g = 2 * s
      OBVIOUS
    <3> QED BY <2>1, <2>2, <2>3, <3>1
  <2>5. k1 + 2 * k2 + 2 * k3 \in Int
    OBVIOUS
  <2> QED BY <2>4, <2>5 DEF Same
<1> QED BY <1>4, <1>11, <1>12

\* and at an odd one.
LEMMA InvertsOdd ==
  ASSUME NEW p \in Int, NEW h \in Nat \ {0}, NEW w \in Int, NEW w0 \in Int,
         NEW v \in Int, NEW v0 \in Int, Same(w * w, w0, p), Same(v * v, v0, p),
         Same(Pw(w, h), -1, p), Same(Pw(v, h), -1, p), Same(w * v, 1, p),
         Inverts(v0, w0, h, p),
         NEW f \in Series, NEW X \in Series, ValuesOf(X, f, w, 2 * h, p),
         NEW m \in Nat, m < h
  PROVE  Same(Ev(Pw(v, 2 * m + 1), 2 * h, X), (2 * h) * f[2 * m + 1], p)
<1>0. h \in Nat /\ 2 * m \in Nat /\ 2 * m + 1 \in Nat /\ Even(f) \in Series /\ Odd(f) \in Series
  BY EvenAndOdd
<1>1. PICK A : A = Spectrum(Even(f), w0, h) /\ A \in Series
  BY <1>0, SpectrumFacts
<1>2. PICK B : B = Spectrum(Odd(f), w0, h) /\ B \in Series /\ ValuesOf(B, Odd(f), w0, h, p)
  BY <1>0, SpectrumFacts
<1>3. \A i \in Nat : i < h =>
           /\ Same(X[i], A[i] + Pw(w, i) * B[i], p)
           /\ Same(X[i + h], A[i] - Pw(w, i) * B[i], p)
  BY <1>1, <1>2, HalvesOfValues
<1>4. PICK x \in Int, z \in Int, y0 \in Int :
        /\ x = Pw(v, 2 * m + 1) /\ z = Pw(v0, m) /\ y0 = Pw(v, 2 * m)
        /\ Same(y0, z, p) /\ Same(Pw(x, h), -1, p)
  <2>1. Pw(v, 2 * m + 1) \in Int /\ Pw(v0, m) \in Int /\ Pw(v, 2 * m) \in Int
    BY <1>0, PwFacts
  <2> QED BY <1>0, <2>1, HalfTurns, SMTT(30)
<1>a. x * w \in Int /\ Same(x * w, z, p)
  <2>1. x = y0 * v
    BY <1>0, <1>4, PwFacts
  <2>2. x * w = y0 * (w * v) /\ w * v \in Int
    BY <2>1
  <2>3. Same(y0 * (w * v), y0, p)
    BY <2>2, SameByOne
  <2>4. x * w \in Int
    OBVIOUS
  <2> QED BY <1>4, <2>2, <2>3, <2>4, SameIsTransitive
<1>b. PICK U \in Series : U = Scaled(w, B)
  BY <1>2, <1>4, EvOfScaled
<1>5. PICK Y \in Series : Y = Combine(2, U, Constant(0))
  BY <1>0, <1>4, EvOfDouble
<1>6. AgreeBelow(Combine(-1, Drop(X, h), X), Y, h, p)
  <2> SUFFICES ASSUME NEW i \in Nat, i < h
               PROVE  Same((-1) * X[i + h] + X[i], 2 * (Pw(w, i) * B[i]) + 0, p)
    BY <1>5, <1>b DEF AgreeBelow, Combine, Drop, Constant, Scaled
  <2>1. PICK a \in Int, b \in Int, y \in Int, c \in Int, d \in Int :
          a = A[i] /\ b = B[i] /\ y = Pw(w, i) /\ c = X[i] /\ d = X[i + h]
    <3>1. i + h \in Nat
      OBVIOUS
    <3>2. Pw(w, i) \in Int
      BY PwFacts
    <3> QED BY <1>1, <1>2, <3>1, <3>2 DEF Series
  <2>2. PICK k1 \in Int : c = (a + y * b) + k1 * p
    BY <1>3, <2>1 DEF Same
  <2>3. PICK k2 \in Int : d = (a - y * b) + k2 * p
    BY <1>3, <2>1 DEF Same
  <2>4. (-1) * d + c = (2 * (y * b) + 0) + (k1 - k2) * p
    <3>1. PICK s \in Int : s = y * b
      OBVIOUS
    <3> QED BY <2>2, <2>3, <3>1
  <2>5. k1 - k2 \in Int
    OBVIOUS
  <2> QED BY <2>1, <2>4, <2>5 DEF Same
<1>7. Same(Ev(x, 2 * h, X), Ev(x, h, Y), p)
  <2>1. -1 \in Int
    OBVIOUS
  <2> QED BY <1>0, <1>4, <1>6, <2>1, FoldedValue
<1>8. Ev(x, h, Y) = 2 * Ev(x * w, h, B)
  <2>1. Ev(x, h, Y) = 2 * Ev(x, h, U)
    BY <1>0, <1>4, <1>5, EvOfDouble
  <2>2. Ev(x, h, U) = Ev(x * w, h, B)
    BY <1>0, <1>2, <1>4, <1>b, EvOfScaled
  <2> QED BY <2>1, <2>2
<1>9. Same(Ev(x * w, h, B), Ev(z, h, B), p)
  BY <1>0, <1>2, <1>4, <1>a, EvOfSamePoint
<1>10. Same(Ev(z, h, B), h * f[2 * m + 1], p)
  <2>1. Same(Ev(Pw(v0, m), h, B), h * Odd(f)[m], p)
    BY <1>0, <1>2 DEF Inverts
  <2>2. Odd(f)[m] = f[2 * m + 1]
    BY DEF Odd
  <2> QED BY <1>4, <2>1, <2>2
<1>11. PICK a \in Int, b \in Int, e \in Int, g \in Int :
         a = Ev(x * w, h, B) /\ b = Ev(z, h, B) /\ e = Ev(x, 2 * h, X) /\ g = f[2 * m + 1]
  <2>1. 2 * h \in Nat
    OBVIOUS
  <2>2. f[2 * m + 1] \in Int
    BY <1>0 DEF Series
  <2> QED BY <1>0, <1>2, <1>a, <2>1, <2>2, EvEquations
<1>12. Same(e, (2 * h) * g, p)
  <2>1. PICK k1 \in Int : e = 2 * a + k1 * p
    BY <1>7, <1>8, <1>11 DEF Same
  <2>2. PICK k2 \in Int : a = b + k2 * p
    BY <1>9, <1>11 DEF Same
  <2>3. PICK k3 \in Int : b = h * g + k3 * p
    BY <1>10, <1>11 DEF Same
  <2>4. e = (2 * h) * g + (k1 + 2 * k2 + 2 * k3) * p
    <3>1. PICK s \in Int : s = h * g /\ (2 * h) * g = 2 * s
      OBVIOUS
    <3> QED BY <2>1, <2>2, <2>3, <3>1
  <2>5. k1 + 2 * k2 + 2 * k3 \in Int
    OBVIOUS
  <2> QED BY <2>4, <2>5 DEF Same
<1> QED BY <1>4, <1>11, <1>12

\* The transform at the inverse points inverts the transform.
LEMMA Inversion ==
  ASSUME NEW p \in Int, NEW S \in Nat, NEW W, RootLadder(W, S, p), NEW V, RootLadder(V, S, p),
         \A l \in 0 .. S : Same(W[l] * V[l], 1, p)
  PROVE  \A R \in Nat : R <= S => Inverts(V[R], W[R], PowerOfTwo(R), p)
<1> DEFINE T == {R \in Nat : R <= S => Inverts(V[R], W[R], PowerOfTwo(R), p)}
<1>0. W \in [0 .. S -> Int] /\ V \in [0 .. S -> Int]
  BY DEF RootLadder
<1>1. 0 \in T
  <2>1. PICK w \in Int, v \in Int : w = W[0] /\ v = V[0]
    BY <1>0
  <2>2. PowerOfTwo(0) = 1
    BY PowersOfTwo
  <2> SUFFICES ASSUME NEW f \in Series, NEW X \in Series, ValuesOf(X, f, w, 1, p),
                      NEW j \in Nat, j < 1
               PROVE  Same(Ev(Pw(v, j), 1, X), 1 * f[j], p)
    BY <2>1, <2>2 DEF Inverts
  <2>3. j = 0 /\ Pw(v, 0) = 1 /\ Pw(w, 0) = 1
    BY PwFacts
  <2>4. \A g \in Series : Ev(1, 1, g) = g[0]
    <3> SUFFICES ASSUME NEW g \in Series PROVE Ev(1, 1, g) = g[0]
      OBVIOUS
    <3>1. Shift(g) \in Series /\ g[0] \in Int
      BY SeriesTypes
    <3>2. Ev(1, 0 + 1, g) = g[0] + 1 * Ev(1, 0, Shift(g)) /\ Ev(1, 0, Shift(g)) = 0
      BY <3>1, EvEquations
    <3> QED BY <3>1, <3>2
  <2>5. Same(X[0], Ev(Pw(w, 0), 1, f), p)
    BY DEF ValuesOf
  <2>6. f[0] \in Int
    BY SeriesTypes
  <2> QED BY <2>3, <2>4, <2>5, <2>6
<1>2. ASSUME NEW R \in Nat, R \in T PROVE R + 1 \in T
  <2> SUFFICES ASSUME R + 1 <= S
               PROVE  Inverts(V[R + 1], W[R + 1], PowerOfTwo(R + 1), p)
    OBVIOUS
  <2>1. PICK h \in Nat \ {0} : h = PowerOfTwo(R) /\ PowerOfTwo(R + 1) = 2 * h
    BY TwoPowersGrow, PowersOfTwo
  <2>2. PICK w \in Int, v \in Int, w0 \in Int, v0 \in Int :
          w = W[R + 1] /\ v = V[R + 1] /\ w0 = W[R] /\ v0 = V[R]
    <3>1. R \in 0 .. S /\ R + 1 \in 0 .. S
      OBVIOUS
    <3> QED BY <1>0, <3>1
  <2>3. /\ Same(w * w, w0, p) /\ Same(Pw(w, h), -1, p)
        /\ Same(v * v, v0, p) /\ Same(Pw(v, h), -1, p)
    <3>1. R < S
      OBVIOUS
    <3> QED BY <2>1, <2>2, <3>1 DEF RootLadder
  <2>4. Same(w * v, 1, p)
    <3>1. R + 1 \in 0 .. S
      OBVIOUS
    <3> QED BY <2>2, <3>1
  <2>5. Inverts(v0, w0, h, p)
    BY <1>2, <2>1, <2>2
  <2> SUFFICES ASSUME NEW f \in Series, NEW X \in Series, ValuesOf(X, f, w, 2 * h, p),
                      NEW j \in Nat, j < 2 * h
               PROVE  Same(Ev(Pw(v, j), 2 * h, X), (2 * h) * f[j], p)
    BY <2>1, <2>2 DEF Inverts
  <2>6. PICK m \in Nat : (j = 2 * m \/ j = 2 * m + 1) /\ m < h
    <3>1. j \div 2 \in Nat /\ (j = 2 * (j \div 2) \/ j = 2 * (j \div 2) + 1) /\ j \div 2 < h
      OBVIOUS
    <3> QED BY <3>1
  <2> HIDE DEF T
  <2>7. CASE j = 2 * m
    <3>1. Same(Ev(Pw(v, 2 * m), 2 * h, X), (2 * h) * f[2 * m], p)
      BY <2>3, <2>5, <2>6, InvertsEven
    <3> QED BY <2>7, <3>1
  <2>8. CASE j = 2 * m + 1
    <3>1. Same(Ev(Pw(v, 2 * m + 1), 2 * h, X), (2 * h) * f[2 * m + 1], p)
      BY <2>3, <2>4, <2>5, <2>6, InvertsOdd
    <3> QED BY <2>8, <3>1
  <2> QED BY <2>6, <2>7, <2>8
<1>3. \A R \in Nat : R \in T
  <2> HIDE DEF T
  <2> QED BY <1>1, <1>2, SetOfAllNaturals
<1> QED BY <1>3

(* ----------------------------- convolutions ---------------------------- *)

Reduced(v, p) == [k \in DOMAIN v |-> v[k] % p]

LEMMA ReducedFacts ==
  ASSUME NEW M \in Nat \ {0}, NEW p \in Nat \ {0}, NEW v \in Poly(M), NEW n \in Nat, Len(v) <= n
  PROVE  LET r == Resize(Reduced(v, p), n)
         IN  /\ r \in Poly(p) /\ Len(r) = n
             /\ AgreeBelow(Ser(r), Ser(v), n, p)
<1>1. /\ Len(v) \in Nat /\ DOMAIN v = 1 .. Len(v)
      /\ \A i \in 1 .. Len(v) : v[i] \in 0 .. M - 1
  BY PolyFacts
<1>2. PICK d \in Nat : d = Len(v)
  BY <1>1
<1>3. \A i \in 1 .. d : v[i] \in Int
  BY <1>1, <1>2
<1>4. \A i \in 1 .. d : v[i] % p \in 0 .. p - 1 /\ Same(v[i] % p, v[i], p)
  BY <1>3, SameAsRest
<1> DEFINE r == Reduced(v, p)
<1>5. r \in [1 .. d -> 0 .. p - 1] /\ \A i \in 1 .. d : r[i] = v[i] % p
  BY <1>1, <1>2, <1>4 DEF Reduced
<1> HIDE DEF r
<1>6. r \in Poly(p) /\ Len(r) = d
  BY <1>5 DEF Poly
<1>7. /\ Resize(r, n) \in Poly(p) /\ Len(Resize(r, n)) = n
      /\ \A k \in Nat : k < n => Ser(Resize(r, n))[k] = Ser(r)[k]
  BY <1>6, ResizeFacts
<1>8. ASSUME NEW k \in Nat PROVE Same(Ser(r)[k], Ser(v)[k], p)
  <2>1. CASE k < d
    <3>1. k + 1 \in 1 .. d
      BY <2>1
    <3>2. Ser(r)[k] = r[k + 1] /\ Ser(v)[k] = v[k + 1]
      BY <1>2, <1>6, <2>1 DEF Ser
    <3> QED BY <1>4, <1>5, <3>1, <3>2
  <2>2. CASE ~(k < d)
    <3>1. Ser(r)[k] = 0 /\ Ser(v)[k] = 0
      BY <1>2, <1>6, <2>2 DEF Ser
    <3> QED BY <3>1, SameIsReflexive
  <2> QED BY <2>1, <2>2
<1>9. AgreeBelow(Ser(Resize(r, n)), Ser(v), n, p)
  BY <1>7, <1>8 DEF AgreeBelow
<1> QED BY <1>7, <1>9 DEF r

\* The forward transform of an operand.
LEMMA ImageFacts ==
  ASSUME NEW prime, NEW p, NEW s, Transforms(prime, p, s), NEW R \in Nat, R <= s,
         NEW n, n = PowerOfTwo(R), NEW W, W = Points(FALSE, prime, R),
         NEW M \in Nat \ {0}, NEW v \in Poly(M), Len(v) <= n,
         NEW a, a = NTT(Resize(Reduced(v, p), n), FALSE, prime)
  PROVE  /\ a \in [1 .. n -> 0 .. p - 1]
         /\ \A k \in Nat : k < n => Same(a[k + 1], Ev(Pw(W[R], k), n, Ser(v)), p)
<1>0. p = prime.modulus /\ p \in Nat \ {0, 1} /\ p \in Nat \ {0} /\ p \in Int /\ n \in Nat
  <2>1. p = prime.modulus /\ p \in Nat \ {0, 1} /\ p \in Nat \ {0} /\ p \in Int
    BY DEF Transforms
  <2>2. n \in Nat
    BY TwoPowersGrow
  <2> QED BY <2>1, <2>2
<1>1. PICK r : r = Resize(Reduced(v, p), n)
  OBVIOUS
<1>2. r \in Poly(p) /\ Len(r) = n /\ AgreeBelow(Ser(r), Ser(v), n, p)
  BY <1>0, <1>1, ReducedFacts
<1>3. RootLadder(W, R, p)
  BY ForwardLadder
<1>4. a = Transformed(r, FALSE, prime)
  BY <1>1 DEF NTT
<1>5. /\ a \in [1 .. n -> 0 .. p - 1]
      /\ \A k \in Nat : k < n => Same(a[k + 1], Ev(Pw(W[R], k), n, Ser(r)), p)
  <2>1. /\ Transformed(r, FALSE, prime) \in [1 .. n -> 0 .. p - 1]
        /\ \A k \in Nat : k < n =>
              Same(Transformed(r, FALSE, prime)[k + 1], Ev(Pw(W[R], k), n, Ser(r)), p)
    BY <1>0, <1>2, <1>3, TransformAt
  <2> QED BY <1>4, <2>1
<1>6. ASSUME NEW k \in Nat, k < n PROVE Same(a[k + 1], Ev(Pw(W[R], k), n, Ser(v)), p)
  <2>1. PICK x \in Int : x = Pw(W[R], k)
    <3>1. W[R] \in Int
      <4>1. R \in 0 .. R
        OBVIOUS
      <4> QED BY <1>3, <4>1 DEF RootLadder
    <3> QED BY <3>1, PwFacts
  <2>2. Ser(r) \in Series /\ Ser(v) \in Series
    BY <1>0, <1>2, PolyFacts
  <2>3. Same(Ev(x, n, Ser(r)), Ev(x, n, Ser(v)), p)
    BY <1>0, <1>2, <2>2, EvAgrees
  <2>4. Same(a[k + 1], Ev(x, n, Ser(r)), p)
    BY <1>5, <1>6, <2>1
  <2>5. a[k + 1] \in Int
    <3>1. k + 1 \in 1 .. n
      BY <1>0, <1>6
    <3>2. a[k + 1] \in 0 .. p - 1
      BY <1>5, <3>1
    <3>3. \A i \in 0 .. p - 1 : i \in Int
      BY <1>0
    <3> QED BY <3>2, <3>3
  <2>6. Ev(x, n, Ser(r)) \in Int /\ Ev(x, n, Ser(v)) \in Int
    BY <1>0, <2>2, EvEquations
  <2>7. Same(a[k + 1], Ev(x, n, Ser(v)), p)
    BY <1>0, <2>3, <2>4, <2>5, <2>6, SameIsTransitive
  <2> QED BY <2>1, <2>7
<1> QED BY <1>5, <1>6

\* The value of a product whose length fits.
LEMMA ValueOfConv ==
  ASSUME NEW M \in Nat \ {0}, NEW P \in Poly(M), NEW Q \in Poly(M),
         P # <<>>, Q # <<>>, NEW n \in Nat, Len(P) + Len(Q) - 1 <= n, NEW x \in Int
  PROVE  /\ Len(P) <= n /\ Len(Q) <= n /\ Conv(Ser(P), Ser(Q)) \in Series
         /\ Ev(x, n, Conv(Ser(P), Ser(Q))) = Ev(x, n, Ser(P)) * Ev(x, n, Ser(Q))
<1>1. PICK d \in Nat \ {0}, e \in Nat \ {0} : d = Len(P) /\ e = Len(Q)
  <2>1. Len(P) \in Nat /\ Len(Q) \in Nat /\ P \in Seq(Int) /\ Q \in Seq(Int)
    BY PolyFacts
  <2>2. Len(P) # 0 /\ Len(Q) # 0
    BY <2>1
  <2> QED BY <2>1, <2>2
<1>2. Ser(P) \in Series /\ Ser(Q) \in Series /\ Conv(Ser(P), Ser(Q)) \in Series
  BY PolyFacts, ConvType
<1>3. Short(Ser(P), d) /\ Short(Ser(Q), e)
  BY <1>1, PolyFacts DEF Short
<1>4. PICK c \in Nat : c = d + e - 1 /\ c <= n /\ d <= n /\ e <= n
  <2>1. d + e - 1 \in Nat /\ d + e - 1 <= n /\ d <= n /\ e <= n
    BY <1>1
  <2> QED BY <2>1
<1>5. Short(Conv(Ser(P), Ser(Q)), c)
  <2> SUFFICES ASSUME NEW k \in Nat, k >= c PROVE Conv(Ser(P), Ser(Q))[k] = 0
    BY DEF Short
  <2>1. k + 1 >= Len(P) + Len(Q)
    BY <1>1, <1>4
  <2> QED BY <2>1, CoefficientIsConv
<1>6. PICK u \in Nat : u = d + e /\ u >= c
  BY <1>4
<1>7. Ev(x, u, Conv(Ser(P), Ser(Q))) = Ev(x, d, Ser(P)) * Ev(x, e, Ser(Q))
  BY <1>2, <1>3, <1>6, EvOfConv
<1>8. Ev(x, u, Conv(Ser(P), Ser(Q))) = Ev(x, c, Conv(Ser(P), Ser(Q)))
  BY <1>2, <1>5, <1>6, EvOfShort
<1>9. Ev(x, n, Conv(Ser(P), Ser(Q))) = Ev(x, c, Conv(Ser(P), Ser(Q)))
  <2>1. n >= c
    BY <1>4
  <2> QED BY <1>2, <1>5, <2>1, EvOfShort
<1>10. Ev(x, n, Ser(P)) = Ev(x, d, Ser(P)) /\ Ev(x, n, Ser(Q)) = Ev(x, e, Ser(Q))
  <2>1. n >= d /\ n >= e
    BY <1>4
  <2> QED BY <1>2, <1>3, <2>1, EvOfShort
<1> QED BY <1>1, <1>2, <1>4, <1>7, <1>8, <1>9, <1>10

\* The length of a transform can be inverted.
LEMMA LengthIsUnit ==
  ASSUME NEW prime, NEW p, NEW s, Transforms(prime, p, s), NEW R \in Nat, R <= s,
         NEW n \in Nat, n = PowerOfTwo(R)
  PROVE  /\ Inverted(n % p, p) \in 0 .. p - 1
         /\ Same(n * Inverted(n % p, p), 1, p)
<1>0. p \in Nat \ {0, 1, 2} /\ p \in Nat \ {0} /\ p \in Nat /\ IsPrime(p)
  BY DEF Transforms
<1>1. PICK e \in Nat : p - 1 = n * e
  BY ExponentOf
<1>2. n # 0 /\ n \in 1 .. p - 1
  <2>1. n # 0
    BY TwoPowersGrow
  <2>2. e # 0
    <3>1. n * 0 = 0
      OBVIOUS
    <3> QED BY <1>0, <1>1, <3>1
  <2>3. n * e >= n
    <3>1. PICK d \in Nat : e = 1 + d
      <4>1. e - 1 \in Nat /\ e = 1 + (e - 1)
        BY <2>2
      <4> QED BY <4>1
    <3>2. n * e = n + n * d /\ n * d \in Nat
      BY <3>1
    <3> QED BY <3>2
  <2> QED BY <1>0, <1>1, <2>1, <2>3
<1>3. n % p = n
  BY <1>0, <1>2
<1>4. ~Same(n, 0, p)
  <2>1. n \in 0 .. p - 1 /\ 0 \in 0 .. p - 1 /\ n # 0
    BY <1>0, <1>2
  <2> QED BY <1>0, <2>1, SameOfSmall
<1>5. Inverted(n, p) \in 0 .. p - 1 /\ Same(n * Inverted(n, p), 1, p)
  BY <1>0, <1>4, InverseOfUnit
<1> QED BY <1>3, <1>5

\* The values of an operand at the powers of w.
ImageOf(a, P, M, w, n, p) ==
  /\ P \in Poly(M) /\ P # <<>>
  /\ a \in [1 .. n -> 0 .. p - 1]
  /\ \A k \in Nat : k < n => Same(a[k + 1], Ev(Pw(w, k), n, Ser(P)), p)

SpectrumOf(c, f, w, n, p) ==
  c \in Poly(p) /\ Len(c) = n /\ ValuesOf(Ser(c), f, w, n, p)

\* The pointwise product has the values of the convolution,
LEMMA PointwiseValues ==
  ASSUME NEW p \in Nat \ {0}, NEW M \in Nat \ {0}, NEW P, NEW Q, NEW w \in Int,
         NEW n \in Nat, NEW a, NEW b,
         Len(P) + Len(Q) - 1 <= n /\ ImageOf(a, P, M, w, n, p) /\ ImageOf(b, Q, M, w, n, p),
         NEW c, c = Tuple([k \in DOMAIN a |-> (a[k] * b[k]) % p])
  PROVE  SpectrumOf(c, Conv(Ser(P), Ser(Q)), w, n, p)
<1>z. /\ P \in Poly(M) /\ Q \in Poly(M) /\ P # <<>> /\ Q # <<>>
      /\ a \in [1 .. n -> 0 .. p - 1] /\ b \in [1 .. n -> 0 .. p - 1]
      /\ \A k \in Nat : k < n => Same(a[k + 1], Ev(Pw(w, k), n, Ser(P)), p)
      /\ \A k \in Nat : k < n => Same(b[k + 1], Ev(Pw(w, k), n, Ser(Q)), p)
  BY DEF ImageOf
<1> USE <1>z
<1>1. \A i \in 0 .. p - 1 : i \in Int
  OBVIOUS
<1>2. \A k \in 1 .. n : a[k] \in Int /\ b[k] \in Int
  <2>1. \A k \in 1 .. n : a[k] \in 0 .. p - 1 /\ b[k] \in 0 .. p - 1
    OBVIOUS
  <2> QED BY <1>1, <2>1
<1>3. ASSUME NEW k \in 1 .. n
      PROVE  (a[k] * b[k]) % p \in 0 .. p - 1 /\ Same((a[k] * b[k]) % p, a[k] * b[k], p)
  <2>1. a[k] * b[k] \in Int
    BY <1>2
  <2> QED BY <2>1, SameAsRest
<1> DEFINE d == [k \in DOMAIN a |-> (a[k] * b[k]) % p]
<1>4. d \in [1 .. n -> 0 .. p - 1] /\ \A k \in 1 .. n : d[k] = (a[k] * b[k]) % p
  BY <1>3
<1> HIDE DEF d
<1>5. Tuple(d) = d /\ d \in Seq(0 .. p - 1) /\ Len(d) = n
  BY <1>4, TupleIs
<1>6. c = d
  BY <1>5 DEF d
<1>7. c \in Poly(p) /\ Len(c) = n
  BY <1>5, <1>6 DEF Poly
<1>8. ASSUME NEW k \in Nat, k < n
      PROVE  Same(Ser(c)[k], Ev(Pw(w, k), n, Conv(Ser(P), Ser(Q))), p)
  <2>1. k + 1 \in 1 .. n
    BY <1>8
  <2>2. Ser(c)[k] = (a[k + 1] * b[k + 1]) % p
    BY <1>4, <1>6, <1>7, <1>8, <2>1 DEF Ser
  <2>3. PICK x \in Int : x = Pw(w, k)
    BY PwFacts
  <2>4. Ser(P) \in Series /\ Ser(Q) \in Series
    BY PolyFacts
  <2>5. PICK u \in Int, v \in Int : u = Ev(x, n, Ser(P)) /\ v = Ev(x, n, Ser(Q))
    BY <2>4, EvEquations
  <2>6. Ev(x, n, Conv(Ser(P), Ser(Q))) = u * v
    BY <2>5, ValueOfConv
  <2>7. PICK e \in Int, f \in Int : e = a[k + 1] /\ f = b[k + 1]
    BY <1>2, <2>1
  <2>8. Same(e, u, p) /\ Same(f, v, p)
    BY <1>8, <2>3, <2>5, <2>7
  <2>9. Same(e * f, u * v, p)
    <3>1. p \in Int
      OBVIOUS
    <3> QED BY <2>8, <3>1, SameTimes
  <2>10. Same((e * f) % p, e * f, p) /\ (e * f) % p \in 0 .. p - 1
    BY <1>3, <2>1, <2>7
  <2>11. (e * f) % p \in Int /\ e * f \in Int /\ u * v \in Int /\ p \in Int
    BY <1>1, <2>10
  <2>12. Same((e * f) % p, u * v, p)
    BY <2>9, <2>10, <2>11, SameIsTransitive
  <2> QED BY <2>2, <2>3, <2>6, <2>7, <2>12
<1> QED BY <1>7, <1>8 DEF ValuesOf, SpectrumOf

\* The values of a transform of length n.
TransformOf(prime, p, s, R, n, W, f, c) ==
  /\ Transforms(prime, p, s) /\ R \in Nat /\ R <= s /\ n = PowerOfTwo(R)
  /\ W = Points(FALSE, prime, R) /\ f \in Series
  /\ c \in Poly(p) /\ Len(c) = n /\ ValuesOf(Ser(c), f, W[R], n, p)

RestsOf(t, f, n, p) ==
  /\ t \in [1 .. n -> 0 .. p - 1]
  /\ \A j \in Nat : j < n => t[j + 1] = f[j] % p

\* and the inverse transform, scaled, is the convolution.
LEMMA InverseTransform ==
  ASSUME NEW prime, NEW p, NEW s, NEW R, NEW n, NEW W, NEW f, NEW c,
         TransformOf(prime, p, s, R, n, W, f, c)
  PROVE  RestsOf(NTT(c, TRUE, prime), f, n, p)
<1>z. /\ Transforms(prime, p, s) /\ R \in Nat /\ R <= s /\ n = PowerOfTwo(R)
      /\ W = Points(FALSE, prime, R) /\ f \in Series
      /\ c \in Poly(p) /\ Len(c) = n /\ ValuesOf(Ser(c), f, W[R], n, p)
  BY DEF TransformOf
<1> USE <1>z
<1>0. /\ p = prime.modulus /\ p \in Nat \ {0, 1} /\ p \in Nat \ {0} /\ p \in Int
      /\ \A i \in 0 .. p - 1 : i \in Int
  <2>1. p = prime.modulus /\ p \in Nat \ {0, 1}
    BY DEF Transforms
  <2> QED BY <2>1
<1>1. n \in Nat
  BY TwoPowersGrow
<1>2. PICK V : V = Points(TRUE, prime, R)
  OBVIOUS
<1>3. /\ RootLadder(W, R, p) /\ RootLadder(V, R, p)
      /\ \A l \in 0 .. R : Same(W[l] * V[l], 1, p)
  BY <1>2, BackwardLadder
<1>4. Inverts(V[R], W[R], n, p)
  <2>1. R <= R
    OBVIOUS
  <2> QED BY <1>0, <1>3, <2>1, Inversion
<1>5. Ser(c) \in Series
  BY <1>0, PolyFacts
<1>6. \A j \in Nat : j < n => Same(Ev(Pw(V[R], j), n, Ser(c)), n * f[j], p)
  BY <1>4, <1>5 DEF Inverts
<1>7. PICK last : last = Transformed(c, TRUE, prime)
  OBVIOUS
<1>8. /\ last \in [1 .. n -> 0 .. p - 1]
      /\ \A k \in Nat : k < n => Same(last[k + 1], Ev(Pw(V[R], k), n, Ser(c)), p)
  <2>1. /\ Transformed(c, TRUE, prime) \in [1 .. n -> 0 .. p - 1]
        /\ \A k \in Nat : k < n =>
              Same(Transformed(c, TRUE, prime)[k + 1], Ev(Pw(V[R], k), n, Ser(c)), p)
    BY <1>0, <1>2, <1>3, TransformAt
  <2> QED BY <1>7, <2>1
<1>9. PICK z \in Int : z = Inverted(n % p, p) /\ Same(n * z, 1, p)
  <2>1. Inverted(n % p, p) \in 0 .. p - 1 /\ Same(n * Inverted(n % p, p), 1, p)
    BY <1>1, LengthIsUnit
  <2> QED BY <1>0, <2>1
<1> DEFINE d == [k \in DOMAIN last |-> (last[k] * z) % p]
<1>10. NTT(c, TRUE, prime) = Tuple(d)
  BY <1>0, <1>7, <1>9 DEF NTT
<1>11. \A k \in 1 .. n : last[k] \in Int
  <2>1. \A k \in 1 .. n : last[k] \in 0 .. p - 1
    BY <1>8
  <2> QED BY <1>0, <2>1
<1>12. \A k \in 1 .. n : d[k] = (last[k] * z) % p /\ d[k] \in 0 .. p - 1
  <2> SUFFICES ASSUME NEW k \in 1 .. n
               PROVE  d[k] = (last[k] * z) % p /\ d[k] \in 0 .. p - 1
    OBVIOUS
  <2>1. last[k] * z \in Int
    BY <1>11
  <2>2. (last[k] * z) % p \in 0 .. p - 1
    BY <1>0, <2>1, SameAsRest
  <2> QED BY <1>8, <2>2
<1>13. d \in [1 .. n -> 0 .. p - 1]
  BY <1>8, <1>12
<1> HIDE DEF d
<1>14. Tuple(d) = d
  BY <1>1, <1>13, TupleIs
<1>15. ASSUME NEW j \in Nat, j < n PROVE d[j + 1] = f[j] % p
  <2>1. j + 1 \in 1 .. n
    BY <1>1, <1>15
  <2>2. PICK e \in Int : e = last[j + 1]
    BY <1>11, <2>1
  <2>3. PICK g \in Int : g = f[j]
    BY DEF Series
  <2>4. V[R] \in Int
    <3>1. R \in 0 .. R
      OBVIOUS
    <3> QED BY <1>3, <3>1 DEF RootLadder
  <2>5. PICK y \in Int : y = Ev(Pw(V[R], j), n, Ser(c))
    <3>1. Pw(V[R], j) \in Int
      BY <2>4, PwFacts
    <3> QED BY <1>1, <1>5, <3>1, EvEquations
  <2>6. Same(e, y, p) /\ Same(y, n * g, p)
    BY <1>6, <1>8, <1>15, <2>2, <2>3, <2>5
  <2>7. PICK k1 \in Int : e = y + k1 * p
    BY <2>6 DEF Same
  <2>8. PICK k2 \in Int : y = n * g + k2 * p
    BY <2>6 DEF Same
  <2>9. PICK k3 \in Int : n * z = 1 + k3 * p
    BY <1>9 DEF Same
  <2>10. e * z = g + (k3 * g + k1 * z + k2 * z) * p
    <3>1. e = n * g + (k1 + k2) * p
      BY <1>0, <1>1, <2>7, <2>8, SMTT(30)
    <3>2. e * z = (n * z) * g + ((k1 + k2) * z) * p
      BY <1>0, <1>1, <3>1, SMTT(30)
    <3>3. (n * z) * g = g + (k3 * g) * p
      BY <1>0, <2>9
    <3>4. (k1 + k2) * z = k1 * z + k2 * z
      OBVIOUS
    <3>5. PICK a1 \in Int, a2 \in Int, a3 \in Int : a1 = k3 * g /\ a2 = k1 * z /\ a3 = k2 * z
      OBVIOUS
    <3>6. (a1 + a2 + a3) * p = a1 * p + (a2 + a3) * p
      BY <1>0
    <3>7. e * z = g + a1 * p + (a2 + a3) * p
      BY <3>2, <3>3, <3>4, <3>5
    <3>8. PICK b1 \in Int, b2 \in Int : b1 = a1 * p /\ b2 = (a2 + a3) * p
      BY <1>0
    <3> QED BY <3>5, <3>6, <3>7, <3>8
  <2>11. k3 * g + k1 * z + k2 * z \in Int /\ e * z \in Int
    OBVIOUS
  <2>12. Same(e * z, g, p)
    BY <2>10, <2>11 DEF Same
  <2>13. (e * z) % p = g % p
    BY <1>0, <2>11, <2>12, RestsOfSame
  <2> QED BY <1>12, <2>1, <2>2, <2>3, <2>13
<1> QED BY <1>10, <1>13, <1>14, <1>15 DEF RestsOf

\* transform_for_prime computes the convolution modulo its prime.
LEMMA ConvolutionIs ==
  ASSUME NEW prime, NEW p, NEW s, Transforms(prime, p, s),
         NEW M \in Nat \ {0}, NEW P \in Poly(M), NEW Q \in Poly(M), P # <<>>, Q # <<>>,
         NEW n \in Nat, n = Len(P) + Len(Q) - 1, Rounds(n) <= s
  PROVE  Convolution(P, Q, prime) = [k \in 1 .. n |-> Conv(Ser(P), Ser(Q))[k - 1] % p]
<1>0. /\ p = prime.modulus /\ p \in Nat \ {0, 1} /\ p \in Nat \ {0} /\ p \in Int
      /\ s \in Nat
  <2>1. p = prime.modulus /\ p \in Nat \ {0, 1} /\ s \in Nat
    BY DEF Transforms
  <2> QED BY <2>1
<1>1. PICK R \in Nat : R = Rounds(n) /\ R <= s /\ PowerOfTwo(R) >= n
  BY RoundsFacts
<1>2. PICK N \in Nat : N = PowerOfTwo(R) /\ N >= n /\ N = BitCeil(n)
  BY <1>1, TwoPowersGrow DEF BitCeil
<1>3. 0 \in Int /\ Len(P) <= N /\ Len(Q) <= N /\ Conv(Ser(P), Ser(Q)) \in Series
  BY <1>2, ValueOfConv
<1>4. PICK W : W = Points(FALSE, prime, R)
  OBVIOUS
<1>5. PICK a, b : /\ a = NTT(Resize(Reduced(P, p), N), FALSE, prime)
                  /\ b = NTT(Resize(Reduced(Q, p), N), FALSE, prime)
  OBVIOUS
<1>6. /\ a \in [1 .. N -> 0 .. p - 1]
      /\ \A k \in Nat : k < N => Same(a[k + 1], Ev(Pw(W[R], k), N, Ser(P)), p)
  <2>1. /\ Transforms(prime, p, s) /\ R \in Nat /\ R <= s /\ N = PowerOfTwo(R)
        /\ W = Points(FALSE, prime, R) /\ M \in Nat \ {0} /\ P \in Poly(M) /\ Len(P) <= N
        /\ a = NTT(Resize(Reduced(P, p), N), FALSE, prime)
    BY <1>1, <1>2, <1>3, <1>4, <1>5
  <2> QED BY ONLY <2>1, ImageFacts, Zenon
<1>7. /\ b \in [1 .. N -> 0 .. p - 1]
      /\ \A k \in Nat : k < N => Same(b[k + 1], Ev(Pw(W[R], k), N, Ser(Q)), p)
  <2>1. /\ Transforms(prime, p, s) /\ R \in Nat /\ R <= s /\ N = PowerOfTwo(R)
        /\ W = Points(FALSE, prime, R) /\ M \in Nat \ {0} /\ Q \in Poly(M) /\ Len(Q) <= N
        /\ b = NTT(Resize(Reduced(Q, p), N), FALSE, prime)
    BY <1>1, <1>2, <1>3, <1>4, <1>5
  <2> QED BY ONLY <2>1, ImageFacts, Zenon
<1>8. PICK c : c = Tuple([k \in DOMAIN a |-> (a[k] * b[k]) % p])
  OBVIOUS
<1>9. /\ c \in Poly(p) /\ Len(c) = N
      /\ ValuesOf(Ser(c), Conv(Ser(P), Ser(Q)), W[R], N, p)
  <2>1. PICK w \in Int : w = W[R]
    <3>1. RootLadder(W, R, p)
      BY <1>1, <1>4, ForwardLadder
    <3>2. R \in 0 .. R
      OBVIOUS
    <3> QED BY <3>1, <3>2 DEF RootLadder
  <2>2. Len(P) + Len(Q) - 1 <= N
    BY <1>2
  <2>3. /\ \A k \in Nat : k < N => Same(a[k + 1], Ev(Pw(w, k), N, Ser(P)), p)
        /\ \A k \in Nat : k < N => Same(b[k + 1], Ev(Pw(w, k), N, Ser(Q)), p)
    BY <1>6, <1>7, <2>1
  <2>4. ImageOf(a, P, M, w, N, p) /\ ImageOf(b, Q, M, w, N, p)
    BY <1>6, <1>7, <2>3 DEF ImageOf
  <2>5. SpectrumOf(c, Conv(Ser(P), Ser(Q)), w, N, p)
    BY <1>0, <1>8, <2>2, <2>4, PointwiseValues
  <2> QED BY <2>1, <2>5 DEF SpectrumOf
<1>10. /\ NTT(c, TRUE, prime) \in [1 .. N -> 0 .. p - 1]
       /\ \A j \in Nat : j < N => NTT(c, TRUE, prime)[j + 1] = Conv(Ser(P), Ser(Q))[j] % p
  <2>1. PICK f \in Series : f = Conv(Ser(P), Ser(Q))
    BY <1>3
  <2>2. /\ Transforms(prime, p, s) /\ R \in Nat /\ R <= s /\ N = PowerOfTwo(R)
        /\ W = Points(FALSE, prime, R) /\ c \in Poly(p) /\ Len(c) = N
        /\ ValuesOf(Ser(c), f, W[R], N, p) /\ f \in Series
    BY <1>1, <1>2, <1>4, <1>9, <2>1
  <2>4. TransformOf(prime, p, s, R, N, W, f, c)
    BY <2>2 DEF TransformOf
  <2>3. RestsOf(NTT(c, TRUE, prime), f, N, p)
    BY ONLY <2>4, InverseTransform, Zenon
  <2> QED BY <2>1, <2>3 DEF RestsOf
<1>11. Convolution(P, Q, prime) = SubSeq(NTT(c, TRUE, prime), 1, n)
  BY <1>0, <1>2, <1>5, <1>8 DEF Convolution, Reduced
<1>12. PICK t : t = NTT(c, TRUE, prime)
  OBVIOUS
<1>13. t \in Seq(0 .. p - 1) /\ Len(t) = N
  <2>1. t \in [1 .. N -> 0 .. p - 1]
    BY <1>10, <1>12
  <2> QED BY <2>1, TupleIs
<1>14. SubSeq(t, 1, n) = [k \in 1 .. n |-> t[k]]
  BY <1>2, <1>13
<1>15. \A k \in 1 .. n : t[k] = Conv(Ser(P), Ser(Q))[k - 1] % p
  <2> SUFFICES ASSUME NEW k \in 1 .. n PROVE t[k] = Conv(Ser(P), Ser(Q))[k - 1] % p
    OBVIOUS
  <2>1. k - 1 \in Nat /\ k - 1 < N /\ (k - 1) + 1 = k
    BY <1>2
  <2> QED BY <1>10, <1>12, <2>1
<1> QED BY <1>11, <1>12, <1>14, <1>15

(* ------------------------------- residues ------------------------------ *)

\* A product modulo p of polynomials whose coefficients are not yet reduced.
RestsTo(f, n, p) == [k \in 1 .. n |-> f[k - 1] % p]

LEMMA RestsFacts ==
  ASSUME NEW p \in Nat \ {0}, NEW n \in Nat, NEW f \in Series
  PROVE  /\ RestsTo(f, n, p) \in [1 .. n -> 0 .. p - 1]
         /\ RestsTo(f, n, p) \in Poly(p) /\ Len(RestsTo(f, n, p)) = n
         /\ \A k \in 1 .. n : /\ k - 1 \in Nat /\ f[k - 1] \in Int
                                /\ RestsTo(f, n, p)[k] = f[k - 1] % p
<1>1. \A k \in 1 .. n : k - 1 \in Nat
  OBVIOUS
<1>2. \A k \in 1 .. n : f[k - 1] \in Int
  BY <1>1 DEF Series
<1>3. \A k \in 1 .. n : f[k - 1] % p \in 0 .. p - 1
  BY <1>2, SameAsRest
<1>4. RestsTo(f, n, p) \in [1 .. n -> 0 .. p - 1]
  BY <1>3 DEF RestsTo
<1>5. \A k \in 1 .. n : RestsTo(f, n, p)[k] = f[k - 1] % p
  BY DEF RestsTo
<1>6. RestsTo(f, n, p) \in Poly(p) /\ Len(RestsTo(f, n, p)) = n
  BY <1>4, TupleIs DEF Poly
<1> QED BY <1>1, <1>2, <1>4, <1>5, <1>6

LEMMA ProductModulo ==
  ASSUME NEW M \in Nat \ {0}, NEW P \in Poly(M), NEW Q \in Poly(M), P # <<>>, Q # <<>>,
         NEW n, n = Len(P) + Len(Q) - 1, NEW p \in Nat \ {0}
  PROVE  /\ n \in Nat \ {0} /\ Conv(Ser(P), Ser(Q)) \in Series
         /\ Product(P, Q, p) = Trim(RestsTo(Conv(Ser(P), Ser(Q)), n, p))
         /\ Resize(Product(P, Q, p), n) = RestsTo(Conv(Ser(P), Ser(Q)), n, p)
<1>1. Len(P) \in Nat \ {0} /\ Len(Q) \in Nat \ {0} /\ n \in Nat \ {0}
  BY DEF Poly
<1>2. PICK c \in Series : c = Conv(Ser(P), Ser(Q))
  BY PolyFacts, ConvType
<1>3. ASSUME NEW k \in 1 .. n PROVE Coefficient(P, Q, k) = c[k - 1]
  <2>1. PICK j \in Nat : j = k - 1
    BY <1>1
  <2>2. Coefficient(P, Q, j + 1) = c[j]
    BY <1>2, CoefficientIsConv
  <2>3. j + 1 = k
    BY <1>1, <1>3, <2>1
  <2> QED BY <2>1, <2>2, <2>3
<1>4. RawProduct(P, Q, p) = RestsTo(c, n, p)
  BY <1>3 DEF RawProduct, RestsTo
<1>5. Product(P, Q, p) = Trim(RestsTo(c, n, p))
  <2>1. Product(P, Q, p) = Trim(RawProduct(P, Q, p))
    BY DEF Product, RawProduct, Coefficient
  <2> QED BY <1>4, <2>1
<1>6. PICK r : r = RestsTo(c, n, p)
  OBVIOUS
<1>7. /\ r \in [1 .. n -> 0 .. p - 1] /\ r \in Poly(p) /\ Len(r) = n
  BY <1>1, <1>6, RestsFacts
<1>8. Trim(r) \in Poly(p) /\ Ser(Trim(r)) = Ser(r)
  BY <1>7, TrimFacts
<1>9. /\ Resize(Trim(r), n) \in Poly(p) /\ Len(Resize(Trim(r), n)) = n
      /\ \A i \in 1 .. n : Resize(Trim(r), n)[i] = Ser(Trim(r))[i - 1]
  BY <1>1, <1>8, ResizeFacts, ZenonT(40)
<1>10. ASSUME NEW i \in 1 .. n PROVE Resize(Trim(r), n)[i] = r[i]
  <2>1. i - 1 \in Nat /\ i - 1 < n /\ (i - 1) + 1 = i
    BY <1>1
  <2>2. Ser(r)[i - 1] = r[i]
    BY <1>7, <2>1 DEF Ser
  <2> QED BY <1>8, <1>9, <2>2
<1>11. PICK t : t = Resize(Trim(r), n)
  OBVIOUS
<1>12. t \in Seq(0 .. p - 1) /\ Len(t) = n /\ \A i \in 1 .. n : t[i] = r[i]
  BY <1>9, <1>10, <1>11 DEF Poly
<1>13. t = r
  BY <1>7, <1>12
<1> QED BY <1>1, <1>2, <1>5, <1>6, <1>11, <1>13

\* What a prime of the basis is.
LEMMA TransformPrimeFacts ==
  ASSUME NEW prime, TransformPrime(prime)
  PROVE  /\ Transforms(prime, prime.modulus, prime.power)
         /\ prime.modulus \in Nat \ {0, 1, 2} /\ IsPrime(prime.modulus)
         /\ prime.power \in Nat /\ prime.bits \in Nat
         /\ PowerOfTwo(prime.bits) <= prime.modulus
<1>1. PICK p \in Nat, s \in Nat, g \in Nat, w \in Nat :
        p = prime.modulus /\ s = prime.power /\ g = prime.root /\ w = prime.bits
  BY DEF TransformPrime
<1>2. /\ p > 2 /\ \A d \in 2 .. p - 1 : p % d # 0
      /\ (p - 1) % PowerOfTwo(s) = 0
      /\ Power(g, (p - 1) \div 2, p) = p - 1
      /\ PowerOfTwo(w) <= p
  BY <1>1 DEF TransformPrime
<1>3. IsPrime(p) /\ p \in Nat \ {0, 1, 2}
  BY <1>2 DEF IsPrime
<1>4. \E d \in Nat : p - 1 = PowerOfTwo(s) * d
  <2>1. PICK t \in Nat \ {0} : t = PowerOfTwo(s)
    BY TwoPowersGrow
  <2>2. (p - 1) % t = 0 /\ p - 1 \in Int /\ p - 1 >= 0
    BY <1>2, <2>1
  <2>3. Same((p - 1) % t, p - 1, t)
    BY <2>2, SameAsRest
  <2>4. PICK k \in Int : 0 = (p - 1) + k * t
    BY <2>2, <2>3 DEF Same
  <2>5. k <= 0
    <3> SUFFICES ASSUME k >= 1 PROVE FALSE
      OBVIOUS
    <3>1. k * t >= 1
      OBVIOUS
    <3> QED BY <2>2, <2>4, <3>1
  <2>6. -k \in Nat /\ p - 1 = t * (-k)
    BY <2>4, <2>5
  <2> QED BY <2>1, <2>6
<1>5. \E e \in Nat : p - 1 = 2 * e /\ Same(Pw(g, e), -1, p)
  <2>1. p % 2 # 0
    <3>1. 2 \in 2 .. p - 1
      BY <1>2
    <3> QED BY <1>2, <3>1
  <2>2. PICK e \in Nat : e = (p - 1) \div 2 /\ p - 1 = 2 * e
    BY <1>2, <2>1
  <2>3. Power(g, e, p) = p - 1
    BY <1>2, <2>2
  <2>4. g \in Int /\ p \in Nat \ {0, 1}
    BY <1>3
  <2>5. Same(Power(g, e, p), Pw(g, e), p)
    BY <2>4, PowerFacts
  <2>6. PICK x \in Int : x = Pw(g, e)
    BY <2>4, PwFacts
  <2>7. PICK k \in Int : p - 1 = x + k * p
    BY <2>3, <2>5, <2>6 DEF Same
  <2>8. x = -1 + (1 - k) * p /\ 1 - k \in Int
    BY <2>7
  <2>9. Same(x, -1, p)
    BY <2>8 DEF Same
  <2> QED BY <2>2, <2>6, <2>9
<1>6. Transforms(prime, p, s)
  BY <1>1, <1>3, <1>4, <1>5 DEF Transforms
<1> QED BY <1>1, <1>2, <1>3, <1>6

\* A transform does not wrap around: it computes the product modulo its prime.
LEMMA ConvolutionIsExact ==
  ASSUME NEW prime, TransformPrime(prime),
         NEW M \in Nat \ {0}, NEW P \in Poly(M), NEW Q \in Poly(M), P # <<>>, Q # <<>>,
         NEW n, n = Len(P) + Len(Q) - 1, PowerOfTwo(prime.power) >= BitCeil(n)
  PROVE  /\ Convolution(P, Q, prime) = RestsTo(Conv(Ser(P), Ser(Q)), n, prime.modulus)
         /\ Convolution(P, Q, prime) = Resize(Product(P, Q, prime.modulus), n)
         /\ Convolution(P, Q, prime) # <<>>
<1>1. PICK p \in Nat \ {0}, s \in Nat : p = prime.modulus /\ s = prime.power
  BY TransformPrimeFacts
<1>2. Transforms(prime, p, s)
  BY <1>1, TransformPrimeFacts
<1>3. n \in Nat /\ n \in Nat \ {0} /\ Conv(Ser(P), Ser(Q)) \in Series
  BY ProductModulo
<1>4. Rounds(n) <= s
  <2>1. PowerOfTwo(Rounds(n)) >= n /\ BitCeil(n) = PowerOfTwo(Rounds(n))
    BY <1>3, RoundsFacts DEF BitCeil
  <2>2. PICK x \in Nat, y \in Nat : x = PowerOfTwo(s) /\ y = PowerOfTwo(Rounds(n))
    BY <1>3, RoundsFacts, TwoPowersGrow
  <2>3. x >= n
    BY <1>1, <1>3, <2>1, <2>2
  <2> QED BY <1>3, <2>2, <2>3, RoundsFacts
<1>5. Convolution(P, Q, prime) = RestsTo(Conv(Ser(P), Ser(Q)), n, p)
  BY <1>2, <1>3, <1>4, ConvolutionIs DEF RestsTo
<1>6. Resize(Product(P, Q, p), n) = RestsTo(Conv(Ser(P), Ser(Q)), n, p)
  BY ProductModulo
<1>7. Len(RestsTo(Conv(Ser(P), Ser(Q)), n, p)) = n
  BY <1>3, RestsFacts
<1>8. RestsTo(Conv(Ser(P), Ser(Q)), n, p) # <<>>
  BY <1>3, <1>7
<1> QED BY <1>1, <1>5, <1>6, <1>8

(* ------------------------- the basis of primes ------------------------- *)

Base(i)   == Primes[i].modulus
Bases(n)  == {Base(i) : i \in 1 .. n}
\* The product of the first n primes.
Whole(n)  == ProductOf(Bases(n))

LEMMA BaseFacts ==
  /\ Len(Primes) \in Nat /\ DOMAIN Primes = 1 .. Len(Primes)
  /\ \A i \in 1 .. Len(Primes) :
       /\ TransformPrime(Primes[i])
       /\ Base(i) \in Nat \ {0, 1, 2} /\ Base(i) \in Nat \ {0} /\ Base(i) \in Int
       /\ IsPrime(Base(i))
  /\ \A i, j \in 1 .. Len(Primes) : i # j => Base(i) # Base(j)
<1>1. Len(Primes) \in Nat /\ DOMAIN Primes = 1 .. Len(Primes)
  <2>1. PICK T : T = {Primes[i] : i \in DOMAIN Primes}
    OBVIOUS
  <2>2. Primes \in Seq(T)
    BY <2>1, PrimesAssumption
  <2> QED BY <2>2
<1>2. \A i \in 1 .. Len(Primes) : TransformPrime(Primes[i])
  BY <1>1, PrimesAssumption
<1>3. ASSUME NEW i \in 1 .. Len(Primes)
      PROVE  /\ Base(i) \in Nat \ {0, 1, 2} /\ Base(i) \in Nat \ {0} /\ Base(i) \in Int
             /\ IsPrime(Base(i))
  <2>1. Base(i) \in Nat \ {0, 1, 2} /\ IsPrime(Base(i))
    BY <1>2, TransformPrimeFacts DEF Base
  <2> QED BY <2>1
<1>4. \A i, j \in 1 .. Len(Primes) : i # j => Base(i) # Base(j)
  BY <1>1, PrimesAssumption DEF Base
<1> QED BY <1>1, <1>2, <1>3, <1>4

\* Different primes do not divide each other.
LEMMA PrimesAreCoprime ==
  ASSUME NEW p \in Nat, IsPrime(p), NEW q \in Nat, IsPrime(q), p # q
  PROVE  ~Same(q, 0, p)
<1> SUFFICES ASSUME Same(q, 0, p) PROVE FALSE
  OBVIOUS
<1>1. p \in Nat \ {0} /\ p >= 2 /\ q >= 2 /\ q \in Int /\ 0 \in 0 .. p - 1
  BY DEF IsPrime
<1>2. q % p = 0
  BY <1>1, RestIsSmall
<1>3. CASE q < p
  <2>1. q % p = q
    BY <1>1, <1>3
  <2> QED BY <1>1, <1>2, <2>1
<1>4. CASE p < q
  <2>1. p \in 2 .. q - 1
    BY <1>1, <1>4
  <2> QED BY <1>2, <2>1 DEF IsPrime
<1> QED BY <1>1, <1>3, <1>4

LEMMA WholeFacts ==
  /\ Whole(0) = 1
  /\ \A n \in Nat : n <= Len(Primes) =>
       /\ Numbers(Bases(n)) /\ Whole(n) \in Nat \ {0}
       /\ \A i \in 1 .. Len(Primes) : n < i => ~Same(Whole(n), 0, Base(i))
  /\ \A n \in Nat : n < Len(Primes) => Whole(n + 1) = Base(n + 1) * Whole(n)
<1>0. Len(Primes) \in Nat
  BY BaseFacts
<1>1. Numbers({}) /\ Whole(0) = 1
  <2>1. Bases(0) = {}
    BY DEF Bases
  <2>2. Numbers({})
    BY FS_EmptySet DEF Numbers
  <2> QED BY <2>1, <2>2, ProductOfNone DEF Whole
<1>2. ASSUME NEW n \in Nat, n < Len(Primes), Numbers(Bases(n))
      PROVE  Numbers(Bases(n + 1)) /\ Whole(n + 1) = Base(n + 1) * Whole(n)
  <2>1. n + 1 \in 1 .. Len(Primes) /\ \A i \in 1 .. n : i \in 1 .. Len(Primes) /\ i # n + 1
    BY <1>0, <1>2
  <2>2. Base(n + 1) \in Int /\ Base(n + 1) \notin Bases(n)
    BY <2>1, BaseFacts DEF Bases
  <2>3. Bases(n + 1) = Bases(n) \cup {Base(n + 1)}
    <3>1. 1 .. n + 1 = (1 .. n) \cup {n + 1}
      OBVIOUS
    <3> QED BY <3>1 DEF Bases
  <2> QED BY <1>2, <2>2, <2>3, ProductWith DEF Whole
<1> DEFINE Good(n) ==
             /\ Numbers(Bases(n)) /\ Whole(n) \in Nat \ {0}
             /\ \A i \in 1 .. Len(Primes) : n < i => ~Same(Whole(n), 0, Base(i))
           T == {n \in Nat : n <= Len(Primes) => Good(n)}
<1>3. 0 \in T
  <2>1. ASSUME NEW i \in 1 .. Len(Primes) PROVE ~Same(1, 0, Base(i))
    <3>1. PICK p \in Nat \ {0, 1, 2} : p = Base(i)
      BY BaseFacts
    <3>2. ASSUME Same(1, 0, p) PROVE FALSE
      <4>1. 0 \in 0 .. p - 1 /\ 1 \in 0 .. p - 1 /\ p \in Nat \ {0}
        OBVIOUS
      <4> QED BY <3>2, <4>1, SameOfSmall
    <3> QED BY <3>1, <3>2
  <2>2. Numbers(Bases(0)) /\ Whole(0) \in Nat \ {0}
    <3>1. Bases(0) = {}
      BY DEF Bases
    <3> QED BY <1>1, <3>1
  <2>3. Good(0)
    BY <1>1, <2>1, <2>2
  <2> QED BY <2>3
<1>4. ASSUME NEW n \in Nat, n \in T PROVE n + 1 \in T
  <2> SUFFICES ASSUME n + 1 <= Len(Primes) PROVE Good(n + 1)
    OBVIOUS
  <2>1. n < Len(Primes) /\ Good(n)
    BY <1>0, <1>4
  <2>2. Numbers(Bases(n + 1)) /\ Whole(n + 1) = Base(n + 1) * Whole(n)
    BY <1>2, <2>1
  <2>3. n + 1 \in 1 .. Len(Primes)
    BY <1>0, <2>1
  <2>4. PICK b \in Nat \ {0}, w \in Nat \ {0} : b = Base(n + 1) /\ w = Whole(n)
    BY <2>1, <2>3, BaseFacts
  <2>5. b * w \in Nat \ {0}
    OBVIOUS
  <2>6. ASSUME NEW i \in 1 .. Len(Primes), n + 1 < i PROVE ~Same(b * w, 0, Base(i))
    <3>1. PICK p \in Nat : p = Base(i) /\ IsPrime(p)
      BY BaseFacts
    <3>2. b # p /\ IsPrime(b) /\ b \in Nat
      BY <2>3, <2>4, <2>6, <3>1, BaseFacts
    <3>3. ~Same(b, 0, p)
      BY <3>1, <3>2, PrimesAreCoprime
    <3>4. n < i
      BY <2>6
    <3>5. ~Same(w, 0, p)
      BY <2>1, <2>4, <3>1, <3>4
    <3>6. b \in Int /\ w \in Int
      OBVIOUS
    <3> QED BY <3>1, <3>3, <3>5, <3>6, PrimeDividesFactor
  <2> QED BY <2>2, <2>4, <2>5, <2>6
<1>5. \A n \in Nat : n \in T
  <2> HIDE DEF T
  <2> QED BY <1>3, <1>4, SetOfAllNaturals
<1>6. \A n \in Nat : n <= Len(Primes) => Good(n)
  BY <1>5
<1>7. ASSUME NEW n \in Nat, n < Len(Primes) PROVE Whole(n + 1) = Base(n + 1) * Whole(n)
  <2>1. n <= Len(Primes)
    BY <1>0, <1>7
  <2> QED BY <1>2, <1>6, <1>7, <2>1
<1> QED BY <1>1, <1>6, <1>7

\* What every prime of the basis divides, their product divides.
LEMMA WholeDivides ==
  ASSUME NEW X \in Int, NEW L \in Nat, L <= Len(Primes),
         \A i \in 1 .. L : Same(X, 0, Base(i))
  PROVE  Same(X, 0, Whole(L))
<1>0. Len(Primes) \in Nat
  BY BaseFacts
<1> DEFINE T == {n \in Nat : n <= L => Same(X, 0, Whole(n))}
<1>1. 0 \in T
  <2>1. X = 0 + X * 1
    OBVIOUS
  <2>2. Same(X, 0, 1)
    BY <2>1 DEF Same
  <2> QED BY <2>2, WholeFacts
<1>2. ASSUME NEW n \in Nat, n \in T PROVE n + 1 \in T
  <2> SUFFICES ASSUME n + 1 <= L PROVE Same(X, 0, Whole(n + 1))
    OBVIOUS
  <2>1. n < Len(Primes) /\ n <= L /\ n <= Len(Primes) /\ n + 1 \in 1 .. L
        /\ n + 1 \in 1 .. Len(Primes) /\ n < n + 1
    BY <1>0
  <2>2. PICK b \in Nat, w \in Nat : b = Base(n + 1) /\ w = Whole(n) /\ IsPrime(b)
    BY <2>1, BaseFacts, WholeFacts
  <2>3. Whole(n + 1) = b * w
    BY <2>1, <2>2, WholeFacts
  <2>4. Same(X, 0, w) /\ Same(X, 0, b)
    BY <1>2, <2>1, <2>2
  <2>5. PICK y \in Int : X = w * y
    <3>1. PICK y \in Int : X = 0 + y * w
      BY <2>4 DEF Same
    <3> QED BY <3>1
  <2>6. ~Same(w, 0, b)
    BY <2>1, <2>2, WholeFacts
  <2>7. Same(y, 0, b)
    <3>1. w \in Int /\ Same(w * y, 0, b)
      BY <2>4, <2>5
    <3> QED BY <2>2, <2>6, <3>1, PrimeDividesFactor
  <2>8. PICK z \in Int : y = 0 + z * b
    BY <2>7 DEF Same
  <2>9. X = 0 + z * (b * w)
    <3>1. y = z * b
      BY <2>8
    <3>2. X = w * (z * b)
      BY <2>5, <3>1
    <3> QED BY <3>2
  <2>10. Same(X, 0, b * w)
    BY <2>9 DEF Same
  <2> QED BY <2>3, <2>10
<1>3. L \in T
  <2> HIDE DEF T
  <2> QED BY <1>1, <1>2, SetOfAllNaturals
<1> QED BY <1>3

\* PrefixProduct is that product, modulo m.
PrefixStep(count, m, g) ==
  [i \in 0 .. count |-> IF i = 0 THEN 1 % m ELSE (g[i - 1] * Primes[i].modulus) % m]
Wholes(count, m) == CHOOSE g : g = PrefixStep(count, m, g)

LEMMA PrefixProductIs ==
  ASSUME NEW count, NEW m
  PROVE  PrefixProduct(count, m) = Wholes(count, m)[count]
BY DEF PrefixProduct, Wholes, PrefixStep

LEMMA PrefixNext ==
  ASSUME NEW m \in Nat \ {0}, NEW n \in Nat, n < Len(Primes)
  PROVE  ((Whole(n) % m) * Base(n + 1)) % m = Whole(n + 1) % m
<1>0. Len(Primes) \in Nat
  BY BaseFacts
<1>1. n <= Len(Primes) /\ n + 1 \in 1 .. Len(Primes)
  BY <1>0
<1>2. PICK b \in Int, w \in Int : b = Base(n + 1) /\ w = Whole(n) /\ Whole(n + 1) = b * w
  BY <1>1, BaseFacts, WholeFacts
<1>3. PICK r \in Int : r = w % m /\ Same(r, w, m)
  <2>1. w % m \in 0 .. m - 1 /\ Same(w % m, w, m)
    BY SameAsRest
  <2>2. w % m \in Int
    BY <2>1
  <2> QED BY <2>1, <2>2
<1>4. (r * b) % m = (b * w) % m
  BY <1>3, RestOfTimes
<1> QED BY <1>2, <1>3, <1>4

LEMMA PrefixProductFacts ==
  ASSUME NEW m \in Nat \ {0}, NEW count \in Nat, count <= Len(Primes)
  PROVE  PrefixProduct(count, m) = Whole(count) % m
<1>0. Len(Primes) \in Nat
  BY BaseFacts
<1> DEFINE W == [i \in 0 .. count |-> Whole(i) % m]
           g == Wholes(count, m)
<1>1. W = PrefixStep(count, m, W)
  <2>1. ASSUME NEW i \in 0 .. count PROVE W[i] = PrefixStep(count, m, W)[i]
    <3>1. CASE i = 0
      BY <3>1, WholeFacts DEF PrefixStep
    <3>2. CASE i # 0
      <4>1. PICK n \in Nat : i = n + 1 /\ n \in 0 .. count /\ n < Len(Primes) /\ i - 1 = n
        <5>1. i - 1 \in Nat /\ i = (i - 1) + 1 /\ i - 1 \in 0 .. count /\ i - 1 < Len(Primes)
          BY <1>0, <3>2
        <5> QED BY <5>1
      <4>2. PrefixStep(count, m, W)[i] = (W[n] * Base(n + 1)) % m
        BY <3>2, <4>1 DEF PrefixStep, Base
      <4>3. W[n] = Whole(n) % m /\ W[i] = Whole(n + 1) % m
        BY <4>1
      <4> HIDE DEF W
      <4> QED BY <4>1, <4>2, <4>3, PrefixNext
    <3> QED BY <3>1, <3>2
  <2> QED BY <2>1 DEF PrefixStep
<1>2. g = PrefixStep(count, m, g)
  <2> HIDE DEF W
  <2> QED BY <1>1 DEF Wholes
<1> HIDE DEF g, W
<1> DEFINE T == {n \in Nat : n <= count => g[n] = Whole(n) % m}
<1>3. 0 \in T
  BY <1>2, WholeFacts DEF PrefixStep
<1>4. ASSUME NEW n \in Nat, n \in T PROVE n + 1 \in T
  <2> SUFFICES ASSUME n + 1 <= count PROVE g[n + 1] = Whole(n + 1) % m
    OBVIOUS
  <2>1. n <= count /\ n < Len(Primes) /\ n + 1 \in 0 .. count /\ n + 1 # 0 /\ (n + 1) - 1 = n
    BY <1>0
  <2>2. g[n] = Whole(n) % m
    BY <1>4, <2>1
  <2>3. g[n + 1] = (g[n] * Base(n + 1)) % m
    BY <1>2, <2>1 DEF PrefixStep, Base
  <2> QED BY <2>1, <2>2, <2>3, PrefixNext
<1>5. count \in T
  <2> HIDE DEF T
  <2> QED BY <1>3, <1>4, SetOfAllNaturals
<1> QED BY <1>5, PrefixProductIs DEF g

(* ------------------------------ reconstruction ------------------------- *)

\* The number that mixed-radix digits denote.
Weighted(d) == [j \in 1 .. Len(d) |-> d[j] * Whole(j - 1)]
Mixed(d)    == SumOver(Weighted(d), 1 .. Len(d))

LEMMA TotalIsSum ==
  ASSUME NEW f
  PROVE  Total(f) = SumOver(f, DOMAIN f)
BY DEF Total, SumOver

LEMMA WeightedFacts ==
  ASSUME NEW d \in Seq(Int), Len(d) <= Len(Primes)
  PROVE  /\ Summable(Weighted(d), 1 .. Len(d)) /\ Mixed(d) \in Int
         /\ \A j \in 1 .. Len(d) : /\ d[j] \in Int /\ Whole(j - 1) \in Int
                                   /\ Weighted(d)[j] = d[j] * Whole(j - 1)
                                   /\ j - 1 \in Nat /\ j - 1 <= Len(Primes)
<1>0. Len(d) \in Nat /\ Len(Primes) \in Nat
  BY BaseFacts
<1>1. ASSUME NEW j \in 1 .. Len(d)
      PROVE  /\ d[j] \in Int /\ Whole(j - 1) \in Int
             /\ Weighted(d)[j] = d[j] * Whole(j - 1)
             /\ j - 1 \in Nat /\ j - 1 <= Len(Primes)
  <2>1. j - 1 \in Nat /\ j - 1 <= Len(Primes)
    BY <1>0
  <2>2. Whole(j - 1) \in Int
    BY <2>1, WholeFacts
  <2> QED BY <2>1, <2>2 DEF Weighted
<1>2. ASSUME NEW j \in 1 .. Len(d) PROVE Weighted(d)[j] \in Int
  <2>1. PICK x \in Int, y \in Int : x = d[j] /\ y = Whole(j - 1) /\ Weighted(d)[j] = x * y
    BY <1>1
  <2> QED BY <2>1
<1>3. IsFiniteSet(1 .. Len(d))
  BY <1>0, FS_Interval
<1>4. Summable(Weighted(d), 1 .. Len(d))
  BY <1>2, <1>3 DEF Summable
<1> QED BY <1>1, <1>4, SumType DEF Mixed

\* Terms that are the weighted digits modulo m add up to the number modulo m.
LEMMA TotalIsMixed ==
  ASSUME NEW m \in Nat \ {0}, NEW d \in Seq(Int), Len(d) <= Len(Primes),
         NEW f, DOMAIN f = 1 .. Len(d),
         \A j \in 1 .. Len(d) : f[j] \in Int /\ Same(f[j], d[j] * Whole(j - 1), m)
  PROVE  Total(f) \in Int /\ Same(Total(f), Mixed(d), m)
<1>1. Len(d) \in Nat /\ IsFiniteSet(1 .. Len(d)) /\ m \in Int
  BY FS_Interval
<1>2. Summable(f, 1 .. Len(d))
  BY <1>1 DEF Summable
<1>3. SameTerms(f, Weighted(d), 1 .. Len(d), m)
  BY WeightedFacts DEF SameTerms
<1>4. Same(SumOver(f, 1 .. Len(d)), SumOver(Weighted(d), 1 .. Len(d)), m)
  BY <1>1, <1>2, <1>3, WeightedFacts, SumOfSame
<1>5. SumOver(f, 1 .. Len(d)) \in Int
  BY <1>2, SumType
<1> QED BY <1>4, <1>5, TotalIsSum DEF Mixed

LEMMA TermIsWeighted ==
  ASSUME NEW m \in Nat \ {0}, NEW d \in Seq(Int), Len(d) <= Len(Primes),
         NEW j \in 1 .. Len(d), NEW x \in Int, Same(x, d[j], m)
  PROVE  /\ x * PrefixProduct(j - 1, m) \in Int
         /\ Same(x * PrefixProduct(j - 1, m), d[j] * Whole(j - 1), m)
<1>1. PICK y \in Int, w \in Int : y = d[j] /\ w = Whole(j - 1)
  BY WeightedFacts
<1>2. PrefixProduct(j - 1, m) = w % m
  BY <1>1, WeightedFacts, PrefixProductFacts
<1>3. PICK r \in Int : r = w % m /\ Same(r, w, m)
  <2>1. w % m \in 0 .. m - 1 /\ Same(w % m, w, m)
    BY SameAsRest
  <2>2. w % m \in Int
    BY <2>1
  <2> QED BY <2>1, <2>2
<1>4. m \in Int /\ x * r \in Int
  OBVIOUS
<1>5. Same(x * r, y * w, m)
  BY <1>1, <1>3, <1>4, SameTimes
<1> QED BY <1>1, <1>2, <1>3, <1>4, <1>5

LEMMA MixedAppend ==
  ASSUME NEW d \in Seq(Int), Len(d) < Len(Primes), NEW c \in Int
  PROVE  Mixed(Append(d, c)) = Mixed(d) + c * Whole(Len(d))
<1>1. PICK n \in Nat : n = Len(d)
  OBVIOUS
<1>2. PICK e \in Seq(Int) : e = Append(d, c) /\ Len(e) = n + 1
  <2>1. Append(d, c) \in Seq(Int)
    OBVIOUS
  <2>2. Len(Append(d, c)) = n + 1
    BY <1>1
  <2> QED BY <2>1, <2>2
<1>3. Len(Primes) \in Nat /\ n <= Len(Primes) /\ n + 1 <= Len(Primes) /\ Len(d) <= Len(Primes)
      /\ Len(e) <= Len(Primes)
  BY <1>1, <1>2, BaseFacts
<1>4. /\ Summable(Weighted(e), 1 .. n + 1)
      /\ Summable(Weighted(d), 1 .. n)
      /\ Mixed(d) = SumOver(Weighted(d), 1 .. n)
      /\ Mixed(e) = SumOver(Weighted(e), 1 .. n + 1)
  BY <1>1, <1>2, <1>3, WeightedFacts DEF Mixed
<1>5. n + 1 \in 1 .. n + 1 /\ (1 .. n + 1) \ {n + 1} = 1 .. n /\ (n + 1) - 1 = n
  OBVIOUS
<1>6. SumOver(Weighted(e), 1 .. n + 1) = Weighted(e)[n + 1] + SumOver(Weighted(e), 1 .. n)
  BY <1>4, <1>5, SumWithout
<1>7. Weighted(e)[n + 1] = c * Whole(n)
  <2>1. e[n + 1] = c
    BY <1>1, <1>2
  <2> QED BY <1>2, <1>5, <2>1 DEF Weighted
<1>8. \A j \in 1 .. n : Weighted(e)[j] = Weighted(d)[j]
  <2> SUFFICES ASSUME NEW j \in 1 .. n PROVE Weighted(e)[j] = Weighted(d)[j]
    OBVIOUS
  <2>1. e[j] = d[j] /\ j \in 1 .. n + 1
    BY <1>1, <1>2
  <2> QED BY <1>1, <1>2, <2>1 DEF Weighted
<1>9. SumOver(Weighted(e), 1 .. n) = SumOver(Weighted(d), 1 .. n)
  BY <1>4, <1>8, SumEqual
<1>10. PICK x \in Int, y \in Int, z \in Int :
          x = Mixed(d) /\ y = c * Whole(n) /\ z = Mixed(e)
  <2>1. Whole(n) \in Int
    BY <1>3, WholeFacts
  <2>2. PICK w \in Int : w = Whole(n)
    BY <2>1
  <2>3. c * w \in Int
    OBVIOUS
  <2>4. Mixed(d) \in Int /\ Mixed(e) \in Int
    BY <1>3, WeightedFacts
  <2> QED BY <2>2, <2>3, <2>4
<1>11. z = y + x
  BY <1>4, <1>6, <1>7, <1>9, <1>10
<1> QED BY <1>1, <1>2, <1>10, <1>11

(* -------------------------------- digits ------------------------------- *)

Known(d, p) == Total([j \in DOMAIN d |-> d[j] * PrefixProduct(j - 1, p)])
NextDigit(d, n, r) ==
  ((r - Known(d, Base(n))) * Inverted(PrefixProduct(n - 1, Base(n)), Base(n))) % Base(n)
DigitsStep(rs, g) ==
  [n \in 0 .. Len(rs) |-> IF n = 0 THEN <<>>
                          ELSE Append(g[n - 1], NextDigit(g[n - 1], n, rs[n]))]
AllDigits(rs) == CHOOSE g : g = DigitsStep(rs, g)

LEMMA DigitsAre ==
  ASSUME NEW rs
  PROVE  Digits(rs) = AllDigits(rs)[Len(rs)]
BY DEF Digits, AllDigits, DigitsStep, NextDigit, Known, Base

LEMMA NextDigitFacts ==
  ASSUME NEW n \in Nat, n < Len(Primes), NEW d \in Seq(Int), Len(d) = n, NEW r \in Int
  PROVE  /\ NextDigit(d, n + 1, r) \in 0 .. Base(n + 1) - 1
         /\ Same(Mixed(d) + NextDigit(d, n + 1, r) * Whole(n), r, Base(n + 1))
<1>0. Len(Primes) \in Nat /\ n + 1 \in 1 .. Len(Primes) /\ n <= Len(Primes) /\ Len(d) <= Len(Primes)
      /\ (n + 1) - 1 = n
  BY BaseFacts
<1>1. PICK p \in Nat : p = Base(n + 1) /\ IsPrime(p) /\ p \in Nat \ {0} /\ p \in Int
  BY <1>0, BaseFacts
<1>2. PICK w \in Int : w = Whole(n) /\ ~Same(w, 0, p)
  <2>1. n < n + 1
    OBVIOUS
  <2> QED BY <1>0, <1>1, <2>1, WholeFacts
<1>3. PICK v \in Int : v = Mixed(d)
  BY <1>0, WeightedFacts
<1>4. PICK u \in Int : u = Known(d, p) /\ Same(u, v, p)
  <2>1. PICK f : f = [j \in DOMAIN d |-> d[j] * PrefixProduct(j - 1, p)]
    OBVIOUS
  <2>2. DOMAIN f = 1 .. Len(d)
    BY <2>1
  <2>3. ASSUME NEW j \in 1 .. Len(d)
        PROVE  f[j] \in Int /\ Same(f[j], d[j] * Whole(j - 1), p)
    <3>1. d[j] \in Int /\ Same(d[j], d[j], p)
      BY <1>1, SameIsReflexive
    <3>2. f[j] = d[j] * PrefixProduct(j - 1, p)
      BY <2>1
    <3> QED BY <1>0, <1>1, <3>1, <3>2, TermIsWeighted
  <2>4. Total(f) \in Int /\ Same(Total(f), Mixed(d), p)
    BY <1>0, <1>1, <2>2, <2>3, TotalIsMixed
  <2> QED BY <1>3, <2>1, <2>4 DEF Known
<1>5. PICK t \in Int : t = PrefixProduct(n, p) /\ Same(t, w, p)
  <2>1. PrefixProduct(n, p) = w % p
    BY <1>0, <1>1, <1>2, PrefixProductFacts
  <2>2. w % p \in 0 .. p - 1 /\ Same(w % p, w, p)
    BY <1>1, SameAsRest
  <2>3. w % p \in Int
    BY <1>1, <2>2
  <2> QED BY <2>1, <2>2, <2>3
<1>6. ~Same(t, 0, p)
  <2> SUFFICES ASSUME Same(t, 0, p) PROVE FALSE
    OBVIOUS
  <2>1. Same(w, t, p)
    BY <1>1, <1>5, SameIsSymmetric
  <2>2. Same(w, 0, p)
    <3>1. 0 \in Int
      OBVIOUS
    <3> QED BY <1>1, <2>1, <3>1, SameIsTransitive
  <2> QED BY <1>2, <2>2
<1>7. PICK i \in Int : i = Inverted(t, p) /\ Same(t * i, 1, p)
  <2>1. Inverted(t, p) \in 0 .. p - 1 /\ Same(t * Inverted(t, p), 1, p)
    BY <1>1, <1>6, InverseOfUnit
  <2>2. Inverted(t, p) \in Int
    BY <1>1, <2>1
  <2> QED BY <2>1, <2>2
<1>8. NextDigit(d, n + 1, r) = ((r - u) * i) % p
  BY <1>0, <1>1, <1>4, <1>5, <1>7 DEF NextDigit
<1>9. PICK a \in Int : a = (r - u) * i
  OBVIOUS
<1>10. a % p \in 0 .. p - 1 /\ Same(a % p, a, p)
  BY <1>1, <1>9, SameAsRest
<1>11. PICK c \in Int : c = a % p /\ c = NextDigit(d, n + 1, r)
  <2>1. a % p \in Int
    BY <1>1, <1>10
  <2> QED BY <1>8, <1>9, <2>1
<1>12. Same(v + c * w, r, p)
  <2>1. PICK k1 \in Int : c = a + k1 * p
    BY <1>10, <1>11 DEF Same
  <2>2. PICK k2 \in Int : t = w + k2 * p
    BY <1>5 DEF Same
  <2>3. PICK k3 \in Int : u = v + k3 * p
    BY <1>4 DEF Same
  <2>4. PICK k4 \in Int : t * i = 1 + k4 * p
    BY <1>7 DEF Same
  <2>5. Same(c * w, a * t, p)
    <3>1. Same(c, a, p) /\ Same(w, t, p)
      BY <1>1, <1>5, <1>10, <1>11, SameIsSymmetric
    <3> QED BY <1>1, <3>1, SameTimes
  <2>6. a * t = (r - u) * (t * i)
    BY <1>9
  <2>7. PICK b \in Int : b = r - u
    OBVIOUS
  <2>8. PICK ti \in Int : ti = t * i
    OBVIOUS
  <2>9. Same(b * ti, b, p)
    BY <1>1, <1>7, <2>8, SameByOne
  <2>10. PICK cw \in Int, at \in Int : cw = c * w /\ at = a * t
    OBVIOUS
  <2>11. Same(cw, b, p)
    <3>1. at = b * ti
      BY <2>6, <2>7, <2>8, <2>10
    <3>2. Same(at, b, p) /\ Same(cw, at, p)
      BY <2>5, <2>9, <2>10, <3>1
    <3> QED BY <1>1, <3>2, SameIsTransitive
  <2>12. PICK k5 \in Int : cw = b + k5 * p
    BY <2>11 DEF Same
  <2>13. v + cw = r + (k5 - k3) * p /\ k5 - k3 \in Int
    <3>1. PICK x3 \in Int, x5 \in Int : x3 = k3 * p /\ x5 = k5 * p
      BY <1>1
    <3>2. (k5 - k3) * p = x5 - x3
      BY <1>1, <3>1
    <3>3. u = v + x3 /\ cw = b + x5 /\ b = r - u
      BY <2>3, <2>7, <2>12, <3>1
    <3>4. v + cw = r + (x5 - x3)
      BY <3>3
    <3> QED BY <3>2, <3>4
  <2>14. Same(v + cw, r, p)
    BY <2>13 DEF Same
  <2> QED BY <2>10, <2>14
<1> QED BY <1>1, <1>2, <1>3, <1>10, <1>11, <1>12

LEMMA DigitsEquation ==
  ASSUME NEW rs \in Seq(Int), Len(rs) <= Len(Primes)
  PROVE  AllDigits(rs) = DigitsStep(rs, AllDigits(rs))
<1>0. Len(rs) \in Nat /\ Len(Primes) \in Nat
  BY BaseFacts
<1>1. PICK L \in Nat : L = Len(rs)
  BY <1>0
<1>2. PICK V : V = {d \in Seq(Int) : Len(d) <= L}
  OBVIOUS
<1> DEFINE Extended(d) == Append(d, NextDigit(d, Len(d) + 1, rs[Len(d) + 1]))
           step == [d \in V |-> IF Len(d) < L THEN Extended(d) ELSE d]
<1>3. ASSUME NEW d \in V, Len(d) < L
      PROVE  Extended(d) \in V /\ Len(Extended(d)) = Len(d) + 1
  <2>1. PICK n \in Nat : n = Len(d)
    BY <1>2
  <2>2. d \in Seq(Int) /\ n < L /\ n < Len(Primes) /\ n + 1 \in 1 .. Len(rs)
    BY <1>0, <1>1, <1>2, <1>3, <2>1
  <2>3. rs[n + 1] \in Int
    BY <2>2
  <2>4. NextDigit(d, n + 1, rs[n + 1]) \in 0 .. Base(n + 1) - 1
    BY <2>1, <2>2, <2>3, NextDigitFacts
  <2>5. n + 1 \in 1 .. Len(Primes)
    BY <1>0, <2>2
  <2>6. Base(n + 1) \in Int
    BY <2>5, BaseFacts
  <2>7. PICK c \in Int : c = NextDigit(d, n + 1, rs[n + 1])
    BY <2>4, <2>6
  <2>8. Append(d, c) \in Seq(Int)
    BY <2>2
  <2>9. Len(Append(d, c)) = n + 1
    BY <2>1, <2>2
  <2>10. Append(d, c) \in V
    BY <1>1, <1>2, <2>2, <2>8, <2>9
  <2> QED BY <2>1, <2>7, <2>9, <2>10
<1>4. <<>> \in V /\ Len(<<>>) = 0
  BY <1>2
<1>5. step \in [V -> V]
  BY <1>3
<1>6. PICK h : Chain(V, <<>>, step, L, h)
  <2> HIDE DEF step
  <2> QED BY <1>4, <1>5, ChainsExist
<1>7. /\ h \in [0 .. L -> V] /\ h[0] = <<>>
      /\ \A n \in 0 .. L : n < L => h[n + 1] = step[h[n]]
  BY <1>6 DEF Chain
<1> DEFINE T == {n \in Nat : n <= L => Len(h[n]) = n}
<1>8. 0 \in T
  BY <1>4, <1>7
<1>9. ASSUME NEW n \in Nat, n \in T PROVE n + 1 \in T
  <2> SUFFICES ASSUME n + 1 <= L PROVE Len(h[n + 1]) = n + 1
    OBVIOUS
  <2>1. n \in 0 .. L /\ n < L
    OBVIOUS
  <2>2. h[n] \in V /\ Len(h[n]) = n /\ h[n + 1] = step[h[n]]
    <3>1. Len(h[n]) = n
      BY <1>9, <2>1
    <3>2. h[n] \in V
      BY <1>7, <2>1
    <3> HIDE DEF step
    <3>3. h[n + 1] = step[h[n]]
      BY <1>7, <2>1
    <3> QED BY <3>1, <3>2, <3>3
  <2>3. PICK d \in V : d = h[n]
    BY <2>2
  <2>4. Len(d) < L
    BY <2>1, <2>2, <2>3
  <2>5. h[n + 1] = Extended(d)
    BY <2>2, <2>3, <2>4
  <2> QED BY <1>3, <2>2, <2>3, <2>4, <2>5
<1>10. \A n \in Nat : n <= L => Len(h[n]) = n
  <2>1. \A n \in Nat : n \in T
    <3> HIDE DEF T
    <3> QED BY <1>8, <1>9, SetOfAllNaturals
  <2> QED BY <2>1
<1>11. h = DigitsStep(rs, h)
  <2>1. ASSUME NEW n \in 0 .. L PROVE h[n] = DigitsStep(rs, h)[n]
    <3>1. CASE n = 0
      BY <1>1, <1>7, <3>1 DEF DigitsStep
    <3>2. CASE n # 0
      <4>1. PICK k \in Nat : k = n - 1 /\ n = k + 1 /\ k \in 0 .. L /\ k < L /\ k <= L
        <5>1. n - 1 \in Nat /\ n = (n - 1) + 1 /\ n - 1 \in 0 .. L /\ n - 1 < L /\ n - 1 <= L
          BY <3>2
        <5> QED BY <5>1
      <4>2. h[k] \in V /\ Len(h[k]) = k /\ h[n] = step[h[k]]
        BY <1>7, <1>10, <4>1
      <4>3. PICK d \in V : d = h[k]
        BY <4>2
      <4>4. Len(d) = k /\ Len(d) < L
        BY <4>1, <4>2, <4>3
      <4>5. h[n] = Append(d, NextDigit(d, k + 1, rs[k + 1]))
        BY <4>2, <4>3, <4>4
      <4>6. DigitsStep(rs, h)[n] = Append(h[n - 1], NextDigit(h[n - 1], n, rs[n]))
        BY <1>1, <3>2 DEF DigitsStep
      <4> QED BY <4>1, <4>3, <4>5, <4>6
    <3> QED BY <3>1, <3>2
  <2>2. DOMAIN DigitsStep(rs, h) = 0 .. L /\ DOMAIN h = 0 .. L
    BY <1>1, <1>7 DEF DigitsStep
  <2>3. DigitsStep(rs, h) = [n \in 0 .. L |-> DigitsStep(rs, h)[n]]
    BY <1>1 DEF DigitsStep
  <2>4. h = [n \in 0 .. L |-> h[n]]
    BY <1>7
  <2>5. [n \in 0 .. L |-> h[n]] = [n \in 0 .. L |-> DigitsStep(rs, h)[n]]
    BY <2>1
  <2> QED BY <2>3, <2>4, <2>5
<1> QED BY <1>11 DEF AllDigits

\* The digits denote the number below the product of the primes that has
\* these remainders.
Denotes(d, n, rs) ==
  /\ d \in Seq(Int) /\ Len(d) = n
  /\ Mixed(d) \in 0 .. Whole(n) - 1
  /\ \A i \in 1 .. n : Same(Mixed(d), rs[i], Base(i))

LEMMA DigitDenotes ==
  ASSUME NEW rs \in Seq(Int), NEW n \in Nat, n < Len(rs), Len(rs) <= Len(Primes),
         NEW d, Denotes(d, n, rs)
  PROVE  Denotes(Append(d, NextDigit(d, n + 1, rs[n + 1])), n + 1, rs)
<1>0. /\ Len(rs) \in Nat /\ Len(Primes) \in Nat /\ n < Len(Primes) /\ n <= Len(Primes)
      /\ n + 1 \in 1 .. Len(Primes) /\ rs[n + 1] \in Int
      /\ d \in Seq(Int) /\ Len(d) = n /\ Len(d) < Len(Primes) /\ Len(d) <= Len(Primes)
  BY BaseFacts DEF Denotes
<1>1. PICK p \in Nat \ {0}, w \in Nat \ {0}, v \in Int :
         p = Base(n + 1) /\ w = Whole(n) /\ v = Mixed(d)
  BY <1>0, BaseFacts, WholeFacts, WeightedFacts
<1>2. v \in 0 .. w - 1 /\ \A i \in 1 .. n : Same(v, rs[i], Base(i))
  BY <1>1 DEF Denotes
<1>3. PICK c \in 0 .. p - 1 : c = NextDigit(d, n + 1, rs[n + 1])
  BY <1>0, <1>1, NextDigitFacts
<1>4. c \in Int /\ c \in Nat
  OBVIOUS
<1>5. Mixed(Append(d, c)) = v + c * w
  BY <1>0, <1>1, <1>4, MixedAppend
<1>6. Append(d, c) \in Seq(Int)
  BY <1>0, <1>4
<1>7. Len(Append(d, c)) = n + 1
  BY <1>0
<1>8. Whole(n + 1) = p * w
  BY <1>0, <1>1, WholeFacts
<1>9. v + c * w \in 0 .. (p * w) - 1
  <2>1. PICK x \in Nat, y \in Nat : x = c * w /\ y = p * w
    BY <1>4
  <2>2. (c + 1) * w = x + w
    BY <1>4, <2>1
  <2>3. (c + 1) * w <= y
    <3>1. PICK e \in Nat : p = (c + 1) + e
      <4>1. p - (c + 1) \in Nat /\ p = (c + 1) + (p - (c + 1))
        BY <1>4
      <4> QED BY <4>1
    <3>2. y = (c + 1) * w + e * w
      BY <1>4, <2>1, <3>1
    <3>3. e * w >= 0 /\ e * w \in Int /\ (c + 1) * w \in Int
      BY <1>4
    <3>4. PICK a1 \in Int, a2 \in Int : a1 = (c + 1) * w /\ a2 = e * w
      BY <3>3
    <3> QED BY <3>2, <3>3, <3>4
  <2>4. x + w <= y
    BY <2>2, <2>3
  <2>5. v + x \in 0 .. y - 1
    BY <1>2, <2>4
  <2> QED BY <2>1, <2>5
<1>10. ASSUME NEW i \in 1 .. n + 1 PROVE Same(v + c * w, rs[i], Base(i))
  <2>1. CASE i = n + 1
    BY <1>0, <1>1, <1>3, <2>1, NextDigitFacts
  <2>2. CASE i # n + 1
    <3>1. i \in 1 .. n /\ i \in 1 .. Len(Primes) /\ i \in 1 .. Len(rs)
      BY <1>0, <2>2
    <3>2. PICK b \in Nat \ {0}, r \in Int : b = Base(i) /\ r = rs[i]
      BY <3>1, BaseFacts
    <3>3. Same(v, r, b)
      BY <1>2, <3>1, <3>2
    <3>4. Same(w, 0, b)
      <4>1. Bases(n) \subseteq Int /\ Base(i) \in Bases(n) /\ Numbers(Bases(n))
        BY <1>0, <3>1, WholeFacts DEF Bases, Numbers
      <4>2. ProductOf(Bases(n)) = b * ProductOf(Bases(n) \ {b}) /\ Numbers(Bases(n) \ {b})
        BY <3>2, <4>1, ProductWithout
      <4>3. PICK q \in Int : q = ProductOf(Bases(n) \ {b})
        BY <4>2, ProductType
      <4>4. w = 0 + q * b
        BY <1>1, <4>2, <4>3 DEF Whole
      <4> QED BY <4>4 DEF Same
    <3>5. PICK k1 \in Int, k2 \in Int : v = r + k1 * b /\ w = 0 + k2 * b
      BY <3>3, <3>4 DEF Same
    <3>6. v + c * w = r + (k1 + c * k2) * b
      <4>1. c * w = (c * k2) * b
        BY <1>4, <3>5
      <4>2. PICK e \in Int : e = c * k2
        BY <1>4
      <4>3. (k1 + e) * b = k1 * b + e * b
        OBVIOUS
      <4>4. PICK a1 \in Int, a2 \in Int : a1 = k1 * b /\ a2 = e * b
        OBVIOUS
      <4> QED BY <3>5, <4>1, <4>2, <4>3, <4>4
    <3>7. k1 + c * k2 \in Int
      BY <1>4
    <3> QED BY <3>2, <3>6, <3>7 DEF Same
  <2> QED BY <2>1, <2>2
<1>11. Denotes(Append(d, c), n + 1, rs)
  BY <1>5, <1>6, <1>7, <1>8, <1>9, <1>10 DEF Denotes
<1> QED BY <1>3, <1>11

LEMMA DigitsDenote ==
  ASSUME NEW rs \in Seq(Int), Len(rs) <= Len(Primes)
  PROVE  Denotes(Digits(rs), Len(rs), rs)
<1>0. Len(rs) \in Nat
  OBVIOUS
<1>1. PICK g : g = AllDigits(rs)
  OBVIOUS
<1>2. g = DigitsStep(rs, g)
  BY <1>1, DigitsEquation
<1>3. g[0] = <<>>
  BY <1>0, <1>2 DEF DigitsStep
<1>4. ASSUME NEW n \in Nat, n < Len(rs)
      PROVE  g[n + 1] = Append(g[n], NextDigit(g[n], n + 1, rs[n + 1]))
  <2>1. n + 1 \in 0 .. Len(rs) /\ n + 1 # 0 /\ (n + 1) - 1 = n
    BY <1>0, <1>4
  <2> QED BY <1>2, <2>1 DEF DigitsStep
<1> DEFINE T == {n \in Nat : n <= Len(rs) => Denotes(g[n], n, rs)}
<1>5. 0 \in T
  <2>1. Weighted(<<>>) = [j \in {} |-> <<>>[j] * Whole(j - 1)] /\ 1 .. Len(<<>>) = {}
    BY DEF Weighted
  <2>2. Mixed(<<>>) = 0
    BY <2>1, SumOfNone DEF Mixed
  <2>3. Whole(0) = 1
    BY WholeFacts
  <2>4. Denotes(<<>>, 0, rs)
    BY <2>2, <2>3 DEF Denotes
  <2> QED BY <1>3, <2>4
<1>6. ASSUME NEW n \in Nat, n \in T PROVE n + 1 \in T
  <2> SUFFICES ASSUME n + 1 <= Len(rs) PROVE Denotes(g[n + 1], n + 1, rs)
    OBVIOUS
  <2>1. n < Len(rs) /\ n <= Len(rs)
    BY <1>0
  <2>2. Denotes(g[n], n, rs)
    BY <1>6, <2>1
  <2> QED BY <1>4, <2>1, <2>2, DigitDenotes
<1>7. Len(rs) \in T
  <2> HIDE DEF T
  <2> QED BY <1>0, <1>5, <1>6, SetOfAllNaturals
<1> QED BY <1>0, <1>1, <1>7, DigitsAre

\* The Chinese remainder theorem: the digits are those of the only candidate.
LEMMA DigitsOfNumber ==
  ASSUME NEW rs \in Seq(Int), NEW L \in Nat, L = Len(rs), L <= Len(Primes),
         NEW C \in 0 .. Whole(L) - 1, \A i \in 1 .. L : Same(C, rs[i], Base(i))
  PROVE  Mixed(Digits(rs)) = C
<1>1. PICK w \in Nat \ {0} : w = Whole(L)
  BY WholeFacts
<1>2. PICK v \in 0 .. w - 1 : v = Mixed(Digits(rs)) /\ \A i \in 1 .. L : Same(v, rs[i], Base(i))
  BY <1>1, DigitsDenote DEF Denotes
<1>3. v \in Int /\ C \in Int /\ w \in Int /\ C \in 0 .. w - 1 /\ C - v \in Int
  BY <1>1
<1>4. ASSUME NEW i \in 1 .. L PROVE Same(C - v, 0, Base(i))
  <2>1. PICK b \in Int, r \in Int : b = Base(i) /\ r = rs[i]
    <3>1. i \in 1 .. Len(Primes) /\ i \in 1 .. Len(rs)
      BY BaseFacts
    <3> QED BY <3>1, BaseFacts
  <2>2. Same(C, r, b) /\ Same(v, r, b)
    BY <1>2, <2>1
  <2>3. PICK k1 \in Int, k2 \in Int : C = r + k1 * b /\ v = r + k2 * b
    BY <2>2 DEF Same
  <2>4. C - v = 0 + (k1 - k2) * b
    <3>1. PICK a1 \in Int, a2 \in Int : a1 = k1 * b /\ a2 = k2 * b
      OBVIOUS
    <3>2. (k1 - k2) * b = a1 - a2
      BY <3>1
    <3> QED BY <1>3, <2>3, <3>1, <3>2
  <2>5. k1 - k2 \in Int
    OBVIOUS
  <2> QED BY <2>1, <2>4, <2>5 DEF Same
<1>5. Same(C - v, 0, w)
  BY <1>1, <1>3, <1>4, WholeDivides
<1>6. PICK k \in Int : C - v = 0 + k * w
  BY <1>5 DEF Same
<1>7. C = v + k * w
  <2>1. PICK x \in Int : x = k * w
    BY <1>3
  <2> QED BY <1>3, <1>6, <2>1
<1>8. Same(C, v, w)
  BY <1>7 DEF Same
<1>9. C = v
  BY <1>3, <1>8, SameOfSmall
<1> QED BY <1>2, <1>9

LEMMA ReconstructedIs ==
  ASSUME NEW m \in Nat \ {0}, m = modulus,
         NEW rs \in Seq(Int), NEW L \in Nat, L = Len(rs), L <= Len(Primes),
         NEW C \in 0 .. Whole(L) - 1, \A i \in 1 .. L : Same(C, rs[i], Base(i))
  PROVE  Reconstructed(rs) = C % m
<1>1. PICK d : d = Digits(rs)
  OBVIOUS
<1>2. d \in Seq(Int) /\ Len(d) = L /\ Len(d) <= Len(Primes)
  BY <1>1, DigitsDenote DEF Denotes
<1>3. Mixed(d) = C
  BY <1>1, DigitsOfNumber
<1>4. PICK f : f = [i \in DOMAIN d |-> (d[i] % m) * PrefixProduct(i - 1, m)]
  OBVIOUS
<1>5. Reconstructed(rs) = Total(f) % m
  BY <1>1, <1>4 DEF Reconstructed
<1>6. DOMAIN f = 1 .. Len(d)
  BY <1>2, <1>4
<1>7. ASSUME NEW j \in 1 .. Len(d)
      PROVE  f[j] \in Int /\ Same(f[j], d[j] * Whole(j - 1), m)
  <2>1. PICK y \in Int : y = d[j]
    BY <1>2
  <2>2. y % m \in 0 .. m - 1 /\ Same(y % m, y, m)
    BY SameAsRest
  <2>3. PICK x \in Int : x = y % m /\ Same(x, d[j], m)
    <3>1. y % m \in Int
      BY <2>2
    <3> QED BY <2>1, <2>2, <3>1
  <2>4. f[j] = x * PrefixProduct(j - 1, m)
    BY <1>2, <1>4, <2>1, <2>3
  <2> QED BY <1>2, <2>3, <2>4, TermIsWeighted
<1>8. Total(f) \in Int /\ Same(Total(f), C, m)
  BY <1>2, <1>3, <1>6, <1>7, TotalIsMixed
<1>9. C \in Int
  <2>1. Whole(L) \in Int
    BY WholeFacts
  <2> QED BY <2>1
<1> QED BY <1>5, <1>8, <1>9, RestsOfSame

(* -------------------------------- bounds ------------------------------- *)

\* A coefficient of a product of residues.
Bounded(f, B) == f \in Series /\ \A k \in Nat : f[k] \in 0 .. B

LEMMA ConvIsBounded ==
  ASSUME NEW B \in Nat, NEW g, Bounded(g, B)
  PROVE  \A d \in Nat : \A f : Bounded(f, B) /\ Short(f, d) =>
           \A k \in Nat : Conv(f, g)[k] \in 0 .. d * (B * B)
<1>0. PICK E \in Nat : E = B * B
  OBVIOUS
<1>1. g \in Series /\ \A k \in Nat : g[k] \in Nat /\ g[k] <= B
  BY DEF Bounded
<1> DEFINE Good(d) == \A f : Bounded(f, B) /\ Short(f, d) =>
                        \A k \in Nat : Conv(f, g)[k] \in 0 .. d * E
           T == {d \in Nat : Good(d)}
<1>2. ASSUME NEW x \in 0 .. B, NEW y \in 0 .. B PROVE x * y \in 0 .. E
  <2>1. x \in Nat /\ y \in Nat /\ x <= B /\ y <= B
    OBVIOUS
  <2>2. PICK e \in Nat, h \in Nat : B = x + e /\ B = y + h
    <3>1. B - x \in Nat /\ B - y \in Nat /\ B = x + (B - x) /\ B = y + (B - y)
      BY <2>1
    <3> QED BY <3>1
  <2>3. PICK a1 \in Nat, a2 \in Nat, a3 \in Nat : a1 = x * y /\ a2 = x * h /\ a3 = e * B
    <3>1. x * y \in Nat /\ x * h \in Nat /\ e * B \in Nat
      BY <2>1
    <3> QED BY <3>1
  <2>4. B * B = x * B + e * B
    BY <2>1, <2>2
  <2>5. x * B = x * y + x * h
    BY <2>1, <2>2
  <2>6. E = a1 + a2 + a3
    BY <1>0, <2>3, <2>4, <2>5
  <2> QED BY <2>3, <2>6
<1>3. 0 \in T
  <2> SUFFICES ASSUME NEW f, Bounded(f, B), Short(f, 0), NEW k \in Nat
               PROVE  Conv(f, g)[k] \in 0 .. 0 * E
    OBVIOUS
  <2>1. f \in Series /\ \A i \in Nat : f[i] = 0
    BY DEF Bounded, Short
  <2>2. f = Constant(0)
    <3>1. Constant(0) \in Series /\ \A i \in Nat : Constant(0)[i] = 0
      BY DEF Constant, Series
    <3> QED BY <2>1, <3>1, SeriesAreEqual
  <2>3. Conv(f, g)[k] = 0 * g[k]
    BY <1>1, <2>2, ConvOfConstant
  <2>4. g[k] \in Int
    BY <1>1
  <2> QED BY <2>3, <2>4
<1>4. ASSUME NEW d \in Nat, d \in T PROVE d + 1 \in T
  <2>1. ASSUME NEW f, Bounded(f, B), Short(f, d + 1), NEW k \in Nat
        PROVE  Conv(f, g)[k] \in 0 .. (d + 1) * E
    <3>1. f \in Series /\ f[0] \in 0 .. B /\ \A i \in Nat : f[i] \in 0 .. B
      BY <2>1 DEF Bounded
    <3>2. PICK s : s = Shift(f)
      OBVIOUS
    <3>3. s \in Series /\ \A i \in Nat : s[i] = f[i + 1]
      BY <3>1, <3>2, SeriesTypes DEF Shift
    <3>4. Bounded(s, B)
      BY <3>1, <3>3 DEF Bounded
    <3>5. Short(s, d)
      <4> SUFFICES ASSUME NEW i \in Nat, i >= d PROVE s[i] = 0
        BY DEF Short
      <4>1. i + 1 \in Nat /\ i + 1 >= d + 1
        OBVIOUS
      <4> QED BY <2>1, <3>3, <4>1 DEF Short
    <3>6. \A i \in Nat : Conv(s, g)[i] \in 0 .. d * E
      BY <1>4, <3>4, <3>5
    <3>7. PICK F \in Nat : F = d * E /\ (d + 1) * E = F + E
      <4>1. d * E \in Nat /\ (d + 1) * E = d * E + E
        OBVIOUS
      <4> QED BY <4>1
    <3>8. CASE k = 0
      <4>1. Conv(f, g)[0] = f[0] * g[0]
        BY <1>1, <3>1, ConvStarts
      <4>2. f[0] * g[0] \in 0 .. E
        <5>1. g[0] \in 0 .. B
          BY <1>1
        <5> QED BY <1>2, <3>1, <5>1
      <4> QED BY <3>7, <3>8, <4>1, <4>2
    <3>9. CASE k # 0
      <4>1. PICK i \in Nat : k = i + 1
        <5>1. k - 1 \in Nat /\ k = (k - 1) + 1
          BY <3>9
        <5> QED BY <5>1
      <4>2. Conv(f, g)[i + 1] = f[0] * g[i + 1] + Conv(s, g)[i]
        BY <1>1, <3>1, <3>2, ConvContinues
      <4>3. f[0] * g[i + 1] \in 0 .. E
        <5>1. g[i + 1] \in 0 .. B
          BY <1>1
        <5> QED BY <1>2, <3>1, <5>1
      <4>4. PICK x \in Nat, y \in Nat : x = f[0] * g[i + 1] /\ y = Conv(s, g)[i] /\ x <= E /\ y <= F
        <5>1. Conv(s, g)[i] \in 0 .. F
          BY <3>6, <3>7
        <5> QED BY <4>3, <5>1
      <4> QED BY <3>7, <4>1, <4>2, <4>4
    <3> QED BY <3>8, <3>9
  <2> QED BY <2>1
<1>5. \A d \in Nat : d \in T
  <2> HIDE DEF T
  <2> QED BY <1>3, <1>4, SetOfAllNaturals
<1> QED BY <1>0, <1>5

LEMMA CoefficientBound ==
  ASSUME NEW m \in Nat \ {0}, NEW P \in Poly(m), NEW Q \in Poly(m), NEW k \in Nat
  PROVE  Conv(Ser(P), Ser(Q))[k] \in 0 .. Lesser(Len(P), Len(Q)) * ((m - 1) * (m - 1))
<1>1. PICK B \in Nat : B = m - 1
  OBVIOUS
<1>2. ASSUME NEW R \in Poly(m)
      PROVE  /\ Len(R) \in Nat /\ Bounded(Ser(R), B) /\ Short(Ser(R), Len(R))
             /\ Ser(R) \in Series
  BY <1>1, PolyFacts DEF Bounded, Short
<1>3. Conv(Ser(P), Ser(Q))[k] \in 0 .. Len(P) * (B * B)
  BY <1>2, ConvIsBounded
<1>4. Conv(Ser(Q), Ser(P))[k] \in 0 .. Len(Q) * (B * B)
  BY <1>2, ConvIsBounded
<1>5. Conv(Ser(P), Ser(Q)) = Conv(Ser(Q), Ser(P))
  BY <1>2, ConvCommutes
<1>6. Lesser(Len(P), Len(Q)) = Len(P) \/ Lesser(Len(P), Len(Q)) = Len(Q)
  BY DEF Lesser
<1> QED BY <1>1, <1>3, <1>4, <1>5, <1>6

LEMMA BitWidthFacts ==
  ASSUME NEW n \in Nat
  PROVE  BitWidth(n) \in Nat /\ n < PowerOfTwo(BitWidth(n))
<1>1. n + 1 \in Nat
  OBVIOUS
<1>2. PICK r \in Nat : r = Rounds(n + 1) /\ PowerOfTwo(r) >= n + 1
  BY <1>1, RoundsFacts
<1>3. PowerOfTwo(r) \in Nat
  BY TwoPowersGrow
<1> QED BY <1>2, <1>3 DEF BitWidth

LEMMA StrictProduct ==
  ASSUME NEW a \in Nat, NEW b \in Nat, NEW c \in Nat, NEW d \in Nat, a < c, b < d
  PROVE  a * b \in Nat /\ a * b < c * d
<1>1. PICK e \in Nat, f \in Nat : c = a + 1 + e /\ d = b + 1 + f
  <2>1. c - a - 1 \in Nat /\ d - b - 1 \in Nat /\ c = a + 1 + (c - a - 1) /\ d = b + 1 + (d - b - 1)
    OBVIOUS
  <2> QED BY <2>1
<1>2. PICK x \in Nat, y \in Nat, z \in Nat : x = a * b /\ y = a * (1 + f) /\ z = (1 + e) * d
  <2>1. a * b \in Nat /\ a * (1 + f) \in Nat /\ (1 + e) * d \in Nat
    OBVIOUS
  <2> QED BY <2>1
<1>3. c * d = a * d + (1 + e) * d
  <2>1. c = a + (1 + e)
    BY <1>1
  <2> QED BY <2>1
<1>4. a * d = a * b + a * (1 + f)
  <2>1. d = b + (1 + f)
    BY <1>1
  <2> QED BY <2>1
<1>5. z = d + e * d
  BY <1>2
<1>6. e * d >= 0 /\ e * d \in Int
  OBVIOUS
<1>7. PICK g \in Int : g = e * d /\ g >= 0
  BY <1>6
<1>8. z >= 1
  BY <1>5, <1>7
<1> QED BY <1>2, <1>3, <1>4, <1>8

\* The bits that are required hold every coefficient.
LEMMA RequiredBitsHold ==
  ASSUME NEW m \in Nat \ {0}, m = modulus, NEW terms \in Nat
  PROVE  /\ RequiredBits(terms) \in Nat
         /\ terms * ((m - 1) * (m - 1)) < PowerOfTwo(RequiredBits(terms))
<1>1. PICK B \in Nat : B = m - 1
  OBVIOUS
<1>2. PICK u \in Nat, v \in Nat : u = BitWidth(B) /\ v = BitWidth(terms)
  BY BitWidthFacts
<1>3. PICK x \in Nat, y \in Nat :
         x = PowerOfTwo(u) /\ y = PowerOfTwo(v) /\ B < x /\ terms < y
  BY <1>2, BitWidthFacts, TwoPowersGrow
<1>4. RequiredBits(terms) = v + (u + u)
  BY <1>1, <1>2 DEF RequiredBits
<1>5. PowerOfTwo(u + u) = x * x
  BY <1>3, TwoPowersGrow
<1>6. PowerOfTwo(v + (u + u)) = y * (x * x)
  <2>1. u + u \in Nat
    OBVIOUS
  <2> QED BY <1>3, <1>5, <2>1, TwoPowersGrow
<1>7. PICK b2 \in Nat, x2 \in Nat : b2 = B * B /\ x2 = x * x /\ b2 < x2
  BY <1>3, StrictProduct
<1>8. terms * b2 < y * x2
  BY <1>3, <1>7, StrictProduct
<1>9. v + (u + u) \in Nat
  OBVIOUS
<1> QED BY <1>1, <1>4, <1>6, <1>7, <1>8, <1>9

BitsOf(n) == Total([i \in 1 .. n |-> Primes[i].bits])

LEMMA BitsBelowWhole ==
  ASSUME NEW L \in Nat, L <= Len(Primes)
  PROVE  BitsOf(L) \in Nat /\ PowerOfTwo(BitsOf(L)) <= Whole(L)
<1>0. Len(Primes) \in Nat
  BY BaseFacts
<1>1. PICK f : f = [i \in 1 .. Len(Primes) |-> Primes[i].bits]
  OBVIOUS
<1>2. \A i \in 1 .. Len(Primes) : /\ f[i] = Primes[i].bits /\ f[i] \in Nat /\ f[i] \in Int
                                  /\ PowerOfTwo(f[i]) <= Base(i)
  <2> SUFFICES ASSUME NEW i \in 1 .. Len(Primes)
               PROVE  /\ f[i] = Primes[i].bits /\ f[i] \in Nat /\ f[i] \in Int
                      /\ PowerOfTwo(f[i]) <= Base(i)
    OBVIOUS
  <2>1. TransformPrime(Primes[i])
    BY BaseFacts
  <2>2. Primes[i].bits \in Nat /\ PowerOfTwo(Primes[i].bits) <= Base(i)
    BY <2>1, TransformPrimeFacts DEF Base
  <2> QED BY <1>1, <2>2
<1>3. ASSUME NEW n \in Nat, n <= Len(Primes)
      PROVE  Summable(f, 1 .. n) /\ BitsOf(n) = SumOver(f, 1 .. n) /\ BitsOf(n) \in Nat
  <2>1. IsFiniteSet(1 .. n) /\ \A i \in 1 .. n : i \in 1 .. Len(Primes)
    BY <1>0, <1>3, FS_Interval
  <2>2. \A i \in 1 .. n : f[i] \in Nat
    BY <1>2, <2>1
  <2>3. Summable(f, 1 .. n) /\ SumOver(f, 1 .. n) \in Nat
    BY <2>1, <2>2, SumOfNaturals
  <2>4. PICK g : g = [i \in 1 .. n |-> Primes[i].bits]
    OBVIOUS
  <2>5. DOMAIN g = 1 .. n /\ \A i \in 1 .. n : g[i] = f[i]
    BY <1>2, <2>1, <2>4
  <2>6. SumOver(g, 1 .. n) = SumOver(f, 1 .. n)
    BY <2>3, <2>5, SumEqual
  <2>7. BitsOf(n) = SumOver(g, 1 .. n)
    BY <2>4, <2>5, TotalIsSum DEF BitsOf
  <2> QED BY <2>3, <2>6, <2>7
<1> DEFINE T == {n \in Nat : n <= L => PowerOfTwo(BitsOf(n)) <= Whole(n)}
<1>4. 0 \in T
  <2>1. BitsOf(0) = 0
    <3>1. 0 <= Len(Primes) /\ 1 .. 0 = {}
      BY <1>0
    <3> QED BY <1>3, <3>1, SumOfNone
  <2>2. PowerOfTwo(0) = 1 /\ Whole(0) = 1
    BY PowersOfTwo, WholeFacts
  <2> QED BY <2>1, <2>2
<1>5. ASSUME NEW n \in Nat, n \in T PROVE n + 1 \in T
  <2> SUFFICES ASSUME n + 1 <= L PROVE PowerOfTwo(BitsOf(n + 1)) <= Whole(n + 1)
    OBVIOUS
  <2>1. n <= L /\ n < Len(Primes) /\ n <= Len(Primes) /\ n + 1 <= Len(Primes)
        /\ n + 1 \in 1 .. Len(Primes) /\ n + 1 \in Nat
    BY <1>0
  <2>2. PICK s \in Nat, t \in Nat : s = BitsOf(n) /\ t = f[n + 1]
    BY <1>2, <1>3, <2>1
  <2>3. BitsOf(n + 1) = s + t
    <3>1. n + 1 \in 1 .. n + 1 /\ (1 .. n + 1) \ {n + 1} = 1 .. n
      OBVIOUS
    <3>2. SumOver(f, 1 .. n + 1) = f[n + 1] + SumOver(f, 1 .. n)
      BY <1>3, <2>1, <3>1, SumWithout
    <3>3. BitsOf(n + 1) = SumOver(f, 1 .. n + 1) /\ s = SumOver(f, 1 .. n)
      BY <1>3, <2>1, <2>2
    <3> QED BY <2>2, <3>2, <3>3
  <2>4. PICK x \in Nat, y \in Nat, w \in Nat, b \in Nat :
          x = PowerOfTwo(s) /\ y = PowerOfTwo(t) /\ w = Whole(n) /\ b = Base(n + 1)
    BY <2>1, TwoPowersGrow, WholeFacts, BaseFacts
  <2>5. PowerOfTwo(s + t) = x * y
    BY <2>4, TwoPowersGrow
  <2>6. x <= w /\ y <= b
    BY <1>2, <1>5, <2>1, <2>2, <2>4
  <2>7. x * y <= b * w
    <3>1. PICK e \in Nat, h \in Nat : w = x + e /\ b = y + h
      <4>1. w - x \in Nat /\ b - y \in Nat /\ w = x + (w - x) /\ b = y + (b - y)
        BY <2>6
      <4> QED BY <4>1
    <3>2. b * w = y * w + h * w
      BY <3>1
    <3>3. y * w = x * y + y * e
      BY <3>1
    <3>4. PICK a1 \in Nat, a2 \in Nat, a3 \in Nat : a1 = x * y /\ a2 = y * e /\ a3 = h * w
      <4>1. x * y \in Nat /\ y * e \in Nat /\ h * w \in Nat
        OBVIOUS
      <4> QED BY <4>1
    <3> QED BY <3>2, <3>3, <3>4
  <2>8. Whole(n + 1) = b * w
    BY <2>1, <2>4, WholeFacts
  <2> QED BY <2>3, <2>5, <2>7, <2>8
<1>6. L \in T
  <2> HIDE DEF T
  <2> QED BY <1>4, <1>5, SetOfAllNaturals
<1> QED BY <1>3, <1>6

LEMMA WholeGrows ==
  ASSUME NEW a \in Nat
  PROVE  \A b \in Nat : a <= b /\ b <= Len(Primes) => Whole(a) <= Whole(b)
<1>0. Len(Primes) \in Nat
  BY BaseFacts
<1> DEFINE T == {d \in Nat : a + d <= Len(Primes) => Whole(a) <= Whole(a + d)}
<1>1. 0 \in T
  <2>1. a + 0 = a
    OBVIOUS
  <2>2. a <= Len(Primes) => Whole(a) \in Nat
    BY WholeFacts
  <2> QED BY <2>1, <2>2
<1>2. ASSUME NEW d \in Nat, d \in T PROVE d + 1 \in T
  <2> SUFFICES ASSUME a + (d + 1) <= Len(Primes) PROVE Whole(a) <= Whole(a + (d + 1))
    OBVIOUS
  <2>1. PICK n \in Nat : n = a + d
    OBVIOUS
  <2>2. n < Len(Primes) /\ n <= Len(Primes) /\ a <= Len(Primes) /\ n + 1 \in 1 .. Len(Primes)
        /\ a + (d + 1) = n + 1
    BY <1>0, <2>1
  <2>3. PICK w \in Nat, v \in Nat, b \in Nat \ {0} : w = Whole(n) /\ v = Whole(a) /\ b = Base(n + 1)
    BY <2>2, WholeFacts, BaseFacts
  <2>4. Whole(n + 1) = b * w
    BY <2>2, <2>3, WholeFacts
  <2>5. b * w >= w
    <3>1. PICK e \in Nat : b = 1 + e
      <4>1. b - 1 \in Nat /\ b = 1 + (b - 1)
        OBVIOUS
      <4> QED BY <4>1
    <3>2. b * w = w + e * w /\ e * w \in Nat
      BY <3>1
    <3>3. PICK z \in Nat : z = e * w
      BY <3>2
    <3> QED BY <3>2, <3>3
  <2>6. v <= w
    BY <1>2, <2>1, <2>2, <2>3
  <2>7. PICK y \in Nat : y = b * w
    OBVIOUS
  <2> QED BY <2>2, <2>3, <2>4, <2>5, <2>6, <2>7
<1>3. \A d \in Nat : d \in T
  <2> HIDE DEF T
  <2> QED BY <1>1, <1>2, SetOfAllNaturals
<1>4. ASSUME NEW b \in Nat, a <= b, b <= Len(Primes) PROVE Whole(a) <= Whole(b)
  <2>1. PICK d \in Nat : b = a + d
    <3>1. b - a \in Nat /\ b = a + (b - a)
      BY <1>4
    <3> QED BY <3>1
  <2> QED BY <1>3, <1>4, <2>1
<1> QED BY <1>4

\* The primes that a product uses.
LEMMA PrimeCountFacts ==
  ASSUME NEW m \in Nat \ {0}, m = modulus, NEW u \in Nat \ {0}, NEW v \in Nat \ {0},
         policy.minimum_crt_primes \in 0 .. Len(Primes), ~TransformRefused(u, v)
  PROVE  /\ PrimeCount(u, v) \in 1 .. Len(Primes)
         /\ \A i \in 1 .. PrimeCount(u, v) :
              PowerOfTwo(Primes[i].power) >= BitCeil(u + v - 1)
         /\ Lesser(u, v) * ((m - 1) * (m - 1)) < Whole(PrimeCount(u, v))
<1>0. Len(Primes) \in Nat /\ DOMAIN Primes = 1 .. Len(Primes)
  BY BaseFacts
<1>1. PICK t \in Nat : t = Lesser(u, v)
  BY DEF Lesser
<1>2. PICK S : S = Sufficient(t)
  OBVIOUS
<1>3. /\ S # {}
      /\ \A i \in 1 .. PrimeCount(u, v) :
           ~(PowerOfTwo(Primes[i].power) < BitCeil(u + v - 1))
  BY <1>1, <1>2 DEF TransformRefused
<1>4. S \subseteq Nat /\ S \subseteq 1 .. Len(Primes)
  BY <1>0, <1>2 DEF Sufficient
<1>5. Min(S) \in S
  <2>1. \E x \in S : \A y \in S : x <= y
    BY <1>3, <1>4, LeastNatural
  <2> QED BY <2>1 DEF Min
<1>6. PICK a \in 1 .. Len(Primes) : a = Min(S) /\ BitsOf(a) >= RequiredBits(t)
  BY <1>0, <1>2, <1>4, <1>5 DEF Sufficient, BitsOf
<1>7. PICK c \in 0 .. Len(Primes) : c = policy.minimum_crt_primes
  OBVIOUS
<1>8. PICK L \in 1 .. Len(Primes) : L = PrimeCount(u, v) /\ a <= L
  <2>1. PrimeCount(u, v) = Max({a, c})
    BY <1>1, <1>2, <1>6, <1>7 DEF PrimeCount
  <2>2. a \in Int /\ c \in Int
    BY <1>0
  <2>3. \E x \in {a, c} : \A y \in {a, c} : x >= y
    BY <2>2
  <2>4. Max({a, c}) \in {a, c} /\ \A y \in {a, c} : Max({a, c}) >= y
    BY <2>3 DEF Max
  <2>5. PICK z : z = Max({a, c})
    OBVIOUS
  <2>6. z \in {a, c} /\ z >= a
    BY <2>4, <2>5
  <2>7. z \in 1 .. Len(Primes) /\ a <= z
    BY <1>0, <2>6
  <2> QED BY <2>1, <2>5, <2>7
<1>9. \A i \in 1 .. L : PowerOfTwo(Primes[i].power) >= BitCeil(u + v - 1)
  <2> SUFFICES ASSUME NEW i \in 1 .. L
               PROVE  PowerOfTwo(Primes[i].power) >= BitCeil(u + v - 1)
    OBVIOUS
  <2>1. i \in 1 .. Len(Primes)
    BY <1>0
  <2>2. Primes[i].power \in Nat
    BY <2>1, BaseFacts, TransformPrimeFacts
  <2>3. PICK x \in Nat : x = PowerOfTwo(Primes[i].power)
    BY <2>2, TwoPowersGrow
  <2>4. PICK y \in Nat : y = BitCeil(u + v - 1)
    <3>1. u + v - 1 \in Nat
      OBVIOUS
    <3>2. Rounds(u + v - 1) \in Nat
      BY <3>1, RoundsFacts
    <3> QED BY <3>2, TwoPowersGrow DEF BitCeil
  <2>5. ~(x < y)
    BY <1>3, <1>8, <2>3, <2>4
  <2> QED BY <2>3, <2>4, <2>5
<1>10. t * ((m - 1) * (m - 1)) < Whole(L)
  <2>1. PICK E \in Nat : E = t * ((m - 1) * (m - 1))
    <3>1. PICK B \in Nat : B = m - 1
      OBVIOUS
    <3>2. B * B \in Nat
      OBVIOUS
    <3>3. t * (B * B) \in Nat
      BY <3>2
    <3> QED BY <3>1, <3>3
  <2>2. PICK r \in Nat : r = RequiredBits(t) /\ E < PowerOfTwo(r)
    BY <2>1, RequiredBitsHold
  <2>3. PICK s \in Nat : s = BitsOf(a) /\ PowerOfTwo(s) <= Whole(a) /\ r <= s
    <3>1. a \in Nat /\ a <= Len(Primes)
      BY <1>0
    <3> QED BY <1>6, <2>2, <3>1, BitsBelowWhole
  <2>4. PowerOfTwo(r) <= PowerOfTwo(s)
    BY <2>3, TwoPowersGrow
  <2>5. Whole(a) <= Whole(L)
    <3>1. a \in Nat /\ L \in Nat /\ a <= L /\ L <= Len(Primes)
      BY <1>0, <1>8
    <3> QED BY <3>1, WholeGrows
  <2>6. PICK x \in Nat, y \in Nat, z \in Nat, w \in Nat :
          x = PowerOfTwo(r) /\ y = PowerOfTwo(s) /\ z = Whole(a) /\ w = Whole(L)
    <3>1. a \in Nat /\ L \in Nat /\ a <= Len(Primes) /\ L <= Len(Primes)
      BY <1>0
    <3> QED BY <3>1, TwoPowersGrow, WholeFacts
  <2> QED BY <2>1, <2>2, <2>3, <2>4, <2>5, <2>6
<1> QED BY <1>1, <1>8, <1>9, <1>10

\* What the primes together say of one coefficient.
RemaindersOf(rs, f, n, k, L) ==
  /\ L \in Nat /\ L <= Len(Primes) /\ n \in Nat /\ f \in Series /\ k \in 1 .. n
  /\ f[k - 1] \in 0 .. Whole(L) - 1
  /\ rs = [i \in 1 .. L |-> RestsTo(f, n, Base(i))[k]]

LEMMA CoefficientIs ==
  ASSUME NEW m \in Nat \ {0}, m = modulus,
         NEW rs, NEW f, NEW n, NEW k, NEW L, RemaindersOf(rs, f, n, k, L)
  PROVE  Reconstructed(rs) = f[k - 1] % m
<1> USE DEF RemaindersOf
<1>0. Len(Primes) \in Nat
  BY BaseFacts
<1>1. PICK C \in Int : C = f[k - 1]
  <2>1. k - 1 \in Nat
    OBVIOUS
  <2> QED BY <2>1 DEF Series
<1>2. ASSUME NEW i \in 1 .. L
      PROVE  rs[i] = C % Base(i) /\ rs[i] \in Int /\ Same(C, rs[i], Base(i))
  <2>1. PICK p \in Nat \ {0} : p = Base(i)
    <3>1. i \in 1 .. Len(Primes)
      BY <1>0
    <3> QED BY <3>1, BaseFacts
  <2>2. rs[i] = C % p
    <3>1. rs[i] = RestsTo(f, n, p)[k]
      BY <2>1
    <3>2. RestsTo(f, n, p)[k] = f[k - 1] % p
      BY DEF RestsTo
    <3> QED BY <1>1, <3>1, <3>2
  <2>3. C % p \in 0 .. p - 1 /\ Same(C, C % p, p)
    BY SameAsRest
  <2>4. C % p \in Int
    BY <2>3
  <2> QED BY <2>1, <2>2, <2>3, <2>4
<1>3. rs \in [1 .. L -> Int]
  BY <1>2
<1>4. rs \in Seq(Int) /\ Len(rs) = L
  BY <1>3, TupleIs
<1>5. C \in 0 .. Whole(L) - 1
  BY <1>1
<1> QED BY <1>1, <1>2, <1>4, <1>5, ReconstructedIs

\* What the client gets when every prime has contributed.
LEMMA CombinedIs ==
  ASSUME NEW m \in Nat \ {0}, m = modulus, NEW P \in Poly(m), NEW Q \in Poly(m),
         P = left, Q = right, P # <<>>, Q # <<>>,
         NEW L \in Nat, L <= Len(Primes),
         Lesser(Len(P), Len(Q)) * ((m - 1) * (m - 1)) < Whole(L),
         DOMAIN residues = 1 .. L,
         \A i \in 1 .. L :
           residues[i] = RestsTo(Conv(Ser(P), Ser(Q)), Len(P) + Len(Q) - 1, Base(i))
  PROVE  Combined = Product(P, Q, m)
<1>1. PICK n \in Nat : n = Len(P) + Len(Q) - 1
  BY ProductModulo
<1>2. PICK f \in Series : f = Conv(Ser(P), Ser(Q))
  BY ProductModulo
<1>3. Product(P, Q, m) = Trim(RestsTo(f, n, m))
  BY <1>1, <1>2, ProductModulo
<1>4. ASSUME NEW k \in 1 .. n
      PROVE  Reconstructed([i \in DOMAIN residues |-> residues[i][k]]) = f[k - 1] % m
  <2>1. [i \in DOMAIN residues |-> residues[i][k]] = [i \in 1 .. L |-> RestsTo(f, n, Base(i))[k]]
    BY <1>1, <1>2
  <2>2. f[k - 1] \in 0 .. Whole(L) - 1
    <3>1. k - 1 \in Nat
      OBVIOUS
    <3>2. f[k - 1] \in 0 .. Lesser(Len(P), Len(Q)) * ((m - 1) * (m - 1))
      BY <1>2, <3>1, CoefficientBound
    <3>3. Whole(L) \in Nat
      BY WholeFacts
    <3>4. PICK w \in Nat : w = Whole(L)
      BY <3>3
    <3>5. PICK E \in Nat : E = Lesser(Len(P), Len(Q)) * ((m - 1) * (m - 1))
      <4>1. PICK t \in Nat : t = Lesser(Len(P), Len(Q))
        BY PolyFacts DEF Lesser
      <4>2. PICK B \in Nat : B = m - 1
        OBVIOUS
      <4>3. B * B \in Nat
        OBVIOUS
      <4>4. t * (B * B) \in Nat
        BY <4>3
      <4> QED BY <4>1, <4>2, <4>4
    <3> QED BY <3>2, <3>4, <3>5
  <2>3. PICK rs : rs = [i \in 1 .. L |-> RestsTo(f, n, Base(i))[k]]
    OBVIOUS
  <2>4. Reconstructed(rs) = f[k - 1] % m
    <3>1. RemaindersOf(rs, f, n, k, L)
      BY <2>2, <2>3 DEF RemaindersOf
    <3> QED BY <3>1, CoefficientIs
  <2> QED BY <2>1, <2>3, <2>4
<1>5. [k \in 1 .. n |-> Reconstructed([i \in DOMAIN residues |-> residues[i][k]])]
        = RestsTo(f, n, m)
  BY <1>4 DEF RestsTo
<1>6. Combined = Trim([k \in 1 .. n |->
                         Reconstructed([i \in DOMAIN residues |-> residues[i][k]])])
  BY <1>1 DEF Combined
<1> QED BY <1>3, <1>5, <1>6

(* ------------------------------ the machine ---------------------------- *)

\* What depends on the ring alone stays while the ring stays.
LEMMA RingSteady ==
  ASSUME ring' = ring
  PROVE  /\ modulus' = modulus /\ policy' = policy /\ RingValid' = RingValid
         /\ \A t : RequiredBits(t)' = RequiredBits(t)
<1>1. modulus' = modulus /\ policy' = policy
  BY DEF modulus, policy
<1>2. RingValid' = RingValid
  BY <1>1 DEF RingValid
<1>3. \A t : RequiredBits(t)' = RequiredBits(t)
  BY <1>1 DEF RequiredBits
<1> QED BY <1>1, <1>2, <1>3

LEMMA RefusalSteady ==
  ASSUME ring' = ring, NEW u, NEW v
  PROVE  /\ PrimeCount(u, v)' = PrimeCount(u, v)
         /\ TransformRefused(u, v)' = TransformRefused(u, v)
         /\ Refused(u, v)' = Refused(u, v)
<1>1. PICK t : t = Lesser(u, v)
  OBVIOUS
<1>2. policy' = policy /\ RequiredBits(t)' = RequiredBits(t)
  BY RingSteady
<1>3. Sufficient(t)' = Sufficient(t)
  BY <1>2 DEF Sufficient
<1>4. PrimeCount(u, v)' = PrimeCount(u, v)
  BY <1>1, <1>2, <1>3 DEF PrimeCount
<1>5. TransformRefused(u, v)' = TransformRefused(u, v)
  BY <1>1, <1>2, <1>3, <1>4 DEF TransformRefused
<1>6. Refused(u, v)' = Refused(u, v)
  BY <1>2, <1>5 DEF Refused
<1> QED BY <1>4, <1>5, <1>6

\* Whether the current product is refused.
Denied == Refused(Len(left), Len(right))

LEMMA CallSteady ==
  ASSUME ring' = ring, call' = call
  PROVE  /\ left' = left /\ right' = right /\ Count' = Count /\ InBatch' = InBatch
         /\ Denied' = Denied
<1>1. left' = left /\ right' = right
  BY DEF left, right
<1>2. PICK u, v : u = Len(left) /\ v = Len(right)
  OBVIOUS
<1>3. PrimeCount(u, v)' = PrimeCount(u, v) /\ Refused(u, v)' = Refused(u, v)
  BY RefusalSteady
<1>4. Count = PrimeCount(u, v) /\ Denied = Refused(u, v)
  BY <1>2 DEF Count, Denied
<1>5. Count' = PrimeCount(u, v)' /\ Denied' = Refused(u, v)'
  BY <1>1, <1>2 DEF Count, Denied
<1>6. policy' = policy
  BY RingSteady
<1> QED BY <1>1, <1>3, <1>4, <1>5, <1>6 DEF InBatch

\* The rings that serve calls.
LEMMA ValidRing ==
  ASSUME ring \in Rings, RingValid
  PROVE  /\ modulus \in Nat \ {0, 1} /\ modulus \in Nat \ {0}
         /\ policy.minimum_crt_primes \in 0 .. Len(Primes)
         /\ policy.product_limit \in Nat /\ policy.ntt_limit \in Nat
         /\ \A c \in Calls(modulus) :
              /\ c.op \in {"multiply", "remainder"}
              /\ c.left \in Poly(modulus) /\ c.right \in Poly(modulus)
<1>1. /\ modulus \in Nat /\ policy.product_limit \in Nat /\ policy.ntt_limit \in Nat
      /\ policy.minimum_crt_primes \in Nat
  BY ClientsAssumption DEF modulus, policy
<1>2. modulus >= 2 /\ policy.minimum_crt_primes <= Len(Primes) /\ Len(Primes) \in Nat
  BY BaseFacts DEF RingValid
<1>3. ASSUME NEW c \in Calls(modulus)
      PROVE  /\ c.op \in {"multiply", "remainder"}
             /\ c.left \in Poly(modulus) /\ c.right \in Poly(modulus)
  <2>1. c \in [op : {"multiply", "remainder"},
               left : Polynomials(modulus), right : Polynomials(modulus)]
    BY <1>2, ClientsAssumption DEF modulus
  <2> QED BY <2>1 DEF Polynomials, Poly
<1> QED BY <1>1, <1>2, <1>3

(* ------------------------- divisions in progress ----------------------- *)

\* The series that a division inverts, and its approximations.
Series0(a)     == SubSeq(Reversed(a.divisor), 1, Lesser(Len(a.divisor), QuotientSize(a)))
Approach(a, m) == Inverses(Series0(a), QuotientSize(a), m)
FrontOf(a)       == SubSeq(Reversed(a.divisor), 1, Lesser(Len(a.divisor), RoundSize(a)))
TopOf(a)         == SubSeq(Reversed(a.dividend), 1, QuotientSize(a))
Activations(m) ==
  [dividend : Poly(m), divisor : Poly(m),
   stage : {"prefix", "inverse", "quotient", "product"}, inverse : Poly(m), factor : Poly(m)]

\* A division after k Newton rounds.
Stands(a, m, k) ==
  /\ a \in Activations(m)
  /\ Monic(a.divisor) /\ Len(a.divisor) <= Len(a.dividend)
  /\ k \in 0 .. Rounds(QuotientSize(a))
  /\ a.inverse = Approach(a, m)[k]
  /\ a.stage \in {"prefix", "inverse"} <=> k < Rounds(QuotientSize(a))
  /\ a.stage = "inverse" =>
       a.factor = Correction(Resize(Product(FrontOf(a), a.inverse, m), RoundSize(a)), m)
  /\ a.stage = "product" =>
       a.factor = Reversed(Resize(Product(TopOf(a), a.inverse, m), QuotientSize(a)))

\* What does not depend on the stage.
Divides(a, m) ==
  a \in Activations(m) /\ Monic(a.divisor) /\ Len(a.divisor) <= Len(a.dividend)

LEMMA DividesFacts ==
  ASSUME NEW m \in Nat \ {0, 1}, NEW a, Divides(a, m)
  PROVE  /\ m \in Nat \ {0}
         /\ QuotientSize(a) \in Nat \ {0} /\ Rounds(QuotientSize(a)) \in Nat
         /\ QuotientSize(a) = Len(a.dividend) - Len(a.divisor) + 1
         /\ Len(a.divisor) \in Nat \ {0} /\ Len(a.dividend) \in Nat
         /\ QuotientSize(a) <= Len(a.dividend)
         /\ Reversed(a.divisor) \in Poly(m) /\ Len(Reversed(a.divisor)) = Len(a.divisor)
         /\ Series0(a) \in Poly(m)
         /\ Len(Series0(a)) = Lesser(Len(a.divisor), QuotientSize(a))
         /\ TopOf(a) \in Poly(m) /\ Len(TopOf(a)) = QuotientSize(a)
         /\ \A n \in Nat : n <= QuotientSize(a) =>
              /\ SubSeq(Series0(a), 1, Lesser(Len(Series0(a)), n))
                   = SubSeq(Reversed(a.divisor), 1, Lesser(Len(a.divisor), n))
              /\ SubSeq(Reversed(a.divisor), 1, Lesser(Len(a.divisor), n)) \in Poly(m)
              /\ Len(SubSeq(Reversed(a.divisor), 1, Lesser(Len(a.divisor), n)))
                   = Lesser(Len(a.divisor), n)
<1>1. /\ a.dividend \in Poly(m) /\ a.divisor \in Poly(m) /\ a.divisor # <<>>
      /\ Len(a.divisor) <= Len(a.dividend)
  BY DEF Divides, Activations, Monic
<1>2. Len(a.divisor) \in Nat \ {0} /\ Len(a.dividend) \in Nat
  BY <1>1 DEF Poly
<1>3. PICK n0 \in Nat \ {0}, b \in Nat \ {0}, d \in Nat :
        n0 = QuotientSize(a) /\ b = Len(a.divisor) /\ d = Len(a.dividend) /\ n0 = d - b + 1
        /\ n0 <= d
  <2>1. PICK b \in Nat \ {0}, d \in Nat : b = Len(a.divisor) /\ d = Len(a.dividend) /\ b <= d
    BY <1>1, <1>2
  <2>2. d - b + 1 \in Nat \ {0} /\ d - b + 1 <= d
    BY <2>1
  <2>3. QuotientSize(a) = d - b + 1
    BY <2>1 DEF QuotientSize
  <2> QED BY <2>1, <2>2, <2>3
<1>4. PICK rd, rn : rd = Reversed(a.divisor) /\ rn = Reversed(a.dividend)
  OBVIOUS
<1>5. rd \in Poly(m) /\ Len(rd) = b /\ rn \in Poly(m) /\ Len(rn) = d
  BY <1>1, <1>3, <1>4, ReversedFacts
<1>6. ASSUME NEW n \in Nat
      PROVE  /\ SubSeq(rd, 1, Lesser(b, n)) \in Poly(m)
             /\ Len(SubSeq(rd, 1, Lesser(b, n))) = Lesser(b, n)
             /\ Lesser(b, n) \in Nat /\ Lesser(b, n) <= b
  <2>1. Lesser(b, n) \in Nat /\ Lesser(b, n) <= b
    BY DEF Lesser
  <2> QED BY <1>5, <2>1, PrefixFacts, ZenonT(40)
<1>7. PICK s : s = Series0(a)
  OBVIOUS
<1>8. s = SubSeq(rd, 1, Lesser(b, n0)) /\ s \in Poly(m) /\ Len(s) = Lesser(b, n0)
  BY <1>3, <1>4, <1>6, <1>7 DEF Series0
<1>9. ASSUME NEW n \in Nat, n <= n0
      PROVE  SubSeq(s, 1, Lesser(Len(s), n)) = SubSeq(rd, 1, Lesser(b, n))
  <2>1. PICK e \in Nat : e = Lesser(b, n) /\ e = Lesser(Len(s), n) /\ e <= Len(s) /\ e <= b
    BY <1>8, <1>9 DEF Lesser
  <2>2. rd \in Seq(0 .. m - 1) /\ s \in Seq(0 .. m - 1)
    BY <1>5, <1>8 DEF Poly
  <2>3. PICK l \in Nat : l = Lesser(b, n0) /\ l <= b /\ l = Len(s)
    BY <1>6, <1>8
  <2>4. \A i \in 1 .. l : s[i] = rd[i]
    BY <1>5, <1>8, <2>2, <2>3
  <2>5. SubSeq(s, 1, e) = [i \in 1 .. e |-> s[i]]
    BY <2>1, <2>2
  <2>6. SubSeq(rd, 1, e) = [i \in 1 .. e |-> rd[i]]
    BY <1>5, <2>1, <2>2
  <2>7. \A i \in 1 .. e : s[i] = rd[i]
    BY <2>1, <2>3, <2>4
  <2> QED BY <2>1, <2>5, <2>6, <2>7
<1>10. TopOf(a) \in Poly(m) /\ Len(TopOf(a)) = n0
  <2>0. Lesser(d, n0) = n0
    <3>1. d \in Int /\ n0 \in Int /\ n0 <= d
      BY <1>3
    <3>2. ~(d < n0)
      BY ONLY <3>1
    <3> QED BY <3>2 DEF Lesser
  <2>1. Lesser(Len(rn), n0) = n0
    BY <1>5, <2>0
  <2>2. SubSeq(rn, 1, n0) \in Poly(m) /\ Len(SubSeq(rn, 1, n0)) = n0
    BY <1>5, <2>1, PrefixFacts
  <2> QED BY <1>3, <1>4, <2>2 DEF TopOf
<1>11. Rounds(n0) \in Nat
  BY RoundsFacts
<1> QED BY <1>3, <1>4, <1>5, <1>6, <1>7, <1>8, <1>9, <1>10, <1>11

\* The approximations and their sizes.
LEMMA ApproachFacts ==
  ASSUME NEW m \in Nat \ {0, 1}, NEW a, Divides(a, m), NEW n, n = QuotientSize(a)
  PROVE  /\ Approach(a, m)[0] = <<1>>
         /\ Approach(a, m)[Rounds(n)] = SeriesInverse(Series0(a), n, m)
         /\ \A k \in 0 .. Rounds(n) : /\ Approach(a, m)[k] \in Poly(m)
                                      /\ Len(Approach(a, m)[k]) = Lesser(n, PowerOfTwo(k))
         /\ \A k \in Nat : k < Rounds(n) =>
              /\ PowerOfTwo(k) < n
              /\ Approach(a, m)[k + 1]
                   = Refined(Series0(a), Approach(a, m)[k], Lesser(n, PowerOfTwo(k + 1)), m)
<1>0. /\ n \in Nat /\ n >= 1 /\ Series0(a) \in Poly(m) /\ m \in Nat \ {0} /\ Rounds(n) \in Nat
  <2>1. /\ QuotientSize(a) \in Nat \ {0} /\ Rounds(QuotientSize(a)) \in Nat
        /\ Series0(a) \in Poly(m)
    BY DividesFacts
  <2> QED BY <2>1
<1>1. PICK g : g = Approach(a, m)
  OBVIOUS
<1>2. PICK s \in Poly(m) : s = Series0(a)
  BY <1>0
<1>3. /\ g = InverseStep(s, n, m, g)
      /\ \A k \in 0 .. Rounds(n) : g[k] \in Poly(m)
  BY <1>0, <1>1, <1>2, InversesEquation DEF Approach
<1>4. 0 \in 0 .. Rounds(n) /\ g[0] = <<1>>
  BY <1>0, <1>3 DEF InverseStep
<1>5. ASSUME NEW k \in Nat, k < Rounds(n)
      PROVE  g[k + 1] = Refined(s, g[k], Lesser(n, PowerOfTwo(k + 1)), m)
  <2>1. k + 1 \in 0 .. Rounds(n) /\ k + 1 # 0 /\ (k + 1) - 1 = k
    BY <1>0, <1>5
  <2> QED BY <1>3, <2>1 DEF InverseStep
<1>6. ASSUME NEW k \in Nat, k < Rounds(n) PROVE PowerOfTwo(k) < n
  <2>1. ~(PowerOfTwo(k) >= n)
    BY <1>0, <1>6, RoundsFacts
  <2>2. PowerOfTwo(k) \in Nat
    BY TwoPowersGrow
  <2> QED BY <1>0, <2>1, <2>2
<1>7. ASSUME NEW k \in 0 .. Rounds(n) PROVE Len(g[k]) = Lesser(n, PowerOfTwo(k))
  <2>1. CASE k = 0
    <3>1. PowerOfTwo(0) = 1
      BY PowersOfTwo
    <3>2. Lesser(n, 1) = 1
      BY <1>0 DEF Lesser
    <3>3. Len(<<1>>) = 1
      OBVIOUS
    <3> QED BY <1>4, <2>1, <3>1, <3>2, <3>3
  <2>2. CASE k # 0
    <3>1. PICK j \in Nat : k = j + 1 /\ j < Rounds(n) /\ j \in 0 .. Rounds(n)
      <4>1. k - 1 \in Nat /\ k = (k - 1) + 1 /\ k - 1 < Rounds(n) /\ k - 1 \in 0 .. Rounds(n)
        BY <1>0, <2>2
      <4> QED BY <4>1
    <3>2. g[k] = Refined(s, g[j], Lesser(n, PowerOfTwo(k)), m)
      BY <1>5, <3>1
    <3>3. PICK e \in Nat : e = Lesser(n, PowerOfTwo(k))
      <4>1. PowerOfTwo(k) \in Nat
        BY <3>1, TwoPowersGrow
      <4> QED BY <1>0, <4>1 DEF Lesser
    <3>4. PICK old \in Poly(m) : old = g[j]
      BY <1>3, <3>1
    <3>5. SubSeq(s, 1, Lesser(Len(s), e)) \in Poly(m)
      BY <1>0, PrefixFacts
    <3>6. PICK u : u = Resize(Product(SubSeq(s, 1, Lesser(Len(s), e)), old, m), e)
      OBVIOUS
    <3>7. u \in Poly(m)
      BY <1>0, <3>5, <3>6, CutProduct
    <3>8. Correction(u, m) \in Poly(m)
      BY <1>0, <3>7, CorrectionFacts
    <3>9. Refined(s, old, e, m) = Resize(Product(old, Correction(u, m), m), e)
      BY <3>6 DEF Refined
    <3>10. Len(Resize(Product(old, Correction(u, m), m), e)) = e
      BY <1>0, <3>8, CutProduct
    <3> QED BY <3>2, <3>3, <3>4, <3>9, <3>10
  <2> QED BY <2>1, <2>2
<1>8. g[Rounds(n)] = SeriesInverse(s, n, m)
  BY <1>1, <1>2, SeriesInverseIs DEF Approach
<1> QED BY <1>1, <1>2, <1>3, <1>4, <1>5, <1>6, <1>7, <1>8

\* The sizes of the two products of a Newton round.
Former(a, j) ==
  <<Lesser(Lesser(Len(a.divisor), QuotientSize(a)), Lesser(QuotientSize(a), PowerOfTwo(j))),
    PowerOfTwo(j - 1)>>
Latter(a, j) == <<PowerOfTwo(j - 1), Lesser(QuotientSize(a), PowerOfTwo(j))>>

\* The sizes of the products that a division after k rounds has had.
Passed(a, k) ==
  {Former(a, j) : j \in 1 .. k} \cup {Latter(a, j) : j \in 1 .. k}
    \cup (IF a.stage = "inverse" THEN {Former(a, k + 1)} ELSE {})
    \cup (IF a.stage = "product" THEN {<<QuotientSize(a), QuotientSize(a)>>} ELSE {})

\* The sizes of the product that it waits for.
Demanded(a) == <<Len(Operands(a)[1]), Len(Operands(a)[2])>>

LEMMA LesserFacts ==
  ASSUME NEW x \in Nat, NEW y \in Nat, NEW z \in Nat
  PROVE  /\ Lesser(x, y) \in Nat /\ Lesser(x, y) <= x /\ Lesser(x, y) <= y
         /\ Lesser(x, y) = Lesser(y, x)
         /\ Lesser(x, Lesser(y, z)) = Lesser(Lesser(x, y), Lesser(y, z))
         /\ x <= y => Lesser(x, y) = x
<1>1. Lesser(x, y) \in Nat /\ Lesser(x, y) <= x /\ Lesser(x, y) <= y
  BY DEF Lesser
<1>2. Lesser(x, y) = Lesser(y, x) /\ (x <= y => Lesser(x, y) = x)
  BY DEF Lesser
<1>3. Lesser(x, Lesser(y, z)) = Lesser(Lesser(x, y), Lesser(y, z))
  BY DEF Lesser
<1> QED BY <1>1, <1>2, <1>3

\* A product, cut to a size.
CutTo(u, p, q, m, n) == u = Resize(Product(p, q, m), n)

LEMMA CutIs ==
  ASSUME NEW m \in Nat \ {0, 1}, NEW p \in Poly(m), NEW q \in Poly(m), NEW n \in Nat,
         NEW u, CutTo(u, p, q, m, n)
  PROVE  u \in Poly(m) /\ Len(u) = n
<1>1. m \in Nat \ {0}
  OBVIOUS
<1>2. u = Resize(Product(p, q, m), n)
  BY DEF CutTo
<1> QED BY <1>1, <1>2, CutProduct

\* The sizes in a round.
LEMMA RoundFacts ==
  ASSUME NEW m \in Nat \ {0, 1}, NEW a, NEW k, Stands(a, m, k),
         NEW n, n = QuotientSize(a)
  PROVE  /\ Divides(a, m) /\ n \in Nat \ {0} /\ k \in Nat /\ k <= Rounds(n)
         /\ a.inverse \in Poly(m) /\ Len(a.inverse) = Lesser(n, PowerOfTwo(k))
         /\ RoundSize(a) \in Nat /\ RoundSize(a) <= n
         /\ k < Rounds(n) => /\ Len(a.inverse) = PowerOfTwo(k)
                             /\ RoundSize(a) = Lesser(n, PowerOfTwo(k + 1))
         /\ k = Rounds(n) => Len(a.inverse) = n
<1>1. Divides(a, m)
  BY DEF Stands, Divides
<1>2. n \in Nat \ {0} /\ Rounds(n) \in Nat
  BY <1>1, DividesFacts
<1>3. k \in Nat /\ k <= Rounds(n) /\ k \in 0 .. Rounds(n)
  BY <1>2 DEF Stands
<1>4. a.inverse \in Poly(m) /\ Len(a.inverse) = Lesser(n, PowerOfTwo(k))
  <2>1. a.inverse = Approach(a, m)[k]
    BY DEF Stands
  <2>2. \A j \in 0 .. Rounds(n) : /\ Approach(a, m)[j] \in Poly(m)
                                  /\ Len(Approach(a, m)[j]) = Lesser(n, PowerOfTwo(j))
    BY <1>1, ApproachFacts
  <2> QED BY <1>3, <2>1, <2>2
<1>5. PICK e \in Nat : e = PowerOfTwo(k) /\ PowerOfTwo(k + 1) = 2 * e
  BY <1>3, PowersOfTwo
<1>6. PICK l \in Nat : l = Len(a.inverse) /\ l = Lesser(n, e)
  BY <1>2, <1>4, <1>5, LesserFacts
<1>7. RoundSize(a) = Lesser(n, 2 * l) /\ 2 * l \in Nat
  BY <1>6 DEF RoundSize
<1>8. RoundSize(a) \in Nat /\ RoundSize(a) <= n
  BY <1>2, <1>7, LesserFacts
<1>9. ASSUME k < Rounds(n)
      PROVE  Len(a.inverse) = PowerOfTwo(k) /\ RoundSize(a) = Lesser(n, PowerOfTwo(k + 1))
  <2>1. e < n
    BY <1>1, <1>3, <1>5, <1>9, ApproachFacts
  <2>2. l = e
    BY <1>2, <1>6, <2>1 DEF Lesser
  <2> QED BY <1>5, <1>6, <1>7, <2>2
<1>10. ASSUME k = Rounds(n) PROVE Len(a.inverse) = n
  <2>1. e >= n
    BY <1>2, <1>5, <1>10, RoundsFacts
  <2>2. l = n
    BY <1>2, <1>6, <2>1, LesserFacts
  <2> QED BY <1>6, <2>2
<1> QED BY <1>1, <1>2, <1>3, <1>4, <1>8, <1>9, <1>10

\* The operands of the next product.
LEMMA OperandsFacts ==
  ASSUME NEW m \in Nat \ {0, 1}, NEW a, NEW k, Stands(a, m, k),
         NEW n, n = QuotientSize(a)
  PROVE  /\ Operands(a)[1] \in Poly(m) /\ Operands(a)[2] \in Poly(m)
         /\ a.stage = "prefix"   => Operands(a)[1] = FrontOf(a) /\ Operands(a)[2] = a.inverse
         /\ a.stage = "inverse"  => Operands(a)[1] = a.inverse /\ Operands(a)[2] = a.factor
         /\ a.stage = "quotient" => Operands(a)[1] = TopOf(a) /\ Operands(a)[2] = a.inverse
         /\ a.stage = "product"  => Operands(a)[1] = a.factor /\ Operands(a)[2] = a.divisor
         /\ a.stage = "prefix"   => Demanded(a) = Former(a, k + 1)
         /\ a.stage = "inverse"  => Demanded(a) = Latter(a, k + 1)
         /\ a.stage = "quotient" => Demanded(a) = <<n, n>>
         /\ a.stage = "product"  => Demanded(a) = <<n, Len(a.divisor)>>
<1>1. /\ Divides(a, m) /\ n \in Nat \ {0} /\ k \in Nat /\ k <= Rounds(n)
      /\ a.inverse \in Poly(m) /\ RoundSize(a) \in Nat /\ RoundSize(a) <= n
      /\ k < Rounds(n) => /\ Len(a.inverse) = PowerOfTwo(k)
                          /\ RoundSize(a) = Lesser(n, PowerOfTwo(k + 1))
      /\ k = Rounds(n) => Len(a.inverse) = n
  BY RoundFacts
<1>0. m \in Nat \ {0}
  OBVIOUS
<1>2. a \in Activations(m) /\ (a.stage \in {"prefix", "inverse"} <=> k < Rounds(n))
  BY DEF Stands
<1>3. a.stage \in {"prefix", "inverse", "quotient", "product"}
      /\ a.divisor \in Poly(m) /\ a.factor \in Poly(m)
  BY <1>2 DEF Activations
<1>4. Rounds(n) \in Nat
  BY <1>1, DividesFacts
<1>5. CASE a.stage = "prefix"
  <2>1. Operands(a) = <<FrontOf(a), a.inverse>>
    BY <1>5 DEF Operands, FrontOf
  <2>2. FrontOf(a) \in Poly(m) /\ Len(FrontOf(a)) = Lesser(Len(a.divisor), RoundSize(a))
    BY <1>1, DividesFacts DEF FrontOf
  <2>3. k < Rounds(n)
    BY <1>2, <1>5
  <2>4. PICK b \in Nat, e \in Nat : b = Len(a.divisor) /\ e = PowerOfTwo(k + 1)
    <3>1. Len(a.divisor) \in Nat
      BY <1>1, DividesFacts
    <3>2. k + 1 \in Nat
      BY <1>1
    <3> QED BY <3>1, <3>2, TwoPowersGrow
  <2>5. Lesser(b, Lesser(n, e)) = Lesser(Lesser(b, n), Lesser(n, e))
    BY <1>1, LesserFacts
  <2>6. (k + 1) - 1 = k
    BY <1>1
  <2>7. Demanded(a) = Former(a, k + 1)
    BY <1>1, <2>1, <2>2, <2>3, <2>4, <2>5, <2>6 DEF Demanded, Former
  <2> QED BY <1>1, <1>5, <2>1, <2>2, <2>7
<1>6. CASE a.stage = "inverse"
  <2>1. Operands(a) = <<a.inverse, a.factor>>
    BY <1>6 DEF Operands
  <2>2. k < Rounds(n)
    BY <1>2, <1>6
  <2>3. a.factor = Correction(Resize(Product(FrontOf(a), a.inverse, m), RoundSize(a)), m)
    BY <1>6 DEF Stands
  <2>4. FrontOf(a) \in Poly(m)
    BY <1>1, DividesFacts DEF FrontOf
  <2>5. PICK u : u = Resize(Product(FrontOf(a), a.inverse, m), RoundSize(a))
    OBVIOUS
  <2>6. u \in Poly(m) /\ Len(u) = RoundSize(a)
    <3>1. CutTo(u, FrontOf(a), a.inverse, m, RoundSize(a))
      BY <2>5 DEF CutTo
    <3> QED BY <1>1, <2>4, <3>1, CutIs
  <2>7. Len(Correction(u, m)) = Len(u)
    <3>1. PICK l \in Nat : l = Len(u) /\ DOMAIN u = 1 .. l /\ \A i \in 1 .. l : u[i] \in Int
      BY <2>6, PolyFacts DEF Poly
    <3>2. [i \in DOMAIN u |-> ((IF i = 1 THEN 2 ELSE 0) - u[i]) % m] \in [1 .. l -> Int]
      BY <3>1
    <3> QED BY <3>1, <3>2, TupleIs DEF Correction
  <2>8. (k + 1) - 1 = k
    BY <1>1
  <2>9. Demanded(a) = Latter(a, k + 1)
    BY <1>1, <2>1, <2>2, <2>3, <2>5, <2>6, <2>7, <2>8 DEF Demanded, Latter
  <2> QED BY <1>1, <1>3, <1>6, <2>1, <2>9
<1>7. CASE a.stage = "quotient"
  <2>1. Operands(a) = <<TopOf(a), a.inverse>>
    BY <1>7 DEF Operands, TopOf
  <2>2. TopOf(a) \in Poly(m) /\ Len(TopOf(a)) = n
    BY <1>1, DividesFacts
  <2>3. k = Rounds(n)
    BY <1>1, <1>2, <1>4, <1>7
  <2>4. Demanded(a) = <<n, n>>
    BY <1>1, <2>1, <2>2, <2>3 DEF Demanded
  <2> QED BY <1>1, <1>7, <2>1, <2>2, <2>4
<1>8. CASE a.stage = "product"
  <2>1. Operands(a) = <<a.factor, a.divisor>>
    BY <1>8 DEF Operands
  <2>2. a.factor = Reversed(Resize(Product(TopOf(a), a.inverse, m), n))
    BY <1>8 DEF Stands
  <2>3. TopOf(a) \in Poly(m)
    BY <1>1, DividesFacts
  <2>4. PICK u : u = Resize(Product(TopOf(a), a.inverse, m), n)
    OBVIOUS
  <2>5. u \in Poly(m) /\ Len(u) = n
    <3>1. CutTo(u, TopOf(a), a.inverse, m, n)
      BY <2>4 DEF CutTo
    <3>2. n \in Nat
      BY <1>1
    <3> QED BY <1>1, <2>3, <3>1, <3>2, CutIs
  <2>6. Len(Reversed(u)) = n
    BY <2>5, ReversedFacts
  <2>7. Demanded(a) = <<n, Len(a.divisor)>>
    BY <2>1, <2>2, <2>4, <2>6 DEF Demanded
  <2> QED BY <1>3, <1>8, <2>1, <2>7
<1> QED BY <1>3, <1>5, <1>6, <1>7, <1>8

\* The products of a division are those that its sizes announce.
LEMMA DemandIsAnnounced ==
  ASSUME NEW m \in Nat \ {0, 1}, NEW a, NEW k, Stands(a, m, k)
  PROVE  /\ Demanded(a) \in NewtonProducts(Len(a.dividend), Len(a.divisor))
         /\ a.stage = "product" =>
              Passed(a, k) \cup {Demanded(a)} = NewtonProducts(Len(a.dividend), Len(a.divisor))
<1>1. PICK n : n = QuotientSize(a)
  OBVIOUS
<1>2. Divides(a, m) /\ n \in Nat \ {0} /\ k \in Nat /\ k <= Rounds(n)
  BY <1>1, RoundFacts
<1>3. n = Len(a.dividend) - Len(a.divisor) + 1 /\ Rounds(n) \in Nat
  BY <1>1, <1>2, DividesFacts
<1>4. NewtonProducts(Len(a.dividend), Len(a.divisor))
        = {Former(a, j) : j \in 1 .. Rounds(n)} \cup {Latter(a, j) : j \in 1 .. Rounds(n)}
            \cup {<<n, n>>, <<n, Len(a.divisor)>>}
  BY <1>1, <1>3 DEF NewtonProducts, Former, Latter
<1>5. a.stage \in {"prefix", "inverse"} <=> k < Rounds(n)
  BY <1>1 DEF Stands
<1>6. a.stage \in {"prefix", "inverse", "quotient", "product"}
  BY DEF Stands, Activations
<1>7. (k < Rounds(n) => k + 1 \in 1 .. Rounds(n)) /\ (~(k < Rounds(n)) => k = Rounds(n))
  <2>1. PICK l \in Nat, R \in Nat : l = k /\ R = Rounds(n) /\ l <= R
    BY <1>2, <1>3
  <2>2. (l < R => l + 1 \in 1 .. R) /\ (~(l < R) => l = R)
    BY <2>1
  <2> QED BY <2>1, <2>2
<1>8. Demanded(a) \in NewtonProducts(Len(a.dividend), Len(a.divisor))
  BY <1>1, <1>4, <1>5, <1>6, <1>7, OperandsFacts
<1>9. ASSUME a.stage = "product"
      PROVE  Passed(a, k) \cup {Demanded(a)} = NewtonProducts(Len(a.dividend), Len(a.divisor))
  <2>1. k = Rounds(n)
    BY <1>5, <1>7, <1>9
  <2>2. Passed(a, k) = {Former(a, j) : j \in 1 .. Rounds(n)}
                         \cup {Latter(a, j) : j \in 1 .. Rounds(n)} \cup {<<n, n>>}
    BY <1>1, <1>9, <2>1 DEF Passed
  <2>3. Demanded(a) = <<n, Len(a.divisor)>>
    BY <1>1, <1>9, OperandsFacts
  <2> QED BY <1>4, <2>2, <2>3
<1> QED BY <1>8, <1>9

\* What depends on the two polynomials of a division alone.
LEMMA SameDivision ==
  ASSUME NEW a, NEW b, b.dividend = a.dividend, b.divisor = a.divisor, NEW m
  PROVE  /\ QuotientSize(b) = QuotientSize(a) /\ Series0(b) = Series0(a)
         /\ Approach(b, m) = Approach(a, m) /\ TopOf(b) = TopOf(a)
         /\ \A j : Former(b, j) = Former(a, j) /\ Latter(b, j) = Latter(a, j)
         /\ b.inverse = a.inverse => RoundSize(b) = RoundSize(a) /\ FrontOf(b) = FrontOf(a)
<1>1. QuotientSize(b) = QuotientSize(a)
  BY DEF QuotientSize
<1>2. Series0(b) = Series0(a) /\ TopOf(b) = TopOf(a)
  BY <1>1 DEF Series0, TopOf
<1>3. Approach(b, m) = Approach(a, m)
  BY <1>1, <1>2 DEF Approach
<1>4. \A j : Former(b, j) = Former(a, j) /\ Latter(b, j) = Latter(a, j)
  BY <1>1 DEF Former, Latter
<1>5. b.inverse = a.inverse => RoundSize(b) = RoundSize(a) /\ FrontOf(b) = FrontOf(a)
  BY <1>1 DEF RoundSize, FrontOf
<1> QED BY <1>1, <1>2, <1>3, <1>4, <1>5

\* A division of P by Q before its first round, as BeginNewton has it.
Opened(P, Q) == [dividend |-> P, divisor |-> Q, stage |-> "prefix",
                 inverse |-> <<1>>, factor |-> <<>>]

\* The first product that a division asks for.
LEMMA NewtonBegins ==
  ASSUME NEW m \in Nat \ {0, 1}, NEW P \in Poly(m), NEW Q \in Poly(m), Monic(Q),
         Len(Q) <= Len(P), NEW a, a = NextRound(Opened(P, Q))
  PROVE  Stands(a, m, 0) /\ Passed(a, 0) = {} /\ a.dividend = P /\ a.divisor = Q
<1>1. <<1>> \in Poly(m) /\ Len(<<1>>) = 1
  <2>1. 1 \in 0 .. m - 1
    OBVIOUS
  <2> QED BY <2>1 DEF Poly
<1>2. <<>> \in Poly(m)
  BY DEF Poly
<1>3. PICK c : c = Opened(P, Q)
  OBVIOUS
<1>4. c \in Activations(m) /\ c.dividend = P /\ c.divisor = Q /\ c.inverse = <<1>>
  BY <1>1, <1>2, <1>3 DEF Activations, Opened
<1>5. a = [c EXCEPT !.stage = IF 1 < QuotientSize(c) THEN "prefix" ELSE "quotient"]
  BY <1>1, <1>3, <1>4 DEF NextRound, Opened
<1>6. /\ a \in Activations(m) /\ a.dividend = P /\ a.divisor = Q /\ a.inverse = <<1>>
      /\ a.stage = IF 1 < QuotientSize(c) THEN "prefix" ELSE "quotient"
  BY <1>4, <1>5 DEF Activations
<1>7. Divides(a, m)
  BY <1>6 DEF Divides
<1>8. PICK n \in Nat \ {0}, R \in Nat : n = QuotientSize(a) /\ R = Rounds(n)
  BY <1>7, DividesFacts
<1>9. QuotientSize(c) = n
  BY <1>4, <1>6, <1>8 DEF QuotientSize
<1>10. PowerOfTwo(0) = 1
  BY PowersOfTwo
<1>11. (1 < n) <=> (0 < R)
  <2>1. n <= 1 => R <= 0
    BY <1>8, <1>10, RoundsFacts
  <2>2. 0 < R => 1 < n
    BY <2>1
  <2>3. R = 0 => 1 >= n
    BY <1>8, <1>10, RoundsFacts
  <2> QED BY <2>2, <2>3
<1>12. a.stage \in {"prefix", "inverse"} <=> 0 < R
  BY <1>6, <1>9, <1>11
<1>13. a.stage # "inverse" /\ a.stage # "product"
  BY <1>6
<1>14. Approach(a, m)[0] = <<1>>
  BY <1>7, <1>8, ApproachFacts
<1>15. Stands(a, m, 0)
  <2>1. 0 \in 0 .. R
    OBVIOUS
  <2> QED BY <1>6, <1>7, <1>8, <1>12, <1>13, <1>14, <2>1 DEF Stands, Divides
<1>16. Passed(a, 0) = {}
  <2>1. 1 .. 0 = {}
    OBVIOUS
  <2> QED BY <1>13, <2>1 DEF Passed
<1> QED BY <1>6, <1>15, <1>16

\* How a division goes on when its product is the right one: as Correct, EndRound
\* and TakeQuotient have it.
CorrectedTo(b, a, m) ==
  b = [a EXCEPT !.stage = "inverse",
         !.factor = Correction(Resize(Product(Operands(a)[1], Operands(a)[2], m),
                                      RoundSize(a)), m)]
RoundedTo(b, a, m) ==
  b = NextRound([a EXCEPT !.factor = <<>>,
                   !.inverse = Resize(Product(Operands(a)[1], Operands(a)[2], m),
                                      RoundSize(a))])
QuotientedTo(b, a, m) ==
  b = [a EXCEPT !.stage = "product",
         !.factor = Reversed(Resize(Product(Operands(a)[1], Operands(a)[2], m),
                                    QuotientSize(a)))]

\* What Correct does to a division.
LEMMA NewtonCorrects ==
  ASSUME NEW m \in Nat \ {0, 1}, NEW a, NEW k, Stands(a, m, k), a.stage = "prefix",
         NEW b, CorrectedTo(b, a, m)
  PROVE  /\ Stands(b, m, k) /\ Passed(b, k) = Passed(a, k) \cup {Demanded(a)}
         /\ b.dividend = a.dividend /\ b.divisor = a.divisor
<1>1. PICK n : n = QuotientSize(a)
  OBVIOUS
<1>2. Divides(a, m) /\ RoundSize(a) \in Nat /\ RoundSize(a) <= n /\ a.inverse \in Poly(m)
  BY <1>1, RoundFacts
<1>3. Operands(a)[1] = FrontOf(a) /\ Operands(a)[2] = a.inverse /\ Demanded(a) = Former(a, k + 1)
  BY <1>1, OperandsFacts
<1>4. PICK u : u = Resize(Product(FrontOf(a), a.inverse, m), RoundSize(a))
  OBVIOUS
<1>5. u \in Poly(m)
  <2>1. FrontOf(a) \in Poly(m)
    BY <1>1, <1>2, DividesFacts DEF FrontOf
  <2>2. CutTo(u, FrontOf(a), a.inverse, m, RoundSize(a))
    BY <1>4 DEF CutTo
  <2> QED BY <1>2, <2>1, <2>2, CutIs
<1>6. PICK f \in Poly(m) : f = Correction(u, m)
  <2>1. m \in Nat \ {0}
    OBVIOUS
  <2> QED BY <1>5, <2>1, CorrectionFacts
<1>7. b = [a EXCEPT !.stage = "inverse", !.factor = f]
  BY <1>3, <1>4, <1>6 DEF CorrectedTo
<1>8. a \in Activations(m)
  BY DEF Stands
<1>9. /\ b \in Activations(m) /\ b.dividend = a.dividend /\ b.divisor = a.divisor
      /\ b.inverse = a.inverse /\ b.stage = "inverse" /\ b.factor = f
  BY <1>7, <1>8 DEF Activations
<1>10. /\ QuotientSize(b) = n /\ Approach(b, m) = Approach(a, m)
       /\ RoundSize(b) = RoundSize(a) /\ FrontOf(b) = FrontOf(a)
       /\ \A j : Former(b, j) = Former(a, j) /\ Latter(b, j) = Latter(a, j)
  BY <1>1, <1>9, SameDivision
<1>11. Stands(b, m, k)
  BY <1>1, <1>4, <1>6, <1>9, <1>10 DEF Stands
<1>12. Passed(b, k) = Passed(a, k) \cup {Former(a, k + 1)}
  BY <1>9, <1>10 DEF Passed
<1> QED BY <1>3, <1>9, <1>11, <1>12

\* What EndRound does to it.
LEMMA NewtonEndsRound ==
  ASSUME NEW m \in Nat \ {0, 1}, NEW a, NEW k, Stands(a, m, k), a.stage = "inverse",
         NEW b, RoundedTo(b, a, m)
  PROVE  /\ Stands(b, m, k + 1) /\ Passed(b, k + 1) = Passed(a, k) \cup {Demanded(a)}
         /\ b.dividend = a.dividend /\ b.divisor = a.divisor
<1>1. PICK n : n = QuotientSize(a)
  OBVIOUS
<1>2. /\ Divides(a, m) /\ RoundSize(a) \in Nat /\ RoundSize(a) <= n /\ a.inverse \in Poly(m)
      /\ n \in Nat \ {0} /\ k \in Nat
      /\ k < Rounds(n) => RoundSize(a) = Lesser(n, PowerOfTwo(k + 1))
  BY <1>1, RoundFacts
<1>3. PICK R \in Nat : R = Rounds(n)
  BY <1>2, RoundsFacts
<1>4. k < R /\ a \in Activations(m) /\ a.inverse = Approach(a, m)[k] /\ Monic(a.divisor)
      /\ Len(a.divisor) <= Len(a.dividend)
      /\ a.factor = Correction(Resize(Product(FrontOf(a), a.inverse, m), RoundSize(a)), m)
  BY <1>1, <1>3 DEF Stands
<1>5. Operands(a)[1] = a.inverse /\ Operands(a)[2] = a.factor /\ Demanded(a) = Latter(a, k + 1)
  BY <1>1, OperandsFacts
<1>6. PICK e : e = RoundSize(a) /\ e = Lesser(n, PowerOfTwo(k + 1))
  BY <1>2, <1>3, <1>4
<1>7. PICK v : v = Resize(Product(a.inverse, a.factor, m), e)
  OBVIOUS
<1>8. v \in Poly(m) /\ Len(v) = e
  <2>1. a.factor \in Poly(m)
    BY <1>4 DEF Activations
  <2>2. CutTo(v, a.inverse, a.factor, m, e)
    BY <1>7 DEF CutTo
  <2> QED BY <1>2, <1>6, <2>1, <2>2, CutIs
<1>9. v = Approach(a, m)[k + 1]
  <2>1. FrontOf(a) = SubSeq(Series0(a), 1, Lesser(Len(Series0(a)), e))
    BY <1>1, <1>2, <1>6, DividesFacts DEF FrontOf
  <2>2. v = Refined(Series0(a), a.inverse, e, m)
    BY <1>4, <1>6, <1>7, <2>1 DEF Refined
  <2>3. Approach(a, m)[k + 1]
          = Refined(Series0(a), Approach(a, m)[k], Lesser(n, PowerOfTwo(k + 1)), m)
    BY <1>1, <1>2, <1>3, <1>4, ApproachFacts
  <2> QED BY <1>4, <1>6, <2>2, <2>3
<1>10. PICK c : c = [a EXCEPT !.factor = <<>>, !.inverse = v]
  OBVIOUS
<1>11. /\ c \in Activations(m) /\ c.dividend = a.dividend /\ c.divisor = a.divisor
       /\ c.inverse = v
  <2>1. <<>> \in Poly(m)
    BY DEF Poly
  <2> QED BY <1>4, <1>8, <1>10, <2>1 DEF Activations
<1>12. QuotientSize(c) = n
  BY <1>1, <1>11 DEF QuotientSize
<1>13. b = [c EXCEPT !.stage = IF e < n THEN "prefix" ELSE "quotient"]
  BY <1>5, <1>6, <1>7, <1>8, <1>10, <1>11, <1>12 DEF RoundedTo, NextRound
<1>14. /\ b \in Activations(m) /\ b.dividend = a.dividend /\ b.divisor = a.divisor
       /\ b.inverse = v /\ b.stage = IF e < n THEN "prefix" ELSE "quotient"
  BY <1>11, <1>13 DEF Activations
<1>15. /\ QuotientSize(b) = n /\ Approach(b, m) = Approach(a, m)
       /\ \A j : Former(b, j) = Former(a, j) /\ Latter(b, j) = Latter(a, j)
  BY <1>1, <1>14, SameDivision
<1>16. k + 1 \in 0 .. R
  BY <1>2, <1>4
<1>17. (e < n) <=> (k + 1 < R)
  <2>1. PICK w \in Nat : w = PowerOfTwo(k + 1)
    <3>1. k + 1 \in Nat
      BY <1>2
    <3> QED BY <3>1, TwoPowersGrow
  <2>2. ASSUME k + 1 < R PROVE e < n
    <3>1. k + 1 \in Nat
      BY <1>2
    <3>2. \A j \in Nat : j < R => PowerOfTwo(j) < n
      BY <1>1, <1>2, <1>3, ApproachFacts
    <3>3. w < n
      BY <2>1, <2>2, <3>1, <3>2
    <3> QED BY <1>2, <1>6, <2>1, <3>3 DEF Lesser
  <2>3. ASSUME k + 1 = R PROVE ~(e < n)
    <3>1. w >= n
      BY <1>2, <1>3, <2>1, <2>3, RoundsFacts
    <3> QED BY <1>2, <1>6, <2>1, <3>1 DEF Lesser
  <2> QED BY <1>2, <1>16, <2>2, <2>3
<1>18. Stands(b, m, k + 1)
  BY <1>3, <1>4, <1>9, <1>14, <1>15, <1>16, <1>17 DEF Stands
<1>19. Passed(b, k + 1) = Passed(a, k) \cup {Latter(a, k + 1)}
  <2>1. 1 .. k + 1 = (1 .. k) \cup {k + 1}
    BY <1>2
  <2>2. Passed(b, k + 1)
          = {Former(a, j) : j \in 1 .. k + 1} \cup {Latter(a, j) : j \in 1 .. k + 1}
    BY <1>14, <1>15 DEF Passed
  <2>3. Passed(a, k) = {Former(a, j) : j \in 1 .. k} \cup {Latter(a, j) : j \in 1 .. k}
                         \cup {Former(a, k + 1)}
    BY DEF Passed
  <2> QED BY <2>1, <2>2, <2>3
<1> QED BY <1>5, <1>14, <1>18, <1>19

\* What TakeQuotient does to it.
LEMMA NewtonTakesQuotient ==
  ASSUME NEW m \in Nat \ {0, 1}, NEW a, NEW k, Stands(a, m, k), a.stage = "quotient",
         NEW b, QuotientedTo(b, a, m)
  PROVE  /\ Stands(b, m, k) /\ Passed(b, k) = Passed(a, k) \cup {Demanded(a)}
         /\ b.dividend = a.dividend /\ b.divisor = a.divisor
<1>1. PICK n : n = QuotientSize(a)
  OBVIOUS
<1>2. Divides(a, m) /\ n \in Nat \ {0} /\ n \in Nat /\ a.inverse \in Poly(m)
  BY <1>1, RoundFacts
<1>3. Operands(a)[1] = TopOf(a) /\ Operands(a)[2] = a.inverse /\ Demanded(a) = <<n, n>>
  BY <1>1, OperandsFacts
<1>4. PICK u : u = Resize(Product(TopOf(a), a.inverse, m), n)
  OBVIOUS
<1>5. u \in Poly(m)
  <2>1. TopOf(a) \in Poly(m)
    BY <1>2, DividesFacts
  <2>2. CutTo(u, TopOf(a), a.inverse, m, n)
    BY <1>4 DEF CutTo
  <2> QED BY <1>2, <2>1, <2>2, CutIs
<1>6. PICK f \in Poly(m) : f = Reversed(u)
  <2>1. m \in Nat \ {0}
    OBVIOUS
  <2> QED BY <1>5, <2>1, ReversedFacts
<1>7. b = [a EXCEPT !.stage = "product", !.factor = f]
  BY <1>1, <1>3, <1>4, <1>6 DEF QuotientedTo
<1>8. a \in Activations(m) /\ ~(k < Rounds(n))
  BY <1>1 DEF Stands
<1>9. /\ b \in Activations(m) /\ b.dividend = a.dividend /\ b.divisor = a.divisor
      /\ b.inverse = a.inverse /\ b.stage = "product" /\ b.factor = f
  BY <1>7, <1>8 DEF Activations
<1>10. /\ QuotientSize(b) = n /\ Approach(b, m) = Approach(a, m) /\ TopOf(b) = TopOf(a)
       /\ \A j : Former(b, j) = Former(a, j) /\ Latter(b, j) = Latter(a, j)
  BY <1>1, <1>9, SameDivision
<1>11. Stands(b, m, k)
  BY <1>1, <1>4, <1>6, <1>8, <1>9, <1>10 DEF Stands
<1>12. Passed(b, k) = Passed(a, k) \cup {<<n, n>>}
  BY <1>1, <1>9, <1>10 DEF Passed
<1> QED BY <1>3, <1>9, <1>11, <1>12

\* And what Subtract makes of it.
LEMMA NewtonSubtracts ==
  ASSUME NEW m \in Nat \ {0, 1}, NEW a, NEW k, Stands(a, m, k), a.stage = "product",
         NEW v, v = Resize(Product(Operands(a)[1], Operands(a)[2], m), Len(a.dividend))
  PROVE  Trim([i \in 1 .. Len(a.divisor) - 1 |-> (a.dividend[i] - v[i]) % m])
           = NewtonRemainder(a.dividend, a.divisor, m)
<1>1. PICK n : n = QuotientSize(a)
  OBVIOUS
<1>2. /\ Divides(a, m) /\ n = Len(a.dividend) - Len(a.divisor) + 1
      /\ k \in Nat /\ k <= Rounds(n) /\ Rounds(n) \in Nat
  <2>1. Divides(a, m) /\ k \in Nat /\ k <= Rounds(n)
    BY <1>1, RoundFacts
  <2> QED BY <1>1, <2>1, DividesFacts
<1>3. Operands(a)[1] = a.factor /\ Operands(a)[2] = a.divisor
  BY <1>1, OperandsFacts
<1>4. /\ ~(k < Rounds(n)) /\ a.inverse = Approach(a, m)[k]
      /\ a.factor = Reversed(Resize(Product(TopOf(a), a.inverse, m), n))
  BY <1>1 DEF Stands
<1>5. k = Rounds(n)
  <2>1. PICK l \in Nat, R \in Nat : l = k /\ R = Rounds(n) /\ l <= R /\ ~(l < R)
    BY <1>2, <1>4
  <2>2. l = R
    BY <2>1
  <2> QED BY <2>1, <2>2
<1>6. a.inverse = SeriesInverse(Series0(a), n, m)
  BY <1>1, <1>2, <1>4, <1>5, ApproachFacts
<1>7. Series0(a) = SubSeq(Reversed(a.divisor), 1, Lesser(Len(a.divisor), n))
      /\ TopOf(a) = SubSeq(Reversed(a.dividend), 1, n)
  BY <1>1 DEF Series0, TopOf
<1> QED BY <1>2, <1>3, <1>4, <1>6, <1>7 DEF NewtonRemainder

(* ---------------------- a rest by a monic divisor ---------------------- *)

\* A factor X^s moves a product.
LEMMA ConvOfDelay ==
  ASSUME NEW f \in Series, NEW g \in Series
  PROVE  \A s \in Nat : Conv(Delay(f, s), g) = Delay(Conv(f, g), s)
<1> DEFINE T == {s \in Nat : Conv(Delay(f, s), g) = Delay(Conv(f, g), s)}
<1>1. Conv(f, g) \in Series
  BY ConvType
<1>2. \A h \in Series : Delay(h, 0) = h
  <2> SUFFICES ASSUME NEW h \in Series PROVE Delay(h, 0) = h
    OBVIOUS
  <2>1. 0 \in Nat /\ Delay(h, 0) \in Series
    BY DelayType
  <2>2. \A k \in Nat : Delay(h, 0)[k] = h[k]
    BY DEF Delay
  <2> QED BY <2>1, <2>2, SeriesAreEqual
<1>3. 0 \in T
  BY <1>1, <1>2
<1>4. ASSUME NEW s \in Nat, s \in T PROVE s + 1 \in T
  <2>1. s + 1 \in Nat /\ Conv(Delay(f, s), g) = Delay(Conv(f, g), s)
    BY <1>4
  <2>2. PICK u \in Series, v \in Series : u = Delay(f, s) /\ v = Delay(f, s + 1)
    BY <2>1, DelayType
  <2>3. v[0] = 0 /\ Shift(v) = u
    <3>1. Shift(v) \in Series
      BY SeriesTypes
    <3>2. \A k \in Nat : Shift(v)[k] = u[k]
      <4> SUFFICES ASSUME NEW k \in Nat PROVE Shift(v)[k] = u[k]
        OBVIOUS
      <4>1. k + 1 \in Nat /\ (k + 1 < s + 1 <=> k < s) /\ (k + 1) - (s + 1) = k - s
        OBVIOUS
      <4> QED BY <2>2, <4>1 DEF Shift, Delay
    <3>3. v[0] = 0
      BY <2>2 DEF Delay
    <3> QED BY <3>1, <3>2, <3>3, SeriesAreEqual
  <2>4. PICK a \in Series, b \in Series : a = Conv(v, g) /\ b = Delay(Conv(f, g), s + 1)
    BY <1>1, <2>1, ConvType, DelayType
  <2>5. a[0] = 0
    <3>1. a[0] = 0 * g[0] /\ g[0] \in Int
      BY <2>3, <2>4, ConvStarts DEF Series
    <3> QED BY <3>1
  <2>6. ASSUME NEW k \in Nat PROVE a[k + 1] = b[k + 1]
    <3>1. a[k + 1] = 0 * g[k + 1] + Conv(u, g)[k]
      BY <2>3, <2>4, ConvContinues
    <3>2. g[k + 1] \in Int /\ Conv(u, g)[k] \in Int
      <4>1. Conv(u, g) \in Series
        BY ConvType
      <4> QED BY <4>1 DEF Series
    <3>3. a[k + 1] = Conv(u, g)[k]
      BY <3>1, <3>2
    <3>4. Conv(u, g)[k] = Delay(Conv(f, g), s)[k]
      BY <2>1, <2>2
    <3>5. k + 1 \in Nat /\ (k + 1 < s + 1 <=> k < s) /\ (k + 1) - (s + 1) = k - s
      OBVIOUS
    <3> QED BY <2>4, <3>3, <3>4, <3>5 DEF Delay
  <2>7. b[0] = 0
    BY <2>4 DEF Delay
  <2>8. \A k \in Nat : a[k] = b[k]
    <3> SUFFICES ASSUME NEW k \in Nat PROVE a[k] = b[k]
      OBVIOUS
    <3>1. CASE k = 0
      BY <2>5, <2>7, <3>1
    <3>2. CASE k # 0
      <4>1. k - 1 \in Nat /\ k = (k - 1) + 1
        BY <3>2
      <4> QED BY <2>6, <4>1
    <3> QED BY <3>1, <3>2
  <2>9. a = b
    BY <2>8, SeriesAreEqual
  <2> QED BY <2>1, <2>2, <2>4, <2>9
<1> HIDE DEF T
<1>5. \A s \in Nat : s \in T
  BY <1>3, <1>4, SetOfAllNaturals
<1> QED BY <1>5 DEF T

\* A series that ends with the coefficient one at degree g.
Leads(q, g) == q \in Series /\ q[g] = 1 /\ \A k \in Nat : k > g => q[k] = 0

\* The top coefficient of a product with it.
LEMMA TopOfProduct ==
  ASSUME NEW g \in Nat, NEW q, Leads(q, g), NEW d \in Nat, NEW h \in Series, Short(h, d + 1)
  PROVE  Conv(h, q)[d + g] = h[d]
<1>1. d + g \in Nat /\ q \in Series
  BY DEF Leads
<1>2. PICK e \in Nat : e = d + g /\ d <= e /\ e - d = g
  BY <1>1
<1>3. PICK t : t = Terms(h, q, e)
  OBVIOUS
<1>4. Summable(t, 0 .. e)
  BY <1>1, <1>2, <1>3, TermsAreSummable
<1>5. \A i \in 0 .. e : t[i] = h[i] * q[e - i]
  BY <1>3 DEF Terms
<1>6. d \in 0 .. e
  BY <1>2
<1>7. VanishesOff(t, 0 .. e, {d})
  <2> SUFFICES ASSUME NEW i \in 0 .. e, i # d PROVE t[i] = 0
    BY DEF VanishesOff
  <2>1. i \in Nat /\ e - i \in Nat /\ t[i] = h[i] * q[e - i]
    BY <1>2, <1>5
  <2>2. h[i] \in Int /\ q[e - i] \in Int
    BY <1>1, <2>1 DEF Series
  <2>3. CASE i < d
    <3>1. e - i > g
      BY <1>2, <2>3
    <3>2. q[e - i] = 0
      BY <2>1, <3>1 DEF Leads
    <3> QED BY <2>1, <2>2, <3>2
  <2>4. CASE ~(i < d)
    <3>1. i >= d + 1
      BY <2>1, <2>4
    <3>2. h[i] = 0
      BY <2>1, <3>1 DEF Short
    <3> QED BY <2>1, <2>2, <3>2
  <2> QED BY <2>3, <2>4
<1>8. SumOver(t, 0 .. e) = SumOver(t, {d})
  <2>1. {d} \in SUBSET (0 .. e)
    BY <1>6
  <2> QED BY <1>4, <1>7, <2>1, SumOfSupport
<1>9. SumOver(t, {d}) = h[d]
  <2>1. t[d] = h[d] * q[g] /\ h[d] \in Int
    BY <1>2, <1>5, <1>6 DEF Series
  <2>2. t[d] = h[d]
    BY <2>1 DEF Leads
  <2>3. Summable(t, {d})
    BY <1>4, <1>6, SummableSubset
  <2>4. SumOver(t, {d}) = t[d] + SumOver(t, {d} \ {d})
    BY <2>3, SumWithout
  <2>5. {d} \ {d} = {} /\ SumOver(t, {}) = 0
    BY SumOfNone
  <2>6. PICK x \in Int : x = h[d]
    BY <2>1
  <2>7. SumOver(t, {d}) = x + 0
    BY <2>2, <2>4, <2>5, <2>6
  <2> QED BY <2>6, <2>7
<1>10. Conv(h, q)[e] = SumOver(t, 0 .. e)
  BY <1>2, <1>3 DEF Conv
<1> QED BY <1>2, <1>8, <1>9, <1>10

\* A multiple of it that vanishes from its degree on vanishes.
VanishesFrom(f, first, n, m) == \A k \in Nat : first <= k /\ k < n => Same(f[k], 0, m)

LEMMA VanishingMultiple ==
  ASSUME NEW m \in Nat \ {0}, NEW g \in Nat, NEW q, Leads(q, g)
  PROVE  \A d \in Nat : \A h \in Series :
           Short(h, d) /\ VanishesFrom(Conv(h, q), g, d + g, m) =>
             \A n \in Nat : AgreeBelow(h, Constant(0), n, m)
<1> DEFINE T == {d \in Nat : \A h \in Series :
             Short(h, d) /\ VanishesFrom(Conv(h, q), g, d + g, m) =>
                \A n \in Nat : AgreeBelow(h, Constant(0), n, m)}
<1>0. m \in Int /\ q \in Series
  BY DEF Leads
<1>1. 0 \in T
  <2> SUFFICES ASSUME NEW h \in Series, Short(h, 0), NEW n \in Nat
               PROVE  AgreeBelow(h, Constant(0), n, m)
    OBVIOUS
  <2>1. \A k \in Nat : h[k] = Constant(0)[k]
    BY DEF Short, Constant
  <2>2. Constant(0) \in Series
    BY SeriesTypes
  <2>3. h = Constant(0)
    BY <2>1, <2>2, SeriesAreEqual
  <2> QED BY <1>0, <2>3, AgreeIsReflexive
<1>2. ASSUME NEW d \in Nat, d \in T PROVE d + 1 \in T
  <2> SUFFICES ASSUME NEW h \in Series, Short(h, d + 1), VanishesFrom(Conv(h, q), g, (d + 1) + g, m)
               PROVE  \A n \in Nat : AgreeBelow(h, Constant(0), n, m)
    OBVIOUS
  <2>1. Same(h[d], 0, m) /\ h[d] \in Int
    <3>1. d + g \in Nat /\ g <= d + g /\ d + g < (d + 1) + g
      OBVIOUS
    <3>2. Same(Conv(h, q)[d + g], 0, m)
      BY <3>1 DEF VanishesFrom
    <3> QED BY <3>2, TopOfProduct DEF Series
  <2>2. PICK w \in Series : w = [k \in Nat |-> IF k = d THEN 0 ELSE h[k]]
    <3>1. [k \in Nat |-> IF k = d THEN 0 ELSE h[k]] \in Series
      BY DEF Series
    <3> QED BY <3>1
  <2>3. \A k \in Nat : Same(h[k], w[k], m)
    <3> SUFFICES ASSUME NEW k \in Nat PROVE Same(h[k], w[k], m)
      OBVIOUS
    <3>1. h[k] \in Int
      BY DEF Series
    <3>2. CASE k = d
      BY <2>1, <2>2, <3>2
    <3>3. CASE k # d
      <4>1. w[k] = h[k]
        BY <2>2, <3>3
      <4> QED BY <1>0, <3>1, <4>1, SameIsReflexive
    <3> QED BY <3>2, <3>3
  <2>4. \A n \in Nat : AgreeBelow(h, w, n, m)
    BY <2>3 DEF AgreeBelow
  <2>5. Short(w, d)
    <3> SUFFICES ASSUME NEW k \in Nat, k >= d PROVE w[k] = 0
      BY DEF Short
    <3>1. k # d => k >= d + 1
      OBVIOUS
    <3> QED BY <2>2, <3>1 DEF Short
  <2>6. VanishesFrom(Conv(w, q), g, d + g, m)
    <3> SUFFICES ASSUME NEW k \in Nat, g <= k, k < d + g PROVE Same(Conv(w, q)[k], 0, m)
      BY DEF VanishesFrom
    <3>1. k < (d + 1) + g /\ k + 1 \in Nat /\ k < k + 1
      OBVIOUS
    <3>2. Same(Conv(h, q)[k], 0, m)
      BY <3>1 DEF VanishesFrom
    <3>3. AgreeBelow(w, h, k + 1, m) /\ AgreeBelow(q, q, k + 1, m)
      BY <1>0, <2>4, <3>1, AgreeIsSymmetric, AgreeIsReflexive
    <3>4. AgreeBelow(Conv(w, q), Conv(h, q), k + 1, m)
      BY <1>0, <3>1, <3>3, ConvAgrees
    <3>5. Same(Conv(w, q)[k], Conv(h, q)[k], m)
      BY <3>1, <3>4 DEF AgreeBelow
    <3>6. Conv(w, q)[k] \in Int /\ Conv(h, q)[k] \in Int
      <4>1. Conv(w, q) \in Series /\ Conv(h, q) \in Series
        BY <1>0, ConvType
      <4> QED BY <4>1 DEF Series
    <3> QED BY <1>0, <3>2, <3>5, <3>6, SameIsTransitive
  <2>7. \A n \in Nat : AgreeBelow(w, Constant(0), n, m)
    BY <1>2, <2>5, <2>6
  <2> SUFFICES ASSUME NEW n \in Nat PROVE AgreeBelow(h, Constant(0), n, m)
    OBVIOUS
  <2>8. Constant(0) \in Series
    BY SeriesTypes
  <2> QED BY <1>0, <2>4, <2>7, <2>8, AgreeIsTransitive
<1> HIDE DEF T
<1>3. \A d \in Nat : d \in T
  BY <1>1, <1>2, SetOfAllNaturals
<1> QED BY <1>3 DEF T

\* Two ways to write a number as a multiple and a rest.
LEMMA TwoRests ==
  ASSUME NEW m \in Int, NEW a \in Int, NEW x \in Int, NEW y \in Int, NEW r \in Int, NEW s \in Int,
         Same(a, 1 * x + r, m), Same(a, 1 * y + s, m)
  PROVE  /\ Same(-1 * y + x, s - r, m)
         /\ Same(-1 * y + x, 0, m) => Same(r, s, m)
<1>1. PICK i \in Int, j \in Int : a = 1 * x + r + i * m /\ a = 1 * y + s + j * m
  BY DEF Same
<1>2. PICK u \in Int, v \in Int, w \in Int : u = i * m /\ v = j * m /\ w = (j - i) * m /\ w = v - u
  <2>1. i * m \in Int /\ j * m \in Int /\ (j - i) * m \in Int /\ (j - i) * m = j * m - i * m
    OBVIOUS
  <2> QED BY <2>1
<1>3. -1 * y + x = (s - r) + w
  BY <1>1, <1>2
<1>4. j - i \in Int
  OBVIOUS
<1>5. Same(-1 * y + x, s - r, m)
  BY <1>2, <1>3, <1>4 DEF Same
<1>6. ASSUME Same(-1 * y + x, 0, m) PROVE Same(r, s, m)
  <2>1. PICK l \in Int : -1 * y + x = 0 + l * m
    BY <1>6 DEF Same
  <2>2. PICK z \in Int, e \in Int : z = l * m /\ e = (j - i - l) * m /\ e = w - z
    <3>1. l * m \in Int /\ (j - i - l) * m \in Int /\ (j - i - l) * m = (j - i) * m - l * m
      OBVIOUS
    <3> QED BY <1>2, <3>1
  <2>3. r = s + e
    BY <1>3, <2>1, <2>2
  <2>4. j - i - l \in Int
    OBVIOUS
  <2> QED BY <2>2, <2>3, <2>4 DEF Same
<1> QED BY <1>5, <1>6

\* A monic divisor leaves one rest only, whatever the modulus.
RestOf(p, q, m, h, r) ==
  /\ h \in Series /\ Short(h, Len(p) - Len(q) + 1)
  /\ r \in Poly(m) /\ Len(r) = Len(q) - 1 /\ SplitBy(p, q, m, h, r)

LEMMA RestIsUnique ==
  ASSUME NEW m \in Nat \ {0, 1}, NEW p \in Poly(m), NEW q \in Poly(m), Monic(q),
         Len(p) >= Len(q), NEW h1, NEW r1, NEW h2, NEW r2,
         RestOf(p, q, m, h1, r1), RestOf(p, q, m, h2, r2)
  PROVE  r1 = r2
<1>0. m \in Nat \ {0} /\ m \in Int
  OBVIOUS
<1>1. PICK n \in Nat, g \in Nat, d \in Nat :
        n = Len(p) /\ g = Len(q) - 1 /\ d = Len(p) - Len(q) + 1 /\ n = d + g /\ g < n
  <2>1. Len(p) \in Nat /\ Len(q) \in Nat
    BY <1>0, PolyFacts
  <2>2. Len(q) # 0
    BY DEF Monic, Poly
  <2>3. Len(q) - 1 \in Nat /\ Len(p) - Len(q) + 1 \in Nat
        /\ Len(p) = (Len(p) - Len(q) + 1) + (Len(q) - 1) /\ Len(q) - 1 < Len(p)
    BY <2>1, <2>2
  <2> QED BY <2>1, <2>3
<1>2. PICK f \in Series : f = Ser(q)
  BY <1>0, PolyFacts
<1>3. Leads(f, g)
  <2>1. Len(q) = g + 1 /\ q[g + 1] = 1
    <3>1. Len(q) \in Nat
      BY <1>0, PolyFacts
    <3>2. Len(q) = g + 1
      BY <1>1, <3>1
    <3> QED BY <3>2 DEF Monic
  <2>2. f[g] = 1
    BY <1>2, <2>1 DEF Ser
  <2>3. \A k \in Nat : k > g => f[k] = 0
    BY <1>2, <2>1 DEF Ser
  <2> QED BY <2>2, <2>3 DEF Leads
<1>4. PICK c1 \in Series, c2 \in Series, s1 \in Series, s2 \in Series, a \in Series :
        c1 = Conv(h1, f) /\ c2 = Conv(h2, f) /\ s1 = Ser(r1) /\ s2 = Ser(r2) /\ a = Ser(p)
  <2>1. Conv(h1, f) \in Series /\ Conv(h2, f) \in Series
    BY ConvType DEF RestOf
  <2>2. Ser(r1) \in Series /\ Ser(r2) \in Series /\ Ser(p) \in Series
    BY <1>0, PolyFacts DEF RestOf
  <2> QED BY <2>1, <2>2
<1>5. PICK h \in Series : h = Combine(-1, h2, h1)
  <2>1. h1 \in Series /\ h2 \in Series /\ -1 \in Int
    BY DEF RestOf
  <2> QED BY <2>1, SeriesTypes
<1>6. Conv(h, f) = Combine(-1, c2, c1)
  <2>1. h1 \in Series /\ h2 \in Series /\ -1 \in Int
    BY DEF RestOf
  <2> QED BY <1>4, <1>5, <2>1, ConvIsLinear
<1>7. Short(h, d)
  <2> SUFFICES ASSUME NEW k \in Nat, k >= d PROVE h[k] = 0
    BY DEF Short
  <2>1. h1[k] = 0 /\ h2[k] = 0
    BY <1>1 DEF RestOf, Short
  <2>2. h[k] = (-1) * h2[k] + h1[k]
    BY <1>5 DEF Combine
  <2> QED BY <2>1, <2>2
<1>8. ASSUME NEW k \in Nat, k < n
      PROVE  /\ Same(Conv(h, f)[k], s2[k] - s1[k], m)
             /\ Same(Conv(h, f)[k], 0, m) => Same(s1[k], s2[k], m)
             /\ s1[k] \in Int /\ s2[k] \in Int
  <2>1. Same(a[k], Combine(1, c1, s1)[k], m) /\ Same(a[k], Combine(1, c2, s2)[k], m)
    BY <1>1, <1>2, <1>4, <1>8 DEF RestOf, SplitBy, AgreeBelow
  <2>2. PICK v \in Int, x \in Int, y \in Int, r \in Int, s \in Int :
          v = a[k] /\ x = c1[k] /\ y = c2[k] /\ r = s1[k] /\ s = s2[k]
    BY <1>4 DEF Series
  <2>3. Same(v, 1 * x + r, m) /\ Same(v, 1 * y + s, m)
    BY <2>1, <2>2 DEF Combine
  <2>4. Same(-1 * y + x, s - r, m) /\ (Same(-1 * y + x, 0, m) => Same(r, s, m))
    BY <1>0, <2>3, TwoRests
  <2>5. Conv(h, f)[k] = -1 * y + x
    BY <1>6, <2>2 DEF Combine
  <2> QED BY <2>2, <2>4, <2>5
<1>9. VanishesFrom(Conv(h, f), g, d + g, m)
  <2> SUFFICES ASSUME NEW k \in Nat, g <= k, k < d + g PROVE Same(Conv(h, f)[k], 0, m)
    BY DEF VanishesFrom
  <2>1. k < n /\ k >= Len(r1) /\ k >= Len(r2)
    BY <1>1 DEF RestOf
  <2>2. s1[k] = 0 /\ s2[k] = 0
    BY <1>4, <2>1 DEF Ser
  <2>3. s2[k] - s1[k] = 0
    BY <2>2
  <2>4. Same(Conv(h, f)[k], s2[k] - s1[k], m)
    BY <1>8, <2>1
  <2> QED BY <2>3, <2>4
<1>10. AgreeBelow(h, Constant(0), n, m)
  BY <1>0, <1>3, <1>7, <1>9, VanishingMultiple
<1>11. ASSUME NEW k \in Nat, k < g PROVE Same(s1[k], s2[k], m)
  <2>1. k < n
    BY <1>1, <1>11
  <2>2. Constant(0) \in Series /\ 0 \in Int
    BY <1>5, SeriesTypes
  <2>3. AgreeBelow(f, f, n, m)
    BY <1>0, AgreeIsReflexive
  <2>4. AgreeBelow(Conv(h, f), Conv(Constant(0), f), n, m)
    BY <1>0, <1>10, <2>2, <2>3, ConvAgrees
  <2>5. Same(Conv(h, f)[k], Conv(Constant(0), f)[k], m)
    BY <2>1, <2>4 DEF AgreeBelow
  <2>6. Conv(Constant(0), f)[k] = 0
    <3>1. Conv(Constant(0), f)[k] = 0 * f[k] /\ f[k] \in Int
      BY <2>2, ConvOfConstant DEF Series
    <3> QED BY <3>1
  <2> QED BY <1>8, <2>1, <2>5, <2>6
<1>12. \A i \in 1 .. g : r1[i] = r2[i]
  <2> SUFFICES ASSUME NEW i \in 1 .. g PROVE r1[i] = r2[i]
    OBVIOUS
  <2>1. PICK k \in Nat : k = i - 1 /\ k < g /\ k + 1 = i
    <3>1. i - 1 \in Nat /\ i - 1 < g /\ (i - 1) + 1 = i
      OBVIOUS
    <3> QED BY <3>1
  <2>2. r1 \in Poly(m) /\ r2 \in Poly(m) /\ Len(r1) = g /\ Len(r2) = g
    BY <1>1 DEF RestOf
  <2>3. s1[k] = r1[i] /\ s2[k] = r2[i]
    BY <1>4, <2>1, <2>2 DEF Ser
  <2>4. r1[i] \in 0 .. m - 1 /\ r2[i] \in 0 .. m - 1
    BY <1>0, <2>2, PolyFacts
  <2>5. Same(r1[i], r2[i], m)
    BY <1>11, <2>1, <2>3
  <2> QED BY <1>0, <2>4, <2>5, SameOfSmall
<1>13. r1 \in Seq(0 .. m - 1) /\ r2 \in Seq(0 .. m - 1) /\ Len(r1) = g /\ Len(r2) = g
  BY <1>1 DEF RestOf, Poly
<1> QED BY <1>12, <1>13

\* Long division finds that rest.
LEMMA ClassicalLeavesRest ==
  ASSUME NEW m \in Nat \ {0, 1}, NEW p \in Poly(m), NEW q \in Poly(m), Monic(q),
         Len(p) >= Len(q)
  PROVE  \E h, r : RestOf(p, q, m, h, r) /\ ClassicalRemainder(p, q, m) = Trim(r)
<1>0. m \in Nat \ {0} /\ m \in Int
  OBVIOUS
<1>1. PICK n \in Nat, g \in Nat, d \in Nat :
        n = Len(p) /\ g = Len(q) - 1 /\ d = Len(p) - Len(q) + 1 /\ n = d + g /\ Len(q) = g + 1
  <2>1. Len(p) \in Nat /\ Len(q) \in Nat
    BY <1>0, PolyFacts
  <2>2. Len(q) # 0
    BY DEF Monic, Poly
  <2>3. Len(q) - 1 \in Nat /\ Len(p) - Len(q) + 1 \in Nat /\ Len(q) = (Len(q) - 1) + 1
        /\ Len(p) = (Len(p) - Len(q) + 1) + (Len(q) - 1)
    BY <2>1, <2>2
  <2> QED BY <2>1, <2>3
<1>2. PICK R : R = Rests(p, q, m)
  OBVIOUS
<1>3. /\ R = RestStep(p, q, m, R)
      /\ \A c \in g .. n : R[c] \in Poly(m) /\ Len(R[c]) = c
  <2>1. ~(Len(p) < Len(q))
    BY <1>1
  <2>2. LET r == Rests(p, q, m)
        IN  /\ r = RestStep(p, q, m, r)
            /\ \A c \in Len(q) - 1 .. Len(p) :
                 /\ r[c] \in Poly(m) /\ Len(r[c]) = c
                 /\ \A x \in Int : Same(At(x, q), 0, m) => Same(At(x, r[c]), At(x, p), m)
    BY <1>0, <2>1, RestsEquation
  <2> QED BY <1>1, <1>2, <2>2
<1>4. PICK f \in Series, a \in Series : f = Ser(q) /\ a = Ser(p)
  BY <1>0, PolyFacts
<1> DEFINE Reached(c) == \E h \in Series :
                           Short(h, d) /\ \A k \in Nat : Same(a[k], Conv(h, f)[k] + Ser(R[c])[k], m)
           T == {j \in Nat : j <= d => Reached(n - j)}
<1>5. 0 \in T
  <2>1. R[n] = p /\ n - 0 = n
    <3>1. n \in g .. n
      BY <1>1
    <3> QED BY <1>1, <1>3, <3>1 DEF RestStep
  <2>2. Constant(0) \in Series /\ 0 \in Int
    BY <1>4, SeriesTypes
  <2>3. Short(Constant(0), d)
    BY DEF Short, Constant
  <2>4. ASSUME NEW k \in Nat PROVE Same(a[k], Conv(Constant(0), f)[k] + Ser(R[n])[k], m)
    <3>1. a[k] \in Int /\ f[k] \in Int
      BY DEF Series
    <3>2. Conv(Constant(0), f)[k] = 0 * f[k]
      BY <2>2, ConvOfConstant
    <3>3. Conv(Constant(0), f)[k] + Ser(R[n])[k] = a[k]
      BY <1>4, <2>1, <3>1, <3>2
    <3> QED BY <1>0, <3>1, <3>3, SameIsReflexive
  <2> QED BY <2>1, <2>2, <2>3, <2>4
<1>6. ASSUME NEW j \in Nat, j \in T PROVE j + 1 \in T
  <2> SUFFICES ASSUME j + 1 <= d PROVE Reached(n - (j + 1))
    OBVIOUS
  <2>1. PICK c \in Nat, s \in Nat :
          /\ c = n - (j + 1) /\ c + 1 = n - j /\ s = c - g /\ s < d
          /\ c \in g .. n /\ c # n /\ c + 1 \in g .. n
    <3>1. PICK c \in Nat : c = n - (j + 1)
      <4>1. n - (j + 1) \in Nat
        BY <1>1
      <4> QED BY <4>1
    <3>2. PICK s \in Nat : s = c - g
      <4>1. c - g \in Nat
        BY <1>1, <3>1
      <4> QED BY <4>1
    <3>3. c + 1 = n - j /\ s < d /\ g <= c /\ c < n
      BY <1>1, <3>1, <3>2
    <3>4. c \in g .. n /\ c + 1 \in g .. n /\ c # n
      BY <3>3
    <3> QED BY <3>1, <3>2, <3>3, <3>4
  <2>2. PICK h \in Series : /\ Short(h, d)
                            /\ \A k \in Nat : Same(a[k], Conv(h, f)[k] + Ser(R[c + 1])[k], m)
    <3>1. Reached(n - j)
      BY <1>6
    <3> QED BY <2>1, <3>1
  <2>3. PICK above \in Poly(m), below \in Poly(m) :
          /\ above = R[c + 1] /\ below = R[c] /\ Len(above) = c + 1 /\ Len(below) = c
          /\ below = Cleared(above, q, c, m)
    <3>1. R[c] = Cleared(R[c + 1], q, c, m)
      BY <1>1, <1>3, <2>1 DEF RestStep
    <3> QED BY <1>3, <2>1, <3>1
  <2>4. PICK l \in Int : l = above[c + 1]
    <3>1. c + 1 \in 1 .. c + 1
      OBVIOUS
    <3>2. above[c + 1] \in 0 .. m - 1
      BY <1>0, <2>3, <3>1, PolyFacts
    <3> QED BY <3>2
  <2>5. PICK e \in Series, u \in Series, v \in Series :
          e = Delay(f, s) /\ u = Ser(above) /\ v = Ser(below)
    BY <1>0, <2>3, DelayType, PolyFacts
  <2>6. AgreeBelow(u, Combine(l, e, v), c + 1, m)
    <3>1. Len(q) <= c + 1 /\ c - (Len(q) - 1) = s
      BY <1>1, <2>1
    <3>2. AgreeBelow(Ser(above), Combine(above[c + 1], Delay(Ser(q), c - (Len(q) - 1)),
                                         Ser(Cleared(above, q, c, m))), c + 1, m)
      BY <1>0, <2>3, <3>1, ClearedFacts
    <3> QED BY <1>4, <2>3, <2>4, <2>5, <3>1, <3>2
  <2>7. \A k \in Nat : Same(u[k], l * e[k] + v[k], m)
    <3> SUFFICES ASSUME NEW k \in Nat PROVE Same(u[k], l * e[k] + v[k], m)
      OBVIOUS
    <3>1. CASE k < c + 1
      BY <2>6, <3>1 DEF AgreeBelow, Combine
    <3>2. CASE ~(k < c + 1)
      <4>1. u[k] = 0 /\ v[k] = 0
        BY <2>3, <2>5, <3>2 DEF Ser
      <4>2. ~(k < s) /\ k - s \in Nat /\ ~(k - s < Len(q))
        BY <1>1, <2>1, <3>2
      <4>3. e[k] = 0
        BY <1>4, <2>5, <4>2 DEF Delay, Ser
      <4>4. l * e[k] + v[k] = 0
        BY <4>1, <4>3
      <4> QED BY <1>0, <4>1, <4>4, SameIsReflexive
    <3> QED BY <3>1, <3>2
  <2>8. Conv(Delay(Constant(1), s), f) = e
    <3>1. Constant(1) \in Series /\ 1 \in Int
      BY <1>4, SeriesTypes
    <3>2. Conv(Constant(1), f) = f
      <4>1. Conv(Constant(1), f) \in Series
        BY <3>1, ConvType
      <4>2. \A k \in Nat : Conv(Constant(1), f)[k] = f[k]
        <5> SUFFICES ASSUME NEW k \in Nat PROVE Conv(Constant(1), f)[k] = f[k]
          OBVIOUS
        <5>1. Conv(Constant(1), f)[k] = 1 * f[k] /\ f[k] \in Int
          BY <3>1, ConvOfConstant DEF Series
        <5> QED BY <5>1
      <4> QED BY <4>1, <4>2, SeriesAreEqual
    <3> QED BY <2>5, <3>1, <3>2, ConvOfDelay
  <2>9. PICK w \in Series : w = Delay(Constant(1), s)
    <3>1. Constant(1) \in Series
      BY <1>4, SeriesTypes
    <3> QED BY <3>1, DelayType
  <2>10. PICK z \in Series : z = Combine(l, w, h)
    BY SeriesTypes
  <2>11. Short(z, d)
    <3> SUFFICES ASSUME NEW k \in Nat, k >= d PROVE z[k] = 0
      BY DEF Short
    <3>1. h[k] = 0
      BY <2>2 DEF Short
    <3>2. w[k] = 0
      <4>1. ~(k < s) /\ k - s \in Nat /\ k - s # 0
        BY <2>1
      <4> QED BY <2>9, <4>1 DEF Delay, Constant
    <3>3. z[k] = l * w[k] + h[k]
      BY <2>10 DEF Combine
    <3> QED BY <3>1, <3>2, <3>3
  <2>12. Conv(z, f) = Combine(l, e, Conv(h, f))
    BY <2>8, <2>9, <2>10, ConvIsLinear
  <2>13. ASSUME NEW k \in Nat PROVE Same(a[k], Conv(z, f)[k] + Ser(R[c])[k], m)
    <3>1. PICK b \in Int, x \in Int, y \in Int, i \in Int, t \in Int :
            b = a[k] /\ x = Conv(h, f)[k] /\ y = u[k] /\ i = e[k] /\ t = v[k]
      <4>1. Conv(h, f) \in Series
        BY ConvType
      <4> QED BY <4>1 DEF Series
    <3>2. Same(b, x + y, m) /\ Same(y, l * i + t, m) /\ Same(x, x, m)
      BY <1>0, <2>2, <2>3, <2>5, <2>7, <3>1, SameIsReflexive
    <3>3. PICK o \in Int : o = l * i
      OBVIOUS
    <3>4. Same(x + y, x + (o + t), m)
      BY <1>0, <3>2, <3>3, SamePlus
    <3>5. Same(b, x + (o + t), m)
      BY <1>0, <3>2, <3>4, SameIsTransitive
    <3>6. Conv(z, f)[k] + Ser(R[c])[k] = x + (o + t)
      <4>1. Conv(z, f)[k] = o + x
        BY <2>12, <3>1, <3>3 DEF Combine
      <4> QED BY <2>3, <2>5, <3>1, <4>1
    <3> QED BY <3>1, <3>5, <3>6
  <2> QED BY <2>1, <2>11, <2>13
<1>7. \A j \in Nat : j \in T
  <2> HIDE DEF T
  <2> QED BY <1>5, <1>6, SetOfAllNaturals
<1>8. Reached(g)
  <2>1. n - d = g /\ d <= d
    BY <1>1
  <2> QED BY <1>7, <2>1
<1>9. PICK h \in Series : Short(h, d) /\ \A k \in Nat : Same(a[k], Conv(h, f)[k] + Ser(R[g])[k], m)
  BY <1>8
<1>10. g \in g .. n
  BY <1>1
<1>11. SplitBy(p, q, m, h, R[g])
  <2> SUFFICES ASSUME NEW k \in Nat PROVE Same(a[k], Combine(1, Conv(h, f), Ser(R[g]))[k], m)
    BY <1>4 DEF SplitBy, AgreeBelow
  <2>1. Combine(1, Conv(h, f), Ser(R[g]))[k] = 1 * Conv(h, f)[k] + Ser(R[g])[k]
    BY DEF Combine
  <2>2. Conv(h, f)[k] \in Int
    <3>1. Conv(h, f) \in Series
      BY ConvType
    <3> QED BY <3>1 DEF Series
  <2>3. 1 * Conv(h, f)[k] = Conv(h, f)[k]
    BY <2>2
  <2> QED BY <1>9, <2>1, <2>3
<1>12. RestOf(p, q, m, h, R[g])
  BY <1>1, <1>3, <1>9, <1>10, <1>11 DEF RestOf
<1>13. ClassicalRemainder(p, q, m) = Trim(R[g])
  <2>1. ~(Len(p) < Len(q))
    BY <1>1
  <2> QED BY <1>1, <1>2, <2>1, ClassicalIsRest
<1> QED BY <1>12, <1>13

\* Newton's iteration, as monic_remainder runs it above the limit of a policy,
\* leaves the same rest as long division, modulo any number.
THEOREM RemaindersAgree ==
  ASSUME NEW m \in Nat \ {0, 1}, NEW p \in Poly(m), NEW q \in Poly(m), Monic(q),
         Len(p) >= Len(q)
  PROVE  NewtonRemainder(p, q, m) = ClassicalRemainder(p, q, m)
<1>0. m \in Nat \ {0}
  OBVIOUS
<1>1. PICK r \in Poly(m), quotient \in Poly(m) :
        NewtonRemainder(p, q, m) = Trim(r) /\ Remains(p, q, m, quotient, r)
  BY NewtonRemainderFacts
<1>2. PICK h2, r2 : RestOf(p, q, m, h2, r2) /\ ClassicalRemainder(p, q, m) = Trim(r2)
  BY ClassicalLeavesRest
<1>3. RestOf(p, q, m, Ser(quotient), r)
  <2>1. Ser(quotient) \in Series /\ Short(Ser(quotient), Len(quotient))
    BY <1>0, PolyFacts DEF Short
  <2> QED BY <1>1, <2>1 DEF RestOf, Remains
<1>4. r = r2
  BY <1>2, <1>3, RestIsUnique
<1> QED BY <1>1, <1>2, <1>4

(* ------------------------- the inductive invariant --------------------- *)

Serving == pc \in {"called", "transform", "done"}

\* The call by which a division asks for a product.
Asking(a) == [op |-> "multiply", left |-> Operands(a)[1], right |-> Operands(a)[2]]

\* The first L primes hold every coefficient of a product and have roots for it.
Enough(P, Q, m, L) ==
  /\ L \in 1 .. Len(Primes)
  /\ \A i \in 1 .. L : PowerOfTwo(Primes[i].power) >= BitCeil(Len(P) + Len(Q) - 1)
  /\ Lesser(Len(P), Len(Q)) * ((m - 1) * (m - 1)) < Whole(L)

ValidSound == pc \notin {"new", "closed"} => RingValid

SlotsSound == slots \in [0 .. Len(Primes) - 1 -> {"empty", "written", "threw"}]

CallSound ==
  Serving => /\ call.op \in {"multiply", "remainder"}
             /\ left \in Poly(modulus) /\ right \in Poly(modulus)

TransformSound ==
  pc = "transform" =>
    /\ call.op = "multiply" /\ left # <<>> /\ right # <<>> /\ ~Denied
    /\ Enough(left, right, modulus, Count)
    /\ DOMAIN residues = 1 .. Count
    /\ \A i \in 1 .. Count : residues[i] \in {<<>>, Convolution(left, right, Primes[i])}
    /\ InBatch => /\ phase = "busy" /\ size = Count
                  /\ \A i \in 1 .. Count : slots[i - 1] = "written" <=> residues[i] # <<>>

ProductSound ==
  pc = "done" /\ call.op = "multiply" =>
    /\ result.kind \in {"value", "limit", "failed"}
    /\ result.kind = "value" => result.value = Product(left, right, modulus) /\ ~Denied
    /\ result.kind = "limit" => Denied

Underway(a, k) == Stands(a, modulus, k) /\ \A d \in Passed(a, k) : ~Refused(d[1], d[2])

ActivationSound ==
  Serving /\ activation # NoActivation =>
    /\ call = Asking(activation)
    /\ ~Classical(Len(activation.dividend), Len(activation.divisor), policy)
    /\ \E k \in Nat : Underway(activation, k)

ServiceInv ==
  /\ RingTypeOK /\ ValidSound /\ SlotsSound /\ CallSound
  /\ TransformSound /\ ProductSound /\ ActivationSound /\ RemainderExact

LEMMA UnderwaySteady ==
  ASSUME ring' = ring, NEW a, NEW k
  PROVE  Underway(a, k)' = Underway(a, k)
<1>1. \A d \in Passed(a, k) : Refused(d[1], d[2])' = Refused(d[1], d[2])
  BY RefusalSteady
<1>2. modulus' = modulus
  BY RingSteady
<1> QED BY <1>1, <1>2 DEF Underway

\* A call that goes on.
LEMMA CallGoesOn ==
  ASSUME ServiceInv, Serving, ring' = ring, call' = call, activation' = activation
  PROVE  CallSound' /\ ActivationSound'
<1>1. modulus' = modulus /\ policy' = policy /\ left' = left /\ right' = right
  BY RingSteady, CallSteady
<1>2. CallSound'
  BY <1>1 DEF ServiceInv, CallSound
<1>3. ASSUME activation # NoActivation
      PROVE  /\ call' = Asking(activation)
             /\ ~Classical(Len(activation.dividend), Len(activation.divisor), policy')
             /\ \E k \in Nat : Underway(activation, k)'
  <2>1. /\ call = Asking(activation)
        /\ ~Classical(Len(activation.dividend), Len(activation.divisor), policy)
        /\ \E k \in Nat : Underway(activation, k)
    BY <1>3 DEF ServiceInv, ActivationSound
  <2>2. PICK a : a = activation
    OBVIOUS
  <2>3. \A k \in Nat : Underway(a, k)' = Underway(a, k)
    BY UnderwaySteady
  <2>4. \A k \in Nat : Underway(activation, k)' = Underway(a, k)'
    BY <2>2
  <2> QED BY <1>1, <2>1, <2>2, <2>3, <2>4
<1>4. ActivationSound'
  BY <1>3 DEF ActivationSound
<1> QED BY <1>2, <1>4

\* A division asks for a product.
LEMMA DemandIsSound ==
  ASSUME ServiceInv, Serving, NEW a, Demand(a), NEW k \in Nat, Underway(a, k),
         ~Classical(Len(a.dividend), Len(a.divisor), policy)
  PROVE  ServiceInv'
<1>0. ring \in Rings /\ RingValid
  BY DEF ServiceInv, RingTypeOK, ValidSound, Serving
<1>1. /\ activation' = a /\ call' = Asking(a) /\ pc' = "called"
      /\ residues' = <<>> /\ result' = NoResult /\ ring' = ring
      /\ phase' = phase /\ size' = size /\ slots' = slots /\ ended' = ended
  BY DEF Demand, Asking, pool
<1>2. modulus' = modulus /\ policy' = policy /\ RingValid' = RingValid
  BY <1>1, RingSteady
<1>3. modulus \in Nat \ {0, 1}
  BY <1>0, ValidRing
<1>4. Operands(a)[1] \in Poly(modulus) /\ Operands(a)[2] \in Poly(modulus)
  BY <1>3, OperandsFacts DEF Underway
<1>5. RingTypeOK'
  BY <1>0, <1>1 DEF RingTypeOK, NoResult
<1>6. ValidSound' /\ SlotsSound' /\ TransformSound' /\ ProductSound' /\ RemainderExact'
  BY <1>0, <1>1, <1>2
     DEF ServiceInv, ValidSound, SlotsSound, TransformSound, ProductSound, RemainderExact
<1>7. CallSound'
  <2>1. call'.op = "multiply" /\ left' = Operands(a)[1] /\ right' = Operands(a)[2]
    BY <1>1 DEF Asking, left, right
  <2> QED BY <1>2, <1>4, <2>1 DEF CallSound
<1>8. ActivationSound'
  <2>1. Underway(a, k)'
    BY <1>1, UnderwaySteady
  <2> QED BY <1>1, <1>2, <2>1 DEF ActivationSound
<1> QED BY <1>5, <1>6, <1>7, <1>8 DEF ServiceInv

\* The ring is made, asked, and given up.
LEMMA InitIsSound == RingInit => ServiceInv
<1> SUFFICES ASSUME RingInit PROVE ServiceInv
  OBVIOUS
<1>1. RingTypeOK
  BY DEF RingInit, RingTypeOK, NoCall, NoActivation, NoResult
<1>2. SlotsSound
  BY DEF RingInit, SlotsSound, Executor!Init, Executor!EmptySlots, Executor!Indices
<1>3. ValidSound /\ CallSound /\ TransformSound /\ ProductSound /\ ActivationSound
      /\ RemainderExact
  BY DEF RingInit, ValidSound, CallSound, TransformSound, ProductSound, ActivationSound,
         RemainderExact, Serving
<1> QED BY <1>1, <1>2, <1>3 DEF ServiceInv

LEMMA ConstructIsSound == ServiceInv /\ Construct => ServiceInv'
<1> SUFFICES ASSUME ServiceInv, Construct PROVE ServiceInv'
  OBVIOUS
<1>1. /\ ring' = ring /\ call' = call /\ activation' = activation /\ residues' = residues
      /\ result' = result /\ phase' = phase /\ size' = size /\ slots' = slots /\ pc = "new"
      /\ pc' = IF RingValid THEN "idle" ELSE "closed"
  BY DEF Construct, pool
<1>2. RingValid' = RingValid
  BY <1>1, RingSteady
<1>3. RingTypeOK'
  BY <1>1 DEF ServiceInv, RingTypeOK
<1>4. ValidSound'
  BY <1>1, <1>2 DEF ValidSound
<1>5. SlotsSound' /\ CallSound' /\ TransformSound' /\ ProductSound' /\ ActivationSound'
      /\ RemainderExact'
  BY <1>1 DEF ServiceInv, SlotsSound, CallSound, TransformSound, ProductSound,
              ActivationSound, RemainderExact, Serving
<1> QED BY <1>3, <1>4, <1>5 DEF ServiceInv

LEMMA AskIsSound == ServiceInv /\ Ask => ServiceInv'
<1> SUFFICES ASSUME ServiceInv, Ask PROVE ServiceInv'
  OBVIOUS
<1>1. /\ ring' = ring /\ call' \in Calls(modulus) /\ activation' = activation
      /\ residues' = residues /\ result' = result /\ phase' = phase /\ size' = size
      /\ slots' = slots /\ pc = "idle" /\ pc' = "called"
  BY DEF Ask, pool
<1>2. RingValid' = RingValid /\ modulus' = modulus
  BY <1>1, RingSteady
<1>3. RingValid /\ ring \in Rings /\ activation = NoActivation /\ result = NoResult
  BY <1>1 DEF ServiceInv, ValidSound, RingTypeOK
<1>4. RingTypeOK'
  BY <1>1, <1>3 DEF RingTypeOK, NoResult
<1>5. ValidSound' /\ SlotsSound' /\ TransformSound' /\ ProductSound' /\ ActivationSound'
      /\ RemainderExact'
  BY <1>1, <1>2, <1>3 DEF ServiceInv, ValidSound, SlotsSound, TransformSound, ProductSound,
                          ActivationSound, RemainderExact, Serving
<1>6. CallSound'
  <2>1. /\ call'.op \in {"multiply", "remainder"}
        /\ call'.left \in Poly(modulus) /\ call'.right \in Poly(modulus)
    BY <1>1, <1>3, ValidRing
  <2>2. left' = call'.left /\ right' = call'.right
    BY DEF left, right
  <2> QED BY <1>2, <2>1, <2>2 DEF CallSound
<1> QED BY <1>4, <1>5, <1>6 DEF ServiceInv

\* What ends a service leaves nothing to show.
LEMMA RestIsSound ==
  ASSUME ServiceInv, ring' = ring, pc' \in {"idle", "closed"}, slots' = slots,
         activation' = activation,
         result' = NoResult, call' = NoCall \/ phase' = "closed",
         activation # NoActivation => pc' = "closed",
         RingValid
  PROVE  ServiceInv'
<1>1. RingValid'
  BY RingSteady
<1>2. RingTypeOK'
  BY DEF ServiceInv, RingTypeOK, NoResult
<1>3. ValidSound'
  BY <1>1 DEF ValidSound
<1>4. SlotsSound' /\ CallSound' /\ TransformSound' /\ ProductSound' /\ ActivationSound'
      /\ RemainderExact'
  BY DEF ServiceInv, SlotsSound, CallSound, TransformSound, ProductSound,
         ActivationSound, RemainderExact, Serving
<1> QED BY <1>2, <1>3, <1>4 DEF ServiceInv

LEMMA DeliverIsSound == ServiceInv /\ Deliver => ServiceInv'
<1> SUFFICES ASSUME ServiceInv, Deliver PROVE ServiceInv'
  OBVIOUS
<1>1. /\ ring' = ring /\ call' = NoCall /\ activation' = activation /\ activation = NoActivation
      /\ result' = NoResult /\ slots' = slots /\ pc = "done" /\ pc' = "idle"
  BY DEF Deliver, pool
<1>2. RingValid
  BY <1>1 DEF ServiceInv, ValidSound
<1> QED BY <1>1, <1>2, RestIsSound

LEMMA DestroyIsSound == ServiceInv /\ Destroy => ServiceInv'
<1> SUFFICES ASSUME ServiceInv, Destroy PROVE ServiceInv'
  OBVIOUS
<1>1. /\ ring' = ring /\ call' = call /\ activation' = activation /\ result' = result
      /\ slots' = slots /\ pc = "idle" /\ pc' = "closed"
      /\ phase' = "closed" \/ phase' = phase
  BY DEF Destroy, pool, Executor!Close
<1>2. RingValid /\ activation = NoActivation /\ result = NoResult
      /\ (call = NoCall \/ phase = "closed")
  BY <1>1 DEF ServiceInv, ValidSound, RingTypeOK
<1> QED BY <1>1, <1>2, RestIsSound

\* What multiply knows of its operands.
LEMMA OperandsKnown ==
  ASSUME ServiceInv, Serving
  PROVE  /\ modulus \in Nat \ {0, 1} /\ modulus \in Nat \ {0} /\ RingValid
         /\ left \in Poly(modulus) /\ right \in Poly(modulus)
         /\ Len(left) \in Nat /\ Len(right) \in Nat
<1>1. ring \in Rings /\ RingValid
  BY DEF ServiceInv, RingTypeOK, ValidSound, Serving
<1>2. modulus \in Nat \ {0, 1} /\ modulus \in Nat \ {0}
  BY <1>1, ValidRing
<1>3. left \in Poly(modulus) /\ right \in Poly(modulus)
  BY DEF ServiceInv, CallSound
<1>4. Len(left) \in Nat /\ Len(right) \in Nat
  BY <1>2, <1>3, PolyFacts
<1> QED BY <1>1, <1>2, <1>3, <1>4

\* A product that is not refused has the primes it needs.
LEMMA TransformIsServed ==
  ASSUME ServiceInv, Serving, ~Schoolbook(Len(left), Len(right), policy), ~Denied
  PROVE  left # <<>> /\ right # <<>> /\ Enough(left, right, modulus, Count)
<1>1. /\ modulus \in Nat \ {0} /\ RingValid
      /\ left \in Poly(modulus) /\ right \in Poly(modulus)
  BY OperandsKnown
<1>2. PICK u \in Nat, v \in Nat : u = Len(left) /\ v = Len(right)
  BY OperandsKnown
<1>3. u # 0 /\ v # 0
  BY <1>2 DEF Schoolbook
<1>4. ~TransformRefused(u, v)
  BY <1>2 DEF Denied, Refused
<1>5. policy.minimum_crt_primes \in 0 .. Len(Primes)
  BY <1>1, ValidRing DEF ServiceInv, RingTypeOK
<1>6. PICK m \in Nat \ {0} : m = modulus
  BY <1>1
<1>7. /\ PrimeCount(u, v) \in 1 .. Len(Primes)
      /\ \A i \in 1 .. PrimeCount(u, v) :
           PowerOfTwo(Primes[i].power) >= BitCeil(u + v - 1)
      /\ Lesser(u, v) * ((m - 1) * (m - 1)) < Whole(PrimeCount(u, v))
  BY <1>3, <1>4, <1>5, <1>6, PrimeCountFacts
<1>8. Count = PrimeCount(u, v)
  BY <1>2 DEF Count
<1>9. Enough(left, right, modulus, Count)
  BY <1>2, <1>6, <1>7, <1>8 DEF Enough
<1>10. left # <<>> /\ right # <<>>
  BY <1>2, <1>3
<1> QED BY <1>9, <1>10

\* What each of them contributes,
LEMMA ContributionIs ==
  ASSUME NEW m \in Nat \ {0}, NEW P \in Poly(m), NEW Q \in Poly(m), P # <<>>, Q # <<>>,
         NEW L, Enough(P, Q, m, L), NEW i \in 1 .. L
  PROVE  /\ i \in 1 .. Len(Primes)
         /\ Convolution(P, Q, Primes[i])
              = RestsTo(Conv(Ser(P), Ser(Q)), Len(P) + Len(Q) - 1, Base(i))
         /\ Convolution(P, Q, Primes[i])
              = Resize(Product(P, Q, Primes[i].modulus), Len(P) + Len(Q) - 1)
         /\ Convolution(P, Q, Primes[i]) # <<>>
<1>1. Len(Primes) \in Nat /\ L \in 1 .. Len(Primes)
  BY BaseFacts DEF Enough
<1>2. i \in 1 .. Len(Primes)
  BY <1>1
<1>3. PICK prime : prime = Primes[i] /\ TransformPrime(prime)
  BY <1>2, BaseFacts
<1>4. PICK n : n = Len(P) + Len(Q) - 1
  OBVIOUS
<1>5. PowerOfTwo(prime.power) >= BitCeil(n)
  BY <1>3, <1>4 DEF Enough
<1>6. /\ Convolution(P, Q, prime) = RestsTo(Conv(Ser(P), Ser(Q)), n, prime.modulus)
      /\ Convolution(P, Q, prime) = Resize(Product(P, Q, prime.modulus), n)
      /\ Convolution(P, Q, prime) # <<>>
  BY <1>3, <1>4, <1>5, ConvolutionIsExact
<1> QED BY <1>2, <1>3, <1>4, <1>6 DEF Base

\* and what they have contributed when all have.
LEMMA GatheredIs ==
  ASSUME ServiceInv, pc = "transform", \A i \in DOMAIN residues : residues[i] # <<>>
  PROVE  Combined = Product(left, right, modulus) /\ ~Denied /\ call.op = "multiply"
<1>1. /\ call.op = "multiply" /\ left # <<>> /\ right # <<>> /\ ~Denied
      /\ Enough(left, right, modulus, Count) /\ DOMAIN residues = 1 .. Count
      /\ \A i \in 1 .. Count : residues[i] \in {<<>>, Convolution(left, right, Primes[i])}
  BY DEF ServiceInv, TransformSound
<1>0. PICK m \in Nat \ {0} : m = modulus /\ left \in Poly(m) /\ right \in Poly(m)
  BY OperandsKnown DEF Serving
<1>2. PICK P \in Poly(m), Q \in Poly(m) : m = modulus /\ P = left /\ Q = right
  BY <1>0
<1>3. P # <<>> /\ Q # <<>>
  BY <1>1, <1>2
<1>4. PICK L : L = Count
  OBVIOUS
<1>5. Enough(P, Q, m, L)
  BY <1>1, <1>2, <1>4
<1>6. L \in Nat /\ L <= Len(Primes)
  BY <1>5, BaseFacts DEF Enough
<1>7. ASSUME NEW i \in 1 .. L
      PROVE  residues[i] = RestsTo(Conv(Ser(P), Ser(Q)), Len(P) + Len(Q) - 1, Base(i))
  <2>1. residues[i] = Convolution(P, Q, Primes[i])
    BY <1>1, <1>2, <1>4
  <2>2. Convolution(P, Q, Primes[i])
          = RestsTo(Conv(Ser(P), Ser(Q)), Len(P) + Len(Q) - 1, Base(i))
    BY <1>3, <1>5, ContributionIs
  <2> QED BY <2>1, <2>2
<1>8. Lesser(Len(P), Len(Q)) * ((m - 1) * (m - 1)) < Whole(L)
  BY <1>5 DEF Enough
<1>9. DOMAIN residues = 1 .. L
  BY <1>1, <1>4
<1>10. Combined = Product(P, Q, m)
  BY <1>2, <1>3, <1>6, <1>7, <1>8, <1>9, CombinedIs
<1> QED BY <1>1, <1>2, <1>10

\* Every answer to a multiplication that fits its sizes is sound.
LEMMA AnswerIsSound ==
  ASSUME ServiceInv, Serving, call.op = "multiply", pc' = "done",
         ring' = ring, call' = call, activation' = activation, SlotsSound',
         \/ result' = Returned(Product(left, right, modulus)) /\ ~Denied
         \/ result' = Limit /\ Denied
         \/ result' = Failed
  PROVE  ServiceInv'
<1>1. /\ modulus' = modulus /\ left' = left /\ right' = right /\ Denied' = Denied
      /\ RingValid' = RingValid
  BY RingSteady, CallSteady
<1>2. RingTypeOK'
  BY DEF ServiceInv, RingTypeOK, Returned, Limit, Failed
<1>3. ValidSound' /\ TransformSound' /\ RemainderExact'
  BY <1>1 DEF ServiceInv, ValidSound, Serving, TransformSound, RemainderExact
<1>4. CallSound' /\ ActivationSound'
  BY CallGoesOn
<1>5. ProductSound'
  BY <1>1 DEF ProductSound, Returned, Limit, Failed
<1> QED BY <1>2, <1>3, <1>4, <1>5 DEF ServiceInv

LEMMA SchoolbookIsSound == ServiceInv /\ SchoolbookMultiply => ServiceInv'
<1> SUFFICES ASSUME ServiceInv, SchoolbookMultiply PROVE ServiceInv'
  OBVIOUS
<1>1. /\ ring' = ring /\ call' = call /\ activation' = activation /\ slots' = slots
      /\ pc = "called" /\ call.op = "multiply" /\ pc' = "done"
      /\ result' = Returned(Product(left, right, modulus))
      /\ Schoolbook(Len(left), Len(right), policy)
  BY DEF SchoolbookMultiply, Multiplying, Answer, pool
<1>2. ~Denied
  BY <1>1 DEF Denied, Refused
<1>3. Serving /\ SlotsSound'
  BY <1>1 DEF Serving, ServiceInv, SlotsSound
<1> QED BY <1>1, <1>2, <1>3, AnswerIsSound

LEMMA RefuseIsSound == ServiceInv /\ RefuseTransform => ServiceInv'
<1> SUFFICES ASSUME ServiceInv, RefuseTransform PROVE ServiceInv'
  OBVIOUS
<1>1. /\ ring' = ring /\ call' = call /\ activation' = activation /\ slots' = slots
      /\ pc = "called" /\ call.op = "multiply" /\ pc' = "done" /\ result' = Limit
      /\ Refused(Len(left), Len(right))
  BY DEF RefuseTransform, Multiplying, Answer, pool
<1>2. Denied
  BY <1>1 DEF Denied
<1>3. Serving /\ SlotsSound'
  BY <1>1 DEF Serving, ServiceInv, SlotsSound
<1> QED BY <1>1, <1>2, <1>3, AnswerIsSound

LEMMA BuildIsSound == ServiceInv /\ BuildExecutor => ServiceInv'
<1> SUFFICES ASSUME ServiceInv, BuildExecutor PROVE ServiceInv'
  OBVIOUS
<1>1. /\ ring' = ring /\ call' = call /\ activation' = activation /\ residues' = residues
      /\ result' = result /\ slots' = slots /\ pc = "called"
      /\ pc' = IF phase' = "closed" THEN "closed" ELSE pc
  BY DEF BuildExecutor, Multiplying, Executor!Build
<1>2. RingValid /\ result = NoResult /\ Serving
  BY <1>1 DEF ServiceInv, ValidSound, RingTypeOK, Serving
<1>3. CASE phase' = "closed"
  BY <1>1, <1>2, <1>3, RestIsSound
<1>4. CASE phase' # "closed"
  <2>1. pc' = "called"
    BY <1>1, <1>4
  <2>2. RingValid'
    BY <1>1, <1>2, RingSteady
  <2>3. RingTypeOK'
    BY <1>1, <1>2, <2>1 DEF ServiceInv, RingTypeOK, NoResult
  <2>4. ValidSound' /\ SlotsSound' /\ TransformSound' /\ ProductSound' /\ RemainderExact'
    BY <1>1, <2>1, <2>2 DEF ServiceInv, ValidSound, SlotsSound, TransformSound, ProductSound,
                            RemainderExact
  <2>5. CallSound' /\ ActivationSound'
    BY <1>1, <1>2, CallGoesOn
  <2> QED BY <2>3, <2>4, <2>5 DEF ServiceInv
<1> QED BY <1>3, <1>4

LEMMA StartIsSound == ServiceInv /\ StartTransforms => ServiceInv'
<1> SUFFICES ASSUME ServiceInv, StartTransforms PROVE ServiceInv'
  OBVIOUS
<1>1. /\ ring' = ring /\ call' = call /\ activation' = activation
      /\ result' = result /\ pc = "called" /\ call.op = "multiply" /\ pc' = "transform"
      /\ residues' = [i \in 1 .. Count |-> <<>>]
      /\ ~Schoolbook(Len(left), Len(right), policy) /\ ~Refused(Len(left), Len(right))
      /\ IF InBatch THEN Executor!Start(Count) ELSE slots' = slots
  BY DEF StartTransforms, Multiplying, EmptyResidues, pool
<1>2. RingValid /\ result = NoResult /\ Serving
  BY <1>1 DEF ServiceInv, ValidSound, RingTypeOK, Serving
<1>3. /\ modulus' = modulus /\ left' = left /\ right' = right /\ Denied' = Denied
      /\ RingValid' = RingValid /\ Count' = Count /\ InBatch' = InBatch
  BY <1>1, RingSteady, CallSteady
<1>4. ~Denied
  BY <1>1 DEF Denied
<1>5. left # <<>> /\ right # <<>> /\ Enough(left, right, modulus, Count)
  BY <1>1, <1>2, <1>4, TransformIsServed
<1>6. Len(Primes) \in Nat /\ Count \in 1 .. Len(Primes)
  BY <1>5, BaseFacts DEF Enough
<1>7. InBatch => /\ phase' = "busy" /\ size' = Count
                 /\ slots' = [i \in 0 .. Len(Primes) - 1 |-> "empty"]
  BY <1>1 DEF Executor!Start, Executor!EmptySlots, Executor!Indices
<1>8. SlotsSound'
  BY <1>1, <1>7 DEF ServiceInv, SlotsSound
<1>9. TransformSound'
  <2>1. \A i \in 1 .. Count : residues'[i] = <<>>
    BY <1>1
  <2>2. DOMAIN residues' = 1 .. Count
    BY <1>1
  <2>3. \A i \in 1 .. Count : i - 1 \in 0 .. Len(Primes) - 1
    BY <1>6
  <2>4. InBatch => \A i \in 1 .. Count : slots'[i - 1] = "empty"
    BY <1>7, <2>3
  <2>5. InBatch' => /\ phase' = "busy" /\ size' = Count'
                    /\ \A i \in 1 .. Count' : slots'[i - 1] = "written" <=> residues'[i] # <<>>
    BY <1>3, <1>7, <2>1, <2>4
  <2>6. \A i \in 1 .. Count' : residues'[i] \in {<<>>, Convolution(left', right', Primes[i])}
    BY <1>3, <2>1
  <2>7. call'.op = "multiply" /\ left' # <<>> /\ right' # <<>> /\ ~Denied'
    BY <1>1, <1>3, <1>4, <1>5
  <2>8. Enough(left', right', modulus', Count') /\ DOMAIN residues' = 1 .. Count'
    BY <1>3, <1>5, <2>2
  <2> QED BY <2>5, <2>6, <2>7, <2>8 DEF TransformSound
<1>10. RingTypeOK'
  BY <1>1, <1>2 DEF ServiceInv, RingTypeOK, NoResult
<1>11. ValidSound' /\ ProductSound' /\ RemainderExact'
  BY <1>1, <1>2, <1>3 DEF ServiceInv, ValidSound, ProductSound, RemainderExact
<1>12. CallSound' /\ ActivationSound'
  BY <1>1, <1>2, CallGoesOn
<1> QED BY <1>8, <1>9, <1>10, <1>11, <1>12 DEF ServiceInv

\* The transforms of a product, one after the other in either way.
TransformsStand(rs, ss, L, conv, together) ==
  /\ DOMAIN rs = 1 .. L /\ \A i \in 1 .. L : rs[i] \in {<<>>, conv[i]} /\ conv[i] # <<>>
  /\ together => \A i \in 1 .. L : ss[i - 1] = "written" <=> rs[i] # <<>>

LEMMA TransformingKnown ==
  ASSUME ServiceInv, pc = "transform",
         NEW conv, conv = [i \in 1 .. Count |-> Convolution(left, right, Primes[i])]
  PROVE  /\ Serving /\ RingValid /\ result = NoResult /\ call.op = "multiply"
         /\ Len(Primes) \in Nat /\ Count \in 1 .. Len(Primes)
         /\ TransformsStand(residues, slots, Count, conv, InBatch)
         /\ InBatch => phase = "busy" /\ size = Count
<1>1. RingValid /\ result = NoResult /\ Serving
  BY DEF ServiceInv, ValidSound, RingTypeOK, Serving
<1>2. /\ call.op = "multiply" /\ left # <<>> /\ right # <<>>
      /\ Enough(left, right, modulus, Count) /\ DOMAIN residues = 1 .. Count
      /\ \A i \in 1 .. Count : residues[i] \in {<<>>, Convolution(left, right, Primes[i])}
      /\ InBatch => /\ phase = "busy" /\ size = Count
                    /\ \A i \in 1 .. Count : slots[i - 1] = "written" <=> residues[i] # <<>>
  BY DEF ServiceInv, TransformSound
<1>3. Len(Primes) \in Nat /\ Count \in 1 .. Len(Primes)
  BY <1>2, BaseFacts DEF Enough
<1>4. ASSUME NEW i \in 1 .. Count
      PROVE  conv[i] = Convolution(left, right, Primes[i]) /\ conv[i] # <<>>
  <2>1. modulus \in Nat \ {0} /\ left \in Poly(modulus) /\ right \in Poly(modulus)
    BY <1>1, OperandsKnown
  <2>2. Convolution(left, right, Primes[i]) # <<>>
    BY <1>2, <2>1, ContributionIs
  <2> QED BY <2>2
<1> QED BY <1>1, <1>2, <1>3, <1>4 DEF TransformsStand

LEMMA TransformsGoOn ==
  ASSUME ServiceInv, pc = "transform", pc' = "transform", ring' = ring, call' = call,
         activation' = activation, result' = result, phase' = phase, size' = size, SlotsSound',
         NEW conv, conv = [i \in 1 .. Count |-> Convolution(left, right, Primes[i])],
         TransformsStand(residues', slots', Count, conv, InBatch)
  PROVE  ServiceInv'
<1>1. /\ modulus' = modulus /\ left' = left /\ right' = right /\ Denied' = Denied
      /\ RingValid' = RingValid /\ Count' = Count /\ InBatch' = InBatch
  BY RingSteady, CallSteady
<1>2. /\ Serving /\ RingValid /\ result = NoResult /\ call.op = "multiply"
      /\ InBatch => phase = "busy" /\ size = Count
  BY TransformingKnown
<1>3. RingTypeOK'
  BY <1>2 DEF ServiceInv, RingTypeOK, NoResult
<1>4. ValidSound' /\ ProductSound' /\ RemainderExact'
  BY <1>1, <1>2 DEF ValidSound, ProductSound, RemainderExact
<1>5. CallSound' /\ ActivationSound'
  BY <1>2, CallGoesOn
<1>6. TransformSound'
  <2>1. /\ call.op = "multiply" /\ left # <<>> /\ right # <<>> /\ ~Denied
        /\ Enough(left, right, modulus, Count)
    BY DEF ServiceInv, TransformSound
  <2>2. /\ DOMAIN residues' = 1 .. Count
        /\ \A i \in 1 .. Count : residues'[i] \in {<<>>, Convolution(left, right, Primes[i])}
        /\ InBatch => \A i \in 1 .. Count : slots'[i - 1] = "written" <=> residues'[i] # <<>>
    BY DEF TransformsStand
  <2> QED BY <1>1, <1>2, <2>1, <2>2 DEF TransformSound
<1> QED BY <1>3, <1>4, <1>5, <1>6 DEF ServiceInv

LEMMA TransformIsSound ==
  ASSUME NEW i \in DOMAIN Primes, ServiceInv, Transform(i)
  PROVE  ServiceInv'
<1>1. /\ ring' = ring /\ pc' = pc /\ call' = call /\ activation' = activation /\ result' = result
      /\ pc = "transform" /\ InBatch /\ Executor!Call(i - 1)
      /\ residues' = IF slots'[i - 1] = "threw" THEN residues
                     ELSE [residues EXCEPT ![i] = Convolution(left, right, Primes[i])]
  BY DEF Transform
<1>2. PICK r \in {"written", "threw"} :
        /\ slots' = [slots EXCEPT ![i - 1] = r] /\ slots[i - 1] = "empty" /\ i - 1 < size
        /\ phase' = phase /\ size' = size
  BY <1>1 DEF Executor!Call
<1>3. PICK conv : conv = [j \in 1 .. Count |-> Convolution(left, right, Primes[j])]
  OBVIOUS
<1>4. /\ Len(Primes) \in Nat /\ Count \in 1 .. Len(Primes)
      /\ TransformsStand(residues, slots, Count, conv, InBatch) /\ size = Count
  BY <1>1, <1>3, TransformingKnown
<1>5. PICK L \in Nat : L = Count /\ L <= Len(Primes)
  BY <1>4
<1>6. i \in 1 .. L
  <2>1. i \in 1 .. Len(Primes)
    BY BaseFacts
  <2> QED BY <1>2, <1>4, <1>5, <2>1
<1>7. SlotsSound /\ i - 1 \in 0 .. Len(Primes) - 1
  BY <1>4, <1>5, <1>6 DEF ServiceInv
<1>8. SlotsSound' /\ slots'[i - 1] = r
  BY <1>2, <1>7 DEF SlotsSound
<1>9. \A j \in 1 .. L : j - 1 \in 0 .. Len(Primes) - 1 /\ (j # i => j - 1 # i - 1)
  BY <1>4, <1>5, <1>6
<1>10. \A j \in 1 .. L : j # i => slots'[j - 1] = slots[j - 1]
  BY <1>2, <1>7, <1>9 DEF SlotsSound
<1>11. /\ DOMAIN residues = 1 .. L
       /\ \A j \in 1 .. L : residues[j] \in {<<>>, conv[j]} /\ conv[j] # <<>>
       /\ \A j \in 1 .. L : slots[j - 1] = "written" <=> residues[j] # <<>>
  BY <1>1, <1>4, <1>5 DEF TransformsStand
<1>12. conv[i] = Convolution(left, right, Primes[i])
  BY <1>3, <1>5, <1>6
<1>13. TransformsStand(residues', slots', Count, conv, InBatch)
  <2>1. CASE r = "written"
    <3>1. residues' = [residues EXCEPT ![i] = conv[i]]
      BY <1>1, <1>8, <1>12, <2>1
    <3>2. DOMAIN residues' = 1 .. L /\ residues'[i] = conv[i]
          /\ \A j \in 1 .. L : j # i => residues'[j] = residues[j]
      BY <1>6, <1>11, <3>1
    <3> QED BY <1>5, <1>6, <1>8, <1>10, <1>11, <2>1, <3>2 DEF TransformsStand
  <2>2. CASE r = "threw"
    <3>1. residues' = residues
      BY <1>1, <1>8, <2>2
    <3>2. residues[i] = <<>>
      BY <1>2, <1>6, <1>11
    <3> QED BY <1>5, <1>6, <1>8, <1>10, <1>11, <2>2, <3>1, <3>2 DEF TransformsStand
  <2> QED BY <2>1, <2>2
<1> QED BY <1>1, <1>2, <1>3, <1>8, <1>13, TransformsGoOn

LEMMA InTurnIsSound ==
  ASSUME NEW i \in DOMAIN Primes, ServiceInv, TransformInTurn(i)
  PROVE  ServiceInv'
<1>1. pc = "transform" /\ ~InBatch
  BY DEF TransformInTurn
<1>2. PICK conv : conv = [j \in 1 .. Count |-> Convolution(left, right, Primes[j])]
  OBVIOUS
<1>3. /\ Serving /\ call.op = "multiply" /\ SlotsSound
      /\ TransformsStand(residues, slots, Count, conv, InBatch)
  BY <1>1, <1>2, TransformingKnown DEF ServiceInv
<1>4. CASE /\ residues' = [residues EXCEPT ![i] = Convolution(left, right, Primes[i])]
           /\ UNCHANGED <<ring, pc, call, activation, result, pool>>
  <2>1. /\ ring' = ring /\ pc' = pc /\ call' = call /\ activation' = activation
        /\ result' = result /\ phase' = phase /\ size' = size /\ slots' = slots
    BY <1>4 DEF pool
  <2>2. SlotsSound'
    BY <1>3, <2>1 DEF SlotsSound
  <2>3. TransformsStand(residues', slots', Count, conv, InBatch)
    <3>1. /\ DOMAIN residues = 1 .. Count
          /\ \A j \in 1 .. Count : residues[j] \in {<<>>, conv[j]} /\ conv[j] # <<>>
      BY <1>3 DEF TransformsStand
    <3>2. /\ DOMAIN residues' = 1 .. Count
          /\ \A j \in 1 .. Count :
               residues'[j] = IF j = i THEN Convolution(left, right, Primes[i]) ELSE residues[j]
      BY <1>4, <3>1
    <3>3. \A j \in 1 .. Count : conv[j] = Convolution(left, right, Primes[j])
      BY <1>2
    <3>4. \A j \in 1 .. Count : residues'[j] \in {<<>>, conv[j]}
      BY <3>1, <3>2, <3>3
    <3> QED BY <1>1, <3>1, <3>2, <3>4 DEF TransformsStand
  <2> QED BY <1>1, <1>2, <2>1, <2>2, <2>3, TransformsGoOn
<1>5. CASE Answer(Failed)
  <2>1. /\ ring' = ring /\ call' = call /\ activation' = activation /\ slots' = slots
        /\ pc' = "done" /\ result' = Failed
    BY <1>5 DEF Answer, pool
  <2>2. SlotsSound'
    BY <1>3, <2>1 DEF SlotsSound
  <2> QED BY <1>3, <2>1, <2>2, AnswerIsSound
<1> QED BY <1>4, <1>5 DEF TransformInTurn

LEMMA GatherBatchIsSound == ServiceInv /\ GatherBatch => ServiceInv'
<1> SUFFICES ASSUME ServiceInv, GatherBatch PROVE ServiceInv'
  OBVIOUS
<1>1. /\ ring' = ring /\ call' = call /\ activation' = activation /\ pc = "transform"
      /\ pc' = "done" /\ InBatch /\ Executor!Return
      /\ result' = IF ended' = "raised" THEN Failed ELSE Returned(Combined)
  BY DEF GatherBatch
<1>2. PICK conv : conv = [j \in 1 .. Count |-> Convolution(left, right, Primes[j])]
  OBVIOUS
<1>3. /\ Serving /\ call.op = "multiply" /\ SlotsSound
      /\ Len(Primes) \in Nat /\ Count \in 1 .. Len(Primes) /\ size = Count
      /\ TransformsStand(residues, slots, Count, conv, InBatch)
  BY <1>1, <1>2, TransformingKnown DEF ServiceInv
<1>4. SlotsSound'
  BY <1>1, <1>3 DEF SlotsSound, Executor!Return
<1>5. CASE ended' = "raised"
  BY <1>1, <1>3, <1>4, <1>5, AnswerIsSound
<1>6. CASE ended' # "raised"
  <2>1. /\ \A i \in 0 .. Len(Primes) - 1 : i < size => slots[i] # "empty"
        /\ \A i \in 0 .. Len(Primes) - 1 : i < size => slots[i] # "threw"
    BY <1>1, <1>6 DEF Executor!Return, Executor!Finished, Executor!Threw, Executor!Indices
  <2>2. ASSUME NEW i \in DOMAIN residues PROVE residues[i] # <<>>
    <3>1. i \in 1 .. Count /\ (slots[i - 1] = "written" <=> residues[i] # <<>>)
      BY <1>1, <1>3 DEF TransformsStand
    <3>2. i - 1 \in 0 .. Len(Primes) - 1 /\ i - 1 < size
      BY <1>3, <3>1
    <3>3. slots[i - 1] \in {"empty", "written", "threw"}
      BY <1>3, <3>2 DEF SlotsSound
    <3> QED BY <2>1, <3>1, <3>2, <3>3
  <2>3. Combined = Product(left, right, modulus) /\ ~Denied
    BY <1>1, <2>2, GatheredIs
  <2> QED BY <1>1, <1>3, <1>4, <1>6, <2>3, AnswerIsSound
<1> QED BY <1>5, <1>6

LEMMA GatherIsSound == ServiceInv /\ Gather => ServiceInv'
<1> SUFFICES ASSUME ServiceInv, Gather PROVE ServiceInv'
  OBVIOUS
<1>1. /\ ring' = ring /\ call' = call /\ activation' = activation /\ pc = "transform"
      /\ pc' = "done" /\ slots' = slots /\ result' = Returned(Combined)
      /\ \A i \in DOMAIN residues : residues[i] # <<>>
  BY DEF Gather, Answer, pool
<1>2. Serving /\ SlotsSound'
  BY <1>1 DEF Serving, ServiceInv, SlotsSound
<1>3. Combined = Product(left, right, modulus) /\ ~Denied /\ call.op = "multiply"
  BY <1>1, GatheredIs
<1> QED BY <1>1, <1>2, <1>3, AnswerIsSound

\* Whether a product of a division of polynomials of these sizes is refused.
SomeRefused(u, v) == \E d \in NewtonProducts(u, v) : Refused(d[1], d[2])

LEMMA SomeRefusedSteady ==
  ASSUME ring' = ring, NEW u, NEW v
  PROVE  SomeRefused(u, v)' = SomeRefused(u, v)
<1>1. \A d \in NewtonProducts(u, v) : Refused(d[1], d[2])' = Refused(d[1], d[2])
  BY RefusalSteady
<1> QED BY <1>1 DEF SomeRefused

\* What may be said of the end of a division.
EndsWell(r, P, Q, m) ==
  /\ r.kind \in {"value", "limit", "rejected", "failed"}
  /\ r.kind = "value" => r.value = ClassicalRemainder(P, Q, m)
  /\ Monic(Q) /\ r.kind # "failed" =>
       (r.kind = "limit" <=> ~Classical(Len(P), Len(Q), policy) /\ SomeRefused(Len(P), Len(Q)))

\* A division that ends well leaves the service sound.
LEMMA DivisionEnds ==
  ASSUME ServiceInv, Serving, ring' = ring, pc' = "done", activation' = NoActivation,
         slots' = slots, NEW P \in Poly(modulus), NEW Q \in Poly(modulus),
         call'.op = "remainder", call'.left = P, call'.right = Q, NEW r, r = result',
         EndsWell(r, P, Q, modulus)
  PROVE  ServiceInv'
<1>1. /\ modulus' = modulus /\ policy' = policy /\ RingValid' = RingValid
      /\ left' = P /\ right' = Q
  BY RingSteady DEF left, right
<1>2. RingTypeOK'
  BY DEF ServiceInv, RingTypeOK, EndsWell
<1>3. ValidSound' /\ SlotsSound' /\ TransformSound' /\ ProductSound'
  BY <1>1 DEF ServiceInv, ValidSound, Serving, SlotsSound, TransformSound, ProductSound
<1>4. CallSound' /\ ActivationSound'
  BY <1>1 DEF CallSound, ActivationSound
<1>5. RemainderExact'
  <2>1. SomeRefused(Len(P), Len(Q))' = SomeRefused(Len(P), Len(Q))
    <3>1. PICK u, v : u = Len(P) /\ v = Len(Q)
      OBVIOUS
    <3>2. SomeRefused(u, v)' = SomeRefused(u, v)
      BY SomeRefusedSteady
    <3> QED BY <3>1, <3>2
  <2>2. SomeRefused(Len(left), Len(right))' = SomeRefused(Len(P), Len(Q))
    BY <1>1, <2>1
  <2>3. /\ result'.kind = "value" => result'.value = ClassicalRemainder(left', right', modulus')
        /\ Monic(right') /\ result'.kind # "failed" =>
             (result'.kind = "limit" <=>
                /\ ~Classical(Len(left'), Len(right'), policy')
                /\ SomeRefused(Len(left), Len(right))')
    BY <1>1, <2>2 DEF EndsWell
  <2>4. SomeRefused(Len(left), Len(right))'
          <=> \E d \in NewtonProducts(Len(left'), Len(right')) : Refused(d[1], d[2])'
    BY DEF SomeRefused
  <2> QED BY <2>3, <2>4 DEF RemainderExact
<1> QED BY <1>2, <1>3, <1>4, <1>5 DEF ServiceInv

\* What a division knows when it begins.
LEMMA DivisionKnown ==
  ASSUME ServiceInv, Dividing
  PROVE  /\ Serving /\ activation = NoActivation /\ call.op = "remainder"
         /\ modulus \in Nat \ {0, 1} /\ left \in Poly(modulus) /\ right \in Poly(modulus)
<1>1. Serving /\ call.op = "remainder"
  BY DEF Dividing, Serving
<1>2. modulus \in Nat \ {0, 1} /\ left \in Poly(modulus) /\ right \in Poly(modulus)
  BY <1>1, OperandsKnown
<1>3. activation = NoActivation
  <2>1. SUFFICES ASSUME activation # NoActivation PROVE FALSE
    OBVIOUS
  <2>2. call = Asking(activation)
    BY <1>1, <2>1 DEF ServiceInv, ActivationSound
  <2> QED BY <1>1, <2>2 DEF Asking
<1> QED BY <1>1, <1>2, <1>3

\* What it knows when a product comes back.
LEMMA ProductReturned ==
  ASSUME ServiceInv, pc = "done", activation # NoActivation
  PROVE  /\ Serving /\ modulus \in Nat \ {0, 1}
         /\ ~Classical(Len(activation.dividend), Len(activation.divisor), policy)
         /\ result.kind \in {"value", "limit", "failed"}
         /\ \E k \in Nat :
              /\ Underway(activation, k)
              /\ result.kind = "value" =>
                   /\ result.value = Product(Operands(activation)[1], Operands(activation)[2],
                                             modulus)
                   /\ \A d \in Passed(activation, k) \cup {Demanded(activation)} :
                        ~Refused(d[1], d[2])
              /\ result.kind = "limit" =>
                   Refused(Demanded(activation)[1], Demanded(activation)[2])
<1>1. Serving /\ modulus \in Nat \ {0, 1}
  BY OperandsKnown DEF Serving
<1>2. /\ call = Asking(activation)
      /\ ~Classical(Len(activation.dividend), Len(activation.divisor), policy)
      /\ \E k \in Nat : Underway(activation, k)
  BY <1>1 DEF ServiceInv, ActivationSound
<1>3. call.op = "multiply" /\ left = Operands(activation)[1] /\ right = Operands(activation)[2]
  BY <1>2 DEF Asking, left, right
<1>4. Demanded(activation)[1] = Len(left) /\ Demanded(activation)[2] = Len(right)
  BY <1>3 DEF Demanded
<1>5. /\ result.kind \in {"value", "limit", "failed"}
      /\ result.kind = "value" =>
           /\ result.value = Product(left, right, modulus)
           /\ ~Refused(Demanded(activation)[1], Demanded(activation)[2])
      /\ result.kind = "limit" => Refused(Demanded(activation)[1], Demanded(activation)[2])
  BY <1>3, <1>4 DEF ServiceInv, ProductSound, Denied
<1>6. PICK k \in Nat : Underway(activation, k)
  BY <1>2
<1>7. \A d \in Passed(activation, k) : ~Refused(d[1], d[2])
  BY <1>6 DEF Underway
<1>8. ASSUME result.kind = "value"
      PROVE  \A d \in Passed(activation, k) \cup {Demanded(activation)} : ~Refused(d[1], d[2])
  <2>1. PICK s : s = Demanded(activation)
    OBVIOUS
  <2>2. ~Refused(s[1], s[2])
    BY <1>5, <1>8, <2>1
  <2>3. ASSUME NEW d \in Passed(activation, k) \cup {Demanded(activation)}
        PROVE  ~Refused(d[1], d[2])
    <3>1. CASE d \in Passed(activation, k)
      BY <1>7, <3>1
    <3>2. CASE d = s
      BY <2>2, <3>2
    <3> QED BY <2>1, <3>1, <3>2
  <2> QED BY <2>3
<1> QED BY <1>1, <1>2, <1>3, <1>5, <1>6, <1>8

LEMMA DivideIsSound == ServiceInv /\ Divide => ServiceInv'
<1> SUFFICES ASSUME ServiceInv, Divide PROVE ServiceInv'
  OBVIOUS
<1>1. /\ ring' = ring /\ call' = call /\ activation' = activation /\ slots' = slots
      /\ pc' = "done" /\ Dividing
      /\ ~Monic(right) \/ Classical(Len(left), Len(right), policy)
      /\ result' = IF Monic(right) THEN Returned(ClassicalRemainder(left, right, modulus))
                   ELSE Rejected
  BY DEF Divide, Answer, pool
<1>2. /\ Serving /\ activation = NoActivation /\ call.op = "remainder"
      /\ left \in Poly(modulus) /\ right \in Poly(modulus)
  BY <1>1, DivisionKnown
<1>3. PICK P \in Poly(modulus), Q \in Poly(modulus) : P = left /\ Q = right
  BY <1>2
<1>4. call'.op = "remainder" /\ call'.left = P /\ call'.right = Q
  BY <1>1, <1>2, <1>3 DEF left, right
<1>5. PICK r : r = result'
  OBVIOUS
<1>6. EndsWell(r, P, Q, modulus)
  <2>1. CASE Monic(Q)
    <3>1. r = Returned(ClassicalRemainder(P, Q, modulus)) /\ Classical(Len(P), Len(Q), policy)
      BY <1>1, <1>3, <1>5, <2>1
    <3> QED BY <3>1 DEF EndsWell, Returned
  <2>2. CASE ~Monic(Q)
    <3>1. r = Rejected
      BY <1>1, <1>3, <1>5, <2>2
    <3> QED BY <2>2, <3>1 DEF EndsWell, Rejected
  <2> QED BY <2>1, <2>2
<1> QED BY <1>1, <1>2, <1>4, <1>5, <1>6, DivisionEnds

LEMMA BeginIsSound == ServiceInv /\ BeginNewton => ServiceInv'
<1> SUFFICES ASSUME ServiceInv, BeginNewton PROVE ServiceInv'
  OBVIOUS
<1>1. PICK a : a = NextRound(Opened(left, right)) /\ Demand(a)
  BY DEF BeginNewton, Opened
<1>2. Dividing /\ Monic(right) /\ ~Classical(Len(left), Len(right), policy)
  BY DEF BeginNewton
<1>3. /\ Serving /\ modulus \in Nat \ {0, 1}
      /\ left \in Poly(modulus) /\ right \in Poly(modulus)
      /\ Len(left) \in Nat /\ Len(right) \in Nat
  BY <1>2, DivisionKnown, OperandsKnown
<1>4. Len(right) <= Len(left)
  BY <1>2, <1>3 DEF Classical
<1>5. Stands(a, modulus, 0) /\ Passed(a, 0) = {} /\ a.dividend = left /\ a.divisor = right
  BY <1>1, <1>2, <1>3, <1>4, NewtonBegins
<1>6. Underway(a, 0)
  BY <1>5 DEF Underway
<1>7. ~Classical(Len(a.dividend), Len(a.divisor), policy) /\ 0 \in Nat
  BY <1>2, <1>5
<1> QED BY <1>1, <1>3, <1>6, <1>7, DemandIsSound

\* A stage that ends with a product of the right value asks for the next.
LEMMA StageIsSound ==
  ASSUME ServiceInv, Serving, NEW a, ~Classical(Len(a.dividend), Len(a.divisor), policy),
         NEW k, \A d \in Passed(a, k) \cup {Demanded(a)} : ~Refused(d[1], d[2]),
         NEW b, NEW l \in Nat, Stands(b, modulus, l),
         Passed(b, l) = Passed(a, k) \cup {Demanded(a)},
         b.dividend = a.dividend, b.divisor = a.divisor, Demand(b)
  PROVE  ServiceInv'
<1>1. Underway(b, l)
  BY DEF Underway
<1>2. ~Classical(Len(b.dividend), Len(b.divisor), policy)
  OBVIOUS
<1> QED BY <1>1, <1>2, DemandIsSound

LEMMA StageKnown ==
  ASSUME ServiceInv, NEW stage \in {"prefix", "inverse", "quotient", "product"},
         Arrived(stage)
  PROVE  \E k \in Nat :
           /\ Serving /\ modulus \in Nat \ {0, 1}
           /\ ~Classical(Len(activation.dividend), Len(activation.divisor), policy)
           /\ activation.stage = stage /\ Stands(activation, modulus, k)
           /\ result.value = Product(Operands(activation)[1], Operands(activation)[2], modulus)
           /\ \A d \in Passed(activation, k) \cup {Demanded(activation)} : ~Refused(d[1], d[2])
<1>1. pc = "done" /\ activation.stage = stage /\ result.kind = "value"
  BY DEF Arrived
<1>2. activation # NoActivation
  BY <1>1 DEF NoActivation
<1> QED BY <1>1, <1>2, ProductReturned DEF Underway

LEMMA CorrectIsSound == ServiceInv /\ Correct => ServiceInv'
<1> SUFFICES ASSUME ServiceInv, Correct PROVE ServiceInv'
  OBVIOUS
<1>1. Arrived("prefix")
  BY DEF Correct
<1>2. PICK k \in Nat :
        /\ Serving /\ modulus \in Nat \ {0, 1}
        /\ ~Classical(Len(activation.dividend), Len(activation.divisor), policy)
        /\ activation.stage = "prefix" /\ Stands(activation, modulus, k)
        /\ result.value = Product(Operands(activation)[1], Operands(activation)[2], modulus)
        /\ \A d \in Passed(activation, k) \cup {Demanded(activation)} : ~Refused(d[1], d[2])
  BY <1>1, StageKnown
<1>3. PICK a : a = activation
  OBVIOUS
<1>4. PICK b : /\ b = [a EXCEPT !.stage = "inverse",
                         !.factor = Correction(Resize(result.value, RoundSize(a)), modulus)]
               /\ Demand(b)
  BY <1>3 DEF Correct
<1>5. PICK m \in Nat \ {0, 1} : m = modulus
  BY <1>2
<1>6. CorrectedTo(b, a, m)
  BY <1>2, <1>3, <1>4, <1>5 DEF CorrectedTo
<1>7. Stands(a, m, k) /\ a.stage = "prefix"
  BY <1>2, <1>3, <1>5
<1>8. /\ Stands(b, m, k) /\ Passed(b, k) = Passed(a, k) \cup {Demanded(a)}
      /\ b.dividend = a.dividend /\ b.divisor = a.divisor
  BY <1>6, <1>7, NewtonCorrects
<1>9. /\ ~Classical(Len(a.dividend), Len(a.divisor), policy)
      /\ \A d \in Passed(a, k) \cup {Demanded(a)} : ~Refused(d[1], d[2])
  BY <1>2, <1>3
<1> QED BY <1>2, <1>4, <1>5, <1>8, <1>9, StageIsSound

LEMMA EndRoundIsSound == ServiceInv /\ EndRound => ServiceInv'
<1> SUFFICES ASSUME ServiceInv, EndRound PROVE ServiceInv'
  OBVIOUS
<1>1. Arrived("inverse")
  BY DEF EndRound
<1>2. PICK k \in Nat :
        /\ Serving /\ modulus \in Nat \ {0, 1}
        /\ ~Classical(Len(activation.dividend), Len(activation.divisor), policy)
        /\ activation.stage = "inverse" /\ Stands(activation, modulus, k)
        /\ result.value = Product(Operands(activation)[1], Operands(activation)[2], modulus)
        /\ \A d \in Passed(activation, k) \cup {Demanded(activation)} : ~Refused(d[1], d[2])
  BY <1>1, StageKnown
<1>3. PICK a : a = activation
  OBVIOUS
<1>4. PICK b : /\ b = NextRound([a EXCEPT !.factor = <<>>,
                                   !.inverse = Resize(result.value, RoundSize(a))])
               /\ Demand(b)
  BY <1>3 DEF EndRound
<1>5. PICK m \in Nat \ {0, 1} : m = modulus
  BY <1>2
<1>6. RoundedTo(b, a, m)
  BY <1>2, <1>3, <1>4, <1>5 DEF RoundedTo
<1>7. Stands(a, m, k) /\ a.stage = "inverse"
  BY <1>2, <1>3, <1>5
<1>8. /\ Stands(b, m, k + 1) /\ Passed(b, k + 1) = Passed(a, k) \cup {Demanded(a)}
      /\ b.dividend = a.dividend /\ b.divisor = a.divisor
  BY <1>6, <1>7, NewtonEndsRound
<1>9. /\ ~Classical(Len(a.dividend), Len(a.divisor), policy)
      /\ \A d \in Passed(a, k) \cup {Demanded(a)} : ~Refused(d[1], d[2])
  BY <1>2, <1>3
<1>10. k + 1 \in Nat
  OBVIOUS
<1> QED BY <1>2, <1>4, <1>5, <1>8, <1>9, <1>10, StageIsSound

LEMMA QuotientIsSound == ServiceInv /\ TakeQuotient => ServiceInv'
<1> SUFFICES ASSUME ServiceInv, TakeQuotient PROVE ServiceInv'
  OBVIOUS
<1>1. Arrived("quotient")
  BY DEF TakeQuotient
<1>2. PICK k \in Nat :
        /\ Serving /\ modulus \in Nat \ {0, 1}
        /\ ~Classical(Len(activation.dividend), Len(activation.divisor), policy)
        /\ activation.stage = "quotient" /\ Stands(activation, modulus, k)
        /\ result.value = Product(Operands(activation)[1], Operands(activation)[2], modulus)
        /\ \A d \in Passed(activation, k) \cup {Demanded(activation)} : ~Refused(d[1], d[2])
  BY <1>1, StageKnown
<1>3. PICK a : a = activation
  OBVIOUS
<1>4. PICK b : /\ b = [a EXCEPT !.stage = "product",
                         !.factor = Reversed(Resize(result.value, QuotientSize(a)))]
               /\ Demand(b)
  BY <1>3 DEF TakeQuotient
<1>5. PICK m \in Nat \ {0, 1} : m = modulus
  BY <1>2
<1>6. QuotientedTo(b, a, m)
  BY <1>2, <1>3, <1>4, <1>5 DEF QuotientedTo
<1>7. Stands(a, m, k) /\ a.stage = "quotient"
  BY <1>2, <1>3, <1>5
<1>8. /\ Stands(b, m, k) /\ Passed(b, k) = Passed(a, k) \cup {Demanded(a)}
      /\ b.dividend = a.dividend /\ b.divisor = a.divisor
  BY <1>6, <1>7, NewtonTakesQuotient
<1>9. /\ ~Classical(Len(a.dividend), Len(a.divisor), policy)
      /\ \A d \in Passed(a, k) \cup {Demanded(a)} : ~Refused(d[1], d[2])
  BY <1>2, <1>3
<1> QED BY <1>2, <1>4, <1>5, <1>8, <1>9, StageIsSound

\* The polynomials of a division.
LEMMA DivisionPair ==
  ASSUME NEW m \in Nat \ {0, 1}, NEW a, NEW k, Stands(a, m, k)
  PROVE  /\ a.dividend \in Poly(m) /\ a.divisor \in Poly(m) /\ Monic(a.divisor)
         /\ Len(a.dividend) >= Len(a.divisor)
<1>1. /\ a.dividend \in Poly(m) /\ a.divisor \in Poly(m) /\ Monic(a.divisor)
      /\ Len(a.divisor) <= Len(a.dividend)
  BY DEF Stands, Activations
<1>2. Len(a.dividend) \in Nat /\ Len(a.divisor) \in Nat
  BY <1>1 DEF Poly
<1> QED BY <1>1, <1>2

LEMMA SubtractIsSound == ServiceInv /\ Subtract => ServiceInv'
<1> SUFFICES ASSUME ServiceInv, Subtract PROVE ServiceInv'
  OBVIOUS
<1>1. Arrived("product") /\ pc = "done"
  BY DEF Subtract, Arrived
<1>2. PICK k \in Nat :
        /\ Serving /\ modulus \in Nat \ {0, 1}
        /\ ~Classical(Len(activation.dividend), Len(activation.divisor), policy)
        /\ activation.stage = "product" /\ Stands(activation, modulus, k)
        /\ result.value = Product(Operands(activation)[1], Operands(activation)[2], modulus)
        /\ \A d \in Passed(activation, k) \cup {Demanded(activation)} : ~Refused(d[1], d[2])
  BY <1>1, StageKnown
<1>3. PICK a : a = activation
  OBVIOUS
<1>4. PICK m \in Nat \ {0, 1} : m = modulus
  BY <1>2
<1>5. Stands(a, m, k) /\ a.stage = "product"
  BY <1>2, <1>3, <1>4
<1>6. PICK P \in Poly(m), Q \in Poly(m) : P = a.dividend /\ Q = a.divisor
  BY <1>5, DivisionPair
<1>7. Monic(Q) /\ Len(P) >= Len(Q)
  BY <1>5, <1>6, DivisionPair
<1>8. PICK v : v = Resize(Product(Operands(a)[1], Operands(a)[2], m), Len(a.dividend))
  OBVIOUS
<1>9. PICK r : r = result'
  OBVIOUS
<1>10. r = Returned(Trim([i \in 1 .. Len(a.divisor) - 1 |-> (a.dividend[i] - v[i]) % m]))
  <2>1. v = Resize(result.value, Len(activation.dividend))
    BY <1>2, <1>3, <1>4, <1>8
  <2>2. result' = Returned(Trim([i \in 1 .. Len(activation.divisor) - 1 |->
                                   (activation.dividend[i] - v[i]) % modulus]))
    BY <2>1 DEF Subtract
  <2> QED BY <1>3, <1>4, <1>9, <2>2
<1>11. Trim([i \in 1 .. Len(a.divisor) - 1 |-> (a.dividend[i] - v[i]) % m])
         = NewtonRemainder(a.dividend, a.divisor, m)
  BY <1>5, <1>8, NewtonSubtracts
<1>12. NewtonRemainder(P, Q, m) = ClassicalRemainder(P, Q, m)
  BY <1>7, RemaindersAgree
<1>13. r = Returned(ClassicalRemainder(P, Q, m))
  BY <1>6, <1>10, <1>11, <1>12
<1>14. ~SomeRefused(Len(P), Len(Q))
  <2>1. Passed(a, k) \cup {Demanded(a)} = NewtonProducts(Len(a.dividend), Len(a.divisor))
    BY <1>5, DemandIsAnnounced
  <2>2. \A d \in Passed(a, k) \cup {Demanded(a)} : ~Refused(d[1], d[2])
    BY <1>2, <1>3
  <2> QED BY <1>6, <2>1, <2>2 DEF SomeRefused
<1>15. EndsWell(r, P, Q, m)
  BY <1>13, <1>14 DEF EndsWell, Returned
<1>16. /\ ring' = ring /\ pc' = "done" /\ activation' = NoActivation /\ slots' = slots
       /\ call' = [op |-> "remainder", left |-> P, right |-> Q]
  BY <1>1, <1>3, <1>6 DEF Subtract, EndActivation, pool
<1>17. call'.op = "remainder" /\ call'.left = P /\ call'.right = Q
  BY <1>16
<1>18. P \in Poly(modulus) /\ Q \in Poly(modulus) /\ EndsWell(r, P, Q, modulus)
  BY <1>4, <1>15
<1> QED BY <1>2, <1>9, <1>16, <1>17, <1>18, DivisionEnds

LEMMA UnwindIsSound == ServiceInv /\ Unwind => ServiceInv'
<1> SUFFICES ASSUME ServiceInv, Unwind PROVE ServiceInv'
  OBVIOUS
<1>1. /\ pc = "done" /\ activation # NoActivation /\ result.kind # "value"
      /\ result' = result /\ ring' = ring /\ pc' = pc /\ activation' = NoActivation
      /\ slots' = slots
      /\ call' = [op |-> "remainder", left |-> activation.dividend,
                  right |-> activation.divisor]
  BY DEF Unwind, EndActivation, pool
<1>2. PICK m \in Nat \ {0, 1} : m = modulus
  BY <1>1, ProductReturned
<1>3. PICK k \in Nat :
        /\ Serving
        /\ ~Classical(Len(activation.dividend), Len(activation.divisor), policy)
        /\ result.kind \in {"value", "limit", "failed"}
        /\ Underway(activation, k)
        /\ result.kind = "limit" => Refused(Demanded(activation)[1], Demanded(activation)[2])
  BY <1>1, ProductReturned
<1>4. PICK a : a = activation
  OBVIOUS
<1>5. Stands(a, m, k)
  BY <1>2, <1>3, <1>4 DEF Underway
<1>6. PICK P \in Poly(m), Q \in Poly(m) : P = a.dividend /\ Q = a.divisor
  BY <1>5, DivisionPair
<1>7. PICK r : r = result'
  OBVIOUS
<1>8. r.kind \in {"limit", "failed"}
  BY <1>1, <1>3, <1>7
<1>9. r.kind = "limit" => SomeRefused(Len(P), Len(Q))
  <2>1. PICK d : d = Demanded(a)
    OBVIOUS
  <2>2. d \in NewtonProducts(Len(P), Len(Q))
    BY <1>5, <1>6, <2>1, DemandIsAnnounced
  <2>3. r.kind = "limit" => Refused(d[1], d[2])
    BY <1>1, <1>3, <1>4, <1>7, <2>1
  <2> QED BY <2>2, <2>3 DEF SomeRefused
<1>10. ~Classical(Len(P), Len(Q), policy)
  BY <1>3, <1>4, <1>6
<1>11. EndsWell(r, P, Q, modulus)
  BY <1>8, <1>9, <1>10 DEF EndsWell
<1>12. call'.op = "remainder" /\ call'.left = P /\ call'.right = Q
  BY <1>1, <1>4, <1>6
<1>13. P \in Poly(modulus) /\ Q \in Poly(modulus) /\ pc' = "done"
  BY <1>1, <1>2
<1> QED BY <1>1, <1>3, <1>7, <1>11, <1>12, <1>13, DivisionEnds

LEMMA StutterIsSound == ServiceInv /\ UNCHANGED ring_vars => ServiceInv'
<1> SUFFICES ASSUME ServiceInv, UNCHANGED ring_vars PROVE ServiceInv'
  OBVIOUS
<1>1. /\ ring' = ring /\ pc' = pc /\ call' = call /\ activation' = activation
      /\ residues' = residues /\ result' = result /\ phase' = phase /\ size' = size
      /\ slots' = slots
  BY DEF ring_vars, pool
<1>2. /\ modulus' = modulus /\ policy' = policy /\ RingValid' = RingValid
      /\ left' = left /\ right' = right /\ Denied' = Denied /\ Count' = Count
      /\ InBatch' = InBatch
  BY <1>1, RingSteady, CallSteady
<1>3. RingTypeOK' /\ SlotsSound'
  BY <1>1 DEF ServiceInv, RingTypeOK, SlotsSound
<1>4. ValidSound' /\ ProductSound' /\ TransformSound'
  BY <1>1, <1>2 DEF ServiceInv, ValidSound, ProductSound, TransformSound
<1>5. CallSound' /\ ActivationSound'
  <2>1. CASE Serving
    BY <1>1, <2>1, CallGoesOn
  <2>2. CASE ~Serving
    BY <1>1, <2>2 DEF CallSound, ActivationSound, Serving
  <2> QED BY <2>1, <2>2
<1>6. RemainderExact'
  <2>1. PICK u, v : u = Len(left) /\ v = Len(right)
    OBVIOUS
  <2>2. \A d \in NewtonProducts(u, v) : Refused(d[1], d[2])' = Refused(d[1], d[2])
    BY <1>1, RefusalSteady
  <2>3. (\E d \in NewtonProducts(Len(left'), Len(right')) : Refused(d[1], d[2])')
          <=> \E d \in NewtonProducts(Len(left), Len(right)) : Refused(d[1], d[2])
    BY <1>2, <2>1, <2>2
  <2>4. RemainderExact
    BY DEF ServiceInv
  <2> QED BY <1>1, <1>2, <2>3, <2>4 DEF RemainderExact
<1> QED BY <1>3, <1>4, <1>5, <1>6 DEF ServiceInv

LEMMA StepIsSound == ServiceInv /\ [RingNext \/ Closed]_ring_vars => ServiceInv'
<1> SUFFICES ASSUME ServiceInv, [RingNext \/ Closed]_ring_vars PROVE ServiceInv'
  OBVIOUS
<1>1. CASE Construct
  BY <1>1, ConstructIsSound
<1>2. CASE Ask
  BY <1>2, AskIsSound
<1>3. CASE Multiply
  <2>1. CASE SchoolbookMultiply
    BY <2>1, SchoolbookIsSound
  <2>2. CASE RefuseTransform
    BY <2>2, RefuseIsSound
  <2>3. CASE BuildExecutor
    BY <2>3, BuildIsSound
  <2>4. CASE StartTransforms
    BY <2>4, StartIsSound
  <2>5. CASE \E i \in DOMAIN Primes : i <= Len(residues) /\ (Transform(i) \/ TransformInTurn(i))
    BY <2>5, TransformIsSound, InTurnIsSound
  <2>6. CASE GatherBatch
    BY <2>6, GatherBatchIsSound
  <2>7. CASE Gather
    BY <2>7, GatherIsSound
  <2> QED BY <1>3, <2>1, <2>2, <2>3, <2>4, <2>5, <2>6, <2>7 DEF Multiply
<1>4. CASE MonicRemainder
  <2>1. CASE Divide
    BY <2>1, DivideIsSound
  <2>2. CASE BeginNewton
    BY <2>2, BeginIsSound
  <2>3. CASE Correct
    BY <2>3, CorrectIsSound
  <2>4. CASE EndRound
    BY <2>4, EndRoundIsSound
  <2>5. CASE TakeQuotient
    BY <2>5, QuotientIsSound
  <2>6. CASE Subtract
    BY <2>6, SubtractIsSound
  <2>7. CASE Unwind
    BY <2>7, UnwindIsSound
  <2> QED BY <1>4, <2>1, <2>2, <2>3, <2>4, <2>5, <2>6, <2>7 DEF MonicRemainder
<1>5. CASE Deliver
  BY <1>5, DeliverIsSound
<1>6. CASE Destroy
  BY <1>6, DestroyIsSound
<1>7. CASE Closed
  BY <1>7, StutterIsSound DEF Closed
<1>8. CASE UNCHANGED ring_vars
  BY <1>8, StutterIsSound
<1> QED BY <1>1, <1>2, <1>3, <1>4, <1>5, <1>6, <1>7, <1>8 DEF RingNext

\* What it says of the products and of the transforms.
LEMMA ServiceIsExact == ServiceInv => ProductExact /\ RemainderExact /\ ResiduesExact
<1> SUFFICES ASSUME ServiceInv PROVE ProductExact /\ RemainderExact /\ ResiduesExact
  OBVIOUS
<1>1. ProductExact /\ RemainderExact
  BY DEF ServiceInv, ProductSound, ProductExact
<1>2. ASSUME pc = "transform", NEW i \in DOMAIN residues
      PROVE  /\ InBatch => phase = "busy" /\ (slots[i - 1] = "written" <=> residues[i] # <<>>)
             /\ residues[i] # <<>> =>
                  residues[i] = Resize(Product(left, right, Primes[i].modulus),
                                       Len(left) + Len(right) - 1)
  <2>1. /\ left # <<>> /\ right # <<>> /\ Enough(left, right, modulus, Count)
        /\ DOMAIN residues = 1 .. Count
        /\ \A j \in 1 .. Count : residues[j] \in {<<>>, Convolution(left, right, Primes[j])}
        /\ InBatch => /\ phase = "busy"
                      /\ \A j \in 1 .. Count : slots[j - 1] = "written" <=> residues[j] # <<>>
    BY <1>2 DEF ServiceInv, TransformSound
  <2>2. PICK m \in Nat \ {0} : m = modulus /\ left \in Poly(m) /\ right \in Poly(m)
    BY <1>2, OperandsKnown DEF Serving
  <2>3. PICK P \in Poly(m), Q \in Poly(m) : P = left /\ Q = right
    BY <2>2
  <2>4. PICK L : L = Count
    OBVIOUS
  <2>5. i \in 1 .. L /\ Enough(P, Q, m, L) /\ P # <<>> /\ Q # <<>>
    BY <1>2, <2>1, <2>2, <2>3, <2>4
  <2>6. Convolution(P, Q, Primes[i])
          = Resize(Product(P, Q, Primes[i].modulus), Len(P) + Len(Q) - 1)
    BY <2>5, ContributionIs
  <2>7. residues[i] \in {<<>>, Convolution(P, Q, Primes[i])}
    BY <2>1, <2>3, <2>4, <2>5
  <2> QED BY <2>1, <2>3, <2>4, <2>5, <2>6, <2>7
<1>3. ResiduesExact
  BY <1>2 DEF ResiduesExact
<1> QED BY <1>1, <1>3

\* A ring that serves calls in any order, with failures of memory at any of its
\* products, keeps what every answer rests on.
THEOREM RingAlwaysSound == RingSpec => []ServiceInv
<1>1. RingInit => ServiceInv
  BY InitIsSound
<1>2. ServiceInv /\ [RingNext \/ Closed]_ring_vars => ServiceInv'
  BY StepIsSound
<1> QED BY <1>1, <1>2, PTL DEF RingSpec

\* Every part of the ring's state keeps its type; outside a call there is none.
THEOREM RingTypeCorrect == RingSpec => []RingTypeOK
<1>1. ServiceInv => RingTypeOK
  BY DEF ServiceInv
<1> QED BY <1>1, RingAlwaysSound, PTL

\* While the transforms of a product run, in a batch of the executor or in turn,
\* each prime that has contributed has contributed the product modulo itself.
THEOREM ResiduesAlwaysExact == RingSpec => []ResiduesExact
<1>1. ServiceInv => ResiduesExact
  BY ServiceIsExact
<1> QED BY <1>1, RingAlwaysSound, PTL

\* Every product that multiply returns is the schoolbook product, for every
\* modulus, policy and basis of primes, and for operands of every length.
THEOREM ProductAlwaysExact == RingSpec => []ProductExact
<1>1. ServiceInv => ProductExact
  BY ServiceIsExact
<1> QED BY <1>1, RingAlwaysSound, PTL

\* Every remainder that monic_remainder returns is the one of long division, and
\* it refuses exactly when the sizes of the operands announce a refused product.
THEOREM RemainderAlwaysExact == RingSpec => []RemainderExact
<1>1. ServiceInv => RemainderExact
  BY ServiceIsExact
<1> QED BY <1>1, RingAlwaysSound, PTL
===============================================================================
