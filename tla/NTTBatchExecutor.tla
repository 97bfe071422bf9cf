--------------------------- MODULE NTTBatchExecutor ---------------------------
(***************************************************************************)
(* The thread pool that evaluates one number-theoretic transform per CRT   *)
(* prime (sealed_core/include/angel/afac59/polynomial_ring.hpp, class      *)
(* NTTBatchExecutor).  One owner thread constructs the pool, calls run()   *)
(* any number of times and destroys the pool; each worker executes         *)
(* worker_loop().  mutex_ protects every member, so a region that holds it *)
(* is one step; the steps of different threads interleave wherever the     *)
(* mutex is released: in a condition wait, around the call of the task and *)
(* at the end of each turn of worker_loop.                                 *)
(***************************************************************************)
EXTENDS Naturals, FiniteSets

CONSTANTS
  Workers,     \* the threads the constructor creates
  MaxTasks,    \* the largest batch a client asks for
  GenModulus   \* the number of values of generation_ (2^64 in the code)

ASSUME WorkersAssumption == IsFiniteSet(Workers) /\ Workers # {}
ASSUME TasksAssumption == MaxTasks \in Nat \ {0}
ASSUME GenerationAssumption == GenModulus \in Nat /\ GenModulus >= 2

VARIABLES
  caller,           \* where the owner thread is
  worker,           \* where each worker is in worker_loop
  observed,         \* observed_generation of each worker
  index,            \* the index a worker took, while it has one
  task,             \* does task_ hold a callable?
  task_count, next_task, completed_tasks,
  generation,
  error,            \* the index whose exception error_ holds, or NoIndex
  stopping,
  slot,             \* what the task did for each index (the caller's buffers)
  outcome           \* how the last run() ended

batch == <<task, task_count, next_task, completed_tasks, error>>
results == <<slot, outcome>>
vars == <<caller, worker, observed, index, batch, generation, stopping, results>>

Indices == 0..(MaxTasks - 1)
NoIndex == MaxTasks
EmptySlots == [i \in Indices |-> "empty"]

CallerStates == {"constructing", "idle", "waitDone", "wakeDone", "joining",
                 "destroyed", "failed", "terminated"}
WorkerStates == {"unborn", "top", "waiting", "running", "catch", "finish",
                 "exited"}

\* The owner is inside run(): its stack frame holds the buffers tasks write.
InRun == caller \in {"waitDone", "wakeDone"}

\* A worker that took an index and has not counted it as completed.
Holding(w) == worker[w] \in {"running", "catch", "finish"}

\* std::terminate ends every thread.
ProcessAlive == caller # "terminated"

-----------------------------------------------------------------------------
Init == /\ caller = "constructing"
        /\ worker = [w \in Workers |-> "unborn"]
        /\ observed = [w \in Workers |-> 0]
        /\ index = [w \in Workers |-> NoIndex]
        /\ task = FALSE
        /\ task_count = 0
        /\ next_task = 0
        /\ completed_tasks = 0
        /\ error = NoIndex
        /\ generation = 0
        /\ stopping = FALSE
        /\ slot = EmptySlots
        /\ outcome = "none"

(* ------------------------------ the owner ------------------------------ *)

\* One turn of the constructor's loop; the new thread may run at once.
Spawn(w) == /\ caller = "constructing"
            /\ worker[w] = "unborn"
            /\ worker' = [worker EXCEPT ![w] = "top"]
            /\ UNCHANGED <<caller, observed, index, batch, generation,
                           stopping, results>>

ConstructorReturns == /\ caller = "constructing"
                      /\ \A w \in Workers : worker[w] # "unborn"
                      /\ caller' = "idle"
                      /\ UNCHANGED <<worker, observed, index, batch,
                                     generation, stopping, results>>

\* emplace_back throws because no thread can be created.  The destructor of
\* a half-constructed executor does not run; workers_ is destroyed, and a
\* joinable std::thread in it calls std::terminate.
SpawnFails == /\ caller = "constructing"
              /\ \E w \in Workers : worker[w] = "unborn"
              /\ caller' = IF \A w \in Workers : worker[w] = "unborn"
                             THEN "failed"
                             ELSE "terminated"
              /\ UNCHANGED <<worker, observed, index, batch, generation,
                             stopping, results>>

\* start_.notify_all().  Variant: one waiter only.
WakeOne ==
  IF \E w \in Workers : worker[w] = "waiting"
    THEN \E w \in Workers : /\ worker[w] = "waiting"
                            /\ worker' = [worker EXCEPT ![w] = "top"]
    ELSE UNCHANGED worker
NotifyAllStart ==
  worker' = [w \in Workers |-> IF worker[w] = "waiting" THEN "top" ELSE worker[w]]

\* ++generation_.  Variant: nothing tells the workers of the new batch.
SameGeneration == generation' = generation
NextGeneration == generation' = (generation + 1) % GenModulus

\* The assignments of run() that describe the new batch.  Variant: error_
\* keeps the exception of an earlier batch.
LoadKeepingError(n) == /\ task' = TRUE
                       /\ task_count' = n
                       /\ next_task' = 0
                       /\ completed_tasks' = 0
                       /\ UNCHANGED error
LoadBatch(n) == /\ task' = TRUE
                /\ task_count' = n
                /\ next_task' = 0
                /\ completed_tasks' = 0
                /\ error' = NoIndex

\* The predicate of done_.wait.  Variant: the last index was handed out.
AllHandedOut == next_task = task_count
BatchComplete == completed_tasks = task_count

\* run() up to the point where done_.wait releases the mutex; the predicate
\* is false there because completed_tasks_ is 0 and the batch is not empty.
Run(n) == /\ caller = "idle"
          /\ caller' = "waitDone"
          /\ LoadBatch(n)
          /\ NextGeneration
          /\ NotifyAllStart
          /\ slot' = EmptySlots
          /\ outcome' = "none"
          /\ UNCHANGED <<observed, index, stopping>>

\* done_.wait returns to its predicate without a notification.
SpuriousDone == /\ caller = "waitDone"
                /\ caller' = "wakeDone"
                /\ UNCHANGED <<worker, observed, index, batch, generation,
                               stopping, results>>

\* The owner holds the mutex again and the predicate is false.
WaitAgain == /\ caller = "wakeDone"
             /\ ~BatchComplete
             /\ caller' = "waitDone"
             /\ UNCHANGED <<worker, observed, index, batch, generation,
                            stopping, results>>

\* The predicate is true: clear task_, copy error_, return or rethrow.
RunReturns == /\ caller = "wakeDone"
              /\ BatchComplete
              /\ caller' = "idle"
              /\ task' = FALSE
              /\ outcome' = IF error = NoIndex THEN "returned" ELSE "raised"
              /\ UNCHANGED <<worker, observed, index, task_count, next_task,
                             completed_tasks, error, generation, stopping,
                             slot>>

\* The destructor up to its joins.
Stop == /\ caller = "idle"
        /\ caller' = "joining"
        /\ stopping' = TRUE
        /\ NextGeneration
        /\ NotifyAllStart
        /\ UNCHANGED <<observed, index, batch, results>>

Joined == /\ caller = "joining"
          /\ \A w \in Workers : worker[w] = "exited"
          /\ caller' = "destroyed"
          /\ UNCHANGED <<worker, observed, index, batch, generation, stopping,
                         results>>

(* ----------------------------- the workers ----------------------------- *)

\* Variants of TakeOrLeave: next_task_ is not advanced, or the loop runs one
\* index too far.
TakeUncounted(w) ==
  \/ /\ next_task < task_count
     /\ worker' = [worker EXCEPT ![w] = "running"]
     /\ index' = [index EXCEPT ![w] = next_task]
     /\ UNCHANGED next_task
  \/ /\ ~(next_task < task_count)
     /\ worker' = [worker EXCEPT ![w] = "top"]
     /\ index' = [index EXCEPT ![w] = NoIndex]
     /\ UNCHANGED next_task

TakeOneMore(w) ==
  \/ /\ next_task <= task_count
     /\ worker' = [worker EXCEPT ![w] = "running"]
     /\ index' = [index EXCEPT ![w] = next_task]
     /\ next_task' = next_task + 1
  \/ /\ ~(next_task <= task_count)
     /\ worker' = [worker EXCEPT ![w] = "top"]
     /\ index' = [index EXCEPT ![w] = NoIndex]
     /\ UNCHANGED next_task

\* The head of the while loop, evaluated with the mutex held: take the next
\* index and release the mutex to call the task, or go round the outer loop.
TakeOrLeave(w) ==
  \/ /\ next_task < task_count
     /\ worker' = [worker EXCEPT ![w] = "running"]
     /\ index' = [index EXCEPT ![w] = next_task]
     /\ next_task' = next_task + 1
  \/ /\ ~(next_task < task_count)
     /\ worker' = [worker EXCEPT ![w] = "top"]
     /\ index' = [index EXCEPT ![w] = NoIndex]
     /\ UNCHANGED next_task

\* start_.wait with a false predicate.
Wait(w) == /\ worker[w] = "top"
           /\ ~stopping
           /\ generation = observed[w]
           /\ worker' = [worker EXCEPT ![w] = "waiting"]
           /\ UNCHANGED <<caller, observed, index, batch, generation,
                          stopping, results>>

SpuriousStart(w) == /\ worker[w] = "waiting"
                    /\ worker' = [worker EXCEPT ![w] = "top"]
                    /\ UNCHANGED <<caller, observed, index, batch, generation,
                                   stopping, results>>

Exit(w) == /\ worker[w] = "top"
           /\ stopping
           /\ worker' = [worker EXCEPT ![w] = "exited"]
           /\ UNCHANGED <<caller, observed, index, batch, generation,
                          stopping, results>>

\* start_.wait with a true predicate, then the first test of the while loop.
Observe(w) == /\ worker[w] = "top"
              /\ ~stopping
              /\ generation # observed[w]
              /\ observed' = [observed EXCEPT ![w] = generation]
              /\ TakeOrLeave(w)
              /\ UNCHANGED <<caller, task, task_count, completed_tasks, error,
                             generation, stopping, results>>

\* task(index), without the mutex; it may throw.
Execute(w) == /\ worker[w] = "running"
              /\ \/ /\ slot' = [slot EXCEPT ![index[w]] = "written"]
                    /\ worker' = [worker EXCEPT ![w] = "finish"]
                 \/ /\ slot' = [slot EXCEPT ![index[w]] = "threw"]
                    /\ worker' = [worker EXCEPT ![w] = "catch"]
              /\ UNCHANGED <<caller, observed, index, batch, generation,
                             stopping, outcome>>

\* The handler keeps the first exception.
Catch(w) == /\ worker[w] = "catch"
            /\ error' = IF error = NoIndex THEN index[w] ELSE error
            /\ worker' = [worker EXCEPT ![w] = "finish"]
            /\ UNCHANGED <<caller, observed, index, task, task_count,
                           next_task, completed_tasks, generation, stopping,
                           results>>

\* done_.notify_one() after the last index was counted.  Variant: the test
\* comes before the increment.
NotifyDoneEarly ==
  caller' = IF completed_tasks = task_count /\ caller = "waitDone"
              THEN "wakeDone" ELSE caller
NotifyDone ==
  caller' = IF completed_tasks' = task_count /\ caller = "waitDone"
              THEN "wakeDone" ELSE caller

\* lock.lock(), count, notify the owner of the last one, test the loop again.
Finish(w) == /\ worker[w] = "finish"
             /\ completed_tasks' = completed_tasks + 1
             /\ NotifyDone
             /\ TakeOrLeave(w)
             /\ UNCHANGED <<observed, task, task_count, error, generation,
                            stopping, results>>

-----------------------------------------------------------------------------
Owner == \/ ConstructorReturns
         \/ SpawnFails
         \/ \E w \in Workers : Spawn(w)
         \/ \E n \in 1..MaxTasks : Run(n)
         \/ SpuriousDone
         \/ WaitAgain
         \/ RunReturns
         \/ Stop
         \/ Joined

WorkerStep(w) == /\ ProcessAlive
                 /\ \/ Wait(w)
                    \/ SpuriousStart(w)
                    \/ Exit(w)
                    \/ Observe(w)
                    \/ Execute(w)
                    \/ Catch(w)
                    \/ Finish(w)

\* The executor's life is over: the only states in which nothing happens.
Ended == /\ caller \in {"destroyed", "failed", "terminated"}
         /\ UNCHANGED vars

Next == Owner \/ (\E w \in Workers : WorkerStep(w)) \/ Ended

Spec == Init /\ [][Next]_vars

\* Every thread that can acquire the mutex is eventually scheduled and every
\* task ends (a transform is a bounded loop).  A spurious wakeup, a call of
\* run() and the destruction of the pool are never obliged to happen.
Fairness ==
  /\ WF_vars(WaitAgain \/ RunReturns \/ Joined)
  /\ \A w \in Workers :
       WF_vars(ProcessAlive /\ (Wait(w) \/ Exit(w) \/ Observe(w) \/ Execute(w)
                                  \/ Catch(w) \/ Finish(w)))

FairSpec == Spec /\ Fairness
-----------------------------------------------------------------------------
(* Properties *)

\* Types: every member holds a value its C++ type and use allow.
TypeOK ==
  /\ caller \in CallerStates
  /\ worker \in [Workers -> WorkerStates]
  /\ observed \in [Workers -> 0..(GenModulus - 1)]
  /\ index \in [Workers -> 0..MaxTasks]
  /\ task \in BOOLEAN
  /\ task_count \in 0..MaxTasks
  /\ next_task \in 0..MaxTasks
  /\ completed_tasks \in 0..MaxTasks
  /\ error \in 0..MaxTasks
  /\ generation \in 0..(GenModulus - 1)
  /\ stopping \in BOOLEAN
  /\ slot \in [Indices -> {"empty", "written", "threw"}]
  /\ outcome \in {"none", "returned", "raised"}

\* The task is a lambda over the stack frame of ntt_crt_multiply (residues,
\* local_ledgers, both operands): no worker may be inside it, or about to
\* report on it, once run() has returned or the pool is going away.
TasksStayInsideRun ==
  \A w \in Workers : Holding(w) => InRun /\ task

\* Each transform writes residues[prime_index] and local_ledgers[prime_index]
\* without a lock: two workers never have the same index and no index is
\* executed a second time in a batch.
NoIndexTwice ==
  \A w \in Workers :
    worker[w] = "running" =>
      /\ slot[index[w]] = "empty"
      /\ \A v \in Workers \ {w} : Holding(v) => index[v] # index[w]

\* The slots of run()'s frame are written while it lasts, each by one worker
\* (residues and local_ledgers of ntt_crt_multiply).
SlotsAreOwned == TasksStayInsideRun /\ NoIndexTwice

\* A wakeup is never lost: while a batch is unfinished some worker holds an
\* index, or is about to find that the generation changed; and when it is
\* finished the owner is not left asleep in done_.wait.
NoLostWakeup ==
  /\ InRun /\ completed_tasks < task_count =>
       \E w \in Workers : \/ Holding(w)
                          \/ worker[w] = "top" /\ observed[w] # generation
  /\ caller = "waitDone" => completed_tasks # task_count

\* Every call of run() ends, whatever tasks throw and however threads are
\* scheduled.
RunEnds == InRun ~> caller = "idle"

\* The destructor's joins end.
DestructorEnds == caller = "joining" ~> caller = "destroyed"

-----------------------------------------------------------------------------
(* What run() promises, and the state in which the executor keeps it *)

Phase == IF caller = "constructing" THEN "unbuilt"
         ELSE IF caller = "idle" THEN "idle"
         ELSE IF InRun THEN "busy"
         ELSE "closed"

Contract == INSTANCE BatchContract WITH phase <- Phase, size <- task_count

\* The executor implements the contract: every index of a batch is called
\* exactly once before run() returns, and run() rethrows exactly when a call
\* of this batch threw.
ImplementsContract == Contract!Spec

-----------------------------------------------------------------------------
(* The inductive invariant *)

Holders == {w \in Workers : Holding(w)}

\* completed_tasks_ lags behind next_task_ by the indices still held, and a
\* batch that some worker began always has a holder until it is used up.
CountsAgree ==
  /\ next_task <= task_count
  /\ completed_tasks + Cardinality(Holders) = next_task
  /\ Holders = {} => next_task \in {0, task_count}

\* Outside run() the last batch is used up.
QuietOutsideRun ==
  /\ ~InRun => next_task = task_count /\ Holders = {}
  /\ task <=> InRun

\* Held indices are distinct indices below next_task_, and slots above it
\* have not been touched.
IndicesAgree ==
  /\ \A w \in Holders : index[w] < next_task
  /\ \A w, v \in Holders : w # v => index[w] # index[v]
  /\ \A i \in Indices : i >= next_task => slot[i] = "empty"

\* What a holder is about to do determines the slot of its index, and every
\* other index below next_task_ has been executed.
SlotsAgree ==
  /\ \A w \in Workers : worker[w] = "running" => slot[index[w]] = "empty"
  /\ \A w \in Workers : worker[w] = "catch" => slot[index[w]] = "threw"
  /\ \A i \in Indices :
       i < next_task /\ slot[i] = "empty" =>
         \E w \in Workers : worker[w] = "running" /\ index[w] = i

\* error_ belongs to an index that threw, and an exception that error_ does
\* not yet know of is still in a handler.
ErrorAgrees ==
  /\ error # NoIndex => error < next_task /\ slot[error] = "threw"
  /\ \A i \in Indices :
       slot[i] = "threw" => \/ error # NoIndex
                            \/ \E w \in Workers : worker[w] = "catch" /\ index[w] = i

\* A worker asleep, or holding an index, has seen the current generation.
GenerationsAgree ==
  /\ \A w \in Workers :
       worker[w] = "waiting" => observed[w] = generation /\ ~stopping
  /\ \A w \in Holders : observed[w] = generation
  /\ \/ \E w \in Workers : observed[w] = generation
     \/ InRun /\ next_task = 0
     \/ stopping
  /\ InRun /\ next_task = 0 =>
       \E w \in Workers : worker[w] = "top" /\ observed[w] # generation

\* Life cycle: a built pool has all its workers, and none leaves before the
\* destructor; a batch is never empty.
LifeCycle ==
  /\ stopping <=> caller \in {"joining", "destroyed"}
  /\ caller \notin {"constructing", "failed", "terminated"} =>
       \A w \in Workers : worker[w] # "unborn"
  /\ \A w \in Workers : worker[w] = "exited" => stopping
  /\ InRun => task_count > 0
  /\ caller = "waitDone" => completed_tasks # task_count

IInv == /\ TypeOK
        /\ CountsAgree
        /\ QuietOutsideRun
        /\ IndicesAgree
        /\ SlotsAgree
        /\ ErrorAgrees
        /\ GenerationsAgree
        /\ LifeCycle
=============================================================================
