# Verification of the Angel Causal Boundary SDK

TLA+ models of the C++ sources in this repository, TLC configurations that
check them on small instances, and TLAPS proofs that hold for every value of
the constants.  Every definition is translated from a source file; the map in
`PROJECT.json` names the lines.

## The system

The SDK lifts an ordinary cyclic order into a native state, transports that
state without ordinary observation, and lets ordinary values out only through
a causal cut.  Around that protocol sit exact arithmetic engines that evaluate
such states, consumers that read one residue (n! modulo n + 1) off them, and
finite machines that say what an observation forgets.

| component | state it keeps | operations | what is hard | what makes it correct |
|---|---|---|---|---|
| NTT batch executor (`afac59/polynomial_ring.hpp`, class `NTTBatchExecutor`) | description of the batch, generation, first exception, one mutex, two condition variables, worker threads | constructor, `run`, destructor, `worker_loop` | interleavings, lost wakeups, throwing tasks, a worker that sleeps through batches, lifetime of the caller's frame | each index called once, no call outlives `run`, no wakeup lost, `run` and the destructor end |
| Three-gate boundary protocol (`afac63/three_gate_boundary.hpp`, `src/boundary_pipeline.cpp`, `src/observation_integrity.cpp`) | the counter behind a `SessionAuthority`, the caller's ledger; all else is immutable values in the caller's variables | upload, change of presentation, quotient, continuation, export, import, two closures, download, validation, re-entry | long legal sequences, stale values used beside newer ones, counters at their limit, a failure between two counters | conserved ramification, total import and quotient, path independence, one origin per session, exact validation |
| Self-closure germ (`afac62/self_closure_germ.hpp`) | a tensor of residues | one factor per turn of a loop, quotient pushforward, compatibility witness, view, observation, two verifiers, audit of the modes | boundaries of degree and horizon, composite moduli | first visible degree, exactness of what is observed, transport under quotients, onset of every mode |
| Behavioural partition (`boundary/behavior.hpp`, `afac63/behavioral_resume.hpp`) | class numbers; a queue and a mask | refinement to a fixed point, its three queries, reachability search, stability certificate | termination by comparison of numbers, futures of unbounded length | equality of futures, tight number of bits, a certificate exactly when no future changes what is seen |
| Joint Wilson consumer (`src/joint_wilson.cpp`) | a plan, an evaluation tree, live remainders | plan, build factors, stream ranges, descend, replay, audit, refuse | order of release of intermediate values, limits decided before and found during work | residue, every factor once, nested lifetimes, limits that agree |
| Linear and block Wilson consumers (`afac58/wilson_boundary.hpp`, `afac59/sublinear_wilson.hpp`, `afac59/adaptive_wilson.hpp`) | slots of threads, trees, block values, a ledger of what was covered | linear observation in strict serial or parallel form, block evaluation on two asynchronous branches, the choice between them, refusal, verifiers | fork and join on disjoint slots, exceptions crossing a future, threads that cannot be created, boundaries of ranges | residue, every factor once, verifiers that accept what the observers produce |
| Sealed native state and programs (`afac56/log_native.hpp`, `afac56/big_nat.hpp`, `afac57/principal_jet_algebra.hpp`) | natural numbers in limbs, compiled programs, certified states of a jet algebra | compile, execute, verify, import, product, quotient, difference | carries between limbs, imported programs, long chains of operations decided from end points alone | a state denotes the jet its operations say, zero is zero, a certified program computes its interval |
| Composite-safe polynomial ring (`afac59/polynomial_ring.hpp`) | a ledger, a lazily built executor | multiplication, monic remainder, multipoint evaluation, series inverse, CRT | exactness bounds, limits, exceptions inside a batch | agreement with schoolbook arithmetic |
| Native factorial and prime pipeline (`src/native_factorial.cpp`, `src/prime_pipeline.cpp`, `src/internal/big_unsigned.hpp`) | a request, the view made from it, an exact value | upload, three bindings, projection, two exact derivations, decimal text, verifiers | values presented together that were not made together, limits, carries | one verdict whichever way leads to it, a binding that decides |
| Cyclic structure (`src/cyclic_structure.cpp`, `afac61/self_cyclic_probe.hpp`) | a view and a column of residues | bind, evaluate, observe, verify, audit, download | moduli that are composite or divide the order, responses with one value changed | the audit accepts the right responses and no other |
| High-dimensional arithmetic (`src/high_dimensional.cpp`) | values of three classes, maze states, families of functors, tensors | checked sum, difference, product and division, functors and their composition, superposition, interference, tensor product, entanglement | the ends of a signed type, orders that matter because products do not commute, counters of which one is at its limit, states equal in value only | exact or refused with a true reason, a past that is never lost, conserved weight, verdict equal to rank |
| Future quotient contract (`r23/future_quotient.hpp`) | none | declarations only | | |
| Diagnostics, tests, tools, manifest and paper | none of the program's | | | |

Components interact by calls on immutable values.  Only three things are
shared: the counter behind a `SessionAuthority` (its copies share it), the
ledger a caller passes along, and the members of `NTTBatchExecutor`, which is
the only place where threads share mutable members.  `std::async` is used
besides, for branches that write disjoint slots and are joined.

The hazards of this code, each at its line and with the properties that cover
it, are listed in `PROJECT.json`.  Two have no property: a thread that cannot
be created after others were (the model contains it, the program ends in
`std::terminate`, and there is nothing more to say about it), and two threads
that use copies of one `SessionAuthority` at a time (the counter is a plain
integer behind a `shared_ptr`, and no doc promises that it may be shared).

## The modules

| module | models | runs | proofs |
|---|---|---|---|
| `BatchContract` | what `run` promises `ntt_crt_multiply` | through `NTTBatchExecutor` | |
| `NTTBatchExecutor` | the pool, one step per region that holds the mutex | `executor_safety`, `executor_liveness` | `CompositeSafeRing_proofs` |
| `CyclicPresentation` | generators, their transport and pushforward | through `BoundaryProtocol` | in `BoundaryProtocol_proofs` |
| `CyclicJets` | columns, tensors, the germ and its witness as functions | through the next two | in `SelfClosureGerm_proofs` |
| `SelfClosureGerm` | `materialize_self_closure_germ` as the loop it is | `germ_reference` | `SelfClosureGerm_proofs` |
| `BoundaryProtocol` | every operation of the boundary on the caller's variables | `boundary_values`, `boundary_sessions`, `boundary_same_number` | `BoundaryProtocol_proofs` |
| `MooreMachine` | machines, their validity, and what a word makes them show | through the next two | |
| `BehaviorPartition` | `minimal_partition` and the queries on its result | through `BehaviorAnalysis` | `BehaviorAnalysis_proofs` |
| `ObservationStability` | `reachable_mask` and `certify_stability` | through `BehaviorAnalysis` | `BehaviorAnalysis_proofs` |
| `BehaviorAnalysis` | the two entries on one machine | `behavior_analysis` | `BehaviorAnalysis_proofs` |
| `PolynomialRing` | the ring's arithmetic as its clients see it, and the sizes it refuses | through the modules below | `SharedTheorems`, `CompositeSafeRing_proofs` |
| `CompositeSafeRing` | `multiply` and `monic_remainder` step by step, over transforms, the executor's contract and the Chinese remainder theorem | `composite_safe_ring` | `CompositeSafeRing_proofs` |
| `ProductTrees` | the trees over factors and over blocks | through the modules below | `SharedTheorems` |
| `WilsonObserver` | what every Wilson consumer promises | through the modules below | |
| `JointWilson` | `execute_joint_wilson_projection` and the operator that calls it | `joint_wilson` | `JointWilson_proofs` |
| `LinearWilson` | `WilsonResidueObserver::download` with its threads | `wilson_consumers` | `PracticalWilson_proofs` |
| `BlockWilson` | `SublinearWilsonObserver::download` with its two branches | `wilson_consumers` | `PracticalWilson_proofs` |
| `PracticalWilson` | the entries to both, the adaptive one among them | `wilson_consumers` | `PracticalWilson_proofs` |
| `BigNaturals` | `BigNat`, limb by limb | through the modules below | |
| `QpochPrograms` | compiled programs, their execution and their verifier | through the modules below | |
| `JetStates` | certified states, their verifier and their equality | through the next two | |
| `PrincipalJets` | the jet algebra as a register machine | `native_system` | |
| `BigUnsigneds` | the two derivations of an exact factorial and its decimal form | through `PrimePipeline` | |
| `CyclicProbe` | the dense cyclic observer, and the audits that check it by other mathematics | through `PrimePipeline` | |
| `GermAudits` | what the audit expects of every mode of a germ | through `PrimePipeline` | |
| `PrimePipeline` | requests, views, observers and verifiers | `native_system` | |
| `NativeSystem` | the jet algebra and the pipeline | `native_system` | |
| `TriClassArithmetic` | values, the four operations, and the algebra they are measured by | through the modules below | |
| `MazeFunctors` | states with a past, instructions | through `ClassQuantum` | |
| `ClassQuantum` | families of functors, interference, joins | `high_dimensional` | `HighDimensional_proofs` |
| `TensorHistory` | tensor product and entanglement | `high_dimensional` | `HighDimensional_proofs` |
| `HighDimensional` | the two | `high_dimensional` | `HighDimensional_proofs` |

`SharedTheorems` has what the proofs of several components share: the lemmas on
folds, products and residues, which need no model, those on the ring's
arithmetic, and those on the tensors of germs, how they fold onto a divisor and
how a shorter jet begins a longer one.
The `MC*` modules hold only values for constants and symmetry sets.  Where a
definition is preceded by one called a variant in its comment, the variant is
how a plausible slip in that line would read; `PROJECT.json` says which
property each variant breaks.

### NTTBatchExecutor

The owner thread is `caller`, each worker is `worker[w]`.  Every member the
mutex protects has a variable of its name without the trailing underscore;
`error` is the index whose exception was stored.  A region between two points
where the mutex is released is one action: `Run` is `run` up to the release in
`done_.wait`, `RunReturns` is what follows the wait, `Observe` and `Finish`
end in `TakeOrLeave`, the test at the head of the inner loop that still holds
the mutex.  `Execute` is the call of the task without the mutex; it may throw,
and `Catch` is the handler.  `notify_all` and `notify_one` move only threads
that are waiting; `SpuriousDone` and `SpuriousStart` let a wait return without
a notification.  `SpawnFails` is a constructor that cannot create a thread.
A task is reduced to the slot of its index.  `worker_loop` copies `task_` with
the mutex still held and calls the copy without it; since an index is held only
while the batch is unfinished, which `TasksStayInsideRun` states, `task_` cannot
change in between, and the model reads it in the step that calls the task.  A
copy of the `std::function` that throws would leave the `noexcept` loop and end
the program; it is left out.

`BatchContract` is the abstract specification: a batch is started, its indices
are called in any order, it returns when all are done and raises when one
threw.  `ImplementsContract` is refinement with `phase` derived from the
owner's place and `size` from `task_count`.

### BoundaryProtocol

`held` is the program's variables; every operation reads one slot and writes
another or the same one, so that checkpoints, forks and packets can be used
late and beside newer values.  A guard is the conjunction of the rejections of
the C++ operation, and `QuotientAccepted`, `ImportAccepted` and the like are
definitions so that the invariants can ask when they hold.  Inputs come from
`Orders`, `Jets` and `Moduli`; a presentation is any valid one of the order,
and a divisor any number.  Upload uses only the standard presentation because
`BoundaryPipeline` has no other upload.  The order of effects is kept where an
exception makes it visible: `UploadRefused` counts an origin that was never
created, `CloseRejected` counts the check.

`NumberOf` gives each authority its constructor argument.  Nothing in the code
keeps two authorities from having one number; the assumption that they differ
is a hypothesis (`NumbersDistinct`) of exactly the two theorems that need it,
and the run `boundary_same_number` shows what happens without it.

### CyclicJets and SelfClosureGerm

`CyclicJets` translates the dense arithmetic as functions: modular inverses by
their recurrence, the truncated binomial row, one factor of the product, the
whole germ, the terminal column, the pushforward and the witness of ramified
compatibility.  The boundary's primitive closure uses them directly.
`SelfClosureGerm` is the loop, one factor per step, so that properties can
speak about the tensor between factors.

### MooreMachine, BehaviorPartition and ObservationStability

The two headers are the same algorithm in two namespaces.  A turn of the
refinement loop is one action; a step of the search takes one state from the
queue or follows one letter.  The two version numbers of a machine are tested
against zero only, so `versioned` is a Boolean.  `Words` and `SameFuture`
define what the code's names mean by a future: what a caller sees who feeds
letters.  Words as long as the number of states suffice to tell states apart.
`BehaviorAnalysis` puts the two entries over the same machines; neither calls
the other, and a behaviour is one call from beginning to end.

### PolynomialRing and CompositeSafeRing

A polynomial is the sequence of its coefficients, the constant one first.
`PolynomialRing` has the arithmetic as functions: schoolbook product, long
division, Newton's inverse of a power series, the remainder computed from it,
and `ProductRefused` and `RemainderRefused`, the sizes at which the engine
throws `PolynomialResourceError`.  The Wilson consumers use it.

`CompositeSafeRing` is the ring object.  `multiply` is several steps: the
refusal of a transform that is too long, the choice of the number of primes,
one transform per prime, each in a slot of its own, and the reconstruction by
mixed-radix digits.  When the policy asks for a parallel batch the executor is
built at the first use and the transforms are calls of `BatchContract`, the
specification that `NTTBatchExecutor` is shown to implement; otherwise they
follow one another.  A transform may throw (`std::bad_alloc`).
`monic_remainder` is an activation that asks for the products of Newton's
rounds one by one.  The primes of the code have 28 to 31 bits; 17, 97 and 193
stand for them in the run, with the roots of unity and the inverses computed in
the same way.  The proofs hold for every basis of distinct primes with a root of
-1 of the order the table announces and at least the bits it promises
(`TransformPrime`), which the six entries of `ntt_primes` are.  A client hands
over polynomials whose coefficients are reduced, as all the callers in the
repository do; nothing is assumed of their lengths or leading coefficients.

### ProductTrees and the Wilson consumers

A node of a tree is a range of numbers, `<<begin, end>>`, and its halves are
the children.  `WilsonObserver` is the abstract specification: a candidate
gets the residue of (candidate - 1)! and the verdict of primality, or a limit,
or the request is rejected; never two of them, and no residue after a refusal.
Every consumer is shown to implement it.

`JointWilson` follows the activations of `descend_evaluation_tree` on an
explicit stack, because what the code is careful about is when each
remainder and each product is released; `products` maps a node to its
product, empty after the release.  Streaming of ranges, the plan of a width,
both tests of the width and the assembly from the residue of the half factorial
are steps of their own.

`LinearWilson` has one step per factor of each thread.  A thread that cannot
be created rejects the request if it is the first, and ends the program in
`std::terminate` otherwise (`pc = "terminated"`), because destroying a
joinable thread does.

`BlockWilson` runs its three stages, factor tree, evaluation tree and descent,
in the caller or in two branches.  A branch has a list of tasks; in the
descent a task is one activation.  `Join` is the two calls of `get` and, when
something throws, the destructors of the futures: both wait for a branch that
is still running, so one action with one guard stands for them.  A branch that
cannot be created (`"unborn"`) raises `std::system_error`, which takes
precedence over what the other branch throws.  `request.native` tells the
entry of the public pipelines, which rejects a width the native coordinate
does not have, from the observer's own.

`PracticalWilson` composes the two: a call is in one of them, and the adaptive
entry derives the linear consumer's limit from the cutover.

### BigNaturals, QpochPrograms, JetStates and PrincipalJets

A `BigNat` is the sequence of its limbs, the lowest first and the highest not
zero; addition, doubling, subtraction and comparison are the loops of the code
over limbs of `LimbBits` bits.  A seal stands for the data it mixes: `mix64`
is taken to have no collisions.

A program is compiled from the bits of a length, executed from a source and
verified by following the bits again; the verifier is also given programs
with one opcode changed, removed or added.  `JetStates` is what a state is
compiled from and when two are equal.  `PrincipalJets` is a machine of
registers on which every operation of the algebra may follow every other:
upload, import of an execution that may belong to another input, product,
quotient by a unit, a prefix or a suffix, difference.  The algebra decides from
the end points of intervals and never expands a polynomial; the variable `jets`
does, truncated and modulo a prime, and `StatesDenoteJets` compares the two
after every chain.
`hmul` by a unit whose interval is not adjacent gives a continuation: the
algebra is incomplete there, not wrong, and the property asks for no more.

### BigUnsigneds, CyclicProbe, GermAudits and PrimePipeline

`request` is what a caller uploaded, `view` what was bound to it, `answer` the
last observation.  The public pipeline keeps the request with the view; the
sealed core takes the two separately, and there any request of `Presentable`
is given with the view: that of the same candidate, or of another.  Every
observer re-derives the binding first, and the order of its rejections and
limits is the code's; the public entry tests the limit on the order before the
modulus, the core the modulus first.

`CyclicProbe` has the observer, which multiplies out a product in the group
ring of a cyclic group, and the audit, which factors the order and compares
each coefficient with a Ramanujan sum; a second audit factors in another way.
`GermAudits` has the degree and the coefficient at which each mode of a germ
must begin.  `BigUnsigneds` multiplies a factorial out one factor at a time
and by a tree, in limbs of a small `Base`, and writes it in chunks of `Chunk`.
The engine behind a modular projection stands here by its contract: it answers
as `WilsonObserver` promises, or refuses.  That the engines keep the contract is
shown by `joint_wilson` and `wilson_consumers`; what `VerdictsAgree` adds for a
projection is only what the pipeline does with the engine's answer.

`NativeSystem` puts the jets and the pipeline side by side; they share
`JetStates` and no memory, and the pipeline's candidates have limbs of their
own width.

### TriClassArithmetic, MazeFunctors, ClassQuantum, TensorHistory

A value has an ordinary coefficient and two axes, functions from words of tokens
to coefficients that are not zero.  `AddFits`, `SubtractFits`, `MultiplyFits`
and `DivisionFits` are the tests the code makes before it computes, on a signed
type of any width; the reference below them is the algebra over all integers, a
convolution over the ways to cut a word.  Where a product refuses because of
terms that would cancel, the refusal is allowed, and `RefusedFor` says exactly
when.

A maze state is a value, its address and its history of events, each of which
holds the states it was made of.  The road, the holonomy and the higher cell of
an address and all seals are hashes of these and are left out: two states are
equal exactly when the program's are.  `ClassQuantum` runs a family one
instruction per step, groups the endpoints, drops the groups of weight zero
one by one, and lets a caller join what survives with a state of its own.
`TensorHistory` visits one minor per step.

## The runs

| run | instance | shows |
|---|---|---|
| `executor_safety` | three workers, batches of one to four tasks, generation modulo 3 | slots written by one worker and inside `run` only, no lost wakeup, the contract |
| `executor_liveness` | two workers, up to three tasks, generation modulo 2 | every `run` ends, the destructor ends |
| `germ_reference` | all orders and cycle counts of at most twelve factors, jets 1 to 5, moduli 3, 4, 5, 7, 9, 11 | vanishing below the cycle count and visibility at it, after every turn; exact columns; transport after every factor; the verdict of the witness |
| `boundary_values` | one variable, two authorities of two sessions each, orders 5, 8, 12, horizons 0 to 6, moduli 2, 3, 7, the counter of fresh origins modulo 4 | ramification, functoriality, primitive closures that show the folded germ of the uploaded order, what the ledger's count of origins means |
| `boundary_sessions` | two variables, two authorities, orders 4 and 5 | one origin per session, total import, quotient and equivalence of presentations, exact validation, fresh uploads |
| `boundary_same_number` | two authorities of one number | `ReentryLeavesSession` fails (see Findings) |
| `behavior_analysis` | some 4,000 machines of four states and two letters, and invalid ones; the search from every state and from one beyond the table | classes are futures, complement bits, mask and certificate against words, every call ends |
| `composite_safe_ring` | some thirty operands over the moduli 1 to 6, 12 and 100, primes 17, 97 and 193, batches and sequences of transforms, throwing ones | products are schoolbook's, remainders are long division's, also after a product that failed |
| `joint_wilson` | candidates 2 to 64 under engines that never, sometimes and often refuse; 150 to 361 with deeper trees; 2 to 400 as far as the plan, for search radii 0, 3 and 8 | the promise, every block once and in order, live remainders, the two tests of the width, progress |
| `wilson_consumers` | candidates 2 to 17 in the linear consumer with one to four threads; 2 to 71 in the block consumer with one or two branches; four engines, given and chosen widths; cutovers around the candidates | the promise in every order of threads and branches, slots and blocks, verifiers that accept every answer |
| `native_system` | two registers with intervals about a limb boundary, limbs of four bits; candidates 0 to 30 with prime, square, cube and three-prime orders; moduli 6, 12, 15, 17, 31; germs of candidates 2 to 6 over up to two cycles and jets up to 6 | states denote jets, zero is zero, tampered programs are rejected; cyclic, exact and projected verdicts agree; the audit accepts right responses only; a binding decides; modes begin where they must |
| `high_dimensional` | coefficients of three bits, counters to 3; every composition of two instructions and some of three; families of up to three branches with weights that cancel, add up and overflow; tensors of two by two and three by two | every result exact or refused for a true reason, causal history, conserved weight, verdict equal to rank |

**Why the bounds are enough.**  Three workers and four tasks give batches
smaller than, equal to and larger than the pool, a second and a third worker
that race for the last index, and one that sleeps while two others run whole
batches; the generation wraps after three batches, which is what lets a worker
that slept too long see its own number again.  (With the code's 2^64 that
takes as many batches; the proofs hold for every modulus of two or more,
because a worker asleep never lets the counter move without being woken.)
One variable suffices for properties of one value, two for properties of a
pair, and no property of the boundary relates three.  Orders 8 and 12 have
chains of divisors and several units, 5 is prime, the horizons lie below, at
and above the multiplicities they meet, and the moduli hide every horizon (2),
divide an order (3) and do neither (7).  Twelve factors are enough for six
turns of order 2 and for one of order 12, with jets that stop before, at and
after the multiplicity.  The products of the toy primes lie between the bounds
the tested moduli need, so that one, two and three primes are chosen, and the
operands include those with every coefficient at its largest.  The candidates
give every remainder of width and parity, ranges of no, one and several
blocks, trees of up to four levels, and composite candidates whose points
differ by zero divisors.  Thirteen factors over three and four threads have
ranges of unequal length.  Four states need up to three turns of refinement and
hold partitions from one class to four.

Limbs of four bits put a carry, a borrow and a leading zero within intervals of
fourteen factors, and the programs of lengths up to twelve double with and
without an appended factor, in both orders.  The orders 4, 8, 9, 12 and 30 are
the kinds that trial division, a repeated factor, a square at the boundary and
the Ramanujan sums tell apart; a modulus is prime or not, below the order, above
it, or shares a factor with it.  Three-bit coefficients leave the type in one
operation or two from every side, and the asymmetric end (-4, whose negation
does not exist) is among the operands, weights and tensor entries.  Inputs at
uneven counters let each of epoch, depth and generation reach its limit of three
while the other two still have room, and of the parents of a join one may be
ahead in epoch and the other in depth.  Words repeat
(`<<1>>` and `<<1, 1>>`), so that terms of a convolution meet, and the tokens 1
and 2 do not commute.

**Deadlock** is checked everywhere but in `behavior_analysis`, whose single
sequential call really ends.  In the executor the final states have an
explicit stutter (`Ended`), so that any other state without a successor is an
error; in the germ the finished loop has one (`Done`), in the ring and the
consumers the call that was answered (`Closed`, `Answered`, `Ended`), in the
native system and the high-dimensional arithmetic the last observation or
refusal (`Ended`).

**Fairness.**  The executor: each worker is weakly fair in its steps other than
spurious wakeups, the owner in returning to its wait, returning from `run` and
joining.  This is what a scheduler and a mutex that eventually serve every
thread give, with tasks that end, and a transform is a bounded loop.  Nobody is
obliged to call `run` or to destroy the pool.  `BehaviorAnalysis`: the thread
that makes the one call keeps running.  The boundary and the germ are checked
for safety only: each operation is a finite call of its own. `JointWilson` needs
no fairness: `EachStepProgresses`, which is proved as well, bounds the steps
that are left by a number that every step lowers, and absence of deadlock does
the rest.  The ring and the other two consumers are checked for safety and
deadlock; their loops are bounded by the sizes they are called with.  So are the
native system and the high-dimensional arithmetic, which are sequential.

## The proofs

All proofs are checked by TLAPS from the named assumptions on the constants:
`WorkersAssumption` (a finite, non-empty set), `TasksAssumption`,
`GenerationAssumption` (at least two generations), `AuthorityAssumption`
(finitely many authorities, none numbered 0), `BoundAssumption` and
`InputAssumption`, `MachinesAssumption`, `WidthsAssumption`,
`UploadsAssumption`, `FamiliesAssumption` and `TensorsAssumption` (what a caller
hands over is complete and has coefficients and counters of their types),
`FactorsAssumption` and `ModuliAssumption` (bounds and moduli are naturals),
`RequestsAssumption` and `CallsAssumption` (requests with a candidate of at
least 2, policies and a cutover that are naturals), `PrimesAssumption` (distinct
primes as above) and `ClientsAssumption` (numbers in policies are naturals,
coefficients are reduced).  The two theorems on
sessions also assume `NumbersDistinct`.

*Executor.*  `IInv` strengthens the three safety properties by what ties the
counters together: the number of holders is the difference of `next_task` and
`completed_tasks`; the slots above `next_task` are untouched and those below
are executed or held; an exception not yet stored is still in a handler; a
worker asleep or holding an index has seen the current generation, and a batch
nobody has begun has a worker that is about to notice it.  That last part is
why a wakeup cannot be lost, and none of the three properties is inductive
without it.  `InvariantHolds` proves `IInv`, `TasksConfined`,
`IndicesExclusive` and `WakeupsSuffice` read the properties off it,
`SlotsOwned` joins the first two into what the run checks, and `Refinement`
maps every step to a step of `BatchContract` or a stutter.

*Ring.*  `ServiceInv` is the invariant of a ring that serves calls in any order
with failures of memory at any product; the two properties of the run are read
off it, and so is `ResiduesExact`, which says what each prime has contributed.
Four facts carry it.  *Transforms.*  The levels of a transform evaluate the
halves of a sequence at the powers of a root (`BlockEvaluates`), the bits of
an index are mirrored by `BitReversal` (`ReversalOfBit`), and the inverse
transform takes the values back (`ConvolutionIsExact`): what a prime contributes
is the convolution modulo itself, because the transform is at least as long as
the product and the prime has a root of that order.  The exponent p - 2 inverts
by `FermatsTheorem`.  *Reconstruction.*  The mixed-radix digits are the number
itself (`DigitsDenote`, `ReconstructedIs`) while it is below the product of the
primes; twice the width of a residue and the width of the number of terms bound
a coefficient (`CoefficientBound`), and the bits of the primes bound their
product (`BitsBelowWhole`), so that the primes chosen suffice
(`PrimeCountFacts`).  *Newton's iteration.*  An activation stands after k rounds
where the iteration does after k (`Stands`), and the sizes of the products it
has had and asks for are those of `NewtonProducts` (`DemandIsAnnounced`), so
that a refusal is decided by the sizes alone.  *The remainder.*  The modulus may
have zero divisors, but the leading coefficient of the divisor is one: a
multiple of it that is shorter than itself vanishes (`VanishingMultiple`), so
there is one rest (`RestIsUnique`), long division leaves it
(`ClassicalLeavesRest`) and so does the truncated quotient (`RemaindersAgree`).
The executor appears as `BatchContract`, which `Refinement` proves of the pool:
a slot is written exactly when its prime has contributed, whatever earlier
batches left behind.

*Boundary.*  `IInv` says that every slot holds a value the operations can have
built (`Sound`) and that every session in use was issued.  `Sound` contains
`Ramified`: order times cycles is the source order, and the generator is a
unit of its own order.  The arithmetic: a unit and its inverse push down to
every divisor, and two valid presentations always transport into one another.
From these follow, for orders of any size, that import and quotient reject
nothing that was reached (with the equivalence of presentations,
`OperationsAreTotal`), that descents commute with each other and with changes
of presentation, and that states that differ only in presentation and
provenance are equivalent.  `PrimitivesFoldTheUpload` says of every primitive
closure held, whatever chain of quotients and continuations came before it, that
its observation is the germ of the uploaded order folded onto the order that is
left, in one cycle at the source, and that the horizon bound in it is the degree
at which that germ first shows.  The closure itself computes the germ of the
order that is left, with the cycles that have accumulated; the two meet in
`GermsFold`, the transport proved for the germ's loop, and in `GermsAgree`, by
which a jet begins with every shorter one.  The invariant keeps of each packet
which domain it was read from (`BoundTo`), for the value it was read from may
be gone.
`ValidationIsExact` compares a packet field by field with the one its closure
produces; `OriginsAreAccounted` counts: sessions issued are a sum over the
authorities, which a step increases by one exactly where it increments the
ledger, modulo the ledger's width.

*Germ.*  `LoopInv` says that the live tensor is the germ of the factors applied
so far; all four properties of the run follow from it, for every order, jet
order, number of cycles and modulus.  A germ is a sequence of tensors that a
family of rows grows (`Grown`).  Transport is linear algebra: a factor commutes
with the sums over residue classes, whatever its row is (`GrownFolds`, in
`SharedTheorems`, because the boundary's closures rest on it too).  For the
rest a tensor is compared with a wave on the integers.  Up to the number of
complete turns, only the first two entries of a row matter, and the leading
column is the orbit of the comb (one at the multiples of the order, zero
elsewhere) under h[i] - h[i - s] within a turn and -s h[i] at its end
(`LeadingColumns`).  Two families of rows that begin alike therefore have the
same leading columns, which is why the broken inverses of a composite modulus do
not reach them; for a prime modulus the rows are equal (`RowsOfPrime`).  What is
hard is that the orbit does not die modulo a prime p that does not divide the
order (`CombLives`): a single difference may well kill a wave, the constant one
for example.  It cannot kill a wave that is, for every prime q of the order n, a
difference at distance n / q of a periodic wave (`Balanced`): what one factor
kills has a period n / q modulo p, and then q times the wave is zero
(`DifferenceIsInjective`).  Factors keep waves balanced, but the comb is not
balanced.  Differences at the distances n / q make it so, one prime after the
other, commute with all factors, and leave a one at index zero
(`TemperedExists`).  If p divides the order, the factor that ends the first turn
is zero (`CombDies`).  The witness compares tensors of the quotient's own
family; its terminal column is the column of degree zero before the last factor
(`TerminalIsDegreeZero`), which has already vanished in a proper quotient and
has not in the order itself.

*Partition.*  The invariant says that numbers are canonical and that
signatures only split.  A turn that leaves the numbers unchanged is then a
congruence (`CongruenceReturned`); a bisimulation can never be split, so no
coarser congruence was missed (`CoarsestReturned`).  The least element needed
to number a class comes from well-foundedness of the order on an initial
segment of the naturals.  What remained was that the references speak of words.
Equality on all words up to a length is an equivalence that every extra letter
refines or leaves for good, and it cannot be refined more often than there are
states: words shorter than the table decide (`ShortWordsDecide`).  With that
`ClassesReturnedAreFutures` and `ComplementIsLeast` speak of the words the
property quantifies over.

*Stability.*  The invariant is the frontier of a search: a marked state has
its targets marked, is queued, or is being expanded.  At the end the mask is
closed, and the certificate is granted exactly when some closed set around the
start shows one observation, a statement about futures of every length.  The
other half is `MaskIsLed`: every marked state has a word that leads to it, one
letter longer than the word of the state it was marked from.  Together they
give `MaskReturned`, `CertificateReturned` and, inside an analysis,
`SearchReturnsReach`.

*High-dimensional arithmetic.*  The tests made before a sum, a difference, a
product and a quotient are exact for signed types of every width
(`SumsFitExactly` and its companions): they pass exactly when the mathematical
result fits, with the truncating division by which the code bounds a product and
the missing negation of the smallest number.  `CausalHistoryHolds` is the
property of the run for every family, input and counter limit.  Its invariant
`CInv` says that every endpoint in the packet, in a group and among the
survivors descends from the input, one event after another (`OnTheWay`), which
`CausalHistory` alone does not keep through grouping; the lemmas `LiftBreeds`
and `PerformStaysOnTheWay` say what one operation does to address and history
whatever the values are.  `WeightIsConserved` needs `WInv`: the groups hold
exactly the branches before the loop's index, each state's group with the sum of
their weights (`Grouped`), and the survivors are the groups before the index
whose sum is not zero (`Kept`).  `VerdictsAreRanks` needs `TInv`: every minor
visited vanishes, and a tensor built as a product has no other kind.  A table
whose minors all vanish is an outer product of a row and a column through any
entry that is not zero, and one with a minor that does not vanish is none.

*Wilson consumers.*  Three modules build on one another.  The first part of
`SharedTheorems` has no model in it: induction over finite sets and naturals in
the form the provers can use (a family of sets or numbers instead of a
predicate), the solution of recursive function definitions, sums and products
over finite sets, residues and products modulo a number, inverses modulo a
prime, and from these `WilsonsTheorem` in both directions.  Its second part
shows that the ring's operations keep the values of a polynomial at the points
that matter: a product's value is the product of the values, and a monic
remainder, by long division or by Newton's iteration with its reversed and
truncated quotient, has the dividend's value wherever the divisor vanishes
(`RemainderKeepsValues`), for composite moduli too; a tree node's polynomial
vanishes on its range, and the halves of a range cover it.
`PracticalWilson_proofs` and `JointWilson_proofs` have the invariants.  `LInv`,
of the linear consumer: the threads' ranges partition the factors, a thread's
slot is either unwritten or the product of its whole range, and only the joined
slots are combined.  `BInv`, of the block consumer: the plan is a width with
`count * width + remainder` factors (`Planned`); while a tree is built, what the
branches have written are the products of their nodes (`Staging`, `Branching`);
while it is descended, every block is either answered with its value or below
exactly one queued node (`Covers`), and every queued polynomial has the right
values on the points below its node (`RightBelow`). `ConsumersHold` puts them
under one roof and yields `IInv`; `AnswersAreAccepted` and
`ConsumersImplementObserver` are the verifier and the contract: a completed call
returns (n - 1)! modulo n and the verdict Wilson's theorem attaches to it, and
no refusal is returned as an answer.

*The joint consumer.*  `JInv` is an invariant of the stack.  The activations
abut: what one has still to read begins where the one above it ends, and the
scalar is the product of all factors before the innermost (`Stacked`,
`Descending`).  Each dividend has the block polynomial's values on what its
activation has to read (`RightBelow`), and the products of the branches not yet
taken are there and monic (`Kept`), which is why releasing a product or a
dividend as early as the code does never rejects a request that passed the tests
of its policy.  The answer needs one fact more, `FactorialFolds`: the last half
of the factors are the negatives of the first half modulo n + 1, for primes and
composites alike.  `ChosenWidth` settles the two tests of the width.  The search
minimizes lexicographically, so it is enough to show that every width above the
rounded-up square root loses to one in the search's window: exchanged with its
quotient it costs no more (`ExchangeIsBefore`), and if the quotient is outside
the window the root itself costs less (`TotalAboveRoot`, `NarrowerIsBefore`).
`JointConsumerHolds` and `JointConsumerImplementsObserver` read the run's
invariant and the contract off these, and `JointConsumerProgresses` is the run's
action property: a sum over the stack and over the ranges left, which every step
lowers and which starts at 4 h + 5 for h pairs.  That a sum of the model, a fold
over a set, is the sum the lemmas speak of is `SumIsSolved`: whatever solves the
fold's recursion has the sum as its last value.

Some facts are proved and in no run: the inductive invariants of the executor,
the ring, the boundary and the two behaviour loops, what each prime contributes
to a product (`ResiduesExact`), that every turn of the refinement splits a class
(`TurnsSplit`), and that a state waits in the search's queue at most once
(`NoDuplicates`).

*Only model-checked.*  Liveness (`RunEnds`, `DestructorEnds`, `AnalysisEnds`)
and everything under fairness.  The native system, whose numbers,
programs and columns are loops over limbs and bits.  `ExactOrRefused` beyond its
coefficients.

## Findings

`boundary_same_number`: `docs/state_integrity.md:67` says that re-entry "must
call `upload` again, which allocates a fresh session".  Two
`SessionAuthority` objects constructed with one number both count from 1 and
issue the same `SessionId`.  In the run a value is uploaded through the first,
closed and downloaded, and its packet is re-entered by an upload through the
second: `ReentryLeavesSession` fails because the new session is the very one in
the packet's receipt.  Copies of one authority are not affected: they share the
counter.

Two sentences of `docs/high_dimensional_arithmetic.md` differ from the code
without a run of their own.  Line 34 says that "`hdiv(X,d)` is total for a
central signed scalar `d`" and returns a packet.  Dividing by -1 a value with
the smallest coefficient has no quotient in the type, and the code answers with
a `CoefficientOverflow` continuation (`src/high_dimensional.cpp:480`), which is
right and which `RefusedFor` demands; the sentence needs the exception.  Line 61
writes `compose(first, second)` for execution in causal order; the code's
signature is `compose(after, before)`, which performs its second argument
first.

## What is not modelled

- The byte encoding of an uploaded order: its value is taken.
- The ledgers' counters of dense work; the counters of events are kept.  The
  integrity witnesses compare what is before an observation with what is after,
  and an observation changes nothing.
- `verify_least_ramification`.
- The overflow guard of the germ's loop cannot be reached with the sizes that
  fit in memory and is left out.
- Of the executor: a copy of the task that throws in `worker_loop`.
- Of the high-dimensional arithmetic: the guard against overflow of a tensor's
  dimensions, which sizes that fit in memory cannot reach.  A caller's state is
  uploaded, at any address and with no history; the states with a past are
  those that functors and joins made.
- Hexadecimal text and bytes of a `BigNat`, the seals of a jet state's parents
  and the verifiers of the jet machine's answers.
- Of the pipelines: the stages of an audit report, the verifier of a download of
  the quotient view (`ExternalQuotientVerifier`) and the verifiers of packets
  that hold a continuation or an exact zero.
- Of the Wilson consumers: the seals and the replay of a request's binding, the
  operation counters of the polynomial engine, the tracker of live
  coefficients, and the two audits of the joint consumer, which run a second,
  materializing program and compare.  Two branches of its code are never taken
  and have no action: the leaf case of `descend_evaluation_tree`, which is
  called for inner nodes only, and the case of two blocks after the streamed
  ranges, which the condition before it already covers.
- Of the ring: its counters, and `force_schoolbook`, which is a product limit
  nothing exceeds.  The consumers see the engine through its refusals only;
  how a product is computed is the subject of `CompositeSafeRing`.
- Concurrent use of one `SessionAuthority`, which nothing in the code supports.
- The components marked as not modelled in `PROJECT.json`.

## Plan

1. **Download verifiers.**  The verifiers of a quotient download and of the jet
   machine's answers, as actions of `PrimePipeline` and `PrincipalJets`, with
   tampered packets.
2. **The joint consumer's audits**, which run a second, materializing program
   and compare; `verify_least_ramification`.
3. **Proofs.**  `NativeSystem`: `BindingDecides`.  The jets: end points and
   ranks for limbs of every width.
