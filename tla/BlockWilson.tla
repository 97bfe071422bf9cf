----------------------------- MODULE BlockWilson ------------------------------
(***************************************************************************)
(* SublinearWilsonObserver::download and factorial_mod_sublinear           *)
(* (afac59/sublinear_wilson.hpp), and the entry of the public pipelines,   *)
(* execute_wilson_from_native_coordinate (src/native_factorial.cpp).  Full *)
(* blocks of one width are the values of one polynomial at the multiples   *)
(* of the width.  Three stages, the factor tree, the evaluation tree and   *)
(* the descent, each run in the caller or in two branches that             *)
(* std::async runs, and that write disjoint blocks.                        *)
(***************************************************************************)
EXTENDS ProductTrees

CONSTANT Requests   \* candidates with a SublinearWilsonPolicy, and the entry, in Policed

Policed ==
  [candidate : Nat \ {0, 1}, native : BOOLEAN,
   policy : [max_width : Nat, override : Nat, parallel : BOOLEAN, threshold : Nat,
             product_limit : Nat, ntt_limit : Nat \ {0}, minimum_crt_primes : Nat]]

VARIABLES
  request,
  pc,        \* "download", "factors", "tree", "descend", "blocks", "tail",
             \* "done" or "rejected"
  residue,
  next,      \* the loop variable: a block, or a factor
  ledger,    \* of SublinearWilsonLedger, what the verifier reads
  branches,  \* who works on the stage: the caller, or "left" and "right"
  block,     \* block_polynomial
  tree,      \* the product of each node
  values,    \* block_values
  answer

work == <<branches, block, tree, values>>
vars == <<request, pc, residue, next, ledger, work, answer>>

candidate    == request.candidate
policy       == request.policy
factor_count == candidate - 1
natural_width == CeilRoot(factor_count)

Width == IF policy.override = 0 THEN natural_width ELSE policy.override

FreshLedger ==
  [width |-> 0, full_blocks |-> 0, covered |-> 0, tail |-> 0, leaves |-> 0, points |-> 0,
   block_products |-> 0, tail_products |-> 0, started |-> FALSE, completed |-> FALSE]

Nobody == <<>>

Idle == branches = Nobody /\ block = <<>> /\ tree = <<>> /\ values = <<>>

Init ==
  /\ request \in Requests
  /\ pc = "download"
  /\ residue = 1 % candidate /\ next = 0
  /\ ledger = FreshLedger
  /\ Idle
  /\ answer = [kind |-> "none"]

Released == branches' = Nobody /\ block' = <<>> /\ tree' = <<>> /\ values' = <<>>

(* ------------------------------- refusals ------------------------------- *)

Limit(reason, required) ==
  /\ answer' = [kind |-> "limit", reason |-> reason,
                required |-> required, allowed |-> policy.max_width]
  /\ pc' = "done"

\* std::invalid_argument, or the std::system_error of a thread.
Rejects ==
  /\ answer' = [kind |-> "rejected"]
  /\ pc' = "rejected"

EngineRefuses == Limit("PolynomialEngine", ledger.width)

\* The native coordinate has one schedule.
CoordinateDiffers == request.native /\ policy.override \notin {0, natural_width}

\* Variant: the limit of an override reports the natural width.
RefuseNaturalWidth ==
  /\ pc = "download" /\ ~CoordinateDiffers
  /\ Width > policy.max_width
  /\ Limit("BlockWidth", natural_width)
  /\ UNCHANGED <<request, residue, next, ledger, work>>

RefuseWidth ==
  /\ pc = "download" /\ ~CoordinateDiffers
  /\ Width > policy.max_width
  /\ Limit("BlockWidth", Width)
  /\ UNCHANGED <<request, residue, next, ledger, work>>

PolicyRejected == Width > factor_count \/ LimitUnusable(policy) \/ BasisExceeded(policy)

Reject ==
  /\ pc = "download"
  /\ CoordinateDiffers \/ (Width <= policy.max_width /\ PolicyRejected)
  /\ Rejects
  /\ UNCHANGED <<request, residue, next, ledger, work>>

\* The plan, the counters that are known with it, and the ring.
Plan ==
  /\ pc = "download" /\ ~CoordinateDiffers
  /\ Width <= policy.max_width /\ ~PolicyRejected
  /\ LET full == factor_count \div Width
     IN  ledger' = [ledger EXCEPT
                      !.width = Width, !.full_blocks = full, !.covered = full * Width,
                      !.tail = factor_count - full * Width,
                      !.leaves = Width, !.points = full, !.started = TRUE]
  /\ pc' = "factors"
  /\ UNCHANGED <<request, residue, next, work, answer>>

(* -------------------------------- stages -------------------------------- *)

Stages == {"factors", "tree", "descend"}

\* What the tree of the stage spans: factors, or blocks.
Root == IF pc = "factors" THEN <<0, ledger.width>> ELSE <<0, ledger.full_blocks>>

Forked ==
  /\ policy.parallel
  /\ Root[2] - Root[1] >= policy.threshold /\ Root[2] - Root[1] >= 2

Ranges == IF Forked THEN [left |-> Left(Root), right |-> Right(Root)] ELSE [caller |-> Root]

\* Branches that come to nothing because a thread cannot be created: while
\* trees are built the right one is the caller itself and begins after the
\* left one; of the descent both are threads.
Unborn ==
  IF ~Forked THEN {{}}
  ELSE {{}, {"left", "right"}} \cup IF pc = "descend" THEN {{"right"}} ELSE {}

\* Work of a branch: ranges whose tree is to be built, and in the descent
\* nodes with what is to be evaluated below them.
Task(v, polynomial, reduced) == [node |-> v, polynomial |-> polynomial, reduced |-> reduced]

Start ==
  /\ pc \in Stages /\ branches = Nobody
  /\ \E unborn \in Unborn :
       branches' = [s \in DOMAIN Ranges |->
                      [state |-> IF s \in unborn THEN "unborn" ELSE "running",
                       tasks |-> IF s \in unborn THEN <<>> ELSE <<Task(Ranges[s], block, ~Forked)>>,
                       built |-> <<>>]]
  /\ values' = IF pc = "descend" THEN [b \in 0 .. ledger.full_blocks - 1 |-> 0] ELSE values
  /\ UNCHANGED <<request, pc, residue, next, ledger, block, tree, answer>>

Running(s) == s \in DOMAIN branches /\ branches[s].state = "running"

Throw(s) == branches' = [branches EXCEPT ![s].state = "threw", ![s].tasks = <<>>]

Point(b) == PointOf(b, ledger.width, candidate)

RangeProduct(v) ==
  ProductTree(VanishingLeaves(v, ledger.width, candidate), v, candidate)

Built(v) ==
  IF pc = "factors" THEN ProductTree(FactorLeaves(v, candidate), v, candidate)
                    ELSE [u \in Nodes(v) |-> RangeProduct(u)]

\* build_factor_polynomial and build_evaluation_tree of one branch.
Build(s) ==
  /\ pc \in {"factors", "tree"} /\ Running(s)
  /\ LET v == Ranges[s]
     IN  IF TreeRefused(v, policy)
           THEN Throw(s)
           ELSE branches' = [branches EXCEPT ![s].state = "ended", ![s].tasks = <<>>,
                                             ![s].built = Built(v)]
  /\ UNCHANGED <<request, pc, residue, next, ledger, block, tree, values, answer>>

Reduced(polynomial, v) == Task(v, Remainder(polynomial, tree[v], candidate, policy), TRUE)

ReduceRefused(polynomial, v) == RemainderRefused(Len(polynomial), Len(tree[v]), policy)

Continue(s, tasks) ==
  branches' = [branches EXCEPT ![s].tasks = tasks,
                               ![s].state = IF tasks = <<>> THEN "ended" ELSE "running"]

\* One activation of descend_remainder_tree, or the remainder a branch begins
\* with.
Visit(s) ==
  /\ pc = "descend" /\ Running(s)
  /\ LET task == Head(branches[s].tasks)
         rest == Tail(branches[s].tasks)
         v    == task.node
         divisors == IF ~task.reduced THEN <<v>> ELSE <<Left(v), Right(v)>>
     IN  IF task.reduced /\ IsLeaf(v)
           THEN /\ values' = [values EXCEPT ![v[1]] = Value(task.polynomial, Point(v[1]), candidate)]
                /\ Continue(s, rest)
           ELSE /\ IF \E i \in DOMAIN divisors : ReduceRefused(task.polynomial, divisors[i])
                     THEN Throw(s)
                     ELSE Continue(s, [i \in DOMAIN divisors |-> Reduced(task.polynomial, divisors[i])]
                                        \o rest)
                /\ UNCHANGED values
  /\ UNCHANGED <<request, pc, residue, next, ledger, block, tree, answer>>

\* Variant: the left branch of the descent is not waited for.
RightIsDone ==
  \A s \in DOMAIN branches :
    branches[s].state # "running" \/ (pc = "descend" /\ s = "left")

\* A future waits for its branch also when it is only destroyed.
AllAreDone == \A s \in DOMAIN branches : branches[s].state # "running"

Some(state) == \E s \in DOMAIN branches : branches[s].state = state

\* The last product, of the two halves.
RootRefused == Forked /\ pc # "descend" /\ NodeRefused(Root, policy)

Joined ==
  IF ~Forked THEN branches["caller"].built
  ELSE LET left == branches["left"].built  right == branches["right"].built
       IN  IF pc = "factors" THEN Product(left, right, candidate)
           ELSE [v \in DOMAIN left \cup DOMAIN right \cup {Root} |->
                   IF v \in DOMAIN left THEN left[v]
                   ELSE IF v \in DOMAIN right THEN right[v]
                   ELSE Product(left[Left(Root)], right[Right(Root)], candidate)]

Join ==
  /\ pc \in Stages /\ branches # Nobody
  /\ AllAreDone
  /\ IF Some("unborn") THEN Rejects /\ Released
     ELSE IF Some("threw") \/ RootRefused THEN EngineRefuses /\ Released
     ELSE /\ branches' = Nobody
          /\ CASE pc = "factors" -> block' = Joined /\ pc' = "tree" /\ UNCHANGED <<tree, values>>
               [] pc = "tree"    -> tree' = Joined /\ pc' = "descend" /\ UNCHANGED <<block, values>>
               [] pc = "descend" -> pc' = "blocks" /\ UNCHANGED <<block, tree, values>>
          /\ UNCHANGED answer
  /\ UNCHANGED <<request, residue, next, ledger>>

(* --------------------------- tail and answer ---------------------------- *)

Times(value) == residue' = (residue * value) % candidate

ReadBlock ==
  /\ pc = "blocks" /\ next < ledger.full_blocks
  /\ Times(values[next])
  /\ next' = next + 1
  /\ ledger' = [ledger EXCEPT !.block_products = @ + 1]
  /\ UNCHANGED <<request, pc, work, answer>>

BlocksEnd ==
  /\ pc = "blocks" /\ next = ledger.full_blocks
  /\ pc' = "tail"
  /\ next' = ledger.covered + 1
  /\ UNCHANGED <<request, residue, ledger, work, answer>>

TailFactor ==
  /\ pc = "tail" /\ next <= factor_count
  /\ Times(next % candidate)
  /\ next' = next + 1
  /\ ledger' = [ledger EXCEPT !.tail_products = @ + 1]
  /\ UNCHANGED <<request, pc, work, answer>>

\* Variant: the verdict of a candidate whose factorial does not vanish.
VerdictByZero == residue # 0

Verdict == residue = candidate - 1

Observe ==
  /\ pc = "tail" /\ next > factor_count
  /\ answer' = [kind |-> "observation", residue |-> residue, prime |-> Verdict]
  /\ pc' = "done"
  /\ ledger' = [ledger EXCEPT !.completed = TRUE]
  /\ Released
  /\ UNCHANGED <<request, residue, next>>

-------------------------------------------------------------------------------
Branch == \E s \in DOMAIN branches : Build(s) \/ Visit(s)

Next ==
  \/ RefuseWidth \/ Reject \/ Plan
  \/ Start \/ Branch \/ Join
  \/ ReadBlock \/ BlocksEnd \/ TailFactor \/ Observe

Ended == pc \in {"done", "rejected"} /\ UNCHANGED vars

Spec == Init /\ [][Next \/ Ended]_vars

-------------------------------------------------------------------------------
(* Properties *)

Observer == INSTANCE WilsonObserver WITH
  Candidates <- {r.candidate : r \in Requests},
  outcome    <- IF answer.kind = "limit" THEN [kind |-> "limit"] ELSE answer

\* The product of the factors of a block.
BlockMod(b) ==
  FoldSet(LAMBDA f, value : (value * f) % candidate, 1 % candidate,
          b * ledger.width + 1 .. (b + 1) * ledger.width)

Tasks == UNION {{<<s, i>> : i \in DOMAIN branches[s].tasks} : s \in DOMAIN branches}
TaskOf(t) == branches[t[1]].tasks[t[2]]
Blocks(v) == v[1] .. v[2] - 1

\* While the blocks are evaluated, in whatever order the branches take turns,
\* each is a task of one branch or has its value, which no one writes again.
BlocksWrittenOnce ==
  pc = "descend" /\ branches # Nobody /\ ~Some("unborn") /\ ~Some("threw") =>
    \A b \in 0 .. ledger.full_blocks - 1 :
      LET owners == {t \in Tasks : b \in Blocks(TaskOf(t).node)}
      IN  \/ Cardinality(owners) = 1
          \/ owners = {} /\ values[b] = BlockMod(b)

\* Remainders agree with the block polynomial at the points below them,
\* although the candidate may be composite and points may coincide.
RemaindersAgree ==
  pc = "descend" => \A t \in Tasks : \A b \in Blocks(TaskOf(t).node) :
    Value(TaskOf(t).polynomial, Point(b), candidate) = BlockMod(b)

\* The branches hold references to the caller's tree and values, so none is
\* left when the stage is over.
BranchesInStage == branches # Nobody => pc \in Stages

IInv ==
  /\ residue \in 0 .. candidate - 1
  /\ BlocksWrittenOnce
  /\ RemaindersAgree
  /\ BranchesInStage
  /\ pc = "blocks" => residue = Observer!FactorialMod(next * ledger.width, candidate)
  /\ pc = "tail" => residue = Observer!FactorialMod(next - 1, candidate)

\* SublinearWilsonVerifier, of what it does not read off a seal.
Accepted ==
  CASE answer.kind = "observation" ->
         /\ ledger.width * ledger.full_blocks + ledger.tail = factor_count
         /\ ledger.covered = ledger.width * ledger.full_blocks
         /\ ledger.leaves = ledger.width
         /\ ledger.points = ledger.full_blocks
         /\ ledger.block_products = ledger.full_blocks
         /\ ledger.tail_products = ledger.tail
         /\ ledger.started /\ ledger.completed
         /\ answer.residue < candidate
         /\ answer.prime <=> answer.residue = candidate - 1
    [] answer.kind = "limit" ->
         /\ \/ answer.reason = "BlockWidth" /\ ~ledger.started /\ answer.required > answer.allowed
            \/ answer.reason = "PolynomialEngine" /\ ledger.started
         /\ ~ledger.completed
    [] OTHER -> TRUE
===============================================================================
