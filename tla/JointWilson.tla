------------------------------ MODULE JointWilson ------------------------------
(***************************************************************************)
(* execute_joint_wilson_projection (src/joint_wilson.cpp) and the operator *)
(* that calls it.  The residue of n! modulo n + 1 is assembled from that   *)
(* of h!, h = n div 2: h is cut into full blocks of a width and a tail,    *)
(* block b is the value at b * width of one polynomial, and all values but *)
(* the first are read off by remainders, down a tree over the block        *)
(* numbers, whose intermediate values are released as it descends.         *)
(***************************************************************************)
EXTENDS ProductTrees

CONSTANTS
  Requests,    \* what callers ask: a candidate and a policy
  MaxRadius    \* the cap of the width search (4096)

ASSUME RequestsAssumption ==
  \A r \in Requests :
    /\ r.candidate \in Nat /\ r.candidate >= 2
    /\ r.policy \in [radius : Nat, max_width : Nat, product_limit : Nat, ntt_limit : Nat \ {0},
                     minimum_crt_primes : Nat]

VARIABLES
  request,
  pc,         \* "request", "block", "range", "descend", "tail", "done" or "rejected"
  width,      \* optimized_block_width
  block,      \* the block polynomial
  residue,    \* half_residue
  range,      \* which of the two streamed ranges is next or under way
  products,   \* the product of each tree node, <<>> once it is released
  frames,     \* the activations of descend_evaluation_tree, innermost first
  factor,     \* the next tail factor
  answer

tree == <<products, frames>>
vars == <<request, pc, width, block, residue, range, tree, factor, answer>>

candidate    == request.candidate   \* also the modulus
policy       == request.policy
factor_count == candidate - 1
half_count   == factor_count \div 2
full_blocks  == half_count \div width

-------------------------------------------------------------------------------
(* The schedule *)

FloorRoot(v) == CHOOSE r \in 0 .. v : r * r <= v /\ (r + 1) * (r + 1) > v

CeilDivide(a, b) == (a + b - 1) \div b

Dimension(count, w) ==
  <<w + (count \div w) + (count % w), Max({w, count \div w}), count % w, w>>

\* std::tie compares from the left.
Before(d, e) ==
  \E i \in 1 .. 4 : d[i] < e[i] /\ \A j \in 1 .. i - 1 : d[j] = e[j]

Anchors(count) ==
  LET root == Max({1, FloorRoot(count)})
  IN  {root, CeilRoot(count), CeilDivide(count, root)}

Widths(count, radius) ==
  {w \in 1 .. count : \E a \in Anchors(count) : w \in a - radius .. a + radius}

\* Variant: the widest.
ChooseWidest(count, radius) == Max(Widths(count, radius))

\* choose_block_width
ChooseBlockWidth(count, radius) ==
  CHOOSE w \in Widths(count, radius) :
    \A v \in Widths(count, radius) \ {w} : Before(Dimension(count, w), Dimension(count, v))

\* The width the operator asks the policy for before any work.
RequiredWidth == CeilRoot(half_count)

-------------------------------------------------------------------------------
(* Polynomials *)

\* build_factor_polynomial
FactorPolynomial(w) == ProductTree(FactorLeaves(<<0, w>>, candidate), <<0, w>>, candidate)

Point(b) == PointOf(b, width, candidate)

RangeProduct(v) == ProductTree(VanishingLeaves(v, width, candidate), v, candidate)

\* build_evaluation_tree: the products of leaves are released again.
EvaluationProducts(root) ==
  [v \in Nodes(root) |-> IF IsLeaf(v) THEN <<>> ELSE RangeProduct(v)]

-------------------------------------------------------------------------------
NoProducts == <<>>

Init ==
  /\ request \in Requests
  /\ pc = "request"
  /\ width = 0 /\ block = <<>> /\ residue = 1 % candidate
  /\ range = 1 /\ products = NoProducts /\ frames = <<>>
  /\ factor = 1
  /\ answer = [kind |-> "none"]

Limit(reason) ==
  answer' = [kind |-> "limit", reason |-> reason,
             required |-> RequiredWidth, allowed |-> policy.max_width]

\* PolynomialResourceError leaves the projection, whose values are destroyed,
\* and the operator turns it into a limit.
EngineRefuses ==
  /\ Limit("PolynomialEngine")
  /\ pc' = "done"
  /\ block' = <<>> /\ products' = NoProducts /\ frames' = <<>>
  /\ UNCHANGED <<request, residue, range, factor>>

\* std::invalid_argument leaves the operator as well.
Rejects ==
  /\ pc' = "rejected"
  /\ answer' = [kind |-> "rejected"]
  /\ block' = <<>> /\ products' = NoProducts /\ frames' = <<>>
  /\ UNCHANGED <<request, width, residue, range, factor>>

(* ------------------------------- planning ------------------------------- *)

RefuseWidth ==
  /\ pc = "request"
  /\ RequiredWidth > policy.max_width
  /\ Limit("BlockWidth")
  /\ pc' = "done"
  /\ UNCHANGED <<request, width, block, residue, range, tree, factor>>

\* In the order of the code: the search of the width comes before its limit, and
\* the ring, with its basis, after it.
PolicyRejected ==
  \/ LimitUnusable(policy)
  \/ /\ half_count # 0
     /\ \/ policy.radius > MaxRadius
        \/ /\ ChooseBlockWidth(half_count, policy.radius) <= policy.max_width
           /\ BasisExceeded(policy)

RejectPolicy ==
  /\ pc = "request"
  /\ RequiredWidth <= policy.max_width
  /\ PolicyRejected
  /\ Rejects

\* A candidate of two has no pairs; there is nothing to plan.
PlanNothing ==
  /\ pc = "request"
  /\ half_count = 0
  /\ RequiredWidth <= policy.max_width /\ ~PolicyRejected
  /\ pc' = "tail"
  /\ UNCHANGED <<request, width, block, residue, range, tree, factor, answer>>

Plan ==
  /\ pc = "request"
  /\ half_count # 0
  /\ RequiredWidth <= policy.max_width /\ ~PolicyRejected
  /\ width' = ChooseBlockWidth(half_count, policy.radius)
  /\ IF width' > policy.max_width
       THEN EngineRefuses
       ELSE /\ pc' = "block"
            /\ UNCHANGED <<request, block, residue, range, tree, factor, answer>>

(* -------------------------------- blocks -------------------------------- *)

Times(value) == residue' = (residue * value) % candidate

\* The factor tree, and block 0 read off its constant coefficient.
BuildBlock ==
  /\ pc = "block"
  /\ IF TreeRefused(<<0, width>>, policy)
       THEN EngineRefuses /\ UNCHANGED width
       ELSE /\ block' = FactorPolynomial(width)
            /\ Times(block'[1])
            /\ pc' = "range"
            /\ UNCHANGED <<request, width, range, tree, factor, answer>>

\* Blocks 1 and up, in two halves.
Halves == <<Left(<<1, full_blocks>>), Right(<<1, full_blocks>>)>>

AtRange == pc = "range" /\ range \in 1 .. 2

SkipRange ==
  /\ AtRange /\ Halves[range][1] = Halves[range][2]
  /\ range' = range + 1
  /\ UNCHANGED <<request, pc, width, block, residue, tree, factor, answer>>

\* A tree of one leaf is not descended.
EvaluateLoneBlock ==
  /\ AtRange /\ IsLeaf(Halves[range])
  /\ Times(Value(block, Point(Halves[range][1]), candidate))
  /\ range' = range + 1
  /\ UNCHANGED <<request, pc, width, block, tree, factor, answer>>

Frame(v, reduced) == [node |-> v, reduced |-> reduced, stage |-> "left"]

\* The divisor is the product of a node; a released one is not monic.
Reduce(reduced, v) == Remainder(reduced, products[v], candidate, policy)
ReduceRefused(reduced, v) == RemainderRefused(Len(reduced), Len(products[v]), policy)

Release(v) == [products EXCEPT ![v] = <<>>]

BuildTree ==
  /\ AtRange
  /\ LET root == Halves[range]
         product == RangeProduct(root)
     IN  /\ root[2] - root[1] > 1
         /\ IF \/ TreeRefused(root, policy)
               \/ RemainderRefused(Len(block), Len(product), policy)
              THEN EngineRefuses /\ UNCHANGED width
              ELSE /\ products' = [EvaluationProducts(root) EXCEPT ![root] = <<>>]
                   /\ frames' = <<Frame(root, Remainder(block, product, candidate, policy))>>
                   /\ pc' = "descend"
                   /\ UNCHANGED <<request, width, block, residue, range, factor, answer>>

(* ------------------------------- descent -------------------------------- *)

Top  == Head(frames)
Rest == Tail(frames)

\* An activation returns; the last one ends the range and destroys the tree.
Pop ==
  /\ frames' = Rest
  /\ IF Rest = <<>> THEN /\ pc' = "range" /\ range' = range + 1 /\ products' = NoProducts
                    ELSE UNCHANGED <<pc, range, products>>

Turn(stage, reduced) == [Top EXCEPT !.stage = stage, !.reduced = reduced]

LeftLeaf ==
  /\ pc = "descend" /\ Top.stage = "left" /\ IsLeaf(Left(Top.node))
  /\ Times(Value(Top.reduced, Point(Top.node[1]), candidate))
  /\ frames' = <<Turn("right", Top.reduced)>> \o Rest
  /\ UNCHANGED <<request, pc, width, block, range, products, factor, answer>>

\* Variant of LeftBranch: the dividend is given up before the right branch has
\* used it.
LeftBranchGivingUp ==
  /\ pc = "descend" /\ Top.stage = "left" /\ ~IsLeaf(Left(Top.node))
  /\ LET v == Left(Top.node)
     IN  IF ~Monic(products[v]) THEN Rejects
         ELSE IF ReduceRefused(Top.reduced, v) THEN EngineRefuses /\ UNCHANGED width
         ELSE /\ frames' = <<Frame(v, Reduce(Top.reduced, v)), Turn("right", <<>>)>> \o Rest
              /\ products' = Release(v)
              /\ UNCHANGED <<request, pc, width, block, residue, range, factor, answer>>

\* The left remainder; the dividend stays for the right branch.
LeftBranch ==
  /\ pc = "descend" /\ Top.stage = "left" /\ ~IsLeaf(Left(Top.node))
  /\ LET v == Left(Top.node)
     IN  IF ~Monic(products[v]) THEN Rejects
         ELSE IF ReduceRefused(Top.reduced, v) THEN EngineRefuses /\ UNCHANGED width
         ELSE /\ frames' = <<Frame(v, Reduce(Top.reduced, v)), Turn("right", Top.reduced)>> \o Rest
              /\ products' = Release(v)
              /\ UNCHANGED <<request, pc, width, block, residue, range, factor, answer>>

RightLeaf ==
  /\ pc = "descend" /\ Top.stage = "right" /\ IsLeaf(Right(Top.node))
  /\ Times(Value(Top.reduced, Point(Right(Top.node)[1]), candidate))
  /\ Pop
  /\ UNCHANGED <<request, width, block, factor, answer>>

\* The right remainder; the dividend is released before the descent.
RightBranch ==
  /\ pc = "descend" /\ Top.stage = "right" /\ ~IsLeaf(Right(Top.node))
  /\ LET v == Right(Top.node)
     IN  IF ~Monic(products[v]) THEN Rejects
         ELSE IF ReduceRefused(Top.reduced, v) THEN EngineRefuses /\ UNCHANGED width
         ELSE /\ frames' = <<Frame(v, Reduce(Top.reduced, v)), Turn("read", <<>>)>> \o Rest
              /\ products' = Release(v)
              /\ UNCHANGED <<request, pc, width, block, residue, range, factor, answer>>

Return ==
  /\ pc = "descend" /\ Top.stage = "read"
  /\ Pop
  /\ UNCHANGED <<request, width, block, residue, factor, answer>>

(* --------------------------- tail and answer ---------------------------- *)

RangesEnd ==
  /\ pc = "range" /\ range = 3
  /\ pc' = "tail"
  /\ factor' = full_blocks * width + 1
  /\ UNCHANGED <<request, width, block, residue, range, tree, answer>>

\* Variant: the factor is not counted.
SameFactor == factor' = factor
NextFactor == factor' = factor + 1

TailFactor ==
  /\ pc = "tail" /\ factor <= half_count
  /\ Times(factor % candidate)
  /\ NextFactor
  /\ UNCHANGED <<request, pc, width, block, range, tree, answer>>

\* Variant: the middle factor of an odd factor count is forgotten.
AssembledFromPairs ==
  LET square == (residue * residue) % candidate
  IN  IF half_count % 2 = 1 THEN (0 - square) % candidate ELSE square

\* h! twice, a sign for every pair, and the middle factor that has no partner.
Assembled ==
  LET square == (residue * residue) % candidate
      signed == IF half_count % 2 = 1 THEN (0 - square) % candidate ELSE square
  IN  IF factor_count % 2 = 1 THEN (signed * (half_count + 1)) % candidate ELSE signed

Assemble ==
  /\ pc = "tail" /\ factor > half_count
  /\ answer' = [kind |-> "observation", residue |-> Assembled,
                prime |-> Assembled = candidate - 1]
  /\ pc' = "done"
  /\ block' = <<>>
  /\ UNCHANGED <<request, width, residue, range, tree, factor>>

-------------------------------------------------------------------------------
Descend == LeftLeaf \/ LeftBranch \/ RightLeaf \/ RightBranch \/ Return

Next ==
  \/ RefuseWidth \/ RejectPolicy \/ PlanNothing \/ Plan
  \/ BuildBlock \/ SkipRange \/ EvaluateLoneBlock \/ BuildTree
  \/ Descend
  \/ RangesEnd \/ TailFactor \/ Assemble

Answered == pc \in {"done", "rejected"} /\ UNCHANGED vars

Spec == Init /\ [][Next \/ Answered]_vars

-------------------------------------------------------------------------------
(* Properties *)

\* The promise, seen from the consumer's answer.
Observer == INSTANCE WilsonObserver WITH
  Candidates <- {r.candidate : r \in Requests},
  outcome    <- IF answer.kind = "limit" THEN [kind |-> "limit"] ELSE answer

\* The blocks an activation has still to read.
Unread(f) ==
  LET middle == Middle(f.node[1], f.node[2])
  IN  CASE f.stage = "left"  -> f.node[1] .. f.node[2] - 1
        [] f.stage = "right" -> middle .. f.node[2] - 1
        [] f.stage = "read"  -> {}

\* The factors whose product half_residue must be by now.
Consumed ==
  CASE pc = "tail"    -> factor - 1
    [] pc = "range"   -> width * (IF range = 1 THEN 1
                                  ELSE IF range = 2 THEN Halves[2][1]
                                  ELSE full_blocks)
    [] pc = "descend" -> width * (IF Unread(Top) = {} THEN Top.node[2] ELSE Min(Unread(Top)))

\* Types: residues of the candidate, and a width the schedule allows.
TypeOK ==
  /\ request \in Requests
  /\ pc \in {"request", "block", "range", "descend", "tail", "done", "rejected"}
  /\ width \in 0 .. half_count
  /\ residue \in 0 .. candidate - 1
  /\ \A i \in DOMAIN block : block[i] \in 0 .. candidate - 1
  /\ range \in 1 .. 3
  /\ factor \in 1 .. half_count + 1
  /\ frames # <<>> <=> pc = "descend"

\* At every moment the scalar is the product of the factors read so far, in
\* their order: no block is skipped, read twice or read ahead.
ResidueIsPrefix ==
  pc \in {"range", "descend", "tail"} => residue = Observer!FactorialMod(Consumed, candidate)

\* What an activation keeps agrees with the block polynomial wherever it will
\* still be read, although the candidate may be composite.
RemaindersAgree ==
  \A i \in DOMAIN frames : \A b \in Unread(frames[i]) :
    Value(frames[i].reduced, Point(b), candidate) = Value(block, Point(b), candidate)

\* The two tests of the width never contradict each other: a policy whose
\* maximum passes the test of the operator is not exceeded by the width that
\* is chosen afterwards, so that a limit named after the polynomial engine is
\* one of the engine.
LimitsNameTheirCause ==
  width > 0 => width <= RequiredWidth

\* The product of a branch is there when the branch is taken.
ProductsLast ==
  \A i \in DOMAIN frames :
    LET f == frames[i]
    IN  /\ f.stage = "left" /\ ~IsLeaf(Left(f.node)) => Monic(products[Left(f.node)])
        /\ f.stage # "read" /\ ~IsLeaf(Right(f.node)) => Monic(products[Right(f.node)])

IInv ==
  /\ TypeOK
  /\ ResidueIsPrefix
  /\ RemaindersAgree
  /\ ProductsLast
  /\ LimitsNameTheirCause
  /\ pc = "rejected" => PolicyRejected

\* The consumer answers once, with the residue of the factorial and the
\* verdict of Wilson's theorem, or with a limit.
ImplementsObserver == Observer!Spec

\* Steps an activation still takes: three for every inner node below it, one of
\* which is its return.
FrameWork(f) ==
  CASE f.stage = "left"  -> 3 * (f.node[2] - f.node[1] - 1)
    [] f.stage = "right" -> 3 * (f.node[2] - Middle(f.node[1], f.node[2]) - 1) + 2
    [] f.stage = "read"  -> 1

RangesWork ==
  MapThenSumSet(LAMBDA r : 3 * (Halves[r][2] - Halves[r][1]) + 1, {r \in 1 .. 2 : r >= range})

\* A bound of the steps left until the answer.
Work ==
  LET tail == half_count - full_blocks * width
  IN  CASE pc = "request" -> 4 * half_count + 5
        [] pc = "block"   -> RangesWork + tail + 3
        [] pc = "range"   -> RangesWork + tail + 2
        [] pc = "descend" -> MapThenSumSet(LAMBDA i : FrameWork(frames[i]), DOMAIN frames)
                               + RangesWork - 3 * (Halves[range][2] - Halves[range][1]) - 1
                               + tail + 3
        [] pc = "tail"    -> half_count - factor + 2
        [] OTHER          -> 0

\* Every step brings the answer nearer, so that every request is answered.
EachStepProgresses == [][Work' < Work /\ Work' \in Nat]_vars
===============================================================================
