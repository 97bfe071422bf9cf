----------------------------- MODULE ClassQuantum -----------------------------
(***************************************************************************)
(* ClassQuantumFunctor and interfere_structurally of                       *)
(* src/high_dimensional.cpp: a weighted family of native functors is run   *)
(* on one input, one instruction per step, the endpoints are grouped, and  *)
(* a caller joins what survives with another state it holds.               *)
(***************************************************************************)
EXTENDS MazeFunctors

CONSTANTS
  Families,     \* pairs of families a caller superposes
  Inputs,       \* the uploaded states they are run on
  Others        \* uploaded states that survivors are joined with

VARIABLES
  input,        \* the state the family is run on
  left, right,  \* the two superposed families
  pc, index,    \* the loop, and the branch it has reached
  position,     \* the next instruction of that branch's functor
  outcome,      \* what its functor has reached, or a continuation
  packet,       \* the branches that were run: HistorySuperposition
  groups,       \* of interfere_structurally
  survivors,    \* its result
  operands      \* the states the caller joined

vars == <<input, left, right, pc, index, position, outcome, packet, groups, survivors, operands>>
request == <<input, left, right>>

\* A branch: its weight, and the functor after the functor before it.
Functor(branch) == Compose(branch.after, branch.before)

Superpose(l, r) == l \o r
family == Superpose(left, right)
Branch == family[index]
Instruction == Functor(Branch)[position]

Init ==
  /\ input \in Inputs
  /\ \E pair \in Families : left = pair[1] /\ right = pair[2]
  /\ pc = "branches" /\ index = 1 /\ position = 1
  /\ outcome = Arrived(input)
  /\ packet = <<>> /\ groups = <<>> /\ survivors = <<>> /\ operands = <<>>

Idle ==
  /\ pc = "idle" /\ input = <<>> /\ left = <<>> /\ right = <<>>
  /\ index = 0 /\ position = 0 /\ outcome = [kind |-> "none"]
  /\ packet = <<>> /\ groups = <<>> /\ survivors = <<>> /\ operands = <<>>

InBranch == pc = "branches" /\ index <= Len(family)

SkipBranch ==
  /\ InBranch /\ Branch.weight = 0
  /\ index' = index + 1
  /\ UNCHANGED <<request, pc, position, outcome, packet, groups, survivors, operands>>

\* The first continuation is what the whole family returns.
Execute ==
  /\ InBranch /\ Branch.weight # 0 /\ position <= Len(Functor(Branch))
  /\ outcome' = Perform(outcome.state, Instruction)
  /\ position' = position + 1
  /\ pc' = IF outcome'.kind = "continuation" THEN "refused" ELSE pc
  /\ UNCHANGED <<request, index, packet, groups, survivors, operands>>

ReachEndpoint ==
  /\ InBranch /\ Branch.weight # 0 /\ position > Len(Functor(Branch))
  /\ packet' = Append(packet, [weight |-> Branch.weight, endpoint |-> outcome.state])
  /\ index' = index + 1 /\ position' = 1
  /\ outcome' = Arrived(input)
  /\ UNCHANGED <<request, pc, groups, survivors, operands>>

BeginInterference ==
  /\ pc = "branches" /\ index > Len(family)
  /\ pc' = "interference" /\ index' = 1
  /\ UNCHANGED <<request, position, outcome, packet, groups, survivors, operands>>

\* Variant: endpoints are told apart by their ordinary shadows.
SameEndpointByShadow(p, q) == p.value.ordinary = q.value.ordinary

\* MazeState::exactly_equal.
SameEndpoint(p, q) == p = q

Matching(branch) == {g \in DOMAIN groups : SameEndpoint(groups[g].endpoint, branch.endpoint)}

NewGroup ==
  /\ pc = "interference" /\ index <= Len(packet)
  /\ Matching(packet[index]) = {}
  /\ groups' = Append(groups, [weight |-> packet[index].weight, members |-> 1,
                               endpoint |-> packet[index].endpoint])
  /\ index' = index + 1
  /\ UNCHANGED <<request, pc, position, outcome, packet, survivors, operands>>

\* Weights that cannot be added refuse the interference.
JoinGroup ==
  /\ pc = "interference" /\ index <= Len(packet)
  /\ Matching(packet[index]) # {}
  /\ LET g == Min(Matching(packet[index]))
         w == packet[index].weight
     IN IF AddFits(groups[g].weight, w)
        THEN /\ groups' = [groups EXCEPT ![g].weight = @ + w, ![g].members = @ + 1]
             /\ index' = index + 1
             /\ UNCHANGED <<pc, outcome>>
        ELSE /\ outcome' = Continuation("HAdd", "CoefficientOverflow",
                             groups[g].endpoint.value, packet[index].endpoint.value)
             /\ pc' = "refused"
             /\ UNCHANGED <<groups, index>>
  /\ UNCHANGED <<request, position, packet, survivors, operands>>

Survives(group) == group.weight # 0

BeginSurvival ==
  /\ pc = "interference" /\ index > Len(packet)
  /\ pc' = "survival" /\ index' = 1
  /\ UNCHANGED <<request, position, outcome, packet, groups, survivors, operands>>

Survive ==
  /\ pc = "survival" /\ index <= Len(groups)
  /\ survivors' = IF Survives(groups[index]) THEN Append(survivors, groups[index]) ELSE survivors
  /\ index' = index + 1
  /\ UNCHANGED <<request, pc, position, outcome, packet, groups, operands>>

ReturnSurvivors ==
  /\ pc = "survival" /\ index > Len(groups)
  /\ pc' = "done"
  /\ UNCHANGED <<request, index, position, outcome, packet, groups, survivors, operands>>

\* InterferenceResult's two counters.
CanceledEndpoints == Len(groups) - Len(survivors)
CanceledBranches ==
  LET members == [g \in DOMAIN groups |-> groups[g].members]
  IN MapThenSumSet(LAMBDA g : members[g], {g \in DOMAIN groups : ~Survives(groups[g])})

\* A caller applies hadd, hsub or hmul to an endpoint and a state it holds.
Join ==
  /\ pc = "done"
  /\ \E s \in Range(survivors), other \in Others \cup {input}, op \in {"HAdd", "HSub", "HMul"} :
       \E pair \in {<<s.endpoint, other>>, <<other, s.endpoint>>} :
         /\ operands' = Append(pair, op)
         /\ outcome' = Binary(op, pair[1], pair[2])
  /\ pc' = "joined"
  /\ UNCHANGED <<request, index, position, packet, groups, survivors>>

Next ==
  \/ SkipBranch \/ Execute \/ ReachEndpoint \/ BeginInterference
  \/ NewGroup \/ JoinGroup
  \/ BeginSurvival \/ Survive \/ ReturnSurvivors \/ Join

-------------------------------------------------------------------------------
(* Properties *)

\* What an operation on l and r may return: the exact result of the algebra
\* over all integers, its coefficients in the signed type.
ExactResult(opcode, l, r, value) ==
  /\ Coefficients(value) \subseteq Coefficient
  /\ CASE opcode = "HAdd" -> value = ReferenceSum(l, r, 1)
       [] opcode = "HSub" -> value = ReferenceSum(l, r, -1)
       [] opcode = "HMul" -> value = ReferenceProduct(l, r)
       [] opcode = "HDiv" -> r.ordinary # 0 => ReferenceProduct(r, value) = l

Leaves(v) == ~(Coefficients(v) \subseteq Coefficient)

Divides(d, v) == \A c \in Coefficients(v) : \E k \in Coefficient \cup {-Minimum} : k * d = c

AtLimit(address) == CounterMaximum \in {address.epoch, address.depth, address.generation}

\* Why an operation on states l and r may refuse.  Sums refuse exactly when
\* they leave the type; differences and products when the terms that meet in
\* one coefficient, without their signs, do.
RefusedFor(c, l, r) ==
  /\ c.left = l.value /\ c.right = r.value
  /\ CASE c.reason = "CoefficientOverflow" ->
            (CASE c.attempted = "HAdd" -> Leaves(ReferenceSum(l.value, r.value, 1))
               [] c.attempted = "HSub" -> Leaves(ReferenceSum(Absolute(l.value), Absolute(r.value), 1))
               [] c.attempted = "HMul" -> Leaves(ReferenceProduct(Absolute(l.value), Absolute(r.value)))
               [] c.attempted = "HDiv" ->
                    r.value.ordinary = -1 /\ Minimum \in Coefficients(l.value))
       [] c.reason = "NonCentralDenominator" -> c.attempted = "HDiv" /\ ~IsPureOrdinary(r.value)
       [] c.reason = "ExactDivisionRequired" ->
            c.attempted = "HDiv" /\ ~Divides(r.value.ordinary, l.value)
       [] c.reason = "FrameMismatch" -> ~SamePlace(l, r)
       [] c.reason = "CausalCoordinateOverflow" -> AtLimit(l.address) \/ AtLimit(r.address)

\* Functors run in causal order: the instruction performed is the next one of
\* the functor before, then of the functor after.
NextInCausalOrder == (Branch.before \o Branch.after)[position]

Performed(l, r, opcode, result) ==
  IF result.kind = "state" THEN ExactResult(opcode, l.value, r.value, result.state.value)
  ELSE result.attempted = opcode /\ RefusedFor(result, l, r)

\* Every instruction of a composed functor, in causal order, and every
\* operation on two states gives the exact result or refuses with its operands
\* and for a reason that holds; the refusal of a branch refuses the family, and
\* no number ever wraps around.
ExactOrRefused ==
  [][/\ outcome'.kind # "none" /\ position' = position + 1 =>
          Performed(outcome.state, UploadComplete(NextInCausalOrder.operand, outcome.state.address),
                    NextInCausalOrder.opcode, outcome')
     /\ pc' = "joined" => Performed(operands'[1], operands'[2], operands'[3], outcome')]_vars

\* A state knows how deep it is: the depth of an endpoint is the input's plus
\* one for each event, every event records the state before it, and a joined
\* state is deeper than both its parents and contains their histories.  No
\* counter of a state ever passes its limit.
CausalHistory ==
  /\ outcome.kind = "state" =>
       \A c \in {"epoch", "depth", "generation"} : outcome.state.address[c] <= CounterMaximum
  /\ \A b \in Range(packet) :
       /\ b.endpoint.address.depth = input.address.depth + Len(b.endpoint.history)
       /\ \A k \in DOMAIN b.endpoint.history :
            b.endpoint.history[k].left.history = SubSeq(b.endpoint.history, 1, k - 1)
  /\ pc = "joined" /\ outcome.kind = "state" =>
       \A k \in {1, 2} :
         /\ operands[k].address.depth < outcome.state.address.depth
         /\ operands[k].address.generation <= outcome.state.address.generation
         /\ Len(operands[k].history) < Len(outcome.state.history)

Weight(branches, endpoint) ==
  LET weight == [k \in DOMAIN branches |-> branches[k].weight]
  IN MapThenSumSet(LAMBDA k : weight[k], {k \in DOMAIN branches : branches[k].endpoint = endpoint})

\* The branches whose endpoint the weights of all branches cancel.
Canceled == {k \in DOMAIN packet : Weight(packet, packet[k].endpoint) = 0}

\* Interference conserves weight: every complete state keeps the sum of the
\* weights of the branches that ended in it, survives once if that is not zero,
\* and otherwise all of its branches are counted as cancelled.
InterferenceConserves ==
  pc \in {"done", "joined"} =>
    /\ \A b \in Range(packet) : Weight(survivors, b.endpoint) = Weight(packet, b.endpoint)
    /\ \A i, j \in DOMAIN survivors : survivors[i].endpoint = survivors[j].endpoint => i = j
    /\ \A s \in Range(survivors) : s.weight # 0
    /\ CanceledBranches = Cardinality(Canceled)
    /\ CanceledEndpoints = Cardinality({packet[k].endpoint : k \in Canceled})
===============================================================================
