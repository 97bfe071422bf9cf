----------------------------- MODULE PrimePipeline -----------------------------
(***************************************************************************)
(* The certified Wilson request and everything that is observed through    *)
(* it: the request of a candidate binds the native state of                *)
(* (candidate - 1)!, a view binds a request, and an observer answers for a *)
(* view.  Both entries are modelled: the public pipeline                   *)
(* (src/prime_pipeline.cpp, src/native_factorial.cpp,                      *)
(* src/cyclic_structure.cpp), which keeps the request with the view, and   *)
(* the sealed core (afac58, afac60, afac61, afac62), whose observers take  *)
(* the two separately and are given any request here.                      *)
(*                                                                         *)
(* The modular projection itself is not in this module: an engine that     *)
(* answers right or refuses is what the consumers are shown to be          *)
(* elsewhere (WilsonObserver).                                             *)
(***************************************************************************)
EXTENDS JetStates, GermAudits, BigUnsigneds

CONSTANTS
  Candidates,                       \* of one limb each
  Moduli, KernelPrimes,             \* audit moduli, and those a kernel may use
  OrderLimits,                      \* of a policy
  GermCandidates, GermCycles, GermJets, GermModuli,
  ArgumentLimits, Widths            \* of the factorial consumers

VARIABLES
  request,   \* of the factorial state, or Empty
  view,      \* of the request, or Empty
  answer     \* of the observer last asked

vars == <<request, view, answer>>

Idle == request = Empty /\ view = Empty /\ answer = [kind |-> "idle"]

Reject(reason) == answer' = [kind |-> "rejected", reason |-> reason] /\ UNCHANGED <<request, view>>

\* An observer answers for the request it is given.
Answer(presented, content) ==
  answer' = content @@ [presented |-> presented.candidate] /\ UNCHANGED <<request, view>>

BindingRejected(presented) == Answer(presented, [kind |-> "binding"])

(* ------------------------------ the requests ----------------------------- *)

\* request_binding_seal
RequestSeal(candidate, state) ==
  <<"request", candidate, state.certificate.seal, state.program.seal>>

\* WilsonBoundary::bind and AFAC57_LOG_NATIVE
Bound(candidate) ==
  LET input == OneLimb(candidate - 1)
      state == Compile(Zero, input, "ImportR56FactorialJet")
  IN  [candidate |-> candidate, native |-> LogNative(input), state |-> state,
       seal |-> RequestSeal(candidate, state)]

\* WilsonRequestVerifier::verify
RequestAccepted(r) ==
  LET expected == OneLimb(r.candidate - 1)
  IN  /\ r.candidate >= 2
      /\ StateAccepted(r.state)
      /\ Source(r.state) = Zero
      /\ Target(r.state) = expected
      /\ Valuation(r.state) = expected
      /\ r.seal = RequestSeal(r.candidate, r.state)

\* UploadFactorialState
Upload(candidate) ==
  /\ request = Empty /\ answer.kind = "none"
  /\ IF candidate < 2 THEN Reject("candidate")
     ELSE LET input == OneLimb(candidate - 1)
          IN  IF ~ResultAccepted(input, LogNative(input)) THEN Reject("replay")
              ELSE request' = Bound(candidate) /\ UNCHANGED <<view, answer>>

(* -------------------------------- the views ------------------------------ *)

\* What every view keeps of the request it was made from.
Identity(r) ==
  [request |-> r.seal, state |-> r.state.certificate.seal, program |-> r.state.program.seal]

CyclicViewSeal(v) == <<"cyclic", v.order, v.factors, v.identity, v.valuation>>

CyclicView(r) ==
  LET content == [kind |-> "cyclic", order |-> r.candidate, factors |-> r.candidate - 1,
                  identity |-> Identity(r), valuation |-> Valuation(r.state)]
  IN  content @@ [seal |-> CyclicViewSeal(content)]

\* The state of a request is the diagonal one of its candidate.
OnDiagonal(r) ==
  /\ Source(r.state) = Zero
  /\ Target(r.state) = OneLimb(r.candidate - 1)
  /\ Valuation(r.state) = OneLimb(r.candidate - 1)

\* Variant: the view is checked against itself and not against the request.
CyclicViewConsistent(r, v) ==
  RequestAccepted(r) /\ OnDiagonal(r) /\ v.seal = CyclicViewSeal(v)

\* SelfCyclicViewVerifier::verify
CyclicViewAccepted(r, v) ==
  /\ RequestAccepted(r)
  /\ v.order = r.candidate /\ v.factors = r.candidate - 1 /\ OnDiagonal(r)
  /\ v.identity = Identity(r) /\ v.valuation = Valuation(r.state)
  /\ v.seal = CyclicViewSeal(v)

CeilRoot(n) == CHOOSE w \in 0..n : w * w >= n /\ (w = 0 \/ (w - 1) * (w - 1) < n)

\* natural_coordinate_dimension
NaturalCoordinate(factors) ==
  LET width  == CeilRoot(factors)
      blocks == factors \div width
      tail   == factors - blocks * width
  IN  [factors |-> factors, width |-> width, blocks |-> blocks, tail |-> tail,
       slots |-> width + 1 + blocks + tail]

\* external_view_seal
QuotientViewSeal(r, coordinate) ==
  <<"quotient", r.candidate, Identity(r), r.state.effect.interval, Valuation(r.state), coordinate>>

QuotientView(r) ==
  LET coordinate == NaturalCoordinate(r.candidate - 1)
  IN  [kind |-> "quotient", candidate |-> r.candidate, identity |-> Identity(r),
       interval |-> r.state.effect.interval, valuation |-> Valuation(r.state),
       coordinate |-> coordinate, seal |-> QuotientViewSeal(r, coordinate)]

\* ExternalQuotientViewVerifier::verify
QuotientViewAccepted(r, v) ==
  /\ RequestAccepted(r)
  /\ v.candidate = r.candidate
  /\ v.identity = Identity(r)
  /\ v.interval = r.state.effect.interval /\ v.valuation = Valuation(r.state)
  /\ v.coordinate = NaturalCoordinate(r.candidate - 1)
  /\ v.seal = QuotientViewSeal(r, v.coordinate)

\* verify_native_binding: the coordinate coefficient * argument!.
NativeVerified(r) ==
  LET value == r.native.result.value
  IN  /\ RequestAccepted(r)
      /\ ResultAccepted(Valuation(r.state), r.native)
      /\ value.coefficient = 1
      /\ value.rank = OneLimb(r.candidate - 1)
      /\ value.rank = Valuation(r.state) /\ value.rank = Target(r.state)
      /\ r.native.result.certificate.result_binding = value

Argument(r) == NumberOf(r.native.result.value.rank)

NativeViewSeal(r) == <<"native", Identity(r), r.native.result>>

NativeView(r) == [kind |-> "native", seal |-> NativeViewSeal(r)]

\* The check with which a derivation and a projection begin.
NativeViewAccepted(r, v) == NativeVerified(r) /\ v.seal = NativeViewSeal(r)

GermViewSeal(v) == <<"germ", v.order, v.cycles, v.jet_order, v.parent, v.identity>>

GermView(r, parent, cycles, jet_order) ==
  LET content == [kind |-> "germ", order |-> parent.order, cycles |-> cycles,
                  jet_order |-> jet_order, parent |-> parent.seal, identity |-> Identity(r)]
  IN  content @@ [seal |-> GermViewSeal(content)]

\* SelfClosureGermViewVerifier::verify
GermViewAccepted(r, parent, v) ==
  /\ CyclicViewAccepted(r, parent)
  /\ v.order = parent.order /\ v.cycles > 0 /\ v.jet_order > 0
  /\ v.parent = parent.seal /\ v.identity = Identity(r)
  /\ v.seal = GermViewSeal(v)

Keep(v) == view' = v /\ UNCHANGED <<request, answer>>

Unviewed == request # Empty /\ view = Empty /\ answer.kind = "none"

\* SelfCyclicActionBoundary::bind
BindCyclic ==
  /\ Unviewed
  /\ IF RequestAccepted(request) /\ StateAccepted(request.state) /\ OnDiagonal(request)
       THEN Keep(CyclicView(request)) ELSE Reject("request")

\* ExternalQuotientBoundary::bind
BindQuotient ==
  /\ Unviewed
  /\ IF RequestAccepted(request) THEN Keep(QuotientView(request)) ELSE Reject("request")

\* BindNativeFactorial
BindNative ==
  /\ Unviewed
  /\ IF NativeVerified(request) THEN Keep(NativeView(request)) ELSE Reject("coordinate")

Asked(kind) == view # Empty /\ view.kind = kind /\ answer.kind = "none"

\* SelfClosureGermBoundary::bind of a cyclic view and a request.  The view it
\* makes takes the place of its parent, which it carries along.
BindGerm(presented, cycles, jet_order) ==
  /\ Asked("cyclic") /\ request.candidate \in GermCandidates
  /\ IF ~CyclicViewAccepted(presented, view)
       THEN BindingRejected(presented)
     ELSE IF cycles = 0 \/ jet_order = 0 THEN Reject("dimensions")
     ELSE view' = [kind |-> "germ", parent |-> view,
                   germ |-> GermView(presented, view, cycles, jet_order)]
          /\ UNCHANGED <<request, answer>>

(* ------------------------------ the observers ---------------------------- *)

\* supported_kernel_audit_prime, and the moduli an observation accepts.
SupportedKernelPrime(modulus) == modulus \in KernelPrimes
PolicyAccepted(policy) ==
  /\ policy.modulus >= 3 /\ view.order < policy.modulus
  /\ policy.kernel => SupportedKernelPrime(policy.modulus)

\* response_seal: neither the order nor the ledger is mixed in.
ResponseSeal(v, response) ==
  <<"response", v.seal, response.column, response.normalized, response.modulus,
    response.kernel, response.kernel_computed, response.shape>>

CyclicLimit(presented, maximum) ==
  Answer(presented, [kind |-> "cyclic_limit", order |-> view.order, maximum |-> maximum,
                     seal |-> <<"limit", view.seal, view.order, maximum>>])

CyclicResponse(presented, policy) ==
  LET response == Response(view.order, policy)
  IN  Answer(presented, [kind |-> "response", response |-> response,
                         seal |-> ResponseSeal(view, response)])

\* SelfCyclicActionObserver::observe
ObserveCyclic(presented, policy) ==
  /\ Asked("cyclic")
  /\ IF ~CyclicViewAccepted(presented, view) THEN BindingRejected(presented)
     ELSE IF ~PolicyAccepted(policy) THEN Reject("policy")
     ELSE IF view.order > policy.maximum THEN CyclicLimit(presented, policy.maximum)
     ELSE CyclicResponse(presented, policy)

\* EvaluateCyclicAction: the limit is looked at before the modulus.
EvaluateCyclic(policy) ==
  /\ Asked("cyclic")
  /\ IF ~CyclicViewAccepted(request, view) THEN BindingRejected(request)
     ELSE IF view.order > policy.maximum THEN CyclicLimit(request, policy.maximum)
     ELSE IF ~PolicyAccepted(policy) THEN Reject("policy")
     ELSE CyclicResponse(request, policy)

\* SelfCyclicResponseVerifier::verify
ResponseAccepted(r, v, download) ==
  /\ CyclicViewAccepted(r, v)
  /\ IF download.kind = "response"
       THEN /\ download.response.order = v.order
            /\ DOMAIN download.response.column = Column(v.order)
            /\ \/ download.response.normalized = <<>>
               \/ DOMAIN download.response.normalized = Column(v.order)
            /\ download.seal = ResponseSeal(v, download.response)
       ELSE /\ download.order = v.order
            /\ download.seal = <<"limit", v.seal, download.order, download.maximum>>

\* DownloadCyclicStructure
DownloadCyclic ==
  /\ answer.kind \in {"response", "cyclic_limit"}
  /\ answer' =
       LET accepted == ResponseAccepted(request, view, answer)
       IN  IF answer.kind = "cyclic_limit" THEN [kind |-> "structure_limit", accepted |-> accepted]
           ELSE [kind      |-> "structure",
                 structure |-> IF answer.response.shape THEN "PrimitiveOnly"
                                                        ELSE "ProperPeriodKernel",
                 kernel    |-> answer.response.kernel,
                 accepted  |-> accepted /\ AuditAccepted(answer.response)]
  /\ UNCHANGED <<request, view>>

\* germ_response_seal
GermResponseSeal(v, tensor, modulus) == <<"germ response", v.seal, tensor, modulus>>

GermLimit(presented, germ, policy) ==
  Answer(presented,
    [kind |-> "germ_limit", order |-> germ.order, cycles |-> germ.cycles,
     jet_order |-> germ.jet_order, policy |-> policy,
     seal |-> <<"limit", germ.seal, germ.order, germ.cycles, germ.jet_order,
                policy.maximum, policy.cycles, policy.jet_order>>])

GermResponse(presented, germ, modulus) ==
  LET tensor == Germ(germ.order, germ.cycles, germ.jet_order, modulus)
  IN  Answer(presented,
        [kind |-> "germ", order |-> germ.order, cycles |-> germ.cycles,
         jet_order |-> germ.jet_order, modulus |-> modulus, tensor |-> tensor,
         seal |-> GermResponseSeal(germ, tensor, modulus)])

\* SelfClosureGermObserver::observe
ObserveGerm(presented, policy) ==
  /\ Asked("germ")
  /\ LET germ == view.germ
     IN  IF ~GermViewAccepted(presented, view.parent, germ) THEN BindingRejected(presented)
         ELSE IF \/ policy.modulus < 3 \/ germ.order >= policy.modulus
                 \/ germ.jet_order >= policy.modulus
           THEN Reject("policy")
         ELSE IF \/ germ.order > policy.maximum \/ germ.cycles > policy.cycles
                 \/ germ.jet_order > policy.jet_order
           THEN GermLimit(presented, germ, policy)
         ELSE GermResponse(presented, germ, policy.modulus)

\* SelfClosureGermResponseVerifier::verify
GermResponseAccepted(r, parent, v, download) ==
  /\ GermViewAccepted(r, parent, v)
  /\ download.order = v.order /\ download.cycles = v.cycles
  /\ download.jet_order = v.jet_order
  /\ IF download.kind = "germ"
       THEN /\ DOMAIN download.tensor = 0 .. v.jet_order
            /\ \A d \in 0 .. v.jet_order : DOMAIN download.tensor[d] = Column(v.order)
            /\ download.seal = GermResponseSeal(v, download.tensor, download.modulus)
       ELSE LET policy == download.policy
            IN  download.seal = <<"limit", v.seal, v.order, v.cycles, v.jet_order,
                                  policy.maximum, policy.cycles, policy.jet_order>>

(* -------------------------- the factorial consumers ---------------------- *)

\* factorial_mod_sublinear by its contract (WilsonObserver), which the models of
\* the engines are shown to keep: the residue of the factorial, or a refusal.
Projection(r) ==
  LET residue == FoldLeft(LAMBDA product, k : (product * k) % r.candidate,
                          1, [k \in 1 .. Argument(r) |-> k])
  IN  {[kind |-> "engine_limit"],
       [kind |-> "wilson", residue |-> residue, prime |-> residue = r.candidate - 1,
        accepted |-> NativeVerified(r)]}

\* execute_wilson_from_native_coordinate.  A width of zero is the natural one.
Project(override, maximum) ==
  LET natural == NaturalCoordinate(Argument(request)).width
      width   == IF override = 0 THEN natural ELSE override
  IN  IF ~NativeVerified(request) THEN Reject("coordinate")
      ELSE IF width # natural THEN Reject("schedule")
      ELSE IF width > maximum THEN Answer(request, [kind |-> "width_limit", required |-> width])
      ELSE \E observed \in Projection(request) : Answer(request, observed)

\* ProjectWilsonFromNative
ProjectNative(override, maximum) ==
  /\ Asked("native")
  /\ IF ~NativeViewAccepted(request, view) THEN Reject("coordinate") ELSE Project(override, maximum)

\* DownloadWilsonObservation
ProjectQuotient(override, maximum) ==
  /\ Asked("quotient")
  /\ IF ~QuotientViewAccepted(request, view) THEN BindingRejected(request)
     ELSE Project(override, maximum)

\* ExternalQuotientObserver::download
DownloadQuotient(presented, override) ==
  /\ Asked("quotient")
  /\ IF ~QuotientViewAccepted(presented, view) THEN BindingRejected(presented)
     ELSE IF override # 0 /\ override # view.coordinate.width THEN Reject("schedule")
     ELSE \E observed \in Projection(presented) : Answer(presented, observed)

ExactSeal(r, v, value) == <<"exact", v.seal, Argument(r), value>>

\* DeriveExactFactorial: two derivations that must agree.
DeriveExact(maximum) ==
  /\ Asked("native")
  /\ LET argument   == Argument(request)
         sequential == FactorialSequential(argument)
     IN  IF ~NativeViewAccepted(request, view) THEN Reject("coordinate")
         ELSE IF argument > maximum THEN Reject("length")
         ELSE IF sequential # FactorialProductTree(argument) THEN Reject("derivations differ")
         ELSE Answer(request, [kind |-> "exact", argument |-> argument, value |-> sequential,
                               seal |-> ExactSeal(request, view, sequential)])

ExactValid(exact) ==
  NativeVerified(request) /\ exact.seal = ExactSeal(request, view, exact.value)

\* DownloadExactFactorial
DownloadExact ==
  /\ answer.kind = "exact"
  /\ answer' = [kind |-> "decimal", argument |-> answer.argument,
                chunks |-> Decimal(answer.value), accepted |-> ExactValid(answer)]
  /\ UNCHANGED <<request, view>>

\* ObserveWilsonFromExact
ObserveFromExact ==
  /\ answer.kind = "exact"
  /\ LET residue == Modulo(answer.value, request.candidate)
     IN  Answer(request, [kind |-> "wilson", residue |-> residue,
                          prime |-> residue = request.candidate - 1,
                          accepted |-> ExactValid(answer)])

-------------------------------------------------------------------------------
CyclicPolicies ==
  [modulus : Moduli, normalized : BOOLEAN, kernel : BOOLEAN, maximum : OrderLimits]

GermPolicies ==
  [modulus : GermModuli, maximum : OrderLimits, cycles : GermCycles, jet_order : GermJets]

Presentable == {Bound(c) : c \in {c \in Candidates : c >= 2}}

Init == request = Empty /\ view = Empty /\ answer = [kind |-> "none"]

Bind == BindCyclic \/ BindQuotient \/ BindNative

CyclicNext ==
  \/ \E policy \in CyclicPolicies :
       \/ EvaluateCyclic(policy)
       \/ \E presented \in Presentable : ObserveCyclic(presented, policy)
  \/ DownloadCyclic

GermNext ==
  \E presented \in Presentable :
    \/ \E cycles \in GermCycles, jet_order \in GermJets : BindGerm(presented, cycles, jet_order)
    \/ \E policy \in GermPolicies : ObserveGerm(presented, policy)

FactorialNext ==
  \/ \E maximum \in ArgumentLimits : DeriveExact(maximum)
  \/ \E override, maximum \in Widths :
       ProjectNative(override, maximum) \/ ProjectQuotient(override, maximum)
  \/ \E override \in Widths, presented \in Presentable : DownloadQuotient(presented, override)
  \/ DownloadExact
  \/ ObserveFromExact

Next == (\E c \in Candidates : Upload(c)) \/ Bind \/ CyclicNext \/ GermNext \/ FactorialNext

Spec == Init /\ [][Next]_vars

-------------------------------------------------------------------------------
(* Properties *)

FactorialOf(n) == FoldLeft(LAMBDA product, k : product * k, 1, [k \in 1..n |-> k])

IsPrime(p) == p >= 2 /\ \A d \in 2 .. p - 1 : p % d # 0

\* The number whose decimal chunks these are, the lowest first.
NumberOfChunks(chunks) == FoldRight(LAMBDA chunk, value : value * Chunk + chunk, chunks, 0)

\* Three ways lead to a verdict on the candidate (the shape of the cyclic
\* column, the remainder of the exact factorial, the projection), and each of
\* them, with its verification passed, says prime exactly for a prime.  The two
\* derivations of the factorial never differ, and its decimal is that factorial.
\* Of the projection this says only what becomes of the engine's answer.
VerdictsAgree ==
  /\ answer.kind = "structure" =>
       /\ answer.accepted
       /\ answer.structure = "PrimitiveOnly" <=> IsPrime(request.candidate)
  /\ answer.kind = "structure_limit" => answer.accepted
  /\ answer.kind = "wilson" =>
       /\ answer.accepted
       /\ answer.prime <=> IsPrime(answer.presented)
  /\ answer.kind = "decimal" =>
       /\ answer.accepted
       /\ NumberOfChunks(answer.chunks) = FactorialOf(request.candidate - 1)
  /\ answer.kind = "rejected" => answer.reason # "derivations differ"

\* One wrong value in a response.
Altered(response) ==
  {[response EXCEPT !.column[i] = (@ + 1) % response.modulus] : i \in Column(response.order)}
  \cup {[response EXCEPT !.shape = ~@]}
  \cup (IF response.normalized = <<>> THEN {}
        ELSE {[response EXCEPT !.normalized[i] = (@ + 1) % response.modulus] :
                i \in Column(response.order)})
  \cup (IF response.kernel_computed THEN {[response EXCEPT !.kernel = @ + 1]} ELSE {})

\* The same value added to every coefficient, which attaching the valuation
\* again removes: only the constant mode can tell.
ShiftedByOne(response) ==
  [response EXCEPT !.normalized =
     [i \in DOMAIN response.normalized |-> (response.normalized[i] + 1) % response.modulus]]

\* The audit knows the column without the observer's arithmetic: it accepts
\* what the observer computed, for every order and every modulus, and accepts
\* no response with one value changed; nor one with the whole normalized
\* column shifted, if the modulus is prime.  The audit kept with the sealed
\* core, which factors in another way, comes to the same.
AuditExact ==
  answer.kind = "response" =>
    /\ AuditAccepted(answer.response)
    /\ MatchesAudit(answer.response)
    /\ answer.response.shape <=> PrimeAudit(answer.response.order)
    /\ answer.response.kernel_computed =>
         answer.response.kernel = PredictedKernel(answer.response.order)
    /\ \A altered \in Altered(answer.response) : ~AuditAccepted(altered)
    /\ answer.response.normalized # <<>> /\ IsPrime(answer.response.modulus) =>
         ~AuditAccepted(ShiftedByOne(answer.response))

\* An observer answers for the request its view was made from and rejects the
\* binding for every other: no view is ever accepted for another candidate.
\* The verifiers accept what was observed, a response or a limit, for that
\* request and for no other.
BindingDecides ==
  /\ "presented" \in DOMAIN answer =>
       (answer.kind = "binding" <=> answer.presented # request.candidate)
  /\ \A other \in Presentable :
       /\ answer.kind \in {"response", "cyclic_limit"} =>
            (ResponseAccepted(other, view, answer) <=> other = request)
       /\ answer.kind \in {"germ", "germ_limit"} =>
            (GermResponseAccepted(other, view.parent, view.germ, answer) <=> other = request)

\* A germ observed modulo a prime with a root of unity of its order vanishes at
\* each mode to the degree the exact period of the mode gives, and begins there
\* with (-1)^v e^2v v!.
GermModes ==
  (/\ answer.kind = "germ"
   /\ IsPrime(answer.modulus)
   /\ (answer.modulus - 1) % answer.order = 0)
    => ModesAsExpected(answer)
===============================================================================
