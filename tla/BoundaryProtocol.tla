--------------------------- MODULE BoundaryProtocol ---------------------------
(***************************************************************************)
(* The three-gate boundary: upload, native transport and download of       *)
(* cyclic states (sealed_core/include/angel/afac63/three_gate_boundary.hpp *)
(* behind the operators of src/boundary_pipeline.cpp).  Every value is     *)
(* immutable; the program holds values in variables and each operation     *)
(* reads one and produces another.  held is those variables: a slot holds  *)
(* a native state, a checkpoint, a closed observation or a download packet.*)
(* An operation may overwrite the slot it reads, or leave it and fork.     *)
(* What changes besides is the counter of a session authority and the      *)
(* ledger the program passes along.                                        *)
(***************************************************************************)
EXTENDS CyclicPresentation, CyclicJets, FiniteSets

CONSTANTS
  Authorities,   \* the SessionAuthority objects (copies share one counter)
  NumberOf,      \* the number each was constructed with
  Slots,         \* the program's variables
  Orders,        \* orders the program uploads
  Jets,          \* horizons it asks continuations and closures for
  Moduli,        \* audit moduli it passes
  MaxSequence,   \* the largest session sequence (2^64 - 1)
  MaxEpoch,      \* the largest continuation counter (2^64 - 1)
  MaxWord,       \* the largest order or multiplicity (2^64 - 1)
  Counters,      \* the ledger counters followed
  CountModulus   \* the number of values of a ledger counter (2^64)

ASSUME AuthorityAssumption ==
  /\ IsFiniteSet(Authorities)
  /\ NumberOf \in [Authorities -> Nat \ {0}]   \* the constructor rejects 0
ASSUME BoundAssumption ==
  /\ MaxSequence \in Nat \ {0} /\ MaxEpoch \in Nat \ {0} /\ MaxWord \in Nat
  /\ CountModulus \in Nat \ {0}
ASSUME InputAssumption ==
  /\ Orders \subseteq 2..MaxWord   \* SpecificationGate rejects orders below 2
  /\ Jets \subseteq 0..MaxWord /\ Moduli \subseteq 0..MaxWord

VARIABLES
  next,     \* next_ of each authority
  held,     \* what each slot holds
  ledger    \* the BoundaryLedger of the program

vars == <<next, held, ledger>>

Nothing == [kind |-> "nothing"]

Sessions == [authority : Nat \ {0}, sequence : 1..MaxSequence]
Origins == {"upload", "quotient", "import", "continuation"}

States ==
  [kind : {"state"}, order : 2..MaxWord, cycles : 1..MaxWord,
   source_order : 2..MaxWord, jet : 0..MaxWord, epoch : 0..MaxEpoch,
   residual : 0..MaxEpoch, session : Sessions, origin : Origins,
   presentation : Presentation]

Checkpoints ==
  [kind : {"checkpoint"}, order : 2..MaxWord, cycles : 1..MaxWord,
   source_order : 2..MaxWord, jet : 0..MaxWord, epoch : 0..MaxEpoch,
   residual : 0..MaxEpoch, session : Sessions, presentation : Presentation]

Is(s, kind) == held[s].kind = kind

Put(s, value) == held' = [held EXCEPT ![s] = value]

\* The ledger pointer's increments; a 64-bit counter wraps.
Count(counters) ==
  ledger' = [c \in Counters |->
               IF c \in counters THEN (ledger[c] + 1) % CountModulus
               ELSE ledger[c]]

Init == /\ next = [a \in Authorities |-> 0]
        /\ held = [s \in Slots |-> Nothing]
        /\ ledger = [c \in Counters |-> 0]

(* ------------------------------- upload -------------------------------- *)

\* Variant: the origin is not counted.
NormalizationCounters == {"representation_normalizations"}
UploadCounters == {"representation_normalizations", "fresh_origins_created"}

\* SessionAuthority::issue_fresh increments next_ and returns it together
\* with the number.  Variant: the number is left out.
AnonymousSession(a) == [authority |-> 1, sequence |-> next[a] + 1]
FreshSession(a) == [authority |-> NumberOf[a], sequence |-> next[a] + 1]

FreshState(order, session) ==
  [kind |-> "state", order |-> order, cycles |-> 1, source_order |-> order,
   jet |-> 0, epoch |-> 0, residual |-> 0, session |-> session,
   origin |-> "upload", presentation |-> Standard(order)]

Upload(a, order, t) ==
  /\ next[a] # MaxSequence
  /\ next' = [next EXCEPT ![a] = @ + 1]
  /\ Put(t, FreshState(order, FreshSession(a)))
  /\ Count(UploadCounters)

\* issue_fresh throws; the origin is already counted, and LedgerBridge writes
\* the count back while the exception passes.
UploadRefused(a) ==
  /\ next[a] = MaxSequence
  /\ Count(UploadCounters)
  /\ UNCHANGED <<next, held>>

(* ------------------------------- native -------------------------------- *)

Represented(x, target) == [x EXCEPT !.presentation = target]

ChangePresentation(s, t, target) ==
  /\ Is(s, "state")
  /\ TransportAccepted(held[s].presentation, target)
  /\ Put(t, Represented(held[s], target))
  /\ Count({"presentation_transports"})
  /\ UNCHANGED next

\* The rejections of native_quotient.
QuotientAccepted(x, target_order) ==
  /\ target_order >= 2
  /\ x.order % target_order = 0
  /\ x.cycles <= MaxWord \div (x.order \div target_order)
  /\ Valid(PushedPresentation(x.presentation, target_order))

\* Variants: the multiplicity is kept, or multiplied by the order instead of
\* the index, or the generator is not reduced.
ForgetfulQuotient(x, target_order) ==
  [x EXCEPT !.order = target_order,
            !.origin = "quotient",
            !.presentation = PushedPresentation(@, target_order)]
OrderScaledQuotient(x, target_order) ==
  [x EXCEPT !.order = target_order,
            !.cycles = @ * x.order,
            !.origin = "quotient",
            !.presentation = PushedPresentation(@, target_order)]
UnpushedQuotient(x, target_order) ==
  [x EXCEPT !.order = target_order,
            !.cycles = @ * (x.order \div target_order),
            !.origin = "quotient",
            !.presentation = [@ EXCEPT !.order = target_order]]

QuotientState(x, target_order) ==
  [x EXCEPT !.order = target_order,
            !.cycles = @ * (x.order \div target_order),
            !.origin = "quotient",
            !.presentation = PushedPresentation(@, target_order)]

Quotient(s, t, target_order) ==
  /\ Is(s, "state")
  /\ QuotientAccepted(held[s], target_order)
  /\ Put(t, QuotientState(held[s], target_order))
  /\ Count({"native_quotients"})
  /\ UNCHANGED next

ContinueAccepted(x, jet) ==
  /\ jet >= x.jet
  /\ x.epoch # MaxEpoch /\ x.residual # MaxEpoch

ContinuedState(x, jet) ==
  [x EXCEPT !.jet = jet, !.epoch = @ + 1, !.residual = @ + 1,
            !.origin = "continuation"]

Continue(s, t, jet) ==
  /\ Is(s, "state")
  /\ ContinueAccepted(held[s], jet)
  /\ Put(t, ContinuedState(held[s], jet))
  /\ Count({"native_same_frame_continuations"})
  /\ UNCHANGED next

\* Variant: the capsule takes the chart's order for its origin's.
LocalCapsule(x) ==
  [kind |-> "checkpoint", order |-> x.order, cycles |-> x.cycles,
   source_order |-> x.order, jet |-> x.jet, epoch |-> x.epoch,
   residual |-> x.residual, session |-> x.session,
   presentation |-> x.presentation]

\* NativeContinuationCapsule: every field of the state but its origin.
Capsule(x) ==
  [kind |-> "checkpoint", order |-> x.order, cycles |-> x.cycles,
   source_order |-> x.source_order, jet |-> x.jet, epoch |-> x.epoch,
   residual |-> x.residual, session |-> x.session,
   presentation |-> x.presentation]

Export(s, t) ==
  /\ Is(s, "state")
  /\ Put(t, Capsule(held[s]))
  /\ Count({"native_exports"})
  /\ UNCHANGED next

\* The rejections of native_import.
ImportAccepted(c) ==
  /\ c.order >= 2 /\ c.cycles # 0 /\ c.source_order >= c.order
  /\ c.session.authority # 0 /\ c.session.sequence # 0
  /\ Valid(c.presentation)
  /\ c.presentation.order = c.order
  /\ c.source_order % c.order = 0
  /\ c.source_order \div c.order = c.cycles

ImportedState(c) ==
  [kind |-> "state", order |-> c.order, cycles |-> c.cycles,
   source_order |-> c.source_order, jet |-> c.jet, epoch |-> c.epoch,
   residual |-> c.residual, session |-> c.session, origin |-> "import",
   presentation |-> c.presentation]

Import(s, t) ==
  /\ Is(s, "checkpoint")
  /\ ImportAccepted(held[s])
  /\ Put(t, ImportedState(held[s]))
  /\ Count({"native_imports"})
  /\ UNCHANGED next

(* ------------------------------- closure ------------------------------- *)

Languages == {"frozen", "same_frame"}
Versions == {0, 1}   \* 0 is the version every closure rejects

OrderContract(language, version) ==
  [observer |-> "order", language |-> language, version |-> version]

PrimitiveContract(version) ==
  [observer |-> "primitive", language |-> "frozen", version |-> version]

\* payload_already_bound, no_deferred_execute and
\* scoped_not_global_future_equivalence are set together with accepted.
Certificate(x, contract, required, mode) ==
  [observer |-> contract.observer, language |-> contract.language,
   version |-> contract.version, order |-> x.order, cycles |-> x.cycles,
   required |-> required, available |-> x.jet, session |-> x.session,
   mode |-> mode, accepted |-> TRUE]

Closed(x, observation, certificate) ==
  [kind |-> "closed", state |-> x, observation |-> observation,
   certificate |-> certificate]

CloseOrder(s, t, language, version) ==
  /\ Is(s, "state")
  /\ version # 0
  /\ Put(t, Closed(held[s],
                   [type |-> "order", order |-> held[s].order, version |-> 1],
                   Certificate(held[s], OrderContract(language, version), 0,
                               "native")))
  /\ Count({"closure_checks"})
  /\ UNCHANGED next

\* The horizon a primitive closure needs is the cycle multiplicity.
\* Variant: the declaration is believed.
DeclaredForPrimitive(x, declared) == declared >= x.cycles
ReadyForPrimitive(x, declared) == declared >= x.cycles /\ x.jet >= x.cycles

\* Variant: one cycle, as the upload has.
OneCycleGerm(x, modulus) == Germ(x.order, 1, x.cycles, modulus)
PrimitiveGerm(x, modulus) == Germ(x.order, x.cycles, x.cycles, modulus)

\* What reference_close_primitive_observation requires, in its order; outside
\* the germ's domain materialize throws.
PrimitiveAccepted(x, declared, modulus, version) ==
  /\ version # 0
  /\ ReadyForPrimitive(x, declared)
  /\ GermDomain(x.order, x.cycles, x.cycles, modulus)
  /\ FirstVisibleAt(PrimitiveGerm(x, modulus), x.cycles)

ClosePrimitive(s, t, declared, modulus, version) ==
  /\ Is(s, "state")
  /\ PrimitiveAccepted(held[s], declared, modulus, version)
  /\ Put(t, Closed(held[s],
                   [type |-> "primitive", order |-> held[s].order,
                    first_visible_jet |-> held[s].cycles,
                    column |-> PrimitiveGerm(held[s], modulus)[held[s].cycles],
                    modulus |-> modulus],
                   Certificate(held[s], PrimitiveContract(version),
                               held[s].cycles, "reference")))
  /\ Count({"closure_checks", "reference_germ_materializations"})
  /\ UNCHANGED next

\* A closure of either kind that is rejected, or throws, has counted its
\* check; the order closure rejects nothing but version 0.
CloseRejected(s, declared, modulus, version) ==
  /\ Is(s, "state")
  /\ ~PrimitiveAccepted(held[s], declared, modulus, version)
  /\ Count({"closure_checks"})
  /\ UNCHANGED <<next, held>>

(* ------------------------------- download ------------------------------ *)

\* The rejections of download; validate_download_packet repeats them.
CanonicalStateBound(c) ==
  /\ c.certificate.accepted
  /\ c.certificate.order = c.state.order
  /\ c.certificate.cycles = c.state.cycles
  /\ c.certificate.session = c.state.session

\* Variant: the certificate's horizon is taken for the multiplicity.
HorizonCut(c) ==
  [session |-> c.state.session, origin |-> c.state.origin,
   observer |-> c.certificate.observer, language |-> c.certificate.language,
   cycles |-> c.certificate.required, epoch |-> c.state.epoch,
   residual |-> c.state.residual,
   no_resume |-> TRUE, fresh_upload |-> TRUE]
CausalCut(c) ==
  [session |-> c.state.session, origin |-> c.state.origin,
   observer |-> c.certificate.observer, language |-> c.certificate.language,
   cycles |-> c.state.cycles, epoch |-> c.state.epoch,
   residual |-> c.state.residual,
   no_resume |-> TRUE, fresh_upload |-> TRUE]

Packet(c) ==
  [kind |-> "packet", observation |-> c.observation, cut |-> CausalCut(c)]

Download(s, t) ==
  /\ Is(s, "closed")
  /\ CanonicalStateBound(held[s])
  /\ Put(t, Packet(held[s]))
  /\ Count({"downloads"})
  /\ UNCHANGED next

\* Variant: the validator forgets the continuation language.
PacketAcceptedInAnyLanguage(c, p) ==
  /\ CanonicalStateBound(c)
  /\ p.observation = c.observation
  /\ p.cut.session = c.state.session
  /\ p.cut.origin = c.state.origin
  /\ p.cut.observer = c.certificate.observer
  /\ p.cut.cycles = c.state.cycles
  /\ p.cut.epoch = c.state.epoch
  /\ p.cut.residual = c.state.residual
  /\ p.cut.no_resume /\ p.cut.fresh_upload

\* validate_download_packet(c, p).accepted()
PacketAccepted(c, p) ==
  /\ CanonicalStateBound(c)
  /\ p.observation = c.observation
  /\ p.cut.session = c.state.session
  /\ p.cut.origin = c.state.origin
  /\ p.cut.observer = c.certificate.observer
  /\ p.cut.language = c.certificate.language
  /\ p.cut.cycles = c.state.cycles
  /\ p.cut.epoch = c.state.epoch
  /\ p.cut.residual = c.state.residual
  /\ p.cut.no_resume /\ p.cut.fresh_upload

\* reupload_as_fresh_origin: only an order observation names an order.
Reupload(s, a, t) ==
  /\ Is(s, "packet")
  /\ held[s].observation.type = "order"
  /\ Upload(a, held[s].observation.order, t)

-----------------------------------------------------------------------------
UploadStep == \E a \in Authorities :
                \/ UploadRefused(a)
                \/ \E t \in Slots, order \in Orders : Upload(a, order, t)

NativeStep == \E s, t \in Slots :
  \/ Is(s, "state") /\ \E p \in ValidPresentations(held[s].order) :
                         ChangePresentation(s, t, p)
  \/ Is(s, "state") /\ \E m \in 2..held[s].order : Quotient(s, t, m)
  \/ \E j \in Jets : Continue(s, t, j)
  \/ Export(s, t)
  \/ Import(s, t)

ClosureStep == \E s, t \in Slots, v \in Versions :
  \/ \E l \in Languages : CloseOrder(s, t, l, v)
  \/ \E d \in Jets, m \in Moduli : ClosePrimitive(s, t, d, m, v)
  \/ \E d \in Jets, m \in Moduli : CloseRejected(s, d, m, v)

DownloadStep == \E s, t \in Slots :
  \/ Download(s, t)
  \/ \E a \in Authorities : Reupload(s, a, t)

Next == UploadStep \/ NativeStep \/ ClosureStep \/ DownloadStep

Spec == Init /\ [][Next]_vars
-----------------------------------------------------------------------------

(* Properties *)

\* The state a value carries, whole or as a capsule.
Carries(v) == v.kind \in {"state", "checkpoint", "closed"}
Carried(v) == IF v.kind = "closed" THEN v.state ELSE v

\* The session a value belongs to and the order it was uploaded with; for a
\* packet, the order its receipt accounts for.
SessionOf(v) == IF v.kind = "packet" THEN v.cut.session ELSE Carried(v).session
Accounted(v) == IF v.kind = "packet" THEN v.cut.cycles * v.observation.order
                ELSE Carried(v).source_order

Divisors(n) == {m \in 2..n : n % m = 0}

\* Types: every slot holds a well-formed value.
TypeOK ==
  /\ next \in [Authorities -> 0..MaxSequence]
  /\ ledger \in [Counters -> 0..(CountModulus - 1)]
  /\ \A s \in Slots :
       \/ held[s] = Nothing
       \/ held[s] \in States
       \/ held[s] \in Checkpoints
       \/ Is(s, "closed") /\ held[s].state \in States
       \/ Is(s, "packet") /\ held[s].observation.order \in 2..MaxWord

Ramified(x) ==
  /\ x.order * x.cycles = x.source_order
  /\ Valid(x.presentation) /\ x.presentation.order = x.order

\* However a state was reached, by quotients, continuations, checkpoints and
\* changes of presentation in any order, its order times its cycles is the
\* order that was uploaded, and its generator is a unit of its own order.
RamificationConserved ==
  \A s \in Slots :
    Carries(held[s]) => Ramified(Carried(held[s]))

\* native_import re-derives the ramification of a capsule: it rejects none
\* that native_export produced.
ImportTotal ==
  \A s \in Slots : Is(s, "checkpoint") => ImportAccepted(held[s])

\* A state has a quotient by every divisor of its order: the overflow guard
\* and the check of the pushed presentation reject nothing.
QuotientTotal ==
  \A s \in Slots :
    Is(s, "state") => \A m \in Divisors(held[s].order) : QuotientAccepted(held[s], m)

\* Descending in two steps or in one gives the same state, field for field,
\* and so does changing the presentation before or after a descent.
QuotientFunctorial ==
  \A s \in Slots :
    Is(s, "state") =>
      \A m \in Divisors(held[s].order) :
        /\ \A n \in Divisors(m) :
             QuotientState(QuotientState(held[s], m), n) = QuotientState(held[s], n)
        /\ \A p \in ValidPresentations(held[s].order) :
             QuotientState(Represented(held[s], p), m)
               = Represented(QuotientState(held[s], m), PushedPresentation(p, m))

\* The germ that the uploaded order begins with, folded onto a smaller order.
FoldedUpload(source_order, order, jet_order, modulus) ==
  PushforwardGerm(Germ(source_order, 1, jet_order, modulus), source_order, order, modulus)

\* The horizon that the declaration, the state and the modulus all reach.
Reached(x, declared, modulus) == Smaller(Smaller(declared, x.jet), modulus - 1)

Reports(v) == v.kind \in {"closed", "packet"} /\ v.observation.type = "primitive"

\* What a primitive closure shows, it shows of the upload, however far the state
\* has descended since and whenever its jet was extended.  A state is closed
\* exactly if the germ of the uploaded order, folded onto the order of now, first
\* appears at the index of the descents and within the horizon that is reached: a
\* jet that a later quotient left behind closes nothing.  And every closure and
\* every packet holds the column with which that folded germ first appears.
PrimitiveFoldsUpload ==
  \A s \in Slots :
    /\ Is(s, "state") =>
         \A declared \in Jets, modulus \in Moduli :
           LET x == held[s]
               reached == Reached(x, declared, modulus)
           IN  PrimitiveAccepted(x, declared, modulus, 1) <=>
                 /\ GermDomain(x.source_order, 1, reached, modulus)
                 /\ FirstVisibleAt(FoldedUpload(x.source_order, x.order, reached, modulus),
                                   x.source_order \div x.order)
    /\ Reports(held[s]) =>
         LET o == held[s].observation
             degree == o.first_visible_jet
             folded == FoldedUpload(Accounted(held[s]), o.order, degree, o.modulus)
         IN  FirstVisibleAt(folded, degree) /\ o.column = folded[degree]

\* A session belongs to one upload: everything that carries it, receipts
\* included, accounts for the same uploaded order.
SessionAccountsForOneOrigin ==
  \A s, t \in Slots :
    /\ held[s] # Nothing /\ held[t] # Nothing
    /\ SessionOf(held[s]) = SessionOf(held[t])
    => Accounted(held[s]) = Accounted(held[t])

\* States that agree on everything but presentation and provenance are
\* presentation_equivalent, although they descended along different paths.
EquivalentPresentations ==
  \A s, t \in Slots :
    /\ Is(s, "state") /\ Is(t, "state")
    /\ [held[s] EXCEPT !.origin = 0, !.presentation = 0]
         = [held[t] EXCEPT !.origin = 0, !.presentation = 0]
    => TransportAccepted(held[s].presentation, held[t].presentation)

\* What may be done, always may: a checkpoint the program wrote is imported, a
\* state has every quotient, and equal states are equivalent (the throwing
\* checks of native_import, native_quotient and presentation_equivalent).
OperationsTotal == ImportTotal /\ QuotientTotal /\ EquivalentPresentations

\* A packet with one field of its receipt or observation changed.
Altered(p) ==
  {[p EXCEPT !.cut.session.sequence = @ + 1],
   [p EXCEPT !.cut.session.authority = @ + 1],
   [p EXCEPT !.cut.cycles = @ + 1],
   [p EXCEPT !.cut.epoch = @ + 1],
   [p EXCEPT !.cut.residual = @ + 1],
   [p EXCEPT !.cut.no_resume = ~@],
   [p EXCEPT !.cut.fresh_upload = ~@],
   [p EXCEPT !.cut.observer = IF @ = "order" THEN "primitive" ELSE "order"],
   [p EXCEPT !.cut.language = IF @ = "frozen" THEN "same_frame" ELSE "frozen"],
   [p EXCEPT !.observation.order = @ + 1]}
  \cup {[p EXCEPT !.cut.origin = o] : o \in Origins \ {p.cut.origin}}

\* validate_download_packet accepts exactly the packet that download builds
\* from the closed observation it is given: not one field may differ, and the
\* packet of another closure passes only if it is the same packet.
ValidationExact ==
  \A s \in Slots :
    Is(s, "closed") =>
      /\ PacketAccepted(held[s], Packet(held[s]))
      /\ \A p \in Altered(Packet(held[s])) : ~PacketAccepted(held[s], p)
      /\ \A t \in Slots :
           Is(t, "packet") =>
             (PacketAccepted(held[s], held[t]) <=> held[t] = Packet(held[s]))

\* An upload, also the one that re-enters from a downloaded order, begins a
\* session that nothing the program holds belongs to, with one cycle.
FreshUploads ==
  [][next' # next =>
       \E t \in Slots :
         /\ held'[t].kind = "state"
         /\ held'[t].cycles = 1
         /\ \A s \in Slots :
              held[s] # Nothing => SessionOf(held[s]) # held'[t].session]_vars

\* Whoever re-enters with a downloaded packet leaves the packet's session: a
\* fresh one is allocated (docs/state_integrity.md).
ReentryLeavesSession ==
  [][\A s, t \in Slots, a \in Authorities :
       Reupload(s, a, t) => held'[t].session # held[s].cut.session]_vars

\* As long as no authority is exhausted the ledger's origins are the sessions
\* issued; from then on it also counts origins that were never created.
OriginsAccounted ==
  /\ "fresh_origins_created" \in Counters
  /\ \A a \in Authorities : next[a] < MaxSequence
  => ledger["fresh_origins_created"]
       = MapThenSumSet(LAMBDA a : next[a], Authorities) % CountModulus

-----------------------------------------------------------------------------
(* The inductive invariant *)

Contracts ==
  {OrderContract(l, v) : l \in Languages, v \in Versions \ {0}}
  \cup {PrimitiveContract(v) : v \in Versions \ {0}}

\* An observation that a closure of this order and multiplicity binds, and a
\* certificate of x.
BoundTo(order, cycles, o) ==
  \/ o = [type |-> "order", order |-> order, version |-> 1]
  \/ \E m \in Moduli :
       /\ GermDomain(order, cycles, cycles, m)
       /\ FirstVisibleAt(Germ(order, cycles, cycles, m), cycles)
       /\ o = [type |-> "primitive", order |-> order, first_visible_jet |-> cycles,
               column |-> Germ(order, cycles, cycles, m)[cycles], modulus |-> m]

Certifies(x, certificate) ==
  \E contract \in Contracts, required \in {0, x.cycles},
     mode \in {"native", "reference"} :
    certificate = Certificate(x, contract, required, mode)

Cuts ==
  [session : Sessions, origin : Origins, observer : {"order", "primitive"},
   language : Languages, cycles : 1..MaxWord, epoch : 0..MaxEpoch,
   residual : 0..MaxEpoch, no_resume : {TRUE}, fresh_upload : {TRUE}]

SoundClosed(v) ==
  /\ v = Closed(v.state, v.observation, v.certificate)
  /\ v.state \in States /\ Ramified(v.state)
  /\ BoundTo(v.state.order, v.state.cycles, v.observation)
  /\ Certifies(v.state, v.certificate)

SoundPacket(v) ==
  /\ v = [kind |-> "packet", observation |-> v.observation, cut |-> v.cut]
  /\ v.observation.order \in 2..MaxWord
  /\ v.cut \in Cuts
  /\ BoundTo(v.observation.order, v.cut.cycles, v.observation)

\* A value that the operations can have built.
Sound(v) ==
  \/ v = Nothing
  \/ v \in States /\ Ramified(v)
  \/ v \in Checkpoints /\ Ramified(v)
  \/ v.kind = "closed" /\ SoundClosed(v)
  \/ v.kind = "packet" /\ SoundPacket(v)

\* Every session in use was issued: an authority with its number is past it.
Issued(session, counters) ==
  \E a \in Authorities : /\ session.authority = NumberOf[a]
                         /\ session.sequence <= counters[a]

SlotsSound == \A s \in Slots : Sound(held[s])

SessionsIssued ==
  \A s \in Slots : held[s] # Nothing => Issued(SessionOf(held[s]), next)

IInv == /\ next \in [Authorities -> 0..MaxSequence]
        /\ ledger \in [Counters -> 0..(CountModulus - 1)]
        /\ DOMAIN held = Slots
        /\ SlotsSound
        /\ SessionsIssued
=============================================================================
