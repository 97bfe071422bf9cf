----------------------- MODULE BoundaryProtocol_proofs -----------------------
(***************************************************************************)
(* Proofs about BoundaryProtocol for any set of authorities, slots and     *)
(* orders and any bounds: a presentation of an order pushes down to every  *)
(* divisor and any two of one order transport into one another, so values  *)
(* stay sound and quotient and import reject nothing; and sessions are     *)
(* never issued twice when the numbers of the authorities are distinct.    *)
(***************************************************************************)
EXTENDS BoundaryProtocol, SharedTheorems

(* ---------------------------- presentations ---------------------------- *)

\* Division with remainder, the form every lemma below uses.
LEMMA DivMod ==
  ASSUME NEW a \in Int, NEW n \in Nat, n > 0
  PROVE  /\ a \div n \in Int
         /\ a % n \in 0..(n - 1)
         /\ a = n * (a \div n) + (a % n)
OBVIOUS

\* A number written as a multiple of n plus a remainder has that remainder.
LEMMA RemainderUnique ==
  ASSUME NEW n \in Nat, n > 0, NEW q \in Int, NEW r \in 0..(n - 1)
  PROVE  (n * q + r) % n = r
<1> DEFINE a == n * q + r
<1>1. a \in Int
  OBVIOUS
<1>2. /\ a \div n \in Int
      /\ a % n \in 0..(n - 1)
      /\ a = n * (a \div n) + (a % n)
  BY <1>1, DivMod
<1>3. n * (q - a \div n) = (a % n) - r
  BY <1>2
<1>4. q - a \div n = 0
  <2>1. CASE q - a \div n >= 1
    <3>1. n * (q - a \div n) >= n
      BY <1>2, <2>1
    <3> QED BY <1>2, <1>3, <3>1
  <2>2. CASE q - a \div n <= -1
    <3>1. n * (q - a \div n) <= -n
      BY <1>2, <2>2
    <3> QED BY <1>2, <1>3, <3>1
  <2> QED BY <1>2, <2>1, <2>2
<1> QED BY <1>2, <1>3, <1>4

\* Reducing the factors modulo n does not change a product modulo n.
LEMMA ReducedFactors ==
  ASSUME NEW n \in Nat, n > 0, NEW a \in Int, NEW b \in Int
  PROVE  ((a % n) * (b % n)) % n = (a * b) % n
<1>1. n \in Nat \ {0}
  OBVIOUS
<1> QED BY <1>1, RestOfProductOfRests

\* A number congruent to 1 modulo n is congruent to 1 modulo every divisor.
LEMMA UnitRemainder ==
  ASSUME NEW n \in Nat, NEW t \in Nat, NEW k \in Nat, n = t * k, t >= 2,
         NEW a \in Nat, a % n = 1, n > 0
  PROVE  a % t = 1
<1>1. a \div n \in Int /\ a = n * (a \div n) + 1
  BY DivMod
<1> DEFINE q == k * (a \div n)
<1>2. a = t * q + 1 /\ q \in Int
  BY <1>1
<1> HIDE DEF q
<1>3. 1 \in 0..(t - 1) /\ t > 0
  OBVIOUS
<1>4. (t * q + 1) % t = 1
  BY <1>2, <1>3, RemainderUnique
<1> QED BY <1>2, <1>4

\* native_quotient never meets an invalid target presentation: the pushed
\* exponents of a valid presentation are inverse units of every divisor.
THEOREM PushedStaysValid ==
  ASSUME NEW p \in Presentation, Valid(p),
         NEW t \in Nat, t >= 2, NEW k \in Nat, p.order = t * k
  PROVE  /\ PushedPresentation(p, t) \in Presentation
         /\ Valid(PushedPresentation(p, t))
         /\ PushedPresentation(p, t).order = t
<1> DEFINE e == p.exponent
           i == p.inverse
<1>1. /\ e \in Nat /\ i \in Nat /\ p.order \in Nat /\ p.order > 0
      /\ (e * i) % p.order = 1 /\ e * i \in Nat
  BY DEF Presentation, Valid, MulMod
<1> HIDE DEF e, i
<1>2. (e * i) % t = 1
  BY <1>1, UnitRemainder
<1>3. ((e % t) * (i % t)) % t = 1
  <2>1. e \in Int /\ i \in Int /\ t > 0
    BY <1>1
  <2> QED BY <1>2, <2>1, ReducedFactors
<1>4. e % t \in 0..(t - 1) /\ i % t \in 0..(t - 1)
  BY <1>1, DivMod
<1>5. e % t # 0 /\ i % t # 0
  <2>1. 0 % t = 0
    OBVIOUS
  <2>2. (e % t) * (i % t) # 0
    BY <1>3, <2>1
  <2> QED BY <1>4, <2>2
<1>6. PushedPresentation(p, t) = [order |-> t, exponent |-> e % t, inverse |-> i % t]
  BY DEF PushedPresentation, e, i
<1> QED BY <1>3, <1>4, <1>5, <1>6 DEF Presentation, Valid, MulMod

\* Presentations of one order form one class: transport is accepted between
\* any two valid ones, whatever units they use.
THEOREM TransportTotal ==
  ASSUME NEW p \in Presentation, NEW q \in Presentation, Valid(p), Valid(q),
         p.order = q.order
  PROVE  TransportAccepted(p, q)
<1> DEFINE n == p.order
           a == p.exponent
           x == p.inverse
           b == q.exponent
           y == q.inverse
<1>1. /\ n \in Nat /\ n >= 2 /\ n > 0
      /\ a \in Nat /\ x \in Nat /\ b \in Nat /\ y \in Nat
      /\ (a * x) % n = 1 /\ (b * y) % n = 1
  BY DEF Presentation, Valid, MulMod
<1> HIDE DEF n, a, x, b, y
<1>2. (b * x) * (a * y) = (a * x) * (b * y)
  BY <1>1
<1>3. /\ b * x \in Int /\ a * y \in Int /\ a * x \in Int /\ b * y \in Int
  BY <1>1
<1>4. (((b * x) % n) * ((a * y) % n)) % n = ((b * x) * (a * y)) % n
  BY <1>1, <1>3, ReducedFactors
<1>5. (((a * x) % n) * ((b * y) % n)) % n = ((a * x) * (b * y)) % n
  BY <1>1, <1>3, ReducedFactors
<1>6. (1 * 1) % n = 1
  BY <1>1
<1>7. (((b * x) % n) * ((a * y) % n)) % n = 1
  BY <1>1, <1>2, <1>4, <1>5, <1>6
<1> QED BY <1>7 DEF TransportAccepted, Forward, Backward, MulMod, n, a, x, b, y

(* ---------------------------- the boundary ----------------------------- *)

\* What a quotient does to the numbers of a state.
LEMMA QuotientNumbers ==
  ASSUME NEW order \in Nat, NEW cycles \in Nat, NEW source \in Nat,
         order * cycles = source, order >= 2, cycles >= 1,
         NEW m \in Nat, m >= 2, order % m = 0
  PROVE  /\ order \div m \in Nat /\ order \div m >= 1
         /\ order = m * (order \div m)
         /\ m <= order
         /\ cycles * (order \div m) \in Nat
         /\ cycles * (order \div m) >= 1
         /\ m * (cycles * (order \div m)) = source
<1> DEFINE k == order \div m
<1>1. k \in Int /\ order = m * k
  BY DivMod
<1> HIDE DEF k
<1>2. k >= 1
  <2>1. CASE k <= 0
    <3>1. m * k <= 0
      BY <1>1, <2>1
    <3> QED BY <1>1, <3>1
  <2> QED BY <1>1, <2>1
<1>3. m <= m * k
  BY <1>1, <1>2
<1>4. cycles * k >= 1 /\ cycles * k \in Nat
  BY <1>1, <1>2
<1>5. m * (cycles * k) = (m * k) * cycles
  BY <1>1
<1> QED BY <1>1, <1>2, <1>3, <1>4, <1>5 DEF k

\* The overflow guard of native_quotient, for a state whose source order is
\* a word: the new multiplicity is at most the source order.
LEMMA NoOverflow ==
  ASSUME NEW c \in Nat, NEW k \in Nat, k >= 1, NEW bound \in Nat, c * k <= bound
  PROVE  c <= bound \div k
<1>1. /\ bound \div k \in Int
      /\ bound % k \in 0..(k - 1)
      /\ bound = k * (bound \div k) + (bound % k)
  BY DivMod
<1> DEFINE q == bound \div k
<1>2. CASE c >= q + 1
  <2>1. c * k >= (q + 1) * k
    BY <1>1, <1>2
  <2>2. (q + 1) * k = k * q + k
    BY <1>1
  <2> QED BY <1>1, <2>1, <2>2
<1> QED BY <1>1, <1>2

LEMMA FactorBound ==
  ASSUME NEW a \in Nat, NEW b \in Nat, a >= 1, NEW n \in Nat, a * b = n
  PROVE  b <= n
OBVIOUS

(* ----------------------- each operation's value ------------------------ *)

\* A sound state's order is bounded by the order it was uploaded with.
LEMMA StateFacts ==
  ASSUME NEW x \in States, Ramified(x)
  PROVE  /\ x.order \in Nat /\ x.order >= 2
         /\ x.cycles \in Nat /\ x.cycles >= 1 /\ x.cycles <= MaxWord
         /\ x.source_order \in Nat /\ x.source_order <= MaxWord
         /\ x.order * x.cycles = x.source_order
         /\ x.presentation \in Presentation /\ Valid(x.presentation)
         /\ x.presentation.order = x.order
         /\ x.session \in Sessions
         /\ x.kind = "state"
BY BoundAssumption DEF States, Ramified

LEMMA FreshSound ==
  ASSUME NEW order \in 2..MaxWord, NEW session \in Sessions
  PROVE  FreshState(order, session) \in States /\ Ramified(FreshState(order, session))
<1> DEFINE x == FreshState(order, session)
<1>1. order \in Nat /\ order >= 2 /\ MaxWord \in Nat /\ MaxEpoch \in Nat
  BY BoundAssumption
<1>2. (1 * 1) % order = 1
  <2>1. 1 \in 0..(order - 1)
    BY <1>1
  <2>2. (order * 0 + 1) % order = 1
    BY <1>1, <2>1, RemainderUnique
  <2> QED BY <1>1, <2>2
<1>3. Standard(order) \in Presentation /\ Valid(Standard(order))
  BY <1>1, <1>2 DEF Standard, Presentation, Valid, MulMod
<1>4. x \in States
  BY <1>1, <1>3 DEF FreshState, States, Origins
<1>5. Ramified(x)
  BY <1>1, <1>3 DEF FreshState, Ramified, Standard
<1> QED BY <1>4, <1>5

LEMMA RepresentedSound ==
  ASSUME NEW x \in States, Ramified(x), NEW p \in Presentation,
         TransportAccepted(x.presentation, p)
  PROVE  Represented(x, p) \in States /\ Ramified(Represented(x, p))
<1>1. Valid(p) /\ p.order = x.order
  BY DEF TransportAccepted, Ramified
<1>2. Represented(x, p) \in States
  BY DEF Represented, States
<1> QED BY <1>1, <1>2 DEF Represented, Ramified, States

\* Every quotient that the guard lets pass is sound, and the guard lets every
\* divisor pass.
LEMMA QuotientSound ==
  ASSUME NEW x \in States, Ramified(x), NEW m \in Nat, m >= 2, x.order % m = 0
  PROVE  /\ QuotientAccepted(x, m)
         /\ QuotientState(x, m) \in States
         /\ Ramified(QuotientState(x, m))
<1> DEFINE k == x.order \div m
           c == x.cycles * k
           p == PushedPresentation(x.presentation, m)
           y == QuotientState(x, m)
<1>1. /\ x.order \in Nat /\ x.order >= 2
      /\ x.cycles \in Nat /\ x.cycles >= 1
      /\ x.source_order \in Nat /\ x.source_order <= MaxWord
      /\ x.order * x.cycles = x.source_order
      /\ x.presentation \in Presentation /\ Valid(x.presentation)
      /\ x.presentation.order = x.order
  BY StateFacts
<1>2. /\ k \in Nat /\ k >= 1 /\ x.order = m * k /\ m <= x.order
      /\ c \in Nat /\ c >= 1 /\ m * c = x.source_order
  BY <1>1, QuotientNumbers
<1>3. /\ p \in Presentation /\ Valid(p) /\ p.order = m
  BY <1>1, <1>2, PushedStaysValid
<1>4. MaxWord \in Nat
  BY BoundAssumption
<1>5. c <= MaxWord /\ x.order <= MaxWord
  BY <1>1, <1>2, <1>4, FactorBound DEF States
<1>6. x.cycles <= MaxWord \div k
  BY <1>1, <1>2, <1>4, <1>5, NoOverflow
<1>7. QuotientAccepted(x, m)
  BY <1>3, <1>6 DEF QuotientAccepted
<1>8. y = [x EXCEPT !.order = m, !.cycles = c, !.origin = "quotient",
                    !.presentation = p]
  BY DEF QuotientState, States
<1> HIDE DEF k, c, p, y
<1>9. m \in 2..MaxWord /\ c \in 1..MaxWord
  BY <1>1, <1>2, <1>4, <1>5
<1>10. y \in States
  BY <1>3, <1>8, <1>9 DEF States, Origins
<1>11. Ramified(y)
  BY <1>2, <1>3, <1>8 DEF Ramified, States
<1> QED BY <1>7, <1>10, <1>11 DEF y

LEMMA ContinuedSound ==
  ASSUME NEW x \in States, Ramified(x), NEW j \in 0..MaxWord, ContinueAccepted(x, j)
  PROVE  ContinuedState(x, j) \in States /\ Ramified(ContinuedState(x, j))
<1>1. x.epoch + 1 \in 0..MaxEpoch /\ x.residual + 1 \in 0..MaxEpoch
  BY BoundAssumption DEF States, ContinueAccepted
<1>2. ContinuedState(x, j)
        = [x EXCEPT !.jet = j, !.epoch = x.epoch + 1, !.residual = x.residual + 1,
                    !.origin = "continuation"]
  BY DEF ContinuedState, States
<1>3. ContinuedState(x, j) \in States
  BY <1>1, <1>2 DEF States, Origins
<1> QED BY <1>2, <1>3 DEF Ramified, States

LEMMA CapsuleSound ==
  ASSUME NEW x \in States, Ramified(x)
  PROVE  Capsule(x) \in Checkpoints /\ Ramified(Capsule(x))
BY DEF Capsule, Checkpoints, States, Ramified

\* A sound capsule passes every check of native_import.
LEMMA ImportSound ==
  ASSUME NEW c \in Checkpoints, Ramified(c)
  PROVE  /\ ImportAccepted(c)
         /\ ImportedState(c) \in States
         /\ Ramified(ImportedState(c))
<1>1. /\ c.order \in Nat /\ c.order >= 2 /\ c.cycles \in Nat /\ c.cycles >= 1
      /\ c.source_order \in Nat
      /\ c.order * c.cycles = c.source_order
      /\ c.session.authority \in Nat \ {0} /\ c.session.sequence \in Nat \ {0}
      /\ Valid(c.presentation) /\ c.presentation.order = c.order
  BY BoundAssumption DEF Checkpoints, Ramified, Sessions
<1> DEFINE n == c.order
           q == c.cycles
           o == c.source_order
<1> HIDE DEF n, q, o
<1>2. n \in Nat /\ n >= 2 /\ n > 0 /\ q \in Nat /\ q >= 1 /\ o \in Nat /\ n * q = o
  BY <1>1 DEF n, q, o
<1>3. o % n = 0
  <2>1. 0 \in 0..(n - 1)
    BY <1>2
  <2>2. (n * q + 0) % n = 0
    BY <1>2, <2>1, RemainderUnique
  <2> QED BY <1>2, <2>2
<1>4. o \div n = q
  <2>1. o \div n \in Int /\ o = n * (o \div n) + (o % n)
    BY <1>2, DivMod
  <2>2. n * (o \div n - q) = 0
    BY <1>2, <1>3, <2>1
  <2> QED BY <1>2, <2>1, <2>2
<1>5. o >= n
  BY <1>2
<1>6. ImportAccepted(c)
  BY <1>1, <1>3, <1>4, <1>5 DEF ImportAccepted, n, q, o
<1>7. ImportedState(c) \in States
  BY DEF ImportedState, States, Checkpoints, Origins
<1>8. Ramified(ImportedState(c))
  BY DEF ImportedState, Ramified
<1> QED BY <1>6, <1>7, <1>8

\* A sound value is known by its kind.
LEMMA KnownByKind ==
  ASSUME NEW v, Sound(v)
  PROVE  /\ v.kind = "state" => v \in States /\ Ramified(v)
         /\ v.kind = "checkpoint" => v \in Checkpoints /\ Ramified(v)
         /\ v.kind = "closed" => SoundClosed(v)
         /\ v.kind = "packet" => SoundPacket(v)
BY DEF Sound, Nothing, States, Checkpoints

\* What a certificate says, and that download's checks of it pass.
LEMMA CertificateFacts ==
  ASSUME NEW x, NEW c, Certifies(x, c)
  PROVE  /\ c.accepted /\ c.order = x.order /\ c.cycles = x.cycles
         /\ c.session = x.session
         /\ c.observer \in {"order", "primitive"} /\ c.language \in Languages
BY DEF Certifies, Certificate, Contracts, OrderContract, PrimitiveContract, Languages

\* What an observation names.
LEMMA BoundFacts ==
  ASSUME NEW order, NEW cycles, NEW o, BoundTo(order, cycles, o)
  PROVE  /\ "order" \in DOMAIN o /\ o.order = order
         /\ o.type = "primitive" =>
              /\ o.modulus \in Moduli /\ GermDomain(order, cycles, cycles, o.modulus)
              /\ FirstVisibleAt(Germ(order, cycles, cycles, o.modulus), cycles)
              /\ o.first_visible_jet = cycles
              /\ o.column = Germ(order, cycles, cycles, o.modulus)[cycles]
<1>1. CASE o = [type |-> "order", order |-> order, version |-> 1]
  BY <1>1
<1>2. CASE \E m \in Moduli :
             /\ GermDomain(order, cycles, cycles, m)
             /\ FirstVisibleAt(Germ(order, cycles, cycles, m), cycles)
             /\ o = [type |-> "primitive", order |-> order, first_visible_jet |-> cycles,
                     column |-> Germ(order, cycles, cycles, m)[cycles], modulus |-> m]
  BY <1>2
<1> QED BY <1>1, <1>2 DEF BoundTo

LEMMA ClosedFacts ==
  ASSUME NEW v, SoundClosed(v)
  PROVE  /\ v.state \in States /\ Ramified(v.state)
         /\ v.observation.order = v.state.order
         /\ CanonicalStateBound(v)
         /\ v.certificate.observer \in {"order", "primitive"}
         /\ v.certificate.language \in Languages
<1>1. /\ v.state \in States /\ Ramified(v.state)
      /\ BoundTo(v.state.order, v.state.cycles, v.observation)
      /\ Certifies(v.state, v.certificate)
  BY DEF SoundClosed
<1>2. v.observation.order = v.state.order
  BY <1>1, BoundFacts
<1>3. /\ v.certificate.accepted /\ v.certificate.order = v.state.order
      /\ v.certificate.cycles = v.state.cycles
      /\ v.certificate.session = v.state.session
      /\ v.certificate.observer \in {"order", "primitive"}
      /\ v.certificate.language \in Languages
  BY <1>1, CertificateFacts
<1> QED BY <1>1, <1>2, <1>3 DEF CanonicalStateBound

LEMMA ClosedSound ==
  ASSUME NEW x \in States, Ramified(x), NEW o, BoundTo(x.order, x.cycles, o),
         NEW c, Certifies(x, c)
  PROVE  /\ Sound(Closed(x, o, c))
         /\ Closed(x, o, c).kind = "closed"
         /\ Closed(x, o, c).state = x
<1> DEFINE v == Closed(x, o, c)
<1>1. v.kind = "closed" /\ v.state = x /\ v.observation = o /\ v.certificate = c
  BY DEF Closed
<1>2. v = Closed(v.state, v.observation, v.certificate)
  BY <1>1
<1> HIDE DEF v
<1>3. Sound(v)
  BY <1>1, <1>2 DEF Sound, SoundClosed
<1> QED BY <1>1, <1>3 DEF v

LEMMA CutType ==
  ASSUME NEW c, SoundClosed(c)
  PROVE  CausalCut(c) \in Cuts
BY ClosedFacts DEF CausalCut, Cuts, States

LEMMA PacketSound ==
  ASSUME NEW c, SoundClosed(c)
  PROVE  /\ Sound(Packet(c))
         /\ Packet(c).kind = "packet" /\ Packet(c).observation = c.observation
         /\ Packet(c).cut.cycles = c.state.cycles
         /\ Packet(c).cut.session = c.state.session
<1> DEFINE p == Packet(c)
<1>1. p.kind = "packet" /\ p.observation = c.observation /\ p.cut = CausalCut(c)
  BY DEF Packet
<1>2. p = [kind |-> "packet", observation |-> p.observation, cut |-> p.cut]
  BY <1>1 DEF Packet
<1>3. /\ CausalCut(c).cycles = c.state.cycles
      /\ CausalCut(c).session = c.state.session
  BY DEF CausalCut
<1>4. c.observation.order \in 2..MaxWord
  BY ClosedFacts DEF States
<1>5. BoundTo(c.observation.order, CausalCut(c).cycles, c.observation)
  BY <1>3, ClosedFacts DEF SoundClosed
<1> HIDE DEF p
<1>6. Sound(p)
  BY <1>1, <1>2, <1>4, <1>5, CutType DEF Sound, SoundPacket
<1> QED BY <1>1, <1>3, <1>6 DEF p

\* The session of a sound value.
LEMMA SoundSession ==
  ASSUME NEW v, Sound(v), v # Nothing
  PROVE  SessionOf(v) \in Sessions
<1>1. CASE v \in States
  BY <1>1 DEF States, SessionOf, Carried
<1>2. CASE v \in Checkpoints
  BY <1>2 DEF Checkpoints, SessionOf, Carried
<1>3. CASE v.kind = "closed" /\ SoundClosed(v)
  <2>1. v.state \in States
    BY <1>3, ClosedFacts
  <2> QED BY <1>3, <2>1 DEF States, SessionOf, Carried
<1>4. CASE v.kind = "packet" /\ SoundPacket(v)
  <2>1. v.cut \in Cuts
    BY <1>4 DEF SoundPacket
  <2> QED BY <1>4, <2>1 DEF Cuts, SessionOf
<1> QED BY <1>1, <1>2, <1>3, <1>4 DEF Sound

(* --------------------------- the invariant ----------------------------- *)

LEMMA CountTyped ==
  ASSUME NEW C, Count(C), ledger \in [Counters -> 0..(CountModulus - 1)]
  PROVE  ledger' \in [Counters -> 0..(CountModulus - 1)]
<1>1. \A c \in Counters : (ledger[c] + 1) % CountModulus \in 0..(CountModulus - 1)
  <2> TAKE c \in Counters
  <2>1. ledger[c] + 1 \in Int
    BY BoundAssumption
  <2> QED BY <2>1, BoundAssumption, DivMod
<1> QED BY <1>1 DEF Count

\* A native or closing operation reads a slot and puts into another (or the
\* same) a sound value of the same session and the same uploaded order.
Derives(s, t, v) ==
  /\ held[s] # Nothing /\ v # Nothing
  /\ Sound(v)
  /\ SessionOf(v) = SessionOf(held[s])
  /\ Accounted(v) = Accounted(held[s])
  /\ Put(t, v)
  /\ UNCHANGED next
  /\ ledger' \in [Counters -> 0..(CountModulus - 1)]

LEMMA DerivesKeepsIInv ==
  ASSUME IInv, NEW s \in Slots, NEW t \in Slots, NEW v, Derives(s, t, v)
  PROVE  IInv'
<1> USE DEF IInv, Derives
<1>1. Issued(SessionOf(v), next)
  BY DEF SessionsIssued
<1>2. /\ DOMAIN held' = Slots
      /\ \A r \in Slots : held'[r] = v \/ held'[r] = held[r]
  BY DEF Put
<1>4. SlotsSound'
  <2> SUFFICES ASSUME NEW r \in Slots PROVE Sound(held'[r])
    BY DEF SlotsSound
  <2> QED BY <1>2 DEF SlotsSound
<1>5. SessionsIssued'
  <2> SUFFICES ASSUME NEW r \in Slots, held'[r] # Nothing
               PROVE  Issued(SessionOf(held'[r]), next')
    BY DEF SessionsIssued
  <2>1. CASE held'[r] = v
    BY <1>1, <2>1
  <2>2. CASE held'[r] = held[r]
    BY <2>2 DEF SessionsIssued
  <2> QED BY <1>2, <2>1, <2>2
<1> QED BY <1>2, <1>4, <1>5

LEMMA InitEstablishesIInv == Init => IInv
<1> SUFFICES ASSUME Init PROVE IInv
  OBVIOUS
<1> USE DEF Init
<1>1. next \in [Authorities -> 0..MaxSequence]
  BY BoundAssumption
<1>2. ledger \in [Counters -> 0..(CountModulus - 1)]
  BY BoundAssumption
<1>3. SlotsSound
  BY DEF SlotsSound, Sound
<1>4. SessionsIssued
  BY DEF SessionsIssued
<1> QED BY <1>1, <1>2, <1>3, <1>4 DEF IInv

LEMMA UploadKeepsIInv ==
  ASSUME IInv, NEW a \in Authorities, NEW order \in 2..MaxWord, NEW t \in Slots,
         Upload(a, order, t)
  PROVE  IInv'
<1> USE DEF IInv, Upload
<1> DEFINE v == FreshState(order, FreshSession(a))
<1>1. ledger' \in [Counters -> 0..(CountModulus - 1)]
  BY CountTyped
<1>2. next' \in [Authorities -> 0..MaxSequence]
      /\ \A b \in Authorities : next'[b] >= next[b]
      /\ next'[a] = next[a] + 1
  BY BoundAssumption
<1>3. FreshSession(a) \in Sessions
  <2>1. NumberOf[a] \in Nat \ {0}
    BY AuthorityAssumption
  <2>2. next[a] + 1 \in 1..MaxSequence
    BY BoundAssumption
  <2> QED BY <2>1, <2>2 DEF FreshSession, Sessions
<1>4. v \in States /\ Ramified(v) /\ v.session = FreshSession(a) /\ v.kind = "state"
  BY <1>3, FreshSound DEF FreshState
<1>5. /\ DOMAIN held' = Slots
      /\ \A s \in Slots : held'[s] = v \/ held'[s] = held[s]
  BY DEF Put
<1>6. Sound(v)
  BY <1>4 DEF Sound
<1>7. SlotsSound'
  <2> SUFFICES ASSUME NEW s \in Slots PROVE Sound(held'[s])
    BY DEF SlotsSound
  <2> HIDE DEF v
  <2> QED BY <1>5, <1>6 DEF SlotsSound
<1>8. SessionsIssued'
  <2> SUFFICES ASSUME NEW s \in Slots, held'[s] # Nothing
               PROVE  Issued(SessionOf(held'[s]), next')
    BY DEF SessionsIssued
  <2>1. CASE held'[s] = v
    <3>1. SessionOf(v) = FreshSession(a)
      BY <1>4 DEF SessionOf, Carried
    <3>2. Issued(FreshSession(a), next')
      BY <1>2, AuthorityAssumption DEF Issued, FreshSession
    <3> QED BY <2>1, <3>1, <3>2
  <2>2. CASE held'[s] = held[s]
    <3>1. PICK b \in Authorities : /\ SessionOf(held[s]).authority = NumberOf[b]
                                   /\ SessionOf(held[s]).sequence <= next[b]
      BY <2>2 DEF SessionsIssued, Issued
    <3>2. SessionOf(held[s]) \in Sessions
      BY <2>2, SoundSession DEF SlotsSound
    <3>3. SessionOf(held[s]).sequence <= next'[b]
      BY <1>2, <3>1, <3>2 DEF Sessions
    <3> QED BY <2>2, <3>1, <3>3 DEF Issued
  <2> HIDE DEF v
  <2> QED BY <1>5, <2>1, <2>2
<1> QED BY <1>1, <1>2, <1>5, <1>7, <1>8

\* What the invariant says of the value a slot holds.
LEMMA HeldFacts ==
  ASSUME IInv, NEW s \in Slots
  PROVE  /\ Sound(held[s])
         /\ held[s] # Nothing => Issued(SessionOf(held[s]), next)
BY DEF IInv, SlotsSound, SessionsIssued

\* A state made from a held value, with its session and its source order,
\* derives from it.
LEMMA StateDerives ==
  ASSUME IInv, NEW s \in Slots, NEW t \in Slots, held[s] # Nothing,
         NEW x \in States, Ramified(x), x.session = SessionOf(held[s]),
         x.source_order = Accounted(held[s]),
         Put(t, x), UNCHANGED next, NEW C, Count(C)
  PROVE  Derives(s, t, x)
<1>1. x.kind = "state" /\ x # Nothing
  BY DEF States, Nothing
<1>2. Sound(x)
  BY DEF Sound
<1>3. SessionOf(x) = SessionOf(held[s]) /\ Accounted(x) = Accounted(held[s])
  BY <1>1 DEF SessionOf, Accounted, Carried
<1>4. ledger' \in [Counters -> 0..(CountModulus - 1)]
  BY CountTyped DEF IInv
<1> QED BY <1>1, <1>2, <1>3, <1>4 DEF Derives

\* An operation on a state starts from a sound state.
LEMMA FromState ==
  ASSUME IInv, NEW s \in Slots, Is(s, "state")
  PROVE  /\ held[s] \in States /\ Ramified(held[s]) /\ held[s] # Nothing
         /\ SessionOf(held[s]) = held[s].session
         /\ Accounted(held[s]) = held[s].source_order
<1>1. held[s] \in States /\ Ramified(held[s])
  BY HeldFacts, KnownByKind DEF Is
<1>2. held[s] # Nothing
  BY DEF Is, Nothing
<1>3. SessionOf(held[s]) = held[s].session /\ Accounted(held[s]) = held[s].source_order
  BY DEF Is, SessionOf, Accounted, Carried
<1> QED BY <1>1, <1>2, <1>3

LEMMA RefusedKeepsIInv ==
  ASSUME IInv, UNCHANGED <<next, held>>, NEW C, Count(C)
  PROVE  IInv'
<1>1. ledger' \in [Counters -> 0..(CountModulus - 1)]
  BY CountTyped DEF IInv
<1>2. SlotsSound' /\ SessionsIssued'
  BY DEF IInv, SlotsSound, SessionsIssued
<1> QED BY <1>1, <1>2 DEF IInv

LEMMA ChangePresentationDerives ==
  ASSUME IInv, NEW s \in Slots, NEW t \in Slots,
         NEW p \in ValidPresentations(held[s].order), ChangePresentation(s, t, p)
  PROVE  Derives(s, t, Represented(held[s], p))
<1> DEFINE y == Represented(held[s], p)
<1>1. Is(s, "state")
  BY DEF ChangePresentation
<1>2. p \in Presentation
  <2>1. held[s].order \in Nat
    BY <1>1, FromState, StateFacts
  <2> QED BY <2>1 DEF ValidPresentations, Presentation
<1>3. y \in States /\ Ramified(y)
  BY <1>1, <1>2, FromState, RepresentedSound DEF ChangePresentation
<1>4. y.session = held[s].session /\ y.source_order = held[s].source_order
  BY <1>1, FromState DEF Represented, States
<1>5. Put(t, y) /\ UNCHANGED next /\ Count({"presentation_transports"})
  BY DEF ChangePresentation
<1> HIDE DEF y
<1>6. Derives(s, t, y)
  BY <1>1, <1>3, <1>4, <1>5, FromState, StateDerives
<1> QED BY <1>6 DEF y

LEMMA QuotientDerives ==
  ASSUME IInv, NEW s \in Slots, NEW t \in Slots, NEW m \in 2..held[s].order,
         Quotient(s, t, m)
  PROVE  Derives(s, t, QuotientState(held[s], m))
<1> DEFINE y == QuotientState(held[s], m)
<1>1. Is(s, "state")
  BY DEF Quotient
<1>2. m \in Nat /\ m >= 2 /\ held[s].order % m = 0
  BY <1>1, FromState, StateFacts DEF Quotient, QuotientAccepted
<1>3. y \in States /\ Ramified(y)
  BY <1>1, <1>2, FromState, QuotientSound
<1>4. y.session = held[s].session /\ y.source_order = held[s].source_order
  BY <1>1, FromState DEF QuotientState, States
<1>5. Put(t, y) /\ UNCHANGED next /\ Count({"native_quotients"})
  BY DEF Quotient
<1> HIDE DEF y
<1>6. Derives(s, t, y)
  BY <1>1, <1>3, <1>4, <1>5, FromState, StateDerives
<1> QED BY <1>6 DEF y

LEMMA ContinueDerives ==
  ASSUME IInv, NEW s \in Slots, NEW t \in Slots, NEW j \in Jets, Continue(s, t, j)
  PROVE  Derives(s, t, ContinuedState(held[s], j))
<1> DEFINE y == ContinuedState(held[s], j)
<1>1. Is(s, "state") /\ j \in 0..MaxWord
  BY InputAssumption DEF Continue
<1>2. y \in States /\ Ramified(y)
  BY <1>1, FromState, ContinuedSound DEF Continue
<1>3. y.session = held[s].session /\ y.source_order = held[s].source_order
  BY <1>1, FromState DEF ContinuedState, States
<1>4. Put(t, y) /\ UNCHANGED next /\ Count({"native_same_frame_continuations"})
  BY DEF Continue
<1> HIDE DEF y
<1>5. Derives(s, t, y)
  BY <1>1, <1>2, <1>3, <1>4, FromState, StateDerives
<1> QED BY <1>5 DEF y

LEMMA ExportDerives ==
  ASSUME IInv, NEW s \in Slots, NEW t \in Slots, Export(s, t)
  PROVE  Derives(s, t, Capsule(held[s]))
<1> DEFINE c == Capsule(held[s])
<1>1. Is(s, "state")
  BY DEF Export
<1>2. c \in Checkpoints /\ Ramified(c)
  BY <1>1, FromState, CapsuleSound
<1>3. /\ c.kind = "checkpoint" /\ c.session = held[s].session
      /\ c.source_order = held[s].source_order
  BY DEF Capsule
<1>4. Put(t, c) /\ UNCHANGED next /\ Count({"native_exports"})
  BY DEF Export
<1> HIDE DEF c
<1>5. Sound(c) /\ c # Nothing
  BY <1>2, <1>3 DEF Sound, Nothing
<1>6. SessionOf(c) = held[s].session /\ Accounted(c) = held[s].source_order
  BY <1>3 DEF SessionOf, Accounted, Carried
<1>7. ledger' \in [Counters -> 0..(CountModulus - 1)]
  BY <1>4, CountTyped DEF IInv
<1>8. Derives(s, t, c)
  BY <1>1, <1>4, <1>5, <1>6, <1>7, FromState DEF Derives
<1> QED BY <1>8 DEF c

LEMMA ImportDerives ==
  ASSUME IInv, NEW s \in Slots, NEW t \in Slots, Import(s, t)
  PROVE  Derives(s, t, ImportedState(held[s]))
<1> DEFINE y == ImportedState(held[s])
<1>1. held[s] \in Checkpoints /\ Ramified(held[s])
  BY HeldFacts, KnownByKind DEF Import, Is
<1>2. /\ held[s] # Nothing /\ SessionOf(held[s]) = held[s].session
      /\ Accounted(held[s]) = held[s].source_order
  BY DEF Import, Is, Nothing, SessionOf, Accounted, Carried
<1>3. /\ y \in States /\ Ramified(y) /\ y.session = held[s].session
      /\ y.source_order = held[s].source_order
  BY <1>1, ImportSound DEF ImportedState
<1>4. Put(t, y) /\ UNCHANGED next /\ Count({"native_imports"})
  BY DEF Import
<1> HIDE DEF y
<1>5. Derives(s, t, y)
  BY <1>2, <1>3, <1>4, StateDerives
<1> QED BY <1>5 DEF y

\* Both closures put an observation and a certificate of the state they read.
LEMMA ClosureDerives ==
  ASSUME IInv, NEW s \in Slots, NEW t \in Slots, Is(s, "state"),
         NEW o, BoundTo(held[s].order, held[s].cycles, o), NEW c, Certifies(held[s], c),
         Put(t, Closed(held[s], o, c)),
         UNCHANGED next, NEW C, Count(C)
  PROVE  Derives(s, t, Closed(held[s], o, c))
<1> DEFINE v == Closed(held[s], o, c)
<1>1. held[s] \in States /\ Ramified(held[s])
  BY FromState
<1>2. Sound(v) /\ v.kind = "closed" /\ v.state = held[s]
  BY <1>1, ClosedSound
<1>3. Put(t, v)
  OBVIOUS
<1> HIDE DEF v
<1>4. /\ SessionOf(v) = held[s].session /\ v # Nothing
      /\ Accounted(v) = held[s].source_order
  BY <1>2 DEF SessionOf, Accounted, Carried, Nothing
<1>5. ledger' \in [Counters -> 0..(CountModulus - 1)]
  BY CountTyped DEF IInv
<1>6. Derives(s, t, v)
  BY <1>2, <1>3, <1>4, <1>5, FromState DEF Derives
<1> QED BY <1>6 DEF v

LEMMA CloseOrderDerives ==
  ASSUME IInv, NEW s \in Slots, NEW t \in Slots, NEW l \in Languages,
         NEW v \in Versions, CloseOrder(s, t, l, v)
  PROVE  \E value : Derives(s, t, value)
<1> DEFINE o == [type |-> "order", order |-> held[s].order, version |-> 1]
           c == Certificate(held[s], OrderContract(l, v), 0, "native")
<1>1. BoundTo(held[s].order, held[s].cycles, o)
  BY DEF BoundTo
<1>2. Certifies(held[s], c)
  <2>1. OrderContract(l, v) \in Contracts
    BY DEF CloseOrder, Contracts
  <2> QED BY <2>1 DEF Certifies
<1>3. /\ Is(s, "state") /\ UNCHANGED next /\ Count({"closure_checks"})
      /\ Put(t, Closed(held[s], o, c))
  BY DEF CloseOrder
<1> HIDE DEF o, c
<1> QED BY <1>1, <1>2, <1>3, ClosureDerives

LEMMA ClosePrimitiveDerives ==
  ASSUME IInv, NEW s \in Slots, NEW t \in Slots, NEW d, NEW m \in Moduli,
         NEW v \in Versions, ClosePrimitive(s, t, d, m, v)
  PROVE  \E value : Derives(s, t, value)
<1> DEFINE o == [type |-> "primitive", order |-> held[s].order,
                 first_visible_jet |-> held[s].cycles,
                 column |-> PrimitiveGerm(held[s], m)[held[s].cycles],
                 modulus |-> m]
           c == Certificate(held[s], PrimitiveContract(v), held[s].cycles, "reference")
<1>1. BoundTo(held[s].order, held[s].cycles, o)
  BY DEF ClosePrimitive, PrimitiveAccepted, PrimitiveGerm, BoundTo
<1>2. Certifies(held[s], c)
  <2>1. PrimitiveContract(v) \in Contracts
    BY DEF ClosePrimitive, PrimitiveAccepted, Contracts
  <2> QED BY <2>1 DEF Certifies
<1>3. /\ Is(s, "state") /\ UNCHANGED next
      /\ Count({"closure_checks", "reference_germ_materializations"})
      /\ Put(t, Closed(held[s], o, c))
  BY DEF ClosePrimitive
<1> HIDE DEF o, c
<1> QED BY <1>1, <1>2, <1>3, ClosureDerives

LEMMA DownloadDerives ==
  ASSUME IInv, NEW s \in Slots, NEW t \in Slots, Download(s, t)
  PROVE  Derives(s, t, Packet(held[s]))
<1> DEFINE p == Packet(held[s])
           x == held[s].state
<1>1. /\ SoundClosed(held[s])
      /\ x \in States /\ Ramified(x) /\ held[s].observation.order = x.order
  BY HeldFacts, KnownByKind, ClosedFacts DEF Download, Is
<1>2. /\ held[s] # Nothing /\ SessionOf(held[s]) = x.session
      /\ Accounted(held[s]) = x.source_order
  BY DEF Download, Is, Nothing, SessionOf, Accounted, Carried
<1>3. Sound(p)
  BY <1>1, PacketSound
<1>4. /\ p.kind = "packet" /\ p.observation = held[s].observation
      /\ p.cut.cycles = x.cycles /\ p.cut.session = x.session
  BY <1>1, PacketSound
<1>5. Put(t, p) /\ UNCHANGED next /\ Count({"downloads"})
  BY DEF Download
<1> HIDE DEF p, x
<1>6. p # Nothing /\ SessionOf(p) = x.session
  BY <1>4 DEF Nothing, SessionOf
<1>7. Accounted(p) = x.source_order
  <2>1. Accounted(p) = x.cycles * x.order
    BY <1>1, <1>4 DEF Accounted
  <2>2. x.order \in Nat /\ x.cycles \in Nat /\ x.order * x.cycles = x.source_order
    BY <1>1, StateFacts
  <2> QED BY <2>1, <2>2
<1>8. ledger' \in [Counters -> 0..(CountModulus - 1)]
  BY <1>5, CountTyped DEF IInv
<1>9. Derives(s, t, p)
  BY <1>2, <1>3, <1>5, <1>6, <1>7, <1>8 DEF Derives
<1> QED BY <1>9 DEF p

\* What a step can be: an upload, a value derived from a held one, or an
\* operation that threw and left only its count.
LEMMA StepCases ==
  ASSUME IInv, Next
  PROVE  \/ \E a \in Authorities, order \in 2..MaxWord, t \in Slots :
              Upload(a, order, t)
         \/ \E s \in Slots, t \in Slots : \E v : Derives(s, t, v)
         \/ UNCHANGED <<next, held>> /\ \E C : Count(C)
<1>1. CASE UploadStep
  <2>1. PICK a \in Authorities :
          \/ UploadRefused(a)
          \/ \E t \in Slots, order \in Orders : Upload(a, order, t)
    BY <1>1 DEF UploadStep
  <2>2. CASE UploadRefused(a)
    BY <2>2 DEF UploadRefused
  <2>3. CASE \E t \in Slots, order \in Orders : Upload(a, order, t)
    BY <2>3, InputAssumption
  <2> QED BY <2>1, <2>2, <2>3
<1>2. CASE NativeStep
  <2>1. PICK s \in Slots, t \in Slots :
          \/ Is(s, "state") /\ \E p \in ValidPresentations(held[s].order) :
                                 ChangePresentation(s, t, p)
          \/ Is(s, "state") /\ \E m \in 2..held[s].order : Quotient(s, t, m)
          \/ \E j \in Jets : Continue(s, t, j)
          \/ Export(s, t)
          \/ Import(s, t)
    BY <1>2 DEF NativeStep
  <2>2. CASE \E p \in ValidPresentations(held[s].order) : ChangePresentation(s, t, p)
    BY <2>2, ChangePresentationDerives
  <2>3. CASE \E m \in 2..held[s].order : Quotient(s, t, m)
    BY <2>3, QuotientDerives
  <2>4. CASE \E j \in Jets : Continue(s, t, j)
    BY <2>4, ContinueDerives
  <2>5. CASE Export(s, t)
    BY <2>5, ExportDerives
  <2>6. CASE Import(s, t)
    BY <2>6, ImportDerives
  <2> QED BY <2>1, <2>2, <2>3, <2>4, <2>5, <2>6
<1>3. CASE ClosureStep
  <2>1. PICK s \in Slots, t \in Slots, v \in Versions :
          \/ \E l \in Languages : CloseOrder(s, t, l, v)
          \/ \E d \in Jets, m \in Moduli : ClosePrimitive(s, t, d, m, v)
          \/ \E d \in Jets, m \in Moduli : CloseRejected(s, d, m, v)
    BY <1>3 DEF ClosureStep
  <2>2. CASE \E l \in Languages : CloseOrder(s, t, l, v)
    BY <2>2, CloseOrderDerives
  <2>3. CASE \E d \in Jets, m \in Moduli : ClosePrimitive(s, t, d, m, v)
    BY <2>3, ClosePrimitiveDerives
  <2>4. CASE \E d \in Jets, m \in Moduli : CloseRejected(s, d, m, v)
    BY <2>4 DEF CloseRejected
  <2> QED BY <2>1, <2>2, <2>3, <2>4
<1>4. CASE DownloadStep
  <2>1. PICK s \in Slots, t \in Slots :
          \/ Download(s, t)
          \/ \E a \in Authorities : Reupload(s, a, t)
    BY <1>4 DEF DownloadStep
  <2>2. CASE Download(s, t)
    BY <2>2, DownloadDerives
  <2>3. CASE \E a \in Authorities : Reupload(s, a, t)
    <3>1. PICK a \in Authorities : Reupload(s, a, t)
      BY <2>3
    <3>2. held[s].observation.order \in 2..MaxWord
      BY <3>1, HeldFacts, KnownByKind DEF Reupload, Is, SoundPacket
    <3> QED BY <3>1, <3>2 DEF Reupload
  <2> QED BY <2>1, <2>2, <2>3
<1> QED BY <1>1, <1>2, <1>3, <1>4 DEF Next

LEMMA NextKeepsIInv == IInv /\ [Next]_vars => IInv'
<1> SUFFICES ASSUME IInv, [Next]_vars PROVE IInv'
  OBVIOUS
<1>1. CASE Next
  <2>1. CASE \E a \in Authorities, order \in 2..MaxWord, t \in Slots :
               Upload(a, order, t)
    BY <2>1, UploadKeepsIInv
  <2>2. CASE \E s \in Slots, t \in Slots : \E v : Derives(s, t, v)
    BY <2>2, DerivesKeepsIInv
  <2>3. CASE UNCHANGED <<next, held>> /\ \E C : Count(C)
    BY <2>3, RefusedKeepsIInv
  <2> QED BY <1>1, <2>1, <2>2, <2>3, StepCases
<1>2. CASE UNCHANGED vars
  <2>1. SlotsSound' /\ SessionsIssued'
    BY <1>2 DEF vars, IInv, SlotsSound, SessionsIssued
  <2> QED BY <1>2, <2>1 DEF vars, IInv
<1> QED BY <1>1, <1>2

(* ------------------------------ theorems ------------------------------- *)

\* Every value the operations build is sound and every session in use was
\* issued by an authority with its number.
THEOREM InvariantHolds == Spec => []IInv
BY InitEstablishesIInv, NextKeepsIInv, PTL DEF Spec

LEMMA InvariantImplies ==
  IInv => /\ TypeOK /\ RamificationConserved /\ ImportTotal /\ QuotientTotal
          /\ EquivalentPresentations
<1> SUFFICES ASSUME IInv
             PROVE  /\ TypeOK /\ RamificationConserved /\ ImportTotal
                    /\ QuotientTotal /\ EquivalentPresentations
  OBVIOUS
<1>1. TypeOK
  <2>1. \A s \in Slots : Sound(held[s])
    BY HeldFacts
  <2>2. \A s \in Slots : Is(s, "closed") => held[s].state \in States
    BY <2>1, KnownByKind, ClosedFacts DEF Is
  <2>3. \A s \in Slots :
          Is(s, "packet") => held[s].observation.order \in 2..MaxWord
    BY <2>1, KnownByKind DEF Is, SoundPacket
  <2> QED BY <2>1, <2>2, <2>3 DEF IInv, TypeOK, Sound, Is
<1>2. RamificationConserved
  BY HeldFacts, KnownByKind, ClosedFacts DEF RamificationConserved, Carries, Carried
<1>3. ImportTotal
  BY HeldFacts, KnownByKind, ImportSound DEF ImportTotal, Is
<1>4. QuotientTotal
  <2> SUFFICES ASSUME NEW s \in Slots, Is(s, "state"),
                      NEW m \in Divisors(held[s].order)
               PROVE  QuotientAccepted(held[s], m)
    BY DEF QuotientTotal
  <2>1. held[s] \in States /\ Ramified(held[s])
    BY FromState
  <2>2. m \in Nat /\ m >= 2 /\ held[s].order % m = 0
    BY <2>1, StateFacts DEF Divisors
  <2> QED BY <2>1, <2>2, QuotientSound
<1>5. EquivalentPresentations
  <2> SUFFICES ASSUME NEW s \in Slots, NEW t \in Slots,
                      Is(s, "state"), Is(t, "state"),
                      [held[s] EXCEPT !.origin = 0, !.presentation = 0]
                        = [held[t] EXCEPT !.origin = 0, !.presentation = 0]
               PROVE  TransportAccepted(held[s].presentation, held[t].presentation)
    BY DEF EquivalentPresentations
  <2>1. /\ held[s] \in States /\ Ramified(held[s])
        /\ held[t] \in States /\ Ramified(held[t])
    BY FromState
  <2>2. held[s].order = held[t].order
    <3>1. /\ [held[s] EXCEPT !.origin = 0, !.presentation = 0].order = held[s].order
          /\ [held[t] EXCEPT !.origin = 0, !.presentation = 0].order = held[t].order
      BY <2>1 DEF States
    <3> QED BY <3>1
  <2>3. /\ held[s].presentation \in Presentation /\ Valid(held[s].presentation)
        /\ held[t].presentation \in Presentation /\ Valid(held[t].presentation)
        /\ held[s].presentation.order = held[t].presentation.order
    BY <2>1, <2>2, StateFacts
  <2> QED BY <2>3, TransportTotal
<1> QED BY <1>1, <1>2, <1>3, <1>4, <1>5

\* Every slot always holds a well-formed value.
THEOREM TypeCorrect == Spec => []TypeOK
BY InvariantHolds, InvariantImplies, PTL

\* native_quotient, native_import and change_presentation never lose the
\* uploaded order: order times cycles stays what upload recorded.
THEOREM RamificationIsConserved == Spec => []RamificationConserved
BY InvariantHolds, InvariantImplies, PTL

\* native_import accepts every capsule native_export produced.
THEOREM ImportIsTotal == Spec => []ImportTotal
BY InvariantHolds, InvariantImplies, PTL

\* native_quotient rejects no divisor of the order of a state.
THEOREM QuotientIsTotal == Spec => []QuotientTotal
BY InvariantHolds, InvariantImplies, PTL

\* States that differ only in presentation and provenance are
\* presentation_equivalent.
THEOREM PresentationsAreEquivalent == Spec => []EquivalentPresentations
BY InvariantHolds, InvariantImplies, PTL

\* The three together: no operation refuses what the operations produced.
THEOREM OperationsAreTotal == Spec => []OperationsTotal
BY ImportIsTotal, QuotientIsTotal, PresentationsAreEquivalent, PTL DEF OperationsTotal

(* ------------------------------ sessions ------------------------------- *)

\* What the program must respect: no two authorities have one number.
NumbersDistinct ==
  \A a, b \in Authorities : NumberOf[a] = NumberOf[b] => a = b

\* Under that condition the session of an upload belongs to nothing held.
LEMMA FreshAmongHeld ==
  ASSUME IInv, NumbersDistinct, NEW a \in Authorities,
         NEW s \in Slots, held[s] # Nothing
  PROVE  SessionOf(held[s]) # FreshSession(a)
<1> SUFFICES ASSUME SessionOf(held[s]) = FreshSession(a) PROVE FALSE
  OBVIOUS
<1>1. PICK b \in Authorities : /\ SessionOf(held[s]).authority = NumberOf[b]
                               /\ SessionOf(held[s]).sequence <= next[b]
  BY HeldFacts DEF Issued
<1>2. NumberOf[b] = NumberOf[a] /\ next[a] + 1 <= next[b]
  BY <1>1 DEF FreshSession
<1>3. a = b
  BY <1>2 DEF NumbersDistinct
<1> QED BY <1>2, <1>3, BoundAssumption DEF IInv

LEMMA UploadPuts ==
  ASSUME IInv, NEW a \in Authorities, NEW order \in 2..MaxWord, NEW t \in Slots,
         Upload(a, order, t)
  PROVE  /\ held'[t] = FreshState(order, FreshSession(a))
         /\ \A s \in Slots : s # t => held'[s] = held[s]
         /\ held'[t].kind = "state" /\ held'[t].cycles = 1
         /\ held'[t].session = FreshSession(a)
         /\ SessionOf(held'[t]) = FreshSession(a)
<1>1. /\ held'[t] = FreshState(order, FreshSession(a))
      /\ \A s \in Slots : s # t => held'[s] = held[s]
  BY DEF Upload, Put, IInv
<1>2. /\ held'[t].kind = "state" /\ held'[t].cycles = 1
      /\ held'[t].session = FreshSession(a)
  BY <1>1 DEF FreshState
<1> QED BY <1>1, <1>2 DEF SessionOf, Carried

LEMMA StepOpensSession ==
  ASSUME NumbersDistinct, IInv, Next, next' # next
  PROVE  \E t \in Slots :
           /\ held'[t].kind = "state"
           /\ held'[t].cycles = 1
           /\ \A s \in Slots :
                held[s] # Nothing => SessionOf(held[s]) # held'[t].session
<1>1. PICK a \in Authorities, order \in 2..MaxWord, t \in Slots : Upload(a, order, t)
  BY StepCases DEF Derives
<1>2. /\ held'[t].kind = "state" /\ held'[t].cycles = 1
      /\ held'[t].session = FreshSession(a)
  BY <1>1, UploadPuts
<1> QED BY <1>2, FreshAmongHeld

LEMMA StepKeepsAccounts ==
  ASSUME NumbersDistinct, IInv, SessionAccountsForOneOrigin, [Next]_vars
  PROVE  SessionAccountsForOneOrigin'
<1> SUFFICES ASSUME NEW r \in Slots, NEW u \in Slots,
                    held'[r] # Nothing, held'[u] # Nothing,
                    SessionOf(held'[r]) = SessionOf(held'[u])
             PROVE  Accounted(held'[r]) = Accounted(held'[u])
  BY DEF SessionAccountsForOneOrigin
<1> USE DEF SessionAccountsForOneOrigin
<1>1. CASE Next
  <2>1. CASE \E a \in Authorities, order \in 2..MaxWord, t \in Slots :
               Upload(a, order, t)
    <3>1. PICK a \in Authorities, order \in 2..MaxWord, t \in Slots :
                 Upload(a, order, t)
      BY <2>1
    <3>2. /\ \A s \in Slots : s # t => held'[s] = held[s]
          /\ SessionOf(held'[t]) = FreshSession(a)
      BY <3>1, UploadPuts
    <3>3. \A s \in Slots : held[s] # Nothing => SessionOf(held[s]) # FreshSession(a)
      BY FreshAmongHeld
    <3>4. CASE r = t
      <4>1. u = t
        BY <3>2, <3>3, <3>4
      <4> QED BY <3>4, <4>1
    <3>5. CASE r # t
      <4>1. u # t
        BY <3>2, <3>3, <3>5
      <4> QED BY <3>2, <3>5, <4>1
    <3> QED BY <3>4, <3>5
  <2>2. CASE \E s \in Slots, t \in Slots : \E v : Derives(s, t, v)
    <3>1. PICK s \in Slots, t \in Slots : \E v : Derives(s, t, v)
      BY <2>2
    <3>2. PICK v : Derives(s, t, v)
      BY <3>1
    <3>3. /\ held[s] # Nothing
          /\ SessionOf(v) = SessionOf(held[s]) /\ Accounted(v) = Accounted(held[s])
          /\ \A q \in Slots : held'[q] = v \/ held'[q] = held[q]
      BY <3>2 DEF Derives, Put, IInv
    <3>4. \A q \in Slots : held'[q] # Nothing =>
            \E p \in Slots : /\ held[p] # Nothing
                             /\ SessionOf(held'[q]) = SessionOf(held[p])
                             /\ Accounted(held'[q]) = Accounted(held[p])
      <4> SUFFICES ASSUME NEW q \in Slots, held'[q] # Nothing
                   PROVE  \E p \in Slots :
                            /\ held[p] # Nothing
                            /\ SessionOf(held'[q]) = SessionOf(held[p])
                            /\ Accounted(held'[q]) = Accounted(held[p])
        OBVIOUS
      <4>1. CASE held'[q] = v
        BY <3>3, <4>1
      <4>2. CASE held'[q] = held[q]
        BY <4>2
      <4> QED BY <3>3, <4>1, <4>2
    <3>5. PICK p \in Slots : /\ held[p] # Nothing
                             /\ SessionOf(held'[r]) = SessionOf(held[p])
                             /\ Accounted(held'[r]) = Accounted(held[p])
      BY <3>4
    <3>6. PICK q \in Slots : /\ held[q] # Nothing
                             /\ SessionOf(held'[u]) = SessionOf(held[q])
                             /\ Accounted(held'[u]) = Accounted(held[q])
      BY <3>4
    <3>7. Accounted(held[p]) = Accounted(held[q])
      BY <3>5, <3>6
    <3> QED BY <3>5, <3>6, <3>7
  <2>3. CASE UNCHANGED <<next, held>>
    BY <2>3
  <2> QED BY <1>1, <2>1, <2>2, <2>3, StepCases
<1>2. CASE UNCHANGED vars
  BY <1>2 DEF vars
<1> QED BY <1>1, <1>2

\* An upload and a re-entry open a session that nothing held belongs to, if
\* the authorities have distinct numbers.
THEOREM UploadsAreFresh ==
  ASSUME NumbersDistinct
  PROVE  Spec => FreshUploads
<1>1. IInv /\ [Next]_vars =>
        [next' # next =>
           \E t \in Slots :
             /\ held'[t].kind = "state"
             /\ held'[t].cycles = 1
             /\ \A s \in Slots :
                  held[s] # Nothing => SessionOf(held[s]) # held'[t].session]_vars
  BY StepOpensSession DEF vars
<1> QED BY <1>1, InvariantHolds, PTL DEF Spec, FreshUploads

\* Whatever carries a session, receipts included, accounts for one uploaded
\* order, if the authorities have distinct numbers.
THEOREM SessionsAccountForOneOrigin ==
  ASSUME NumbersDistinct
  PROVE  Spec => []SessionAccountsForOneOrigin
<1>1. Init => SessionAccountsForOneOrigin
  BY DEF Init, SessionAccountsForOneOrigin
<1>2. IInv /\ SessionAccountsForOneOrigin /\ [Next]_vars
        => SessionAccountsForOneOrigin'
  BY StepKeepsAccounts
<1> QED BY <1>1, <1>2, InvariantHolds, PTL DEF Spec

(* ------------------------------ descents ------------------------------- *)

LEMMA ExactDivision ==
  ASSUME NEW n \in Nat, n > 0, NEW q \in Nat
  PROVE  (n * q) \div n = q
<1>1. /\ (n * q) \div n \in Int
      /\ n * q = n * ((n * q) \div n) + ((n * q) % n)
  BY DivMod
<1>2. (n * q) % n = 0
  <2>1. 0 \in 0..(n - 1) /\ q \in Int
    OBVIOUS
  <2>2. (n * q + 0) % n = 0
    BY <2>1, RemainderUnique
  <2> QED BY <2>2
<1>3. n * (((n * q) \div n) - q) = 0
  BY <1>1, <1>2
<1> QED BY <1>1, <1>3

\* A remainder modulo m, reduced modulo a divisor of m.
LEMMA RemainderOfRemainder ==
  ASSUME NEW n \in Nat, n > 0, NEW j \in Nat, NEW m \in Nat, m = n * j, m > 0
  PROVE  \A e \in Nat : (e % m) % n = e % n
<1> TAKE e \in Nat
<1> DEFINE a == e \div m
           r == e % m
           b == r \div n
           z == r % n
<1>1. a \in Int /\ r \in Nat /\ e = m * a + r
  BY DivMod
<1>2. b \in Int /\ z \in 0..(n - 1) /\ r = n * b + z
  BY <1>1, DivMod
<1> HIDE DEF a, r, b, z
<1>3. e = n * (j * a + b) + z
  <2>1. (n * j) * a = n * (j * a)
    BY <1>1
  <2>2. n * (j * a + b) = n * (j * a) + n * b
    BY <1>1, <1>2
  <2> QED BY <1>1, <1>2, <2>1, <2>2
<1>4. j * a + b \in Int
  BY <1>1, <1>2
<1>5. e % n = z
  BY <1>2, <1>3, <1>4, RemainderUnique
<1> QED BY <1>5 DEF z, r

\* Pushing a presentation down twice is pushing it down once.
LEMMA PushedTwice ==
  ASSUME NEW n \in Nat, n > 0, NEW j \in Nat, NEW m \in Nat, m = n * j, m > 0
  PROVE  \A p \in Presentation :
           PushedPresentation(PushedPresentation(p, m), n) = PushedPresentation(p, n)
<1> TAKE p \in Presentation
<1>1. p.exponent \in Nat /\ p.inverse \in Nat
  BY DEF Presentation
<1>2. \A e \in Nat : (e % m) % n = e % n
  BY RemainderOfRemainder, Zenon
<1>3. PushedPresentation(PushedPresentation(p, m), n)
        = [order |-> n, exponent |-> (p.exponent % m) % n,
           inverse |-> (p.inverse % m) % n]
  BY DEF PushedPresentation
<1>4. /\ (p.exponent % m) % n = p.exponent % n
      /\ (p.inverse % m) % n = p.inverse % n
  BY <1>1, <1>2, Zenon
<1> QED BY <1>3, <1>4 DEF PushedPresentation

\* A divisor of the order of a state, with its quotient.
LEMMA DivisorFacts ==
  ASSUME NEW order \in Nat, NEW m \in Divisors(order)
  PROVE  /\ m \in Nat /\ m >= 2 /\ m > 0
         /\ \E k \in Nat : order = m * k /\ order \div m = k
<1>1. m \in Nat /\ m >= 2 /\ m > 0 /\ m <= order /\ order % m = 0
  BY DEF Divisors
<1>2. order \div m \in Int /\ order = m * (order \div m)
  BY <1>1, DivMod
<1>3. order \div m \in Nat
  BY <1>1
<1> QED BY <1>1, <1>2, <1>3

\* States are equal when their fields are.
LEMMA SameFields ==
  ASSUME NEW x \in States, NEW y \in States,
         x.order = y.order, x.cycles = y.cycles, x.source_order = y.source_order,
         x.jet = y.jet, x.epoch = y.epoch, x.residual = y.residual,
         x.session = y.session, x.origin = y.origin,
         x.presentation = y.presentation
  PROVE  x = y
BY DEF States

LEMMA QuotientFields ==
  ASSUME NEW x \in States, NEW m
  PROVE  /\ QuotientState(x, m).order = m
         /\ QuotientState(x, m).cycles = x.cycles * (x.order \div m)
         /\ QuotientState(x, m).source_order = x.source_order
         /\ QuotientState(x, m).jet = x.jet
         /\ QuotientState(x, m).epoch = x.epoch
         /\ QuotientState(x, m).residual = x.residual
         /\ QuotientState(x, m).session = x.session
         /\ QuotientState(x, m).origin = "quotient"
         /\ QuotientState(x, m).presentation = PushedPresentation(x.presentation, m)
<1> DEFINE c == x.cycles * (x.order \div m)
           p == PushedPresentation(x.presentation, m)
<1>1. QuotientState(x, m) = [x EXCEPT !.order = m, !.cycles = c,
                                      !.origin = "quotient", !.presentation = p]
  BY DEF QuotientState, States
<1> HIDE DEF c, p
<1>2. /\ QuotientState(x, m).order = m /\ QuotientState(x, m).cycles = c
      /\ QuotientState(x, m).source_order = x.source_order
      /\ QuotientState(x, m).jet = x.jet /\ QuotientState(x, m).epoch = x.epoch
      /\ QuotientState(x, m).residual = x.residual
      /\ QuotientState(x, m).session = x.session
      /\ QuotientState(x, m).origin = "quotient"
      /\ QuotientState(x, m).presentation = p
  BY <1>1 DEF States
<1> QED BY <1>2 DEF c, p

LEMMA RepresentedFields ==
  ASSUME NEW x \in States, NEW p
  PROVE  /\ Represented(x, p).order = x.order
         /\ Represented(x, p).cycles = x.cycles
         /\ Represented(x, p).source_order = x.source_order
         /\ Represented(x, p).jet = x.jet /\ Represented(x, p).epoch = x.epoch
         /\ Represented(x, p).residual = x.residual
         /\ Represented(x, p).session = x.session
         /\ Represented(x, p).origin = x.origin
         /\ Represented(x, p).presentation = p
BY DEF Represented, States

LEMMA TwoDescents ==
  ASSUME NEW x \in States, Ramified(x),
         NEW m \in Divisors(x.order), NEW n \in Divisors(m)
  PROVE  QuotientState(QuotientState(x, m), n) = QuotientState(x, n)
<1> DEFINE y == QuotientState(x, m)
           u == QuotientState(y, n)
           v == QuotientState(x, n)
<1>1. x.order \in Nat /\ x.cycles \in Nat /\ x.presentation \in Presentation
  BY StateFacts
<1>2. PICK k \in Nat : x.order = m * k /\ x.order \div m = k
  BY <1>1, DivisorFacts
<1>3. m \in Nat /\ m > 0 /\ m >= 2
  BY <1>1, DivisorFacts
<1>4. PICK j \in Nat : m = n * j /\ m \div n = j
  BY <1>3, DivisorFacts
<1>5. n \in Nat /\ n > 0 /\ n >= 2
  BY <1>3, DivisorFacts
<1>6. x.order = n * (j * k) /\ j * k \in Nat
  BY <1>2, <1>4, <1>5
<1>7. x.order \div n = j * k
  BY <1>5, <1>6, ExactDivision
<1>8. x.order % n = 0
  <2> DEFINE q == j * k
  <2>1. 0 \in 0..(n - 1) /\ q \in Nat /\ x.order = n * q
    BY <1>5, <1>6
  <2> HIDE DEF q
  <2>2. (n * q + 0) % n = 0
    BY <1>5, <2>1, RemainderUnique
  <2> QED BY <1>5, <2>1, <2>2
<1>9. (x.cycles * k) * j = x.cycles * (j * k)
  BY <1>1, <1>2, <1>4
<1>10. PushedPresentation(PushedPresentation(x.presentation, m), n)
         = PushedPresentation(x.presentation, n)
  <2>1. \A p \in Presentation :
          PushedPresentation(PushedPresentation(p, m), n) = PushedPresentation(p, n)
    BY <1>3, <1>4, <1>5, PushedTwice, Zenon
  <2> QED BY <1>1, <2>1, Zenon
<1>11. y \in States /\ Ramified(y)
  BY <1>1, <1>3, QuotientSound DEF Divisors
<1>12. /\ y.order = m /\ y.cycles = x.cycles * k
       /\ y.source_order = x.source_order /\ y.jet = x.jet /\ y.epoch = x.epoch
       /\ y.residual = x.residual /\ y.session = x.session
       /\ y.presentation = PushedPresentation(x.presentation, m)
  BY <1>2, QuotientFields
<1>13. v \in States
  BY <1>5, <1>8, QuotientSound
<1> HIDE DEF y
<1>14. u \in States
  BY <1>5, <1>11, <1>12, QuotientSound DEF Divisors
<1>15. /\ u.order = n /\ u.cycles = y.cycles * (y.order \div n)
       /\ u.source_order = y.source_order /\ u.jet = y.jet /\ u.epoch = y.epoch
       /\ u.residual = y.residual /\ u.session = y.session
       /\ u.origin = "quotient"
       /\ u.presentation = PushedPresentation(y.presentation, n)
  BY <1>11, QuotientFields
<1>16. /\ v.order = n /\ v.cycles = x.cycles * (x.order \div n)
       /\ v.source_order = x.source_order /\ v.jet = x.jet /\ v.epoch = x.epoch
       /\ v.residual = x.residual /\ v.session = x.session
       /\ v.origin = "quotient"
       /\ v.presentation = PushedPresentation(x.presentation, n)
  BY QuotientFields
<1> HIDE DEF u, v
<1>17. u.cycles = v.cycles
  BY <1>4, <1>7, <1>9, <1>12, <1>15, <1>16
<1>18. u.presentation = v.presentation
  BY <1>10, <1>12, <1>15, <1>16
<1>19. u = v
  BY <1>12, <1>13, <1>14, <1>15, <1>16, <1>17, <1>18, SameFields
<1> QED BY <1>19 DEF u, v, y

\* Changing the presentation before a descent, or its image after it.
LEMMA DescentOfPresentation ==
  ASSUME NEW x \in States, Ramified(x), NEW m \in Divisors(x.order),
         NEW p \in Presentation, TransportAccepted(x.presentation, p)
  PROVE  QuotientState(Represented(x, p), m)
           = Represented(QuotientState(x, m), PushedPresentation(p, m))
<1> DEFINE r == Represented(x, p)
           y == QuotientState(x, m)
           q == PushedPresentation(p, m)
           u == QuotientState(r, m)
           v == Represented(y, q)
<1>1. x.order \in Nat /\ m \in Nat /\ m >= 2 /\ m > 0 /\ x.order % m = 0
  BY StateFacts, DivisorFacts DEF Divisors
<1>2. r \in States /\ Ramified(r)
  BY RepresentedSound
<1>3. /\ r.order = x.order /\ r.cycles = x.cycles
      /\ r.source_order = x.source_order /\ r.jet = x.jet /\ r.epoch = x.epoch
      /\ r.residual = x.residual /\ r.session = x.session /\ r.presentation = p
  BY RepresentedFields
<1>4. y \in States
  BY <1>1, QuotientSound
<1>5. /\ y.order = m /\ y.cycles = x.cycles * (x.order \div m)
      /\ y.source_order = x.source_order /\ y.jet = x.jet /\ y.epoch = x.epoch
      /\ y.residual = x.residual /\ y.session = x.session
      /\ y.origin = "quotient"
  BY QuotientFields
<1> HIDE DEF r, y
<1>6. u \in States
  BY <1>1, <1>2, <1>3, QuotientSound
<1>7. /\ u.order = m /\ u.cycles = r.cycles * (r.order \div m)
      /\ u.source_order = r.source_order /\ u.jet = r.jet /\ u.epoch = r.epoch
      /\ u.residual = r.residual /\ u.session = r.session
      /\ u.origin = "quotient" /\ u.presentation = PushedPresentation(r.presentation, m)
  BY <1>2, QuotientFields
<1>8. q \in Presentation
  BY <1>6, <1>7, <1>3 DEF States
<1>9. v \in States
  BY <1>4, <1>8 DEF Represented, States
<1>10. /\ v.order = y.order /\ v.cycles = y.cycles
       /\ v.source_order = y.source_order /\ v.jet = y.jet /\ v.epoch = y.epoch
       /\ v.residual = y.residual /\ v.session = y.session
       /\ v.origin = y.origin /\ v.presentation = q
  BY <1>4, RepresentedFields
<1>11. u.presentation = q
  BY <1>3, <1>7
<1> HIDE DEF u, v, q
<1>12. u = v
  BY <1>3, <1>5, <1>6, <1>7, <1>9, <1>10, <1>11, SameFields
<1> QED BY <1>12 DEF u, v, q, r, y

\* Descending through a divisor, or changing presentation on the way, ends in
\* the same state.
THEOREM QuotientIsFunctorial == Spec => []QuotientFunctorial
<1>1. IInv => QuotientFunctorial
  <2> SUFFICES ASSUME IInv, NEW s \in Slots, Is(s, "state"),
                      NEW m \in Divisors(held[s].order)
               PROVE  /\ \A n \in Divisors(m) :
                           QuotientState(QuotientState(held[s], m), n)
                             = QuotientState(held[s], n)
                      /\ \A p \in ValidPresentations(held[s].order) :
                           QuotientState(Represented(held[s], p), m)
                             = Represented(QuotientState(held[s], m),
                                           PushedPresentation(p, m))
    BY DEF QuotientFunctorial
  <2>1. held[s] \in States /\ Ramified(held[s])
    BY FromState
  <2>2. held[s].order \in Nat /\ m \in Nat
    BY <2>1, StateFacts, DivisorFacts
  <2>3. ValidPresentations(held[s].order) \subseteq Presentation
    BY <2>2 DEF ValidPresentations, Presentation
  <2>4. \A n \in Divisors(m) :
          QuotientState(QuotientState(held[s], m), n) = QuotientState(held[s], n)
    BY <2>1, TwoDescents
  <2>5. \A p \in ValidPresentations(held[s].order) :
          QuotientState(Represented(held[s], p), m)
            = Represented(QuotientState(held[s], m), PushedPresentation(p, m))
    <3> TAKE p \in ValidPresentations(held[s].order)
    <3>1. p \in Presentation /\ Valid(p) /\ p.order = held[s].order
      BY <2>3 DEF ValidPresentations
    <3>2. TransportAccepted(held[s].presentation, p)
      BY <2>1, <3>1, StateFacts, TransportTotal
    <3> QED BY <2>1, <3>1, <3>2, DescentOfPresentation
  <2> QED BY <2>4, <2>5
<1> QED BY <1>1, InvariantHolds, PTL

(* ------------------------------ closures ------------------------------- *)

\* The germ of an uploaded order t * c, folded onto t, is the germ of t.
LEMMA FoldedUploadIs ==
  ASSUME NEW t \in Nat, t >= 2, NEW c \in Nat, c >= 1, NEW n \in Nat, n = t * c,
         NEW J \in Nat, J >= 1, NEW m \in Nat, m >= 3
  PROVE  FoldedUpload(n, t, J, m) = GermPrefix(t, J, m, n)
<1>1. n >= 2 /\ n % t = 0
  <2>1. n >= t
    OBVIOUS
  <2>2. 0 \in 0..(t - 1) /\ c \in Int /\ t > 0
    OBVIOUS
  <2>3. (t * c + 0) % t = 0
    BY <2>2, RemainderUnique
  <2> QED BY <2>1, <2>3
<1>2. DividesInto(n, t) /\ Shape(n, J, m) /\ Shape(t, J, m)
  BY <1>1 DEF DividesInto, Shape
<1>3. PICK G : Germs(n, J, m, G)
  BY <1>2, GermsExist
<1>4. PICK H : Germs(t, J, m, H)
  BY <1>2, GermsExist
<1>5. Germ(n, 1, J, m) = G[n]
  <2>1. 1 * n = n
    OBVIOUS
  <2> QED BY <1>3, <2>1, GermsAreReturned DEF Germ
<1>6. GermPrefix(t, J, m, n) = H[n]
  BY <1>4, GermsAreReturned
<1>7. PushforwardGerm(G[n], n, t, m) = H[n]
  BY <1>2, <1>3, <1>4, GermsFold
<1> QED BY <1>5, <1>6, <1>7 DEF FoldedUpload

\* A longer jet of the germ appears where the jet that ends at the multiplicity
\* does; a shorter one does not appear there.
LEMMA HorizonsAgree ==
  ASSUME NEW t \in Nat, t >= 2, NEW c \in Nat, c >= 1, NEW n \in Nat,
         NEW J \in Nat, J >= 1, NEW m \in Nat, m >= 3
  PROVE  FirstVisibleAt(GermPrefix(t, J, m, n), c)
           <=> c <= J /\ FirstVisibleAt(GermPrefix(t, c, m, n), c)
<1>1. Shape(t, J, m) /\ Shape(t, c, m)
  BY DEF Shape
<1>2. PICK G : Germs(t, J, m, G)
  BY <1>1, GermsExist
<1>3. PICK H : Germs(t, c, m, H)
  BY <1>1, GermsExist
<1>4. PICK g, h : g = GermPrefix(t, J, m, n) /\ h = GermPrefix(t, c, m, n)
  OBVIOUS
<1>5. g = G[n] /\ h = H[n]
  BY <1>2, <1>3, <1>4, GermsAreReturned
<1>6. DOMAIN g = 0 .. J /\ DOMAIN h = 0 .. c
  BY <1>2, <1>3, <1>5 DEF Germs, Grown, JetTensors
<1>7. CASE c <= J
  <2>1. \A d \in 0 .. c : g[d] = h[d]
    BY <1>1, <1>2, <1>3, <1>5, <1>7, GermsAgree
  <2>2. (\A d \in 0 .. J : d < c => Vanishes(g[d]))
          <=> (\A d \in 0 .. c : d < c => Vanishes(h[d]))
    BY <1>7, <2>1
  <2>3. c \in 0 .. J /\ c \in 0 .. c /\ g[c] = h[c]
    BY <1>7, <2>1
  <2> QED BY <1>4, <1>6, <1>7, <2>2, <2>3 DEF FirstVisibleAt
<1>8. CASE ~(c <= J)
  BY <1>4, <1>6, <1>8 DEF FirstVisibleAt
<1> QED BY <1>7, <1>8

\* A state is closed exactly if the folded germ of its upload appears at the
\* index of its descents, within the horizon that is reached.
LEMMA ClosureSeesUpload ==
  ASSUME NEW x \in States, Ramified(x), NEW declared \in Jets, NEW m \in Moduli
  PROVE  PrimitiveAccepted(x, declared, m, 1) <=>
           /\ GermDomain(x.source_order, 1, Reached(x, declared, m), m)
           /\ FirstVisibleAt(FoldedUpload(x.source_order, x.order, Reached(x, declared, m), m),
                             x.source_order \div x.order)
<1> DEFINE J == Reached(x, declared, m)
<1>1. PICK t \in Nat, c \in Nat, n \in Nat :
        /\ t = x.order /\ c = x.cycles /\ n = x.source_order
        /\ t >= 2 /\ c >= 1 /\ n = t * c
  BY StateFacts
<1>2. declared \in Nat /\ m \in Nat /\ x.jet \in Nat
  BY BoundAssumption, InputAssumption DEF States
<1>3. n \div t = c /\ n >= 2
  <2>1. n >= t
    BY <1>1
  <2> QED BY <1>1, <2>1, ExactDivision
<1>4. J \in Int /\ \A e \in Nat : e <= J <=> e <= declared /\ e <= x.jet /\ e <= m - 1
  BY <1>2 DEF Reached, Smaller
<1>5. PrimitiveAccepted(x, declared, m, 1) <=>
        /\ declared >= c /\ x.jet >= c
        /\ m >= 3 /\ c < m
        /\ FirstVisibleAt(Germ(t, c, c, m), c)
  BY <1>1, <1>2
     DEF PrimitiveAccepted, ReadyForPrimitive, PrimitiveGerm, GermDomain
<1>6. Germ(t, c, c, m) = GermPrefix(t, c, m, n)
  BY <1>1 DEF Germ
<1>7. GermDomain(n, 1, J, m) <=> J # 0 /\ m >= 3 /\ J < m
  BY <1>1, <1>2, <1>3 DEF GermDomain
<1> HIDE DEF J
<1>8. ASSUME J >= 1, m >= 3
      PROVE  FirstVisibleAt(FoldedUpload(n, t, J, m), c)
               <=> c <= J /\ FirstVisibleAt(GermPrefix(t, c, m, n), c)
  <2>1. J \in Nat
    BY <1>4, <1>8
  <2>2. FoldedUpload(n, t, J, m) = GermPrefix(t, J, m, n)
    BY <1>1, <1>2, <1>8, <2>1, FoldedUploadIs
  <2> QED BY <1>1, <1>2, <1>8, <2>1, <2>2, HorizonsAgree
<1>9. CASE m >= 3
  <2>1. J >= 0 /\ J < m
    <3>1. 0 <= J
      BY <1>2, <1>4, <1>9
    <3>2. ~(J >= m)
      BY <1>2, <1>4, <3>1
    <3> QED BY <1>2, <1>4, <3>1, <3>2
  <2>2. CASE J = 0
    <3>1. ~(c <= J)
      BY <1>1, <2>2
    <3>2. ~(declared >= c /\ x.jet >= c /\ c < m)
      BY <1>1, <1>2, <1>4, <3>1
    <3> QED BY <1>1, <1>5, <1>7, <2>2, <3>2 DEF J
  <2>3. CASE J # 0
    <3>1. J >= 1
      BY <1>4, <2>1, <2>3
    <3>2. c <= J <=> declared >= c /\ x.jet >= c /\ c < m
      BY <1>1, <1>2, <1>4
    <3> QED BY <1>1, <1>3, <1>5, <1>6, <1>7, <1>8, <1>9, <2>1, <2>3, <3>1, <3>2 DEF J
  <2> QED BY <2>2, <2>3
<1>10. CASE ~(m >= 3)
  BY <1>1, <1>5, <1>7, <1>10 DEF J
<1> QED BY <1>9, <1>10

\* A primitive observation holds the column of its upload's folded germ.
LEMMA ObservationIsOfUpload ==
  ASSUME NEW t \in Nat, t >= 2, NEW c \in Nat, c >= 1, NEW n \in Nat, n = t * c,
         NEW o, BoundTo(t, c, o), o.type = "primitive"
  PROVE  LET folded == FoldedUpload(n, o.order, o.first_visible_jet, o.modulus)
         IN  /\ FirstVisibleAt(folded, o.first_visible_jet)
             /\ o.column = folded[o.first_visible_jet]
<1>1. /\ o.order = t /\ o.first_visible_jet = c
      /\ o.modulus \in Moduli /\ GermDomain(t, c, c, o.modulus)
      /\ FirstVisibleAt(Germ(t, c, c, o.modulus), c)
      /\ o.column = Germ(t, c, c, o.modulus)[c]
  BY BoundFacts
<1>2. PICK m \in Nat : m = o.modulus /\ m >= 3
  <2>1. o.modulus \in Nat
    <3>1. o.modulus \in 0..MaxWord
      BY <1>1, InputAssumption
    <3> QED BY <3>1, BoundAssumption
  <2>2. o.modulus >= 3
    BY <1>1 DEF GermDomain
  <2> QED BY <2>1, <2>2
<1>3. Germ(t, c, c, m) = GermPrefix(t, c, m, n)
  <2>1. c * t = n
    OBVIOUS
  <2> QED BY <2>1 DEF Germ
<1>4. FoldedUpload(n, t, c, m) = GermPrefix(t, c, m, n)
  BY <1>2, FoldedUploadIs
<1> QED BY <1>1, <1>2, <1>3, <1>4

\* close_primitive_observation shows the upload: it closes a state exactly if
\* the germ of the uploaded order, folded onto the order of now, appears at the
\* index of the descents within the horizon reached, and what it binds, and a
\* packet carries, is the column with which that folded germ appears.
THEOREM PrimitivesFoldTheUpload == Spec => []PrimitiveFoldsUpload
<1>1. IInv => PrimitiveFoldsUpload
  <2> SUFFICES ASSUME IInv, NEW s \in Slots
               PROVE  /\ Is(s, "state") =>
                           \A declared \in Jets, m \in Moduli :
                             PrimitiveAccepted(held[s], declared, m, 1) <=>
                               /\ GermDomain(held[s].source_order, 1,
                                             Reached(held[s], declared, m), m)
                               /\ FirstVisibleAt(
                                    FoldedUpload(held[s].source_order, held[s].order,
                                                 Reached(held[s], declared, m), m),
                                    held[s].source_order \div held[s].order)
                      /\ Reports(held[s]) =>
                           LET o == held[s].observation
                               folded == FoldedUpload(Accounted(held[s]), o.order,
                                                      o.first_visible_jet, o.modulus)
                           IN  /\ FirstVisibleAt(folded, o.first_visible_jet)
                               /\ o.column = folded[o.first_visible_jet]
    BY DEF PrimitiveFoldsUpload
  <2>1. ASSUME Is(s, "state"), NEW declared \in Jets, NEW m \in Moduli
        PROVE  PrimitiveAccepted(held[s], declared, m, 1) <=>
                 /\ GermDomain(held[s].source_order, 1, Reached(held[s], declared, m), m)
                 /\ FirstVisibleAt(FoldedUpload(held[s].source_order, held[s].order,
                                                Reached(held[s], declared, m), m),
                                   held[s].source_order \div held[s].order)
    BY <2>1, FromState, ClosureSeesUpload
  <2>2. ASSUME Reports(held[s])
        PROVE  LET o == held[s].observation
                   folded == FoldedUpload(Accounted(held[s]), o.order,
                                          o.first_visible_jet, o.modulus)
               IN  /\ FirstVisibleAt(folded, o.first_visible_jet)
                   /\ o.column = folded[o.first_visible_jet]
    <3>1. CASE held[s].kind = "closed"
      <4>1. /\ held[s].state \in States /\ Ramified(held[s].state)
            /\ BoundTo(held[s].state.order, held[s].state.cycles, held[s].observation)
        BY <3>1, HeldFacts, KnownByKind DEF SoundClosed
      <4>2. Accounted(held[s]) = held[s].state.source_order
        BY <3>1 DEF Accounted, Carried
      <4> QED BY <2>2, <4>1, <4>2, StateFacts, ObservationIsOfUpload DEF Reports
    <3>2. CASE held[s].kind = "packet"
      <4>1. SoundPacket(held[s])
        BY <3>2, HeldFacts, KnownByKind
      <4>2. PICK t \in Nat, c \in Nat :
              /\ t = held[s].observation.order /\ c = held[s].cut.cycles
              /\ t >= 2 /\ c >= 1 /\ BoundTo(t, c, held[s].observation)
        <5>1. held[s].observation.order \in Nat /\ held[s].observation.order >= 2
          BY <4>1, BoundAssumption DEF SoundPacket
        <5>2. held[s].cut.cycles \in Nat /\ held[s].cut.cycles >= 1
          <6>1. held[s].cut \in Cuts
            BY <4>1 DEF SoundPacket
          <6>2. held[s].cut.cycles \in 1..MaxWord
            BY <6>1 DEF Cuts
          <6> QED BY <6>2, BoundAssumption
        <5>3. BoundTo(held[s].observation.order, held[s].cut.cycles, held[s].observation)
          BY <4>1 DEF SoundPacket
        <5> QED BY <5>1, <5>2, <5>3
      <4>3. Accounted(held[s]) = t * c /\ t * c \in Nat
        BY <3>2, <4>2 DEF Accounted
      <4> QED BY <2>2, <4>2, <4>3, ObservationIsOfUpload DEF Reports
    <3> QED BY <2>2, <3>1, <3>2 DEF Reports
  <2> QED BY <2>1, <2>2
<1> QED BY <1>1, InvariantHolds, PTL

\* What the validator compares: the observation and every field of the cut.
LEMMA AcceptedMeansEqual ==
  ASSUME NEW c, SoundClosed(c), NEW o, NEW cut \in Cuts,
         NEW p, p = [kind |-> "packet", observation |-> o, cut |-> cut]
  PROVE  PacketAccepted(c, p) <=> p = Packet(c)
<1>1. CanonicalStateBound(c) /\ CausalCut(c) \in Cuts
  BY ClosedFacts, CutType
<1>2. PacketAccepted(c, p) <=> (o = c.observation /\ cut = CausalCut(c))
  <2>1. PacketAccepted(c, p) <=>
          /\ o = c.observation
          /\ cut.session = c.state.session /\ cut.origin = c.state.origin
          /\ cut.observer = c.certificate.observer
          /\ cut.language = c.certificate.language
          /\ cut.cycles = c.state.cycles /\ cut.epoch = c.state.epoch
          /\ cut.residual = c.state.residual
          /\ cut.no_resume /\ cut.fresh_upload
    BY <1>1 DEF PacketAccepted
  <2>2. cut = CausalCut(c) <=>
          /\ cut.session = c.state.session /\ cut.origin = c.state.origin
          /\ cut.observer = c.certificate.observer
          /\ cut.language = c.certificate.language
          /\ cut.cycles = c.state.cycles /\ cut.epoch = c.state.epoch
          /\ cut.residual = c.state.residual
          /\ cut.no_resume /\ cut.fresh_upload
    BY DEF CausalCut, Cuts
  <2> QED BY <2>1, <2>2
<1>3. p = Packet(c) <=> (o = c.observation /\ cut = CausalCut(c))
  <2>1. Packet(c) = [kind |-> "packet", observation |-> c.observation,
                     cut |-> CausalCut(c)]
    BY DEF Packet
  <2>2. p.observation = o /\ p.cut = cut
    OBVIOUS
  <2>3. Packet(c).observation = c.observation /\ Packet(c).cut = CausalCut(c)
    BY <2>1
  <2> QED BY <2>1, <2>2, <2>3
<1> QED BY <1>2, <1>3

LEMMA ClosedDomain ==
  ASSUME NEW c, SoundClosed(c)
  PROVE  "order" \in DOMAIN c.observation
BY BoundFacts DEF SoundClosed

\* Whatever field of its packet is altered, the validator refuses it.
LEMMA AlteredIsRefused ==
  ASSUME NEW c, SoundClosed(c), NEW p \in Altered(Packet(c))
  PROVE  ~PacketAccepted(c, p)
<1> DEFINE cut == CausalCut(c)
           o == c.observation
           q == [kind |-> "packet", observation |-> o, cut |-> cut]
<1>1. cut \in Cuts /\ o.order \in Nat
  BY CutType, ClosedFacts, StateFacts
<1>2. Packet(c) = q
  BY DEF Packet
<1>3. /\ cut.session = c.state.session /\ cut.origin = c.state.origin
      /\ cut.observer = c.certificate.observer
      /\ cut.language = c.certificate.language
      /\ cut.cycles = c.state.cycles /\ cut.epoch = c.state.epoch
      /\ cut.residual = c.state.residual
  BY DEF CausalCut
<1> SUFFICES ASSUME PacketAccepted(c, p) PROVE FALSE
  OBVIOUS
<1>4. /\ p.observation = o
      /\ p.cut.session = cut.session /\ p.cut.origin = cut.origin
      /\ p.cut.observer = cut.observer /\ p.cut.language = cut.language
      /\ p.cut.cycles = cut.cycles /\ p.cut.epoch = cut.epoch
      /\ p.cut.residual = cut.residual
      /\ p.cut.no_resume = TRUE /\ p.cut.fresh_upload = TRUE
  <2> HIDE DEF cut, q
  <2> QED BY <1>3 DEF PacketAccepted
<1>5. /\ cut.session \in Sessions /\ cut.cycles \in Nat /\ cut.epoch \in Nat
      /\ cut.residual \in Nat /\ cut.no_resume = TRUE /\ cut.fresh_upload = TRUE
      /\ cut.session.sequence \in Nat /\ cut.session.authority \in Nat
  <2> HIDE DEF cut
  <2>1. /\ cut.session \in Sessions /\ cut.cycles \in 1..MaxWord
        /\ cut.epoch \in 0..MaxEpoch /\ cut.residual \in 0..MaxEpoch
        /\ cut.no_resume = TRUE /\ cut.fresh_upload = TRUE
    BY <1>1 DEF Cuts
  <2>2. cut.session.sequence \in Nat /\ cut.session.authority \in Nat
    BY <2>1, BoundAssumption DEF Sessions
  <2> QED BY <2>1, <2>2, BoundAssumption
<1>6. p \in Altered(q)
  BY <1>2
<1>7. DOMAIN q = {"kind", "observation", "cut"} /\ q.cut = cut /\ q.observation = o
  OBVIOUS
<1>8. DOMAIN cut = {"session", "origin", "observer", "language", "cycles", "epoch",
                    "residual", "no_resume", "fresh_upload"}
  BY DEF CausalCut
<1>9. DOMAIN cut.session = {"authority", "sequence"}
  BY <1>5 DEF Sessions
<1> HIDE DEF cut, q
<1>10. CASE p = [q EXCEPT !.cut.session.sequence = @ + 1]
  <2>1. p.cut.session.sequence = cut.session.sequence + 1
    BY <1>7, <1>8, <1>9, <1>10
  <2> QED BY <1>4, <1>5, <2>1
<1>11. CASE p = [q EXCEPT !.cut.session.authority = @ + 1]
  <2>1. p.cut.session.authority = cut.session.authority + 1
    BY <1>7, <1>8, <1>9, <1>11
  <2> QED BY <1>4, <1>5, <2>1
<1>12. CASE p = [q EXCEPT !.cut.cycles = @ + 1]
  <2>1. p.cut.cycles = cut.cycles + 1
    BY <1>7, <1>8, <1>12
  <2> QED BY <1>4, <1>5, <2>1
<1>13. CASE p = [q EXCEPT !.cut.epoch = @ + 1]
  <2>1. p.cut.epoch = cut.epoch + 1
    BY <1>7, <1>8, <1>13
  <2> QED BY <1>4, <1>5, <2>1
<1>14. CASE p = [q EXCEPT !.cut.residual = @ + 1]
  <2>1. p.cut.residual = cut.residual + 1
    BY <1>7, <1>8, <1>14
  <2> QED BY <1>4, <1>5, <2>1
<1>15. CASE p = [q EXCEPT !.cut.no_resume = ~@]
  <2>1. p.cut.no_resume = ~cut.no_resume
    BY <1>7, <1>8, <1>15
  <2> QED BY <1>4, <1>5, <2>1
<1>16. CASE p = [q EXCEPT !.cut.fresh_upload = ~@]
  <2>1. p.cut.fresh_upload = ~cut.fresh_upload
    BY <1>7, <1>8, <1>16
  <2> QED BY <1>4, <1>5, <2>1
<1>17. CASE p = [q EXCEPT !.cut.observer = IF @ = "order" THEN "primitive"
                                           ELSE "order"]
  <2>1. p.cut.observer = IF cut.observer = "order" THEN "primitive" ELSE "order"
    BY <1>7, <1>8, <1>17
  <2> QED BY <1>4, <2>1
<1>18. CASE p = [q EXCEPT !.cut.language = IF @ = "frozen" THEN "same_frame"
                                           ELSE "frozen"]
  <2>1. p.cut.language = IF cut.language = "frozen" THEN "same_frame" ELSE "frozen"
    BY <1>7, <1>8, <1>18
  <2> QED BY <1>4, <2>1
<1>19. CASE p = [q EXCEPT !.observation.order = @ + 1]
  <2>1. "order" \in DOMAIN o
    BY ClosedDomain
  <2>2. p.observation.order = o.order + 1
    BY <1>7, <1>19, <2>1
  <2> QED BY <1>1, <1>4, <2>2
<1>20. CASE p \in {[q EXCEPT !.cut.origin = a] : a \in Origins \ {q.cut.origin}}
  <2>1. PICK a \in Origins \ {q.cut.origin} : p = [q EXCEPT !.cut.origin = a]
    BY <1>20
  <2>2. p.cut.origin = a /\ a # cut.origin
    BY <1>7, <1>8, <2>1
  <2> QED BY <1>4, <2>2
<1> QED BY <1>6, <1>10, <1>11, <1>12, <1>13, <1>14, <1>15, <1>16, <1>17, <1>18,
           <1>19, <1>20 DEF Altered

\* validate_download_packet accepts the packet download builds and no other:
\* no field of it may differ, whichever closure the packet came from.
THEOREM ValidationIsExact == Spec => []ValidationExact
<1>1. IInv => ValidationExact
  <2> SUFFICES ASSUME IInv, NEW s \in Slots, Is(s, "closed")
               PROVE  /\ PacketAccepted(held[s], Packet(held[s]))
                      /\ \A p \in Altered(Packet(held[s])) :
                           ~PacketAccepted(held[s], p)
                      /\ \A t \in Slots :
                           Is(t, "packet") =>
                             (PacketAccepted(held[s], held[t])
                                <=> held[t] = Packet(held[s]))
    BY DEF ValidationExact
  <2>1. SoundClosed(held[s])
    BY HeldFacts, KnownByKind DEF Is
  <2>2. PacketAccepted(held[s], Packet(held[s]))
    <3>1. CausalCut(held[s]) \in Cuts
      BY <2>1, CutType
    <3>2. Packet(held[s])
            = [kind |-> "packet", observation |-> held[s].observation,
               cut |-> CausalCut(held[s])]
      BY DEF Packet
    <3> QED BY <2>1, <3>1, <3>2, AcceptedMeansEqual
  <2>3. \A p \in Altered(Packet(held[s])) : ~PacketAccepted(held[s], p)
    BY <2>1, AlteredIsRefused
  <2>4. ASSUME NEW t \in Slots, Is(t, "packet")
        PROVE  PacketAccepted(held[s], held[t]) <=> held[t] = Packet(held[s])
    <3>1. SoundPacket(held[t])
      BY <2>4, HeldFacts, KnownByKind DEF Is
    <3>2. /\ held[t].cut \in Cuts
          /\ held[t] = [kind |-> "packet", observation |-> held[t].observation,
                        cut |-> held[t].cut]
      BY <3>1 DEF SoundPacket
    <3> QED BY <2>1, <3>2, AcceptedMeansEqual
  <2> QED BY <2>2, <2>3, <2>4
<1> QED BY <1>1, InvariantHolds, PTL

(* ------------------------------- origins ------------------------------- *)

Origin == "fresh_origins_created"

\* The origins counter moves with the uploads and their refusals alone.
LEMMA OriginSteps ==
  ASSUME IInv, Next, Origin \in Counters
  PROVE  \/ \E a \in Authorities, order \in 2..MaxWord, t \in Slots :
              Upload(a, order, t)
         \/ \E a \in Authorities : UploadRefused(a)
         \/ next' = next /\ ledger'[Origin] = ledger[Origin]
<1> USE DEF Count, Origin
<1>1. CASE UploadStep
  BY <1>1, InputAssumption DEF UploadStep
<1>2. CASE NativeStep
  <2>1. PICK s \in Slots, t \in Slots :
          \/ Is(s, "state") /\ \E p \in ValidPresentations(held[s].order) :
                                 ChangePresentation(s, t, p)
          \/ Is(s, "state") /\ \E m \in 2..held[s].order : Quotient(s, t, m)
          \/ \E j \in Jets : Continue(s, t, j)
          \/ Export(s, t)
          \/ Import(s, t)
    BY <1>2 DEF NativeStep
  <2> QED BY <2>1 DEF ChangePresentation, Quotient, Continue, Export, Import
<1>3. CASE ClosureStep
  <2>1. PICK s \in Slots, t \in Slots, v \in Versions :
          \/ \E l \in Languages : CloseOrder(s, t, l, v)
          \/ \E d \in Jets, m \in Moduli : ClosePrimitive(s, t, d, m, v)
          \/ \E d \in Jets, m \in Moduli : CloseRejected(s, d, m, v)
    BY <1>3 DEF ClosureStep
  <2> QED BY <2>1 DEF CloseOrder, ClosePrimitive, CloseRejected
<1>4. CASE DownloadStep
  <2>1. PICK s \in Slots, t \in Slots :
          \/ Download(s, t)
          \/ \E a \in Authorities : Reupload(s, a, t)
    BY <1>4 DEF DownloadStep
  <2>2. CASE Download(s, t)
    BY <2>2 DEF Download
  <2>3. CASE \E a \in Authorities : Reupload(s, a, t)
    <3>1. PICK a \in Authorities : Reupload(s, a, t)
      BY <2>3
    <3>2. held[s].observation.order \in 2..MaxWord
      BY <3>1, HeldFacts, KnownByKind DEF Reupload, Is, SoundPacket
    <3> QED BY <3>1, <3>2 DEF Reupload
  <2> QED BY <2>1, <2>2, <2>3
<1> QED BY <1>1, <1>2, <1>3, <1>4 DEF Next

\* A counter and a number it follows modulo M still agree after both count.
LEMMA BothCount ==
  ASSUME NEW M \in Nat, M > 0, NEW n \in Int, NEW c, c = n % M
  PROVE  (c + 1) % M = (n + 1) % M
<1>1. n \div M \in Int /\ c \in 0..(M - 1) /\ n = M * (n \div M) + c
  BY DivMod
<1> DEFINE q == n \div M
<1> HIDE DEF q
<1>2. q \in Int /\ n = M * q + c
  BY <1>1 DEF q
<1>3. (c + 1) \div M \in Int /\ (c + 1) % M \in 0..(M - 1)
      /\ c + 1 = M * ((c + 1) \div M) + ((c + 1) % M)
  BY <1>1, DivMod
<1> DEFINE p == (c + 1) \div M
           r == (c + 1) % M
<1> HIDE DEF p, r
<1>4. p \in Int /\ r \in 0..(M - 1) /\ c + 1 = M * p + r
  BY <1>3 DEF p, r
<1>5. n + 1 = M * (q + p) + r /\ q + p \in Int
  BY <1>1, <1>2, <1>4
<1>6. (n + 1) % M = r
  BY <1>4, <1>5, RemainderUnique
<1> QED BY <1>6 DEF r

LEMMA StepKeepsOrigins ==
  ASSUME IInv, OriginsAccounted, [Next]_vars
  PROVE  OriginsAccounted'
<1> DEFINE total == SumOver(next, Authorities)
<1> SUFFICES ASSUME Origin \in Counters, \A a \in Authorities : next'[a] < MaxSequence
             PROVE  ledger'[Origin] = SumOver(next', Authorities) % CountModulus
  BY DEF OriginsAccounted, SumOver, MapThenSumSet, MapThenFoldSet, Origin
<1>1. next \in [Authorities -> 0..MaxSequence] /\ MaxSequence \in Nat
  BY BoundAssumption DEF IInv
<1>2. (\A a \in Authorities : next[a] < MaxSequence)
        => ledger[Origin] = total % CountModulus
  BY DEF OriginsAccounted, SumOver, Origin
<1>3. Summable(next, Authorities) /\ total \in Int
  <2>1. Summable(next, Authorities)
    BY <1>1, AuthorityAssumption DEF Summable
  <2> QED BY <2>1, SumType
<1>4. CASE \E a \in Authorities, order \in 2..MaxWord, t \in Slots :
             Upload(a, order, t)
  <2>1. PICK a \in Authorities : \E order \in 2..MaxWord, t \in Slots :
                                   Upload(a, order, t)
    BY <1>4
  <2>2. /\ next' = [next EXCEPT ![a] = next[a] + 1]
        /\ ledger'[Origin] = (ledger[Origin] + 1) % CountModulus
    BY <2>1 DEF Upload, Count, UploadCounters, Origin
  <2>3. \A b \in Authorities : next[b] < MaxSequence
    BY <1>1, <2>2
  <2>4. SumOver(next', Authorities) = total + 1
    <3>1. next'[a] = next[a] + 1 /\ next[a] \in Int
          /\ \A b \in Authorities : b # a => next'[b] = next[b]
      BY <1>1, <2>2
    <3>2. SumOver(next', Authorities) = total - next[a] + next'[a]
      BY <1>3, <3>1, SumExcept
    <3> QED BY <1>3, <3>1, <3>2
  <2>5. ledger[Origin] = total % CountModulus
    BY <1>2, <2>3
  <2> HIDE DEF total
  <2> QED BY <1>3, <2>2, <2>4, <2>5, BothCount, BoundAssumption
<1>5. CASE \E a \in Authorities : UploadRefused(a)
  BY <1>1, <1>5 DEF UploadRefused
<1>6. CASE next' = next /\ ledger'[Origin] = ledger[Origin]
  BY <1>2, <1>6
<1>7. CASE UNCHANGED vars
  BY <1>2, <1>7 DEF vars
<1> QED BY <1>4, <1>5, <1>6, <1>7, OriginSteps

\* While no authority is exhausted, the ledger's origins are the sessions
\* issued, however many authorities share the ledger and however often its
\* counter wraps.
THEOREM OriginsAreAccounted == Spec => []OriginsAccounted
<1>1. Init => OriginsAccounted
  <2> SUFFICES ASSUME Init, Origin \in Counters
               PROVE  0 = SumOver(next, Authorities) % CountModulus
    BY DEF Init, OriginsAccounted, SumOver, Origin
  <2>1. SumOver(next, Authorities) = 0
    BY AuthorityAssumption, SumOfZeros DEF Init
  <2> QED BY <2>1, BoundAssumption
<1>2. IInv /\ OriginsAccounted /\ [Next]_vars => OriginsAccounted'
  BY StepKeepsOrigins
<1> QED BY <1>1, <1>2, InvariantHolds, PTL DEF Spec
===============================================================================
