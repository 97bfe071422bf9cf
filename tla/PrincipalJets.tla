----------------------------- MODULE PrincipalJets -----------------------------
(***************************************************************************)
(* The jet algebra of afac57/principal_jet_algebra.hpp as a register       *)
(* machine: states are uploaded, imported from a factorial, multiplied,    *)
(* divided and subtracted in any order.  A state is an interval (a, b] of  *)
(* factors and stands for the normalized jet                               *)
(*                                                                         *)
(*    G(T) = T^-(b-a) * product over k = a+1 .. b of (1 - (1+T)^k);        *)
(*                                                                         *)
(* an operation that the intervals do not prove closed answers with a      *)
(* continuation.  The algebra never expands a polynomial: the variable     *)
(* jets does, truncated and modulo a prime, with polynomial arithmetic.    *)
(***************************************************************************)
EXTENDS JetStates

CONSTANTS
  Registers,
  Sources, Lengths,   \* of the intervals that are uploaded
  Inputs,             \* whose factorials are imported
  ProgramLengths,     \* of the programs that are certified
  MaxTarget           \* bound on the target of an upload and of a product

VARIABLES
  states,    \* the certified state in each register, or Empty
  jets,      \* reference: the jet it should stand for
  result     \* of the operation last tried

vars == <<states, jets, result>>

Held(r) == states[r] # Empty

\* No register is in use and none will be.
Idle ==
  /\ states = [r \in Registers |-> Empty]
  /\ jets = [r \in Registers |-> <<>>]
  /\ result = [kind |-> "idle"]

(* ----------------------- the reference: polynomials ---------------------- *)

Prime  == 211   \* larger than every factor, so each jet has an inverse
Degree == 2

InverseMod(x) == CHOOSE y \in 1 .. Prime - 1 : (x * y) % Prime = 1

Times(f, g) ==
  [d \in 0..Degree |->
     FoldLeft(LAMBDA sum, i : (sum + f[i - 1] * g[d - (i - 1)]) % Prime,
              0, [i \in 1 .. d + 1 |-> i])]

Choose2(k) == (k * (k - 1)) \div 2
Choose3(k) == (k * (k - 1) * (k - 2)) \div 6

\* (1 - (1+T)^k) / T
FactorJet(k) ==
  [d \in 0..Degree |-> (-(CASE d = 0 -> k [] d = 1 -> Choose2(k) [] d = 2 -> Choose3(k))) % Prime]

UnitJet == [d \in 0..Degree |-> IF d = 0 THEN 1 ELSE 0]

\* The power series with which a jet multiplies to 1.
InverseJet(f) ==
  LET lead == InverseMod(f[0])
      g[d \in 0..Degree] ==
        IF d = 0 THEN lead
        ELSE (-lead * FoldLeft(LAMBDA sum, i : (sum + f[i] * g[d - i]) % Prime,
                               0, [i \in 1..d |-> i])) % Prime
  IN  g

\* The product over the factors after the first a up to the b-th.
IntervalJets ==
  [a \in 0..MaxTarget |->
     [b \in a..MaxTarget |->
        FoldLeft(Times, UnitJet, [i \in 1 .. b - a |-> FactorJet(a + i)])]]

IntervalJet(a, b) == IntervalJets[a][b]

(* ------------------------------- operations ------------------------------ *)

Store(r, state, jet) ==
  /\ states' = [states EXCEPT ![r] = state]
  /\ jets' = [jets EXCEPT ![r] = jet]
  /\ result' = [kind |-> "state"]

\* HigherJetContinuation: the operands stay where they are.
Continuation(reason, left, right) ==
  /\ result' = [kind |-> "continuation", reason |-> reason,
                required |-> Incremented(IF Less(Valuation(left), Valuation(right))
                                           THEN Valuation(right) ELSE Valuation(left))]
  /\ UNCHANGED <<states, jets>>

\* upload_interval
Upload(r, a, length) ==
  /\ a + length <= MaxTarget
  /\ Store(r, Compile(LimbsOf(a), LimbsOf(length), "UploadInterval"), IntervalJet(a, a + length))

\* import_r56_factorial_jet, of an execution that may belong to another input.
Import(r, input, executed) ==
  IF ResultAccepted(LimbsOf(input), LogNative(LimbsOf(executed)))
    THEN Store(r, Compile(Zero, LimbsOf(input), "ImportR56FactorialJet"), IntervalJet(0, executed))
    ELSE result' = [kind |-> "rejected", own |-> input = executed] /\ UNCHANGED <<states, jets>>

Contiguous(left, right) == Target(left) = Source(right)

Fits(s) == NumberOf(Target(s)) <= MaxTarget

\* hmul into a register.
Multiply(r, i, j) ==
  LET left == states[i]  right == states[j]
  IN  IF ~Contiguous(left, right)
        THEN Continuation("NonContiguousFactorIntervals", left, right)
        ELSE /\ Fits(right)
             /\ LET length == Add(Valuation(left), Valuation(right))
                IN  Store(r, Compile(Source(left), length, "HMulContiguous"),
                          Times(jets[i], jets[j]))

\* Variant: a suffix is cancelled although the numerator begins after it.
CancelsAnySuffix(numerator, denominator) ==
  Target(numerator) = Target(denominator)

CancelsPrefix(numerator, denominator) ==
  /\ Source(numerator) = Source(denominator)
  /\ LessOrEqual(Target(denominator), Target(numerator))

CancelsSuffix(numerator, denominator) ==
  /\ Target(numerator) = Target(denominator)
  /\ LessOrEqual(Source(numerator), Source(denominator))

Quotient(numerator, denominator) ==
  SubtractExact(Valuation(numerator), Valuation(denominator))

\* hdiv: the certified factors are tried in this order.
DivisionBy(numerator, denominator) ==
  IF IsUnit(denominator)
    THEN Compile(Source(numerator), Valuation(numerator), "HDivUnit")
  ELSE IF CancelsPrefix(numerator, denominator)
    THEN Compile(Target(denominator), Quotient(numerator, denominator), "HDivCancelPrefix")
  ELSE IF CancelsSuffix(numerator, denominator)
    THEN Compile(Source(numerator), Quotient(numerator, denominator), "HDivCancelSuffix")
  ELSE Empty

Divide(r, i, j) ==
  LET quotient == DivisionBy(states[i], states[j])
  IN  IF quotient = Empty
        THEN Continuation("DenominatorNotCertifiedFactor", states[i], states[j])
        ELSE Store(r, quotient, Times(jets[i], InverseJet(jets[j])))

\* hsub: exact zero, or a continuation.
Subtract(i, j) ==
  IF SameJet(states[i], states[j])
    THEN result' = [kind |-> "zero"] /\ UNCHANGED <<states, jets>>
    ELSE Continuation("NonReflexiveInterferenceNeedsHigherJet", states[i], states[j])

\* A program that is not what was built: an opcode changed, dropped or added.
Tampered(opcodes) ==
  {[opcodes EXCEPT ![i] = o] : i \in DOMAIN opcodes, o \in Opcodes}
    \cup {RemoveAt(opcodes, i) : i \in DOMAIN opcodes}
    \cup {InsertAt(opcodes, i, o) : i \in 1 .. Len(opcodes) + 1, o \in Opcodes}

\* certify_qpoch_program of an imported program.  It touches no register.
Certify(length) ==
  /\ result.kind \in {"none", "certified", "refused"}
  /\ \E opcodes \in Tampered(BuildProgram(LimbsOf(length)).opcodes) :
       LET program == Program(LimbsOf(length), opcodes)
       IN  result' = IF ProgramAccepted(program)
                       THEN [kind |-> "certified", program |-> program]
                       ELSE [kind |-> "refused"]
  /\ UNCHANGED <<states, jets>>

-------------------------------------------------------------------------------
Init ==
  /\ states = [r \in Registers |-> Empty]
  /\ jets = [r \in Registers |-> UnitJet]
  /\ result = [kind |-> "none"]

Next ==
  \/ \E length \in ProgramLengths : Certify(length)
  \/ \E r \in Registers :
       \/ \E a \in Sources, length \in Lengths : Upload(r, a, length)
       \/ \E input, executed \in Inputs : Import(r, input, executed)
  \/ \E i, j \in Registers :
       /\ Held(i) /\ Held(j)
       /\ \/ \E r \in Registers : Multiply(r, i, j) \/ Divide(r, i, j)
          \/ Subtract(i, j)

Spec == Init /\ [][Next]_vars

-------------------------------------------------------------------------------
(* Properties *)

\* Whatever operations led to a state, it passes its verifier, its numbers have
\* no leading limb, its program expands to the factors of its interval, each
\* once, and the interval stands for the jet the operations should have given.
\* An import is rejected only if it is of another factorial.
StatesDenoteJets ==
  /\ \A r \in Registers : Held(r) =>
       LET s == states[r]
       IN  /\ StateAccepted(s)
           /\ \A n \in {Source(s), Target(s), Valuation(s)} : Canonical(n)
           /\ Expansion(s.program.opcodes) = FactorsUpTo(NumberOf(Valuation(s)))
           /\ NumberOf(Target(s)) - NumberOf(Source(s)) = NumberOf(Valuation(s))
           /\ jets[r] = IntervalJet(NumberOf(Source(s)), NumberOf(Target(s)))
  /\ result.kind = "rejected" => ~result.own

\* A subtraction answers with exact zero for equal jets and for no others: the
\* three numbers it compares decide the equality of two polynomials.
ZeroIsExact ==
  \A i, j \in Registers : Held(i) /\ Held(j) =>
    (SameJet(states[i], states[j]) <=> jets[i] = jets[j])

\* A program that is certified, whoever wrote it, is the expansion of its
\* length.
CertifiedProgramsDenote ==
  result.kind = "certified" =>
    Expansion(result.program.opcodes) = FactorsUpTo(NumberOf(result.program.length))
===============================================================================
