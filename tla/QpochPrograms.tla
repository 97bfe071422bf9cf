----------------------------- MODULE QpochPrograms -----------------------------
(***************************************************************************)
(* The logarithmic native state of afac56/log_native.hpp.  An interval of  *)
(* length n is compiled into a program of at most 2 log n opcodes, which   *)
(* follows the bits of n from the highest: double the interval, append one *)
(* factor.  Executed from a source it yields a normalized jet: the         *)
(* interval, its valuation and a certificate.  A seal stands for the data  *)
(* it mixes; mix64 is taken to have no collisions.                         *)
(***************************************************************************)
EXTENDS BigNaturals

Opcodes == {"Unit", "SeedFactor", "DoubleWithContextShift", "AppendShiftedSingleton"}

BitFromMsb(n, offset) == Bit(n, BitLength(n) - 1 - offset)

ProgramSeal(length, opcodes) == <<"program", length, opcodes>>

\* CompactQpochProgram::import_untrusted
Program(length, opcodes) ==
  [length |-> length, opcodes |-> opcodes, seal |-> ProgramSeal(length, opcodes)]

\* What the bit at an offset adds to a program.
OpcodesOfBit(length, offset) ==
  <<"DoubleWithContextShift">> \o
    (IF BitFromMsb(length, offset) = 1 THEN <<"AppendShiftedSingleton">> ELSE <<>>)

\* build_qpoch_program
BuildProgram(length) ==
  LET bits == BitLength(length)
  IN  Program(length,
        IF bits = 0 THEN <<"Unit">>
        ELSE <<"SeedFactor">> \o FlattenSeq([o \in 1 .. bits - 1 |-> OpcodesOfBit(length, o)]))

\* The cursor of the verifier after the bits up to an offset, -1 once an
\* opcode is not the one the bit asks for.
Cursor(program, offset) ==
  LET code == program.opcodes
      At(c, opcode) == c < Len(code) /\ code[c + 1] = opcode
      cursor[o \in 0..offset] ==
        IF o = 0 THEN IF At(0, "SeedFactor") THEN 1 ELSE -1
        ELSE LET before == cursor[o - 1]
                 marked == BitFromMsb(program.length, o) = 1
             IN  IF /\ before # -1
                    /\ At(before, "DoubleWithContextShift")
                    /\ marked => At(before + 1, "AppendShiftedSingleton")
                   THEN before + (IF marked THEN 2 ELSE 1)
                   ELSE -1
  IN  cursor[offset]

\* Variant: opcodes behind the last bit are not looked at.
GrammarValidAsPrefix(program) ==
  LET bits == BitLength(program.length)
  IN  IF bits = 0 THEN program.opcodes = <<"Unit">>
      ELSE Cursor(program, bits - 1) # -1

GrammarValid(program) ==
  LET bits == BitLength(program.length)
  IN  IF bits = 0 THEN program.opcodes = <<"Unit">>
      ELSE Cursor(program, bits - 1) = Len(program.opcodes)

\* verify_qpoch_program, and certify_qpoch_program, which keeps what it accepts.
ProgramAccepted(program) ==
  /\ program.seal = ProgramSeal(program.length, program.opcodes)
  /\ \A i \in DOMAIN program.opcodes : program.opcodes[i] \in Opcodes
  /\ GrammarValid(program)

(* ------------------------------ coordinates ------------------------------ *)

\* FactorialIntervalCoordinate::make: the factors source + 1 .. target.
IsInterval(source, target) == LessOrEqual(source, target)
Interval(source, target)   == [source |-> source, target |-> target]

\* make_jet_certificate
JetCertificate(program, source, interval, valuation) ==
  [program_binding |-> program.seal, source_binding |-> source,
   interval_binding |-> interval, valuation_binding |-> valuation,
   bits |-> Larger(1, BitLength(program.length)), opcodes |-> Len(program.opcodes)]

\* execute_normalized_jet; IsInterval is the check that throws.
ExecuteJet(program, source) ==
  LET interval == Interval(source, Add(source, program.length))
  IN  [interval    |-> interval,
       valuation   |-> program.length,
       certificate |-> JetCertificate(program, source, interval, program.length)]

\* FactoradicInteger::canonical_digit, the number coefficient * rank!.
CanonicalDigit(rank, coefficient) ==
  rank # Zero /\ coefficient # 0 /\ LessOrEqual(OneLimb(coefficient), rank)

Digit(rank, coefficient) == [rank |-> rank, coefficient |-> coefficient]

\* The rank that stands for target!: 0! is 1!.
Rank(target) == IF target = Zero THEN OneLimb(1) ELSE target

\* scalarize_source_zero
Scalarize(effect) ==
  LET value == Digit(Rank(effect.interval.target), 1)
  IN  [value |-> value, certificate |-> [jet |-> effect.certificate, result_binding |-> value]]

\* AFAC_LOG_NATIVE
LogNative(n) ==
  LET program == BuildProgram(n)
      effect  == ExecuteJet(program, Zero)
  IN  [program |-> program, effect |-> effect, result |-> Scalarize(effect)]

\* IndependentVerifier::verify
ResultAccepted(input, execution) ==
  LET jet   == JetCertificate(execution.program, Zero, Interval(Zero, input), input)
      digit == Digit(Rank(input), 1)
  IN  /\ ProgramAccepted(execution.program) /\ execution.program.length = input
      /\ execution.effect.interval = Interval(Zero, input)
      /\ execution.effect.valuation = input
      /\ execution.effect.certificate = jet
      /\ CanonicalDigit(digit.rank, digit.coefficient)
      /\ execution.result.value = digit
      /\ execution.result.certificate = [jet |-> jet, result_binding |-> digit]

-------------------------------------------------------------------------------
(* Reference definitions *)

\* The factors a program multiplies, as offsets from its source with how often
\* each occurs: doubling repeats the interval behind itself, which is the
\* context shift, and appending adds the factor behind it.
Shifted(factors, by) == [i \in 1 .. Len(factors) |-> factors[i] + by]

Expansion(opcodes) ==
  FoldLeft(LAMBDA factors, opcode :
             CASE opcode = "Unit" -> factors
               [] opcode = "SeedFactor" -> Append(factors, 1)
               [] opcode = "DoubleWithContextShift" -> factors \o Shifted(factors, Len(factors))
               [] opcode = "AppendShiftedSingleton" -> Append(factors, Len(factors) + 1),
           <<>>, opcodes)

\* Each factor of an interval of a length exactly once, in order.
FactorsUpTo(length) == [i \in 1..length |-> i]
===============================================================================
