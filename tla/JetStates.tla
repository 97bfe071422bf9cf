------------------------------- MODULE JetStates -------------------------------
(***************************************************************************)
(* CertifiedPrincipalJetState of afac57/principal_jet_algebra.hpp: what a  *)
(* state is compiled from, what its verifier accepts, and which states are *)
(* taken for equal.                                                        *)
(***************************************************************************)
EXTENDS QpochPrograms

Empty == <<>>

StateSeal(opcode, effect) == <<"state", opcode, effect>>

\* PrincipalJetMachine::compile.  The seals of the parents are left out of the
\* certificate: they would make a state grow with its history.
Compile(source, length, opcode) ==
  LET program == BuildProgram(length)
      effect  == ExecuteJet(program, source)
  IN  [program |-> program, effect |-> effect,
       certificate |-> [opcode |-> opcode, jet |-> effect.certificate,
                        interval |-> effect.interval, valuation |-> effect.valuation,
                        seal |-> StateSeal(opcode, effect)]]

Source(s)    == s.effect.interval.source
Target(s)    == s.effect.interval.target
Valuation(s) == s.effect.valuation
IsUnit(s)    == Valuation(s) = Zero

\* PrincipalJetVerifier::verify of a state.
StateAccepted(s) ==
  /\ ProgramAccepted(s.program)
  /\ Target(s) = Add(Source(s), s.program.length)
  /\ Valuation(s) = s.program.length
  /\ s.certificate.jet = s.effect.certificate
  /\ s.certificate.interval = s.effect.interval
  /\ s.certificate.valuation = s.effect.valuation
  /\ s.certificate.seal = StateSeal(s.certificate.opcode, s.effect)

\* Variant: intervals of one length are taken to be one jet.
SameJetByValuation(left, right) == Valuation(left) = Valuation(right)

\* same_principal_jet
SameJet(left, right) ==
  \/ IsUnit(left) /\ IsUnit(right)
  \/ /\ Source(left) = Source(right)
     /\ Target(left) = Target(right)
     /\ Valuation(left) = Valuation(right)
===============================================================================
