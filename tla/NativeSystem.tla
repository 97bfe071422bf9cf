------------------------------ MODULE NativeSystem ------------------------------
(***************************************************************************)
(* The native states and what is observed through them: the jet algebra,   *)
(* in which states are made from states (PrincipalJets), and the pipeline, *)
(* in which the state of one factorial is bound, viewed and observed       *)
(* (PrimePipeline).  They share JetStates and no memory; a behaviour is in *)
(* one of them from beginning to end.  The limbs of the jets are narrower, *)
(* so that their intervals have numbers of several.                        *)
(***************************************************************************)
EXTENDS PrincipalJets

CONSTANTS
  CandidateBits,      \* of the only limb of a candidate
  Candidates, Moduli, KernelPrimes, OrderLimits,
  GermCandidates, GermCycles, GermJets, GermModuli, ArgumentLimits, Widths,
  Base, Chunk         \* of PrimePipeline

VARIABLES request, view, answer

pipeline_vars == <<request, view, answer>>
all_vars      == <<vars, pipeline_vars>>

Pipeline == INSTANCE PrimePipeline WITH LimbBits <- CandidateBits

\* A limb is made of whole hexadecimal digits, and a candidate is one limb.
ASSUME LimbsAssumption ==
  /\ {LimbBits, CandidateBits, DigitBits} \subseteq Nat \ {0}
  /\ LimbBits % DigitBits = 0 /\ CandidateBits % DigitBits = 0
  /\ Candidates \subseteq 0 .. 2 ^ CandidateBits - 1
ASSUME BaseAssumption == Base \in Nat \ {0, 1} /\ Chunk \in Nat \ {0, 1}

SystemInit ==
  \/ Init /\ Pipeline!Idle
  \/ Pipeline!Init /\ Idle

SystemNext ==
  \/ result.kind # "idle" /\ Next /\ UNCHANGED pipeline_vars
  \/ answer.kind # "idle" /\ Pipeline!Next /\ UNCHANGED vars

\* An observation, or a rejection, is the end.
Ended ==
  /\ answer.kind \notin {"none", "idle", "response", "cyclic_limit", "exact"}
  /\ UNCHANGED all_vars

SystemSpec == SystemInit /\ [][SystemNext \/ Ended]_all_vars

-------------------------------------------------------------------------------
(* Properties *)

\* Every way to a verdict on a candidate gives the same (see PrimePipeline).
VerdictsAgree == Pipeline!VerdictsAgree

\* The audit accepts the responses that are right, only (see PrimePipeline).
AuditExact == Pipeline!AuditExact

\* A view is answered for its own request, only (see PrimePipeline).
BindingDecides == Pipeline!BindingDecides

\* A germ shows at each mode where its period says (see PrimePipeline).
GermModes == Pipeline!GermModes
===============================================================================
