---------------------------- MODULE HighDimensional ----------------------------
(***************************************************************************)
(* The entries of src/high_dimensional.cpp on one coefficient type: a      *)
(* family of functors, or a tensor.  A call is in one of them from         *)
(* beginning to end.                                                       *)
(***************************************************************************)
EXTENDS Integers, Sequences

CONSTANTS
  Maximum, CounterMaximum,      \* the widths of the coefficients and counters
  Families, Inputs, Others,     \* of ClassQuantum
  Tensors, Factors              \* of TensorHistory

VARIABLES
  input, left, right, pc, index, position, outcome, packet, groups, survivors, operands,
  tensor, factors, minors, verdict

history_vars == <<input, left, right, pc, index, position, outcome, packet, groups,
                  survivors, operands>>
tensor_vars  == <<tensor, factors, minors, verdict>>
vars == <<history_vars, tensor_vars>>

Histories == INSTANCE ClassQuantum
Tensor    == INSTANCE TensorHistory

ASSUME WidthsAssumption == Maximum \in Nat \ {0} /\ CounterMaximum \in Nat

\* A caller uploads values at addresses whose counters are of their type.
Counted(address) ==
  \A c \in {"epoch", "depth", "generation"} :
    c \in DOMAIN address /\ address[c] \in 0 .. CounterMaximum
ASSUME UploadsAssumption ==
  \A s \in Inputs \cup Others :
    s = Histories!UploadComplete(s.value, s.address) /\ Counted(s.address)

\* So are the weights of the branches of a family.
ASSUME FamiliesAssumption ==
  \A pair \in Families : \A k \in {1, 2} :
    /\ pair[k] \in Seq(Histories!Range(pair[k]))
    /\ \A i \in DOMAIN pair[k] : pair[k][i].weight \in Histories!Coefficient

\* Coefficients are of their type, and a call has two vectors to multiply.
ASSUME TensorsAssumption ==
  /\ \A t \in Tensors :
       t.rows \in Nat /\ t.columns \in Nat /\ t.coefficients \in Seq(Histories!Coefficient)
  /\ \A f \in Factors : \A k \in {1, 2} : f[k] \in Seq(Histories!Coefficient)

Init ==
  \/ Histories!Init /\ Tensor!Idle
  \/ Tensor!Init /\ Histories!Idle

Next ==
  \/ Histories!Next /\ UNCHANGED tensor_vars
  \/ Tensor!Next /\ UNCHANGED history_vars

Ended ==
  /\ pc \in {"refused", "joined", "idle"} \/ (pc = "done" /\ survivors = <<>>)
  /\ verdict \in {"out", "rejected", "not_built", "unresolved", "entangled", "separable"}
  /\ UNCHANGED vars

Spec == Init /\ [][Next \/ Ended]_vars

-------------------------------------------------------------------------------
(* Properties *)

\* Every operation is exact or a continuation that keeps its operands and says
\* why (see ClassQuantum).
ExactOrRefused == Histories!ExactOrRefused

\* Endpoints know their depth and carry the states before them (see
\* ClassQuantum).
CausalHistory == Histories!CausalHistory

\* Interference conserves the weight of every complete state (see
\* ClassQuantum).
InterferenceConserves == Histories!InterferenceConserves

\* Entanglement is rank greater than one, never a guess (see TensorHistory).
VerdictIsRank == Tensor!VerdictIsRank
===============================================================================
