------------------------------ MODULE MCBehavior ------------------------------
(***************************************************************************)
(* BehaviorAnalysis for TLC: four states and two letters.  The first       *)
(* letter moves in every way there is; the second steps round or swaps the *)
(* halves, so that some machines need every letter and as many turns as a  *)
(* partition of four states allows.  Observations are only compared, so    *)
(* the first state may show 0.  The invalid machines have no versions or a *)
(* target outside the table.                                               *)
(***************************************************************************)
EXTENDS BehaviorAnalysis

MCStateCount == 4
MCAlphabetSize == 2
MCObservations == {0, 1}

MCStates == 0 .. MCStateCount - 1
SecondLetters == {[s \in MCStates |-> (s + 1) % MCStateCount],
                  [s \in MCStates |-> IF s < 2 THEN 3 ELSE 0]}

Table(first, second) == [s \in MCStates |-> [a \in {0, 1} |-> IF a = 0 THEN first[s] ELSE second[s]]]

Views == {o \in [MCStates -> MCObservations] : o[0] = 0}
MCMachines ==
  {[transition |-> Table(f, g), observation |-> o, versioned |-> TRUE] :
     f \in [MCStates -> MCStates], g \in SecondLetters, o \in Views}
  \cup
  {[transition |-> Table(f, f), observation |-> o, versioned |-> v] :
     f \in {[s \in MCStates |-> 0], [s \in MCStates |-> s + 1]}, o \in Views, v \in BOOLEAN}
===============================================================================
