-------------------------- MODULE MCBoundaryProtocol --------------------------
(***************************************************************************)
(* BoundaryProtocol for TLC: which numbers the authorities carry, and      *)
(* slots as interchangeable variables.                                     *)
(***************************************************************************)
EXTENDS BoundaryProtocol, TLC

CONSTANTS a1, a2

TwoNumbers == [a \in {a1, a2} |-> IF a = a1 THEN 1 ELSE 2]
SameNumber == [a \in {a1, a2} |-> 1]

SlotSymmetry == Permutations(Slots)
=============================================================================
