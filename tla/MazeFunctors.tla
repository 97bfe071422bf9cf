----------------------------- MODULE MazeFunctors -----------------------------
(***************************************************************************)
(* Maze states and native functors of src/high_dimensional.cpp.  A state   *)
(* binds a value to its place and to the events that led there.  The road, *)
(* the holonomy and the higher cell of an address, and the seals of states *)
(* and events, are hashes of what the fields kept here determine: a state  *)
(* stands for its own seal, so that two states are equal exactly when the  *)
(* program's are.                                                          *)
(***************************************************************************)
EXTENDS TriClassArithmetic, FiniteSetsExt

CONSTANT CounterMaximum     \* the largest epoch, depth and generation

Address(room, frame, epoch, depth, generation) ==
  [room |-> room, frame |-> frame, epoch |-> epoch, depth |-> depth,
   generation |-> generation]

UploadComplete(value, address) == [value |-> value, address |-> address, history |-> <<>>]

Arrived(state) == [kind |-> "state", state |-> state]

Event(opcode, left, right) == [opcode |-> opcode, left |-> left, right |-> right]

SamePlace(l, r) == l.address.room = r.address.room /\ l.address.frame = r.address.frame

\* prepare_binary_address: every counter follows the larger parent's.
Later(l, r, counter) == Max({l.address[counter], r.address[counter]})

Breeds(value) == IF value.singular = NoTerms THEN 0 ELSE 1

\* Variant: the generation is not looked at.
AddressFitsWithoutGeneration(l, r, value) ==
  /\ Later(l, r, "epoch") < CounterMaximum
  /\ Later(l, r, "depth") < CounterMaximum

AddressFits(l, r, value) ==
  /\ Later(l, r, "epoch") < CounterMaximum
  /\ Later(l, r, "depth") < CounterMaximum
  /\ Later(l, r, "generation") + Breeds(value) <= CounterMaximum

BinaryAddress(l, r, value) ==
  [l.address EXCEPT
     !.epoch = Later(l, r, "epoch") + 1, !.depth = Later(l, r, "depth") + 1,
     !.generation = Later(l, r, "generation") + Breeds(value)]

Lift(l, r, opcode, result) ==
  IF result.kind = "continuation" THEN result
  ELSE IF ~SamePlace(l, r)
       THEN Continuation(opcode, "FrameMismatch", l.value, r.value)
  ELSE IF ~AddressFits(l, r, result.value)
       THEN Continuation(opcode, "CausalCoordinateOverflow", l.value, r.value)
  ELSE Arrived([value |-> result.value, address |-> BinaryAddress(l, r, result.value),
                history |-> l.history \o r.history \o <<Event(opcode, l, r)>>])

\* hadd, hsub and hmul of two states.
Binary(opcode, l, r) ==
  Lift(l, r, opcode, CASE opcode = "HAdd" -> HAdd(l.value, r.value)
                       [] opcode = "HSub" -> HSub(l.value, r.value)
                       [] opcode = "HMul" -> HMul(l.value, r.value))

-------------------------------------------------------------------------------
(* Native functors: sequences of instructions *)

Compose(after, before) == before \o after

CountersFit(address) == address.epoch < CounterMaximum /\ address.depth < CounterMaximum

InexactRefused(packet) == ~IsZero(packet.residual)

DivideState(current, operand) ==
  LET divided == HDiv(current.value, operand)
      refuse(reason) == Continuation("HDiv", reason, current.value, operand)
  IN CASE divided.kind = "continuation" -> divided
       [] divided.kind = "packet" /\ InexactRefused(divided) -> refuse("ExactDivisionRequired")
       [] OTHER ->
            IF CountersFit(current.address)
            THEN Arrived([value |-> divided.quotient,
                          address |-> [current.address EXCEPT !.epoch = @ + 1, !.depth = @ + 1],
                          history |-> Append(current.history, Event("HDiv", current, operand))])
            ELSE refuse("CausalCoordinateOverflow")

\* One turn of the loop of NativeFunctor::operator().
Perform(current, instruction) ==
  IF instruction.opcode = "HDiv" THEN DivideState(current, instruction.operand)
  ELSE Binary(instruction.opcode, current, UploadComplete(instruction.operand, current.address))
===============================================================================
