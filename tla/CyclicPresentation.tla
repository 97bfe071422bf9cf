-------------------------- MODULE CyclicPresentation --------------------------
(***************************************************************************)
(* A presentation names the generator of a cyclic chart of a given order   *)
(* as S^exponent; inverse witnesses that the exponent is a unit            *)
(* (sealed_core/include/angel/afac63/three_gate_boundary.hpp).  mul_mod    *)
(* multiplies in 128 bits, so the product of two 64-bit words is exact.    *)
(***************************************************************************)
EXTENDS Integers

MulMod(a, b, modulus) == (a * b) % modulus

Standard(order) == [order |-> order, exponent |-> 1, inverse |-> 1]

Valid(p) == /\ p.order >= 2
            /\ p.exponent # 0 /\ p.exponent < p.order
            /\ p.inverse # 0 /\ p.inverse < p.order
            /\ MulMod(p.exponent, p.inverse, p.order) = 1

Forward(source, target) ==
  MulMod(target.exponent, source.inverse, source.order)

Backward(source, target) ==
  MulMod(source.exponent, target.inverse, source.order)

\* certify_presentation_transport
TransportAccepted(source, target) ==
  /\ Valid(source) /\ Valid(target)
  /\ source.order = target.order
  /\ MulMod(Forward(source, target), Backward(source, target), source.order) = 1

\* The presentation native_quotient hands down to a divisor of the order.
PushedPresentation(p, target_order) ==
  [order |-> target_order,
   exponent |-> p.exponent % target_order,
   inverse |-> p.inverse % target_order]

Presentation == [order : Nat, exponent : Nat, inverse : Nat]

\* Every valid presentation of an order.
ValidPresentations(order) ==
  {p \in [order : {order}, exponent : 1..(order - 1), inverse : 1..(order - 1)] :
     Valid(p)}
=============================================================================
