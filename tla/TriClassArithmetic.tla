-------------------------- MODULE TriClassArithmetic --------------------------
(***************************************************************************)
(* The values of src/high_dimensional.cpp and the four operations on them. *)
(* A value has an ordinary coefficient and two sparse axes, functions from *)
(* ordered words of tokens to coefficients that are not zero.  Every sum   *)
(* and product of coefficients is checked: an operation that would leave   *)
(* the signed type gives a continuation that keeps its operands.           *)
(*                                                                         *)
(* A seal is a hash of all of a value; the value stands for it.            *)
(***************************************************************************)
EXTENDS Integers, Sequences, SequencesExt, Functions, TLC

CONSTANT Maximum                        \* the largest Coefficient

Minimum == -Maximum - 1                 \* two's complement
Coefficient == Minimum .. Maximum

-------------------------------------------------------------------------------
(* Checked coefficients *)

AddFits(l, r) ==
  /\ ~(r > 0 /\ l > Maximum - r)
  /\ ~(r < 0 /\ l < Minimum - r)

SubtractFits(l, r) ==
  /\ ~(r < 0 /\ l > Maximum + r)
  /\ ~(r > 0 /\ l < Minimum + r)

Magnitude(a) == IF a < 0 THEN -a ELSE a

\* Division of C++, towards zero, and its remainder.
Quotient(a, b) == (IF (a < 0) # (b < 0) THEN -1 ELSE 1) * (Magnitude(a) \div Magnitude(b))
Rest(a, b) == a - b * Quotient(a, b)

\* Variant: the one product of a negation that does not fit is forgotten.
MultiplyFitsWithoutNegation(l, r) ==
  \/ l = 0 \/ r = 0
  \/ l > 0 /\ r > 0 /\ l <= Quotient(Maximum, r)
  \/ l > 0 /\ r < 0 /\ r >= Quotient(Minimum, l)
  \/ l < 0 /\ r > 0 /\ l >= Quotient(Minimum, r)
  \/ l < 0 /\ r = -1
  \/ l < 0 /\ r < 0 /\ l >= Quotient(Maximum, r)

MultiplyFits(l, r) ==
  \/ l = 0 \/ r = 0
  \/ /\ {l, r} # {-1, Minimum}
     /\ \/ l > 0 /\ r > 0 /\ l <= Quotient(Maximum, r)
        \/ l > 0 /\ r < 0 /\ r >= Quotient(Minimum, l)
        \/ l < 0 /\ r > 0 /\ l >= Quotient(Minimum, r)
        \/ l < 0 /\ r < 0 /\ l >= Quotient(Maximum, r)

-------------------------------------------------------------------------------
(* Sparse axes *)

NoTerms == [w \in {} |-> 0]

Normalize(axis) == Restrict(axis, {w \in DOMAIN axis : axis[w] # 0})

\* The order of the keys of a std::map of vectors.
Precedes(v, w) ==
  \/ IsStrictPrefix(v, w)
  \/ \E k \in DOMAIN v \cap DOMAIN w :
       v[k] < w[k] /\ SubSeq(v, 1, k - 1) = SubSeq(w, 1, k - 1)

Words(axis) == SetToSortSeq(DOMAIN axis, Precedes)

At(axis, w) == IF w \in DOMAIN axis THEN axis[w] ELSE 0

\* A sum under way: the axis, and whether everything has fitted so far.
Sum(axis) == [fits |-> TRUE, axis |-> axis]
Overflowed(sum) == [sum EXCEPT !.fits = FALSE]

AddTerm(sum, word, coefficient) ==
  LET held == At(sum.axis, word)
  IN IF AddFits(held, coefficient)
     THEN [sum EXCEPT !.axis = Normalize((word :> held + coefficient) @@ sum.axis)]
     ELSE Overflowed(sum)

\* The product is refused first; nothing is added after a refusal.
AddMultiple(sum, word, coefficient, scalar) ==
  IF sum.fits /\ MultiplyFits(coefficient, scalar)
  THEN AddTerm(sum, word, coefficient * scalar)
  ELSE Overflowed(sum)

AddScaled(sum, source, scalar) ==
  FoldLeft(LAMBDA s, w : AddMultiple(s, w, source[w], scalar), sum, Words(source))

AddProduct(sum, left, right) ==
  FoldLeft(LAMBDA s, v :
    FoldLeft(LAMBDA t, w : AddMultiple(t, v \o w, left[v], right[w]), s, Words(right)),
    sum, Words(left))

-------------------------------------------------------------------------------
(* Values and their operations *)

Exact(ordinary, history, singular) ==
  [ordinary |-> ordinary, history |-> Normalize(history), singular |-> Normalize(singular)]

Ordinary(value) == Exact(value, NoTerms, NoTerms)
History(token, coefficient) == Exact(0, <<token>> :> coefficient, NoTerms)
Singular(token, coefficient) == Exact(0, NoTerms, <<token>> :> coefficient)

IsPureOrdinary(v) == v.history = NoTerms /\ v.singular = NoTerms
IsZero(v) == v.ordinary = 0 /\ IsPureOrdinary(v)

Continuation(opcode, reason, left, right) ==
  [kind |-> "continuation", attempted |-> opcode, reason |-> reason, left |-> left, right |-> right]

\* What an operation returns: the exact value, or the continuation.
Checked(opcode, left, right, fits, ordinary, history, singular) ==
  IF fits /\ history.fits /\ singular.fits
  THEN [kind |-> "value", value |-> Exact(ordinary, history.axis, singular.axis)]
  ELSE Continuation(opcode, "CoefficientOverflow", left, right)

HAdd(l, r) ==
  Checked("HAdd", l, r, AddFits(l.ordinary, r.ordinary), l.ordinary + r.ordinary,
          AddScaled(Sum(l.history), r.history, 1), AddScaled(Sum(l.singular), r.singular, 1))

HSub(l, r) ==
  Checked("HSub", l, r, SubtractFits(l.ordinary, r.ordinary), l.ordinary - r.ordinary,
          AddScaled(Sum(l.history), r.history, -1), AddScaled(Sum(l.singular), r.singular, -1))

MultipliedHistory(l, r) ==
  AddProduct(AddScaled(AddScaled(Sum(NoTerms), r.history, l.ordinary), l.history, r.ordinary),
             l.history, r.history)

MultipliedSingular(l, r) ==
  AddProduct(AddProduct(AddProduct(
    AddScaled(AddScaled(Sum(NoTerms), r.singular, l.ordinary), l.singular, r.ordinary),
    l.history, r.singular), l.singular, r.history), l.singular, r.singular)

HMul(l, r) ==
  Checked("HMul", l, r, MultiplyFits(l.ordinary, r.ordinary), l.ordinary * r.ordinary,
          MultipliedHistory(l, r), MultipliedSingular(l, r))

DivideAxisFits(axis, d) == ~(d = -1 /\ \E w \in DOMAIN axis : axis[w] = Minimum)
AxisQuotient(axis, d) == [w \in DOMAIN axis |-> Quotient(axis[w], d)]
AxisRest(axis, d)     == [w \in DOMAIN axis |-> Rest(axis[w], d)]

Packet(n, d, quotient, residual) ==
  [kind |-> "packet", numerator |-> n, denominator |-> d,
   quotient |-> quotient, residual |-> residual]

\* verify(DivisionPacket): the numerator from the other three, by the checked
\* operations themselves.
Reconstructs(p) ==
  LET product == HMul(p.denominator, p.quotient)
      sum == HAdd(product.value, p.residual)
  IN product.kind = "value" /\ sum.kind = "value" /\ sum.value = p.numerator

DividedByZero(n, d) == Packet(n, d, Ordinary(0), n)

Divided(n, d) ==
  LET k == d.ordinary
  IN Packet(n, d,
       Exact(Quotient(n.ordinary, k), AxisQuotient(n.history, k), AxisQuotient(n.singular, k)),
       Exact(Rest(n.ordinary, k), AxisRest(n.history, k), AxisRest(n.singular, k)))

DivisionFits(n, d) ==
  \/ d.ordinary = 0
  \/ /\ ~(n.ordinary = Minimum /\ d.ordinary = -1)
     /\ DivideAxisFits(n.history, d.ordinary)
     /\ DivideAxisFits(n.singular, d.ordinary)

HDiv(n, d) ==
  IF ~IsPureOrdinary(d) THEN Continuation("HDiv", "NonCentralDenominator", n, d)
  ELSE IF ~DivisionFits(n, d) THEN Continuation("HDiv", "CoefficientOverflow", n, d)
  ELSE LET packet == IF d.ordinary = 0 THEN DividedByZero(n, d) ELSE Divided(n, d)
       IN IF Reconstructs(packet) THEN packet
          ELSE Continuation("HDiv", "CoefficientOverflow", n, d)

-------------------------------------------------------------------------------
(* The reference: the algebra of the three classes over all integers.  An  *)
(* axis is read through At, and a product is a convolution over the ways   *)
(* to cut a word in two.                                                   *)

Split(f, g, w) ==
  FoldLeft(+, 0, [k \in 1 .. Len(w) + 1 |->
    At(f, SubSeq(w, 1, k - 1)) * At(g, SubSeq(w, k, Len(w)))])

Concatenations(f, g) == {v \o w : v \in DOMAIN f, w \in DOMAIN g}

ReferenceSum(x, y, sign) ==
  LET axis(f, g) ==
        [w \in DOMAIN f \cup DOMAIN g |-> At(f, w) + sign * At(g, w)]
  IN Exact(x.ordinary + sign * y.ordinary,
           axis(x.history, y.history), axis(x.singular, y.singular))

ReferenceProduct(x, y) ==
  LET all(v) == v.history @@ v.singular
      words  == DOMAIN all(x) \cup DOMAIN all(y) \cup Concatenations(all(x), all(y))
  IN Exact(x.ordinary * y.ordinary,
       [w \in words |-> x.ordinary * At(y.history, w) + y.ordinary * At(x.history, w)
                        + Split(x.history, y.history, w)],
       [w \in words |-> x.ordinary * At(y.singular, w) + y.ordinary * At(x.singular, w)
                        + Split(x.history, y.singular, w) + Split(x.singular, y.history, w)
                        + Split(x.singular, y.singular, w)])

Coefficients(v) == {v.ordinary} \cup Range(v.history) \cup Range(v.singular)

\* Every coefficient without its sign: what an operation adds up at most.
Absolute(v) ==
  LET axis(f) == [w \in DOMAIN f |-> Magnitude(f[w])]
  IN Exact(Magnitude(v.ordinary), axis(v.history), axis(v.singular))
===============================================================================
