------------------------ MODULE HighDimensional_proofs ------------------------
(***************************************************************************)
(* Proofs about HighDimensional for coefficients and counters of every     *)
(* width.                                                                  *)
(***************************************************************************)
EXTENDS HighDimensional, SharedTheorems

Signed == Histories!Coefficient

LEMMA SignedIsAnInterval == Signed = (-Maximum - 1) .. Maximum
BY DEF Signed, Histories!Coefficient, Histories!Minimum

\* A sum is checked exactly: it is computed if and only if it fits.
THEOREM SumsFitExactly ==
  \A l, r \in Signed : Histories!AddFits(l, r) <=> l + r \in Signed
BY SignedIsAnInterval, WidthsAssumption DEF Histories!AddFits, Histories!Minimum

\* So is a difference.
THEOREM DifferencesFitExactly ==
  \A l, r \in Signed : Histories!SubtractFits(l, r) <=> l - r \in Signed
BY SignedIsAnInterval, WidthsAssumption DEF Histories!SubtractFits, Histories!Minimum

\* The quotient is the largest multiplier that stays within the bound.
LEMMA QuotientBounds ==
  ASSUME NEW a \in Nat, NEW b \in Nat \ {0}, NEW m \in Nat
  PROVE  m <= a \div b <=> m * b <= a
<1> DEFINE q == a \div b
<1> HIDE DEF q
<1>1. q \in Nat /\ b * q <= a /\ a < b * q + b
  BY Division DEF q
<1>2. ASSUME m <= q PROVE m * b <= a
  <2>1. m * b <= q * b
    BY <1>1, <1>2
  <2> QED BY <1>1, <2>1
<1>3. ASSUME ~(m <= q) PROVE ~(m * b <= a)
  <2>1. (q + 1) * b <= m * b
    BY <1>1, <1>3
  <2>2. (q + 1) * b = b * q + b
    BY <1>1
  <2> QED BY <1>1, <2>1, <2>2
<1> QED BY <1>2, <1>3 DEF q
\* C++ divides magnitudes and gives the quotient its sign.
LEMMA QuotientOfSigned ==
  ASSUME NEW a \in Nat, NEW b \in Nat \ {0}
  PROVE  /\ Histories!Quotient(a, b) = a \div b
         /\ Histories!Quotient(a, -b) = -(a \div b)
         /\ a # 0 => Histories!Quotient(-a, b) = -(a \div b)
         /\ a # 0 => Histories!Quotient(-a, -b) = a \div b
<1> DEFINE q == a \div b
<1>1. q \in Int
  BY Division
<1>2. /\ Histories!Magnitude(a) = a /\ Histories!Magnitude(b) = b
      /\ Histories!Magnitude(-a) = a /\ Histories!Magnitude(-b) = b
  BY DEF Histories!Magnitude
<1>3. /\ Histories!Quotient(a, b) = 1 * q
      /\ Histories!Quotient(a, -b) = -1 * q
      /\ a # 0 => Histories!Quotient(-a, b) = -1 * q
      /\ a # 0 => Histories!Quotient(-a, -b) = 1 * q
  <2>1. /\ (a < 0) = FALSE /\ (b < 0) = FALSE /\ (-b < 0) = TRUE
        /\ a # 0 => (-a < 0) = TRUE
    OBVIOUS
  <2> HIDE DEF q
  <2>2. /\ Histories!Quotient(a, b) = 1 * (a \div b)
        /\ Histories!Quotient(a, -b) = -1 * (a \div b)
    BY <1>2, <2>1 DEF Histories!Quotient
  <2>3. a # 0 => /\ Histories!Quotient(-a, b) = -1 * (a \div b)
                 /\ Histories!Quotient(-a, -b) = 1 * (a \div b)
    BY <1>2, <2>1 DEF Histories!Quotient
  <2> QED BY <2>2, <2>3 DEF q
<1> QED BY <1>1, <1>3

LEMMA PairIsPair ==
  ASSUME NEW a, NEW b, NEW c, NEW d
  PROVE  {a, b} = {c, d} <=> (a = c /\ b = d) \/ (a = d /\ b = c)
<1>1. ASSUME {a, b} = {c, d} PROVE (a = c /\ b = d) \/ (a = d /\ b = c)
  <2>1. a \in {c, d} /\ b \in {c, d} /\ c \in {a, b} /\ d \in {a, b}
    BY <1>1
  <2> QED BY <2>1
<1>2. (a = c /\ b = d) \/ (a = d /\ b = c) => {a, b} = {c, d}
  OBVIOUS
<1> QED BY <1>1, <1>2

\* A product is checked exactly although it is never computed to be checked:
\* the divisions it is compared with cut off at the right place for every sign.
THEOREM ProductsFitExactly ==
  \A l, r \in Signed : Histories!MultiplyFits(l, r) <=> l * r \in Signed
<1> SUFFICES ASSUME NEW l \in Signed, NEW r \in Signed
             PROVE  Histories!MultiplyFits(l, r) <=> l * r \in Signed
  OBVIOUS
<1> USE WidthsAssumption
<1>0. /\ l \in Int /\ r \in Int /\ Maximum \in Nat \ {0}
      /\ \A x \in Int : x \in Signed <=> -Maximum - 1 <= x /\ x <= Maximum
      /\ Histories!Minimum = -(Maximum + 1)
  BY SignedIsAnInterval DEF Histories!Minimum
<1>P. /\ {l, r} = {-1, Histories!Minimum}
           <=> (l = -1 /\ r = -(Maximum + 1)) \/ (l = -(Maximum + 1) /\ r = -1)
      /\ Maximum + 1 \in Nat \ {0}
  BY <1>0, PairIsPair
<1>1. CASE l = 0 \/ r = 0
  BY <1>0, <1>1 DEF Histories!MultiplyFits
<1>2. CASE l > 0 /\ r > 0
  <2>1. Histories!Quotient(Maximum, r) = Maximum \div r
    BY <1>0, <1>2, QuotientOfSigned
  <2>2. Histories!MultiplyFits(l, r) <=> l <= Maximum \div r
    BY <1>0, <1>P, <1>2, <2>1 DEF Histories!MultiplyFits
  <2>3. l <= Maximum \div r <=> l * r <= Maximum
    BY <1>0, <1>2, QuotientBounds
  <2>4. l * r \in Int /\ l * r >= 0
    BY <1>0, <1>2
  <2> QED BY <1>0, <2>2, <2>3, <2>4
<1>3. CASE l > 0 /\ r < 0
  <2>1. Histories!Quotient(-(Maximum + 1), l) = -((Maximum + 1) \div l)
    <3>1. l \in Nat \ {0}
      BY <1>0, <1>3
    <3> QED BY <1>P, <3>1, QuotientOfSigned
  <2>2. Histories!MultiplyFits(l, r) <=> r >= -((Maximum + 1) \div l)
    BY <1>0, <1>P, <1>3, <2>1 DEF Histories!MultiplyFits
  <2>3. -r <= (Maximum + 1) \div l <=> (-r) * l <= Maximum + 1
    BY <1>0, <1>3, QuotientBounds
  <2>4. (Maximum + 1) \div l \in Int
    BY <1>0, <1>3
  <2>5. l * r \in Int /\ l * r <= 0 /\ (-r) * l = -(l * r)
    BY <1>0, <1>3
  <2> QED BY <1>0, <2>2, <2>3, <2>4, <2>5
<1>4. CASE l < 0 /\ r > 0
  <2>1. Histories!Quotient(-(Maximum + 1), r) = -((Maximum + 1) \div r)
    <3>1. r \in Nat \ {0}
      BY <1>0, <1>4
    <3> QED BY <1>P, <3>1, QuotientOfSigned
  <2>2. Histories!MultiplyFits(l, r) <=> l >= -((Maximum + 1) \div r)
    BY <1>0, <1>P, <1>4, <2>1 DEF Histories!MultiplyFits
  <2>3. -l <= (Maximum + 1) \div r <=> (-l) * r <= Maximum + 1
    BY <1>0, <1>4, QuotientBounds
  <2>4. (Maximum + 1) \div r \in Int
    BY <1>0, <1>4
  <2>5. l * r \in Int /\ l * r <= 0 /\ (-l) * r = -(l * r)
    BY <1>0, <1>4
  <2> QED BY <1>0, <2>2, <2>3, <2>4, <2>5
<1>5. CASE l < 0 /\ r < 0
  <2>0. -r \in Nat \ {0} /\ -(-r) = r
    BY <1>0, <1>5
  <2>1. Histories!Quotient(Maximum, r) = -(Maximum \div (-r))
    <3>1. Histories!Quotient(Maximum, -(-r)) = -(Maximum \div (-r))
      BY <1>0, <2>0, QuotientOfSigned
    <3> QED BY <2>0, <3>1
  <2>2. Histories!MultiplyFits(l, r)
          <=> {l, r} # {-1, Histories!Minimum} /\ l >= -(Maximum \div (-r))
    BY <1>0, <1>P, <1>5, <2>1 DEF Histories!MultiplyFits
  <2>3. -l <= Maximum \div (-r) <=> (-l) * (-r) <= Maximum
    BY <1>0, <1>5, QuotientBounds
  <2>4. Maximum \div (-r) \in Int
    BY <1>0, <1>5
  <2>5. l * r \in Int /\ l * r >= 0 /\ (-l) * (-r) = l * r
    BY <1>0, <1>5
  <2>6. {l, r} = {-1, Histories!Minimum} => l * r = Maximum + 1
    BY <1>0, <1>P
  <2> QED BY <1>0, <2>2, <2>3, <2>4, <2>5, <2>6
<1> QED BY <1>0, <1>1, <1>2, <1>3, <1>4, <1>5

\* The one quotient that does not fit is that of the least coefficient by -1.
THEOREM QuotientsFitExactly ==
  \A l \in Signed, r \in Signed \ {0} :
    Histories!Quotient(l, r) \in Signed <=> ~(l = Histories!Minimum /\ r = -1)
<1> SUFFICES ASSUME NEW l \in Signed, NEW r \in Signed \ {0}
             PROVE  Histories!Quotient(l, r) \in Signed <=> ~(l = Histories!Minimum /\ r = -1)
  OBVIOUS
<1>0. /\ l \in Int /\ r \in Int \ {0} /\ Maximum \in Nat \ {0}
      /\ \A z \in Int : z \in Signed <=> -Maximum - 1 <= z /\ z <= Maximum
      /\ Histories!Minimum = -Maximum - 1
  BY SignedIsAnInterval, WidthsAssumption DEF Histories!Minimum
<1>1. ASSUME NEW x \in Nat, NEW y \in Nat \ {0}
      PROVE  /\ x \div y \in Nat /\ x \div y <= x
             /\ y = 1 => x \div y = x
             /\ y # 1 => 2 * (x \div y) <= x
  <2> DEFINE q == x \div y
  <2>1. q \in Nat /\ y * q <= x /\ x < y * q + y
    BY Division
  <2> HIDE DEF q
  <2>2. q <= y * q /\ (y # 1 => 2 * q <= y * q)
    BY <2>1
  <2>3. y = 1 => q = x
    BY <2>1
  <2> QED BY <2>1, <2>2, <2>3 DEF q
<1>2. CASE l >= 0 /\ r > 0
  <2>1. l \in Nat /\ r \in Nat \ {0}
    BY <1>0, <1>2
  <2> QED BY <1>0, <1>1, <1>2, <2>1, QuotientOfSigned
<1>3. CASE l >= 0 /\ r < 0
  <2>1. l \in Nat /\ -r \in Nat \ {0} /\ -(-r) = r
    BY <1>0, <1>3
  <2>2. Histories!Quotient(l, r) = -(l \div (-r))
    BY <2>1, QuotientOfSigned
  <2>3. l \div (-r) \in Nat /\ l \div (-r) <= l
    BY <1>1, <2>1
  <2> QED BY <1>0, <1>3, <2>2, <2>3
<1>4. CASE l < 0 /\ r > 0
  <2>1. -l \in Nat \ {0} /\ r \in Nat \ {0} /\ -(-l) = l
    BY <1>0, <1>4
  <2>2. Histories!Quotient(l, r) = -((-l) \div r)
    BY <2>1, QuotientOfSigned
  <2>3. (-l) \div r \in Nat /\ (-l) \div r <= -l
    BY <1>1, <2>1
  <2> QED BY <1>0, <1>4, <2>2, <2>3
<1>5. CASE l < 0 /\ r < 0
  <2>1. -l \in Nat \ {0} /\ -r \in Nat \ {0} /\ -(-l) = l /\ -(-r) = r
    BY <1>0, <1>5
  <2>2. Histories!Quotient(l, r) = (-l) \div (-r)
    BY <2>1, QuotientOfSigned
  <2>3. /\ (-l) \div (-r) \in Nat
        /\ -r = 1 => (-l) \div (-r) = -l
        /\ -r # 1 => 2 * ((-l) \div (-r)) <= -l
    BY <1>1, <2>1
  <2>4. CASE r = -1
    BY <1>0, <1>5, <2>2, <2>3, <2>4
  <2>5. CASE r # -1
    BY <1>0, <1>5, <2>2, <2>3, <2>5
  <2> QED BY <2>4, <2>5
<1> QED BY <1>0, <1>2, <1>3, <1>4, <1>5

-------------------------------------------------------------------------------
(* States and their past *)

Sequential(h) == \E T : h \in Seq(T)

\* What every state a caller holds satisfies, and what one on the way of a
\* functor from the input also does.
Grounded(s) == Counted(s.address) /\ Sequential(s.history)

Chained(h) == \A k \in 1 .. Len(h) : h[k].left.history = SubSeq(h, 1, k - 1)

\* A state that a functor reached from the origin, one event after another.
OnTheWay(origin, s) ==
  /\ Grounded(s)
  /\ s.address.depth = origin.address.depth + Len(s.history)
  /\ Chained(s.history)

\* Branches or groups whose endpoints were reached from the origin.
Ends(origin, branches) ==
  /\ Sequential(branches)
  /\ \A k \in 1 .. Len(branches) :
       "endpoint" \in DOMAIN branches[k] /\ OnTheWay(origin, branches[k].endpoint)

\* A joined state is deeper than its parents and contains their histories.
Youngest(parents, s) ==
  \A k \in {1, 2} :
    /\ parents[k].address.depth < s.address.depth
    /\ parents[k].address.generation <= s.address.generation
    /\ Len(parents[k].history) < Len(s.history)

LEMMA SequencesGrow ==
  ASSUME NEW S, NEW T, S \subseteq T
  PROVE  Seq(S) \subseteq Seq(T)
OBVIOUS

LEMMA SequentialAppend ==
  ASSUME NEW h, Sequential(h), NEW e
  PROVE  /\ Sequential(Append(h, e))
         /\ Len(h) \in Nat /\ Len(Append(h, e)) = Len(h) + 1
         /\ DOMAIN h = 1 .. Len(h)
         /\ \A k \in 1 .. Len(h) : Append(h, e)[k] = h[k]
         /\ Append(h, e)[Len(h) + 1] = e
         /\ h \o <<>> = h /\ h \o <<e>> = Append(h, e)
<1>1. PICK T : h \in Seq(T)
  BY DEF Sequential
<1> DEFINE S == T \cup {e}
<1>2. h \in Seq(S)
  BY <1>1, SequencesGrow
<1>3. e \in S
  OBVIOUS
<1> HIDE DEF S
<1>4. Append(h, e) \in Seq(S)
  BY <1>2, <1>3
<1>5. h \o <<>> = h /\ h \o <<e>> = Append(h, e)
  BY <1>2, <1>3, ConcatEmptySeq, AppendIsConcat
<1> QED BY <1>2, <1>3, <1>4, <1>5 DEF Sequential

LEMMA SequentialConcat ==
  ASSUME NEW g, Sequential(g), NEW h, Sequential(h), NEW e, NEW whole, whole = g \o h \o <<e>>
  PROVE  /\ Sequential(whole)
         /\ Len(g) \in Nat /\ Len(h) \in Nat
         /\ Len(whole) = Len(g) + Len(h) + 1
<1>1. PICK S, T : g \in Seq(S) /\ h \in Seq(T)
  BY DEF Sequential
<1> DEFINE U == S \cup T \cup {e}
<1>2. g \in Seq(U) /\ h \in Seq(U) /\ <<e>> \in Seq(U)
  <2>1. g \in Seq(U)
    BY <1>1, SequencesGrow
  <2>2. h \in Seq(U)
    BY <1>1, SequencesGrow
  <2> QED BY <2>1, <2>2
<1> HIDE DEF U
<1>3. g \o h \in Seq(U) /\ Len(g \o h) = Len(g) + Len(h)
  BY <1>2
<1>4. g \o h \o <<e>> \in Seq(U) /\ Len(g \o h \o <<e>>) = Len(g \o h) + 1
  BY <1>2, <1>3
<1> QED BY <1>2, <1>3, <1>4 DEF Sequential

LEMMA ChainGrows ==
  ASSUME NEW h, Sequential(h), Chained(h), NEW e, e.left.history = h
  PROVE  Chained(Append(h, e))
<1> DEFINE g == Append(h, e)
<1>1. PICK T : h \in Seq(T)
  BY DEF Sequential
<1>2. /\ Len(h) \in Nat /\ Len(g) = Len(h) + 1
      /\ \A k \in 1 .. Len(h) : g[k] = h[k]
      /\ g[Len(h) + 1] = e /\ Sequential(g)
  BY SequentialAppend
<1>3. PICK S : g \in Seq(S)
  BY <1>2 DEF Sequential
<1> HIDE DEF g
<1>4. ASSUME NEW k \in 1 .. Len(h) + 1 PROVE SubSeq(g, 1, k - 1) = SubSeq(h, 1, k - 1)
  <2>1. SubSeq(g, 1, k - 1) \in Seq(S) /\ SubSeq(h, 1, k - 1) \in Seq(T)
    BY <1>1, <1>2, <1>3
  <2>2. Len(SubSeq(g, 1, k - 1)) = k - 1 /\ Len(SubSeq(h, 1, k - 1)) = k - 1
    BY <1>1, <1>2, <1>3
  <2>3. \A i \in 1 .. k - 1 : SubSeq(g, 1, k - 1)[i] = SubSeq(h, 1, k - 1)[i]
    BY <1>1, <1>2, <1>3
  <2> QED BY <2>1, <2>2, <2>3
<1>5. SubSeq(h, 1, Len(h)) = h
  BY <1>1
<1>6. ASSUME NEW k \in 1 .. Len(g) PROVE g[k].left.history = SubSeq(g, 1, k - 1)
  <2>1. CASE k \in 1 .. Len(h)
    BY <1>2, <1>4, <2>1 DEF Chained
  <2>2. CASE k = Len(h) + 1
    <3>1. k - 1 = Len(h) /\ g[k] = e
      BY <1>2, <2>2
    <3> QED BY <1>2, <1>4, <1>5, <3>1
  <2> QED BY <1>2, <2>1, <2>2
<1> QED BY <1>6 DEF Chained, g
LEMMA LargerOfTwo ==
  ASSUME NEW a \in Nat, NEW b \in Nat
  PROVE  /\ Histories!Max({a, b}) \in {a, b}
         /\ a <= Histories!Max({a, b}) /\ b <= Histories!Max({a, b})
<1>1. \E x \in {a, b} : \A y \in {a, b} : x >= y
  <2>1. CASE a >= b
    BY <2>1
  <2>2. CASE b >= a
    BY <2>2
  <2> QED BY <2>1, <2>2
<1> QED BY <1>1 DEF Histories!Max

LEMMA Counters ==
  ASSUME NEW s, Grounded(s), NEW c \in {"epoch", "depth", "generation"}
  PROVE  c \in DOMAIN s.address /\ s.address[c] \in Nat /\ s.address[c] <= CounterMaximum
BY WidthsAssumption DEF Grounded, Counted

\* A state made from two others: younger than both, with both their pasts.
Bred(s, l, r, opcode) ==
  /\ Grounded(s)
  /\ \A c \in {"epoch", "depth"} :
       /\ l.address[c] < s.address[c] /\ r.address[c] < s.address[c]
       /\ s.address[c] - 1 \in {l.address[c], r.address[c]}
  /\ l.address.generation <= s.address.generation
  /\ r.address.generation <= s.address.generation
  /\ s.history = l.history \o r.history \o <<Histories!Event(opcode, l, r)>>

LEMMA LiftBreeds ==
  ASSUME NEW l, Grounded(l), NEW r, Grounded(r), NEW opcode, NEW result,
         NEW lifted, lifted = Histories!Lift(l, r, opcode, result), lifted.kind = "state"
  PROVE  Bred(lifted.state, l, r, opcode)
<1> DEFINE v == result.value
           a == Histories!BinaryAddress(l, r, v)
           h == l.history \o r.history \o <<Histories!Event(opcode, l, r)>>
<1>1. /\ Histories!AddressFits(l, r, v)
      /\ Histories!Lift(l, r, opcode, result)
           = [kind |-> "state", state |-> [value |-> v, address |-> a, history |-> h]]
  BY DEF Histories!Lift, Histories!Arrived, Histories!Continuation
<1>2. Sequential(h)
  BY SequentialConcat DEF Grounded
<1>3. ASSUME NEW c \in {"epoch", "depth", "generation"}
      PROVE  /\ Histories!Later(l, r, c) \in Nat
             /\ Histories!Later(l, r, c) \in {l.address[c], r.address[c]}
             /\ l.address[c] <= Histories!Later(l, r, c)
             /\ r.address[c] <= Histories!Later(l, r, c)
  <2>1. /\ l.address[c] \in Nat /\ r.address[c] \in Nat
    BY Counters
  <2> QED BY <2>1, LargerOfTwo DEF Histories!Later
<1>4. Histories!Breeds(v) \in {0, 1}
  BY DEF Histories!Breeds
<1>5. /\ {"epoch", "depth", "generation"} \subseteq DOMAIN a
      /\ a.epoch = Histories!Later(l, r, "epoch") + 1
      /\ a.depth = Histories!Later(l, r, "depth") + 1
      /\ a.generation = Histories!Later(l, r, "generation") + Histories!Breeds(v)
  <2>1. {"epoch", "depth", "generation"} \subseteq DOMAIN l.address
    BY Counters
  <2> QED BY <2>1 DEF Histories!BinaryAddress
<1>6. Counted(a)
  BY <1>1, <1>3, <1>4, <1>5, WidthsAssumption DEF Counted, Histories!AddressFits
<1> HIDE DEF a, h, v
<1> DEFINE s == [value |-> v, address |-> a, history |-> h]
<1>7. s.address = a /\ s.history = h /\ lifted.state = s
  BY <1>1
<1>8. Grounded(s)
  BY <1>2, <1>6, <1>7 DEF Grounded
<1>9. \A c \in {"epoch", "depth"} :
        /\ l.address[c] < a[c] /\ r.address[c] < a[c]
        /\ a[c] - 1 \in {l.address[c], r.address[c]}
  BY <1>3, <1>5, Counters
<1>10. l.address.generation <= a.generation /\ r.address.generation <= a.generation
  BY <1>3, <1>4, <1>5, Counters
<1> QED BY <1>7, <1>8, <1>9, <1>10 DEF h, Bred

\* An instruction refuses or extends the past of its state by one event.
LEMMA PerformExtends ==
  ASSUME NEW current, Grounded(current), NEW instruction
  PROVE  LET outcome_ == Histories!Perform(current, instruction)
             s == outcome_.state
         IN  /\ outcome_.kind \in {"state", "continuation"}
             /\ outcome_.kind = "state" =>
                  /\ Grounded(s)
                  /\ s.address.depth = current.address.depth + 1
                  /\ \E e : e.left = current /\ s.history = Append(current.history, e)
<1> DEFINE result == Histories!Perform(current, instruction)
<1>1. CASE instruction.opcode = "HDiv"
  <2> DEFINE divided == Histories!HDiv(current.value, instruction.operand)
             e == Histories!Event("HDiv", current, instruction.operand)
             a == [current.address EXCEPT !.epoch = @ + 1, !.depth = @ + 1]
             s == [value |-> divided.quotient, address |-> a, history |-> Append(current.history, e)]
  <2>1. result = Histories!DivideState(current, instruction.operand)
    BY <1>1 DEF Histories!Perform
  <2>2. \/ result.kind = "continuation"
        \/ Histories!CountersFit(current.address) /\ result = [kind |-> "state", state |-> s]
    <3> HIDE DEF divided
    <3> QED BY <2>1 DEF Histories!DivideState, Histories!Continuation, Histories!Arrived, divided
  <2>3. CASE Histories!CountersFit(current.address) /\ result = [kind |-> "state", state |-> s]
    <3>1. /\ DOMAIN a = DOMAIN current.address
          /\ \A c \in {"epoch", "depth"} : a[c] = current.address[c] + 1
          /\ a.generation = current.address.generation
      BY Counters
    <3>2. Counted(a)
      <4>1. current.address["epoch"] < CounterMaximum /\ current.address["depth"] < CounterMaximum
        BY <2>3 DEF Histories!CountersFit
      <4>2. \A c \in {"epoch", "depth", "generation"} :
              /\ c \in DOMAIN current.address /\ current.address[c] \in Nat
              /\ current.address[c] <= CounterMaximum
        BY Counters
      <4>3. a["epoch"] = current.address["epoch"] + 1
        BY <3>1
      <4>4. a["depth"] = current.address["depth"] + 1
        BY <3>1
      <4>5. a["generation"] = current.address["generation"]
        BY <3>1
      <4> HIDE DEF a
      <4>6. a["epoch"] \in 0 .. CounterMaximum
        BY <4>1, <4>2, <4>3, WidthsAssumption
      <4>7. a["depth"] \in 0 .. CounterMaximum
        BY <4>1, <4>2, <4>4, WidthsAssumption
      <4>8. a["generation"] \in 0 .. CounterMaximum
        BY <4>2, <4>5, WidthsAssumption
      <4> QED BY <3>1, <4>2, <4>6, <4>7, <4>8 DEF Counted
    <3>3. e.left = current
      BY DEF Histories!Event
    <3>4. Sequential(Append(current.history, e))
      BY SequentialAppend DEF Grounded
    <3> HIDE DEF a, e, divided, result
    <3>5. s.address = a /\ s.history = Append(current.history, e)
      OBVIOUS
    <3>6. Grounded(s)
      BY <3>2, <3>4, <3>5 DEF Grounded
    <3>7. result.kind = "state" /\ result.state = s
      BY <2>3
    <3> HIDE DEF s
    <3>8. s.address.depth = current.address.depth + 1
      BY <3>1, <3>5
    <3> QED BY <3>3, <3>5, <3>6, <3>7, <3>8 DEF result
  <2> QED BY <2>2, <2>3
<1>2. CASE instruction.opcode # "HDiv"
  <2> DEFINE r == Histories!UploadComplete(instruction.operand, current.address)
  <2>1. r.address = current.address /\ r.history = <<>> /\ Grounded(r)
    <3>1. r.address = current.address /\ r.history = <<>>
      BY DEF Histories!UploadComplete
    <3>2. <<>> \in Seq({})
      OBVIOUS
    <3> QED BY <3>1, <3>2 DEF Grounded, Sequential
  <2>2. PICK x : result = Histories!Lift(current, r, instruction.opcode, x)
    BY <1>2 DEF Histories!Perform, Histories!Binary
  <2> HIDE DEF r, result
  <2>3. result.kind \in {"state", "continuation"}
    BY <2>2 DEF Histories!Lift, Histories!Continuation, Histories!Arrived
  <2>4. ASSUME result.kind = "state"
        PROVE  /\ Grounded(result.state)
               /\ result.state.address.depth = current.address.depth + 1
               /\ \E e : e.left = current /\ result.state.history = Append(current.history, e)
    <3> DEFINE e == Histories!Event(instruction.opcode, current, r)
    <3>1. /\ Grounded(result.state)
          /\ \A c \in {"epoch", "depth"} :
               result.state.address[c] - 1 \in {current.address[c], r.address[c]}
          /\ result.state.history = current.history \o r.history \o <<e>>
      <4>1. Bred(result.state, current, r, instruction.opcode)
        BY <2>1, <2>2, <2>4, LiftBreeds
      <4> QED BY <4>1 DEF Bred
    <3>8. result.state.address["depth"] - 1 \in {current.address["depth"], r.address["depth"]}
      BY <3>1
    <3>2. e.left = current
      BY DEF Histories!Event
    <3> HIDE DEF e
    <3>3. result.state.history = Append(current.history, e)
      BY <2>1, <3>1, SequentialAppend DEF Grounded
    <3>4. result.state.address.depth \in Nat
      BY <3>1, Counters
    <3>5. current.address.depth \in Nat
      BY Counters
    <3>6. result.state.address.depth = current.address.depth + 1
      BY <2>1, <3>8, <3>4, <3>5
    <3> QED BY <3>1, <3>2, <3>3, <3>6
  <2> QED BY <2>3, <2>4 DEF result
<1> QED BY <1>1, <1>2

LEMMA UploadsAreGrounded ==
  ASSUME NEW s \in Inputs \cup Others
  PROVE  Grounded(s) /\ OnTheWay(s, s)
<1>1. Counted(s.address) /\ s.history = <<>>
  BY UploadsAssumption DEF Histories!UploadComplete
<1>2. <<>> \in Seq({}) /\ Len(<<>>) = 0
  OBVIOUS
<1>3. Grounded(s)
  BY <1>1, <1>2 DEF Grounded, Sequential
<1>4. Chained(s.history)
  BY <1>1, <1>2 DEF Chained
<1>5. s.address["depth"] \in Nat
  BY <1>3, Counters
<1> QED BY <1>1, <1>2, <1>3, <1>4, <1>5 DEF OnTheWay

LEMMA PerformStaysOnTheWay ==
  ASSUME NEW origin, Grounded(origin), NEW current, OnTheWay(origin, current), NEW instruction,
         NEW next, next = Histories!Perform(current, instruction)
  PROVE  /\ next.kind \in {"state", "continuation"}
         /\ next.kind = "state" => OnTheWay(origin, next.state)
<1>1. Grounded(current)
  BY DEF OnTheWay
<1>2. /\ next.kind \in {"state", "continuation"}
      /\ next.kind = "state" =>
           /\ Grounded(next.state)
           /\ next.state.address.depth = current.address.depth + 1
           /\ \E e : e.left = current /\ next.state.history = Append(current.history, e)
  BY <1>1, PerformExtends
<1>3. ASSUME next.kind = "state" PROVE OnTheWay(origin, next.state)
  <2>1. PICK e : e.left = current /\ next.state.history = Append(current.history, e)
    BY <1>2, <1>3
  <2>2. Sequential(current.history) /\ Chained(current.history) /\ e.left.history = current.history
    BY <1>1, <2>1 DEF OnTheWay, Grounded
  <2>3. Chained(next.state.history)
    BY <2>1, <2>2, ChainGrows
  <2>4. Len(current.history) \in Nat /\ Len(next.state.history) = Len(current.history) + 1
    BY <2>1, <2>2, SequentialAppend
  <2>5. origin.address["depth"] \in Nat
    BY Counters
  <2>6. next.state.address.depth = origin.address.depth + Len(next.state.history)
    BY <1>2, <1>3, <2>4, <2>5 DEF OnTheWay
  <2> QED BY <1>2, <1>3, <2>3, <2>6 DEF OnTheWay
<1> QED BY <1>2, <1>3

LEMMA EndsGrow ==
  ASSUME NEW origin, NEW branches, Ends(origin, branches),
         NEW b, "endpoint" \in DOMAIN b, OnTheWay(origin, b.endpoint)
  PROVE  Ends(origin, Append(branches, b))
<1> DEFINE longer == Append(branches, b)
<1>1. /\ Sequential(longer)
      /\ Len(branches) \in Nat /\ Len(longer) = Len(branches) + 1
      /\ \A k \in 1 .. Len(branches) : longer[k] = branches[k]
      /\ longer[Len(branches) + 1] = b
  BY SequentialAppend DEF Ends
<1> HIDE DEF longer
<1>2. \A k \in 1 .. Len(longer) : k \in 1 .. Len(branches) \/ k = Len(branches) + 1
  BY <1>1
<1>3. \A k \in 1 .. Len(longer) :
        "endpoint" \in DOMAIN longer[k] /\ OnTheWay(origin, longer[k].endpoint)
  BY <1>1, <1>2 DEF Ends
<1> QED BY <1>1, <1>3 DEF Ends, longer

LEMMA EndsReweighted ==
  ASSUME NEW origin, NEW groups_, Ends(origin, groups_), NEW g, NEW w
  PROVE  Ends(origin, [groups_ EXCEPT ![g].weight = @ + w, ![g].members = @ + 1])
<1> DEFINE joined == [groups_ EXCEPT ![g].weight = @ + w, ![g].members = @ + 1]
           entry == [groups_[g] EXCEPT !.weight = @ + w, !.members = @ + 1]
<1>1. PICK T : groups_ \in Seq(T)
  BY DEF Ends, Sequential
<1>2. DOMAIN groups_ = 1 .. Len(groups_) /\ Len(groups_) \in Nat
  BY <1>1
<1>3. joined = [k \in 1 .. Len(groups_) |-> joined[k]]
  BY <1>1, <1>2
<1>4. ASSUME NEW k \in 1 .. Len(groups_), k # g PROVE joined[k] = groups_[k]
  BY <1>2, <1>4
<1>5. Sequential(joined) /\ Len(joined) = Len(groups_)
  <2> DEFINE S == {joined[k] : k \in 1 .. Len(groups_)}
  <2> HIDE DEF joined
  <2>1. joined \in [1 .. Len(groups_) -> S]
    BY <1>3
  <2> HIDE DEF S
  <2>2. joined \in Seq(S) /\ Len(joined) = Len(groups_)
    BY <1>2, <2>1
  <2> QED BY <2>2 DEF Sequential
<1>6. ASSUME NEW k \in 1 .. Len(groups_)
      PROVE  "endpoint" \in DOMAIN joined[k] /\ joined[k].endpoint = groups_[k].endpoint
  <2>1. "endpoint" \in DOMAIN groups_[k]
    BY DEF Ends
  <2>2. CASE k = g
    BY <1>2, <2>1, <2>2
  <2>3. CASE k # g
    BY <1>4, <2>1, <2>3
  <2> QED BY <2>2, <2>3
<1> HIDE DEF joined
<1> QED BY <1>5, <1>6 DEF Ends, joined

LEMMA BinaryIsYoungest ==
  ASSUME NEW l, Grounded(l), NEW r, Grounded(r), NEW opcode, NEW joined,
         joined = Histories!Binary(opcode, l, r), joined.kind = "state"
  PROVE  Grounded(joined.state) /\ Youngest(Append(<<l, r>>, opcode), joined.state)
<1> DEFINE parents == Append(<<l, r>>, opcode)
<1>1. parents[1] = l /\ parents[2] = r
  <2>1. <<l, r>> \in Seq({l, r}) /\ Len(<<l, r>>) = 2 /\ <<l, r>>[1] = l /\ <<l, r>>[2] = r
    OBVIOUS
  <2>2. Sequential(<<l, r>>)
    BY <2>1 DEF Sequential
  <2> QED BY <2>1, <2>2, SequentialAppend
<1>2. PICK x : joined = Histories!Lift(l, r, opcode, x)
  BY DEF Histories!Binary
<1>3. Bred(joined.state, l, r, opcode)
  BY <1>2, LiftBreeds
<1>4. Sequential(l.history) /\ Sequential(r.history)
  BY DEF Grounded
<1>5. /\ Len(l.history) < Len(joined.state.history)
      /\ Len(r.history) < Len(joined.state.history)
  <2> DEFINE e == Histories!Event(opcode, l, r)
  <2>1. joined.state.history = l.history \o r.history \o <<e>>
    BY <1>3 DEF Bred
  <2> HIDE DEF e
  <2>2. /\ Len(l.history) \in Nat /\ Len(r.history) \in Nat
        /\ Len(joined.state.history) = Len(l.history) + Len(r.history) + 1
    BY <1>4, <2>1, SequentialConcat
  <2>3. ASSUME NEW m \in Nat, NEW n \in Nat PROVE m < m + n + 1 /\ n < m + n + 1
    OBVIOUS
  <2> QED BY <2>2, <2>3
<1>6. /\ Grounded(joined.state)
      /\ l.address.depth < joined.state.address.depth
      /\ r.address.depth < joined.state.address.depth
      /\ l.address.generation <= joined.state.address.generation
      /\ r.address.generation <= joined.state.address.generation
  <2>1. /\ l.address["depth"] < joined.state.address["depth"]
        /\ r.address["depth"] < joined.state.address["depth"]
    BY <1>3 DEF Bred
  <2> QED BY <1>3, <2>1 DEF Bred
<1> HIDE DEF parents
<1>7. \A v \in {l, r} : /\ v.address.depth < joined.state.address.depth
                        /\ v.address.generation <= joined.state.address.generation
                        /\ Len(v.history) < Len(joined.state.history)
  BY <1>5, <1>6
<1>8. Youngest(parents, joined.state)
  BY <1>1, <1>7 DEF Youngest
<1> QED BY <1>6, <1>8 DEF parents

-------------------------------------------------------------------------------
(* The invariant: everything the family reached descends from its input *)

Begun ==
  /\ index \in Nat \ {0}
  /\ OnTheWay(input, input)
  /\ Ends(input, packet) /\ Ends(input, groups) /\ Ends(input, survivors)
  /\ pc \in {"branches", "interference", "survival", "done"} => OnTheWay(input, outcome.state)
  /\ outcome.kind = "state" => Grounded(outcome.state)
  /\ pc = "joined" /\ outcome.kind = "state" => Youngest(operands, outcome.state)

CInv ==
  \/ pc = "idle" /\ outcome.kind = "none" /\ packet = <<>>
  \/ Begun

LEMMA InitEstablishes == Init => CInv
<1> SUFFICES ASSUME Init PROVE CInv
  OBVIOUS
<1>1. CASE Histories!Idle
  BY <1>1 DEF Histories!Idle, CInv
<1>2. CASE Histories!Init
  <2>1. /\ input \in Inputs /\ pc = "branches" /\ index = 1
        /\ outcome = [kind |-> "state", state |-> input]
        /\ packet = <<>> /\ groups = <<>> /\ survivors = <<>>
    BY <1>2 DEF Histories!Init, Histories!Arrived
  <2>2. Grounded(input) /\ OnTheWay(input, input)
    BY <2>1, UploadsAreGrounded
  <2>3. Ends(input, <<>>)
    <3>1. <<>> \in Seq({}) /\ Len(<<>>) = 0
      OBVIOUS
    <3> QED BY <3>1 DEF Ends, Sequential
  <2> QED BY <2>1, <2>2, <2>3 DEF CInv, Begun
<1> QED BY <1>1, <1>2 DEF Init

LEMMA StepPreserves == CInv /\ [Next \/ Ended]_vars => CInv'
<1> SUFFICES ASSUME CInv, [Next \/ Ended]_vars PROVE CInv'
  OBVIOUS
<1>1. CASE UNCHANGED history_vars
  BY <1>1 DEF CInv, Begun, history_vars
<1>2. CASE Histories!Next
  <2>0. Begun
    BY <1>2 DEF CInv, Histories!Next, Histories!SkipBranch, Histories!Execute,
         Histories!ReachEndpoint, Histories!InBranch, Histories!BeginInterference,
         Histories!NewGroup, Histories!JoinGroup, Histories!BeginSurvival,
         Histories!Survive, Histories!ReturnSurvivors, Histories!Join
  <2>01. index + 1 \in Nat \ {0}
    BY <2>0 DEF Begun
  <2> SUFFICES Begun'
    BY DEF CInv
  <2>1. CASE Histories!SkipBranch
    BY <2>0, <2>01, <2>1 DEF Histories!SkipBranch, Histories!InBranch, Histories!request, Begun
  <2>2. CASE Histories!Execute
    <3> DEFINE next == Histories!Perform(outcome.state, Histories!Instruction)
    <3>1. /\ pc = "branches" /\ outcome' = next
          /\ pc' = IF next.kind = "continuation" THEN "refused" ELSE pc
          /\ UNCHANGED <<input, index, packet, groups, survivors, operands>>
      BY <2>2 DEF Histories!Execute, Histories!InBranch, Histories!request
    <3>2. Grounded(input) /\ OnTheWay(input, outcome.state)
      BY <2>0, <3>1 DEF Begun, OnTheWay
    <3>3. /\ next.kind \in {"state", "continuation"}
          /\ next.kind = "state" => OnTheWay(input, next.state)
      BY <3>2, PerformStaysOnTheWay
    <3> HIDE DEF next
    <3> QED BY <2>0, <3>1, <3>3 DEF Begun, OnTheWay
  <2>3. CASE Histories!ReachEndpoint
    <3> DEFINE b == [weight |-> Histories!Branch.weight, endpoint |-> outcome.state]
    <3>1. /\ pc = "branches" /\ packet' = Append(packet, b)
          /\ outcome' = [kind |-> "state", state |-> input] /\ index' = index + 1
          /\ UNCHANGED <<input, pc, groups, survivors>>
      BY <2>3 DEF Histories!ReachEndpoint, Histories!InBranch, Histories!request, Histories!Arrived
    <3>2. "endpoint" \in DOMAIN b /\ OnTheWay(input, b.endpoint)
      BY <2>0, <3>1 DEF Begun
    <3> HIDE DEF b
    <3>3. Ends(input, packet')
      BY <2>0, <3>1, <3>2, EndsGrow DEF Begun
    <3> QED BY <2>0, <2>01, <3>1, <3>3 DEF Begun, OnTheWay
  <2>4. CASE Histories!BeginInterference
    BY <2>0, <2>4 DEF Histories!BeginInterference, Histories!request, Begun
  <2>5. CASE Histories!NewGroup
    <3> DEFINE b == [weight |-> packet[index].weight, members |-> 1,
                     endpoint |-> packet[index].endpoint]
    <3>1. /\ index <= Len(packet) /\ groups' = Append(groups, b) /\ index' = index + 1
          /\ UNCHANGED <<input, pc, outcome, packet, survivors, operands>>
      BY <2>5 DEF Histories!NewGroup, Histories!request
    <3>2. index \in 1 .. Len(packet)
      BY <2>0, <3>1, SequentialAppend DEF Begun, Ends
    <3>3. "endpoint" \in DOMAIN b /\ OnTheWay(input, b.endpoint)
      BY <2>0, <3>2 DEF Begun, Ends
    <3> HIDE DEF b
    <3>4. Ends(input, groups')
      BY <2>0, <3>1, <3>3, EndsGrow DEF Begun
    <3> QED BY <2>0, <2>01, <3>1, <3>4 DEF Begun
  <2>6. CASE Histories!JoinGroup
    <3> DEFINE g == Histories!Min(Histories!Matching(packet[index]))
               w == packet[index].weight
    <3>1. /\ UNCHANGED <<input, packet, survivors, operands>>
          /\ \/ /\ groups' = [groups EXCEPT ![g].weight = @ + w, ![g].members = @ + 1]
                /\ index' = index + 1 /\ UNCHANGED <<pc, outcome>>
             \/ /\ outcome'.kind = "continuation" /\ pc' = "refused"
                /\ UNCHANGED <<groups, index>>
      BY <2>6 DEF Histories!JoinGroup, Histories!request, Histories!Continuation
    <3> HIDE DEF g, w
    <3>2. Ends(input, [groups EXCEPT ![g].weight = @ + w, ![g].members = @ + 1])
      BY <2>0, EndsReweighted DEF Begun
    <3> QED BY <2>0, <2>01, <3>1, <3>2 DEF Begun
  <2>7. CASE Histories!BeginSurvival
    BY <2>0, <2>7 DEF Histories!BeginSurvival, Histories!request, Begun
  <2>8. CASE Histories!Survive
    <3>1. /\ index <= Len(groups) /\ index' = index + 1
          /\ survivors' \in {survivors, Append(survivors, groups[index])}
          /\ UNCHANGED <<input, pc, outcome, packet, groups, operands>>
      BY <2>8 DEF Histories!Survive, Histories!request
    <3>2. index \in 1 .. Len(groups)
      BY <2>0, <3>1, SequentialAppend DEF Begun, Ends
    <3>3. "endpoint" \in DOMAIN groups[index] /\ OnTheWay(input, groups[index].endpoint)
      BY <2>0, <3>2 DEF Begun, Ends
    <3>4. Ends(input, survivors')
      BY <2>0, <3>1, <3>3, EndsGrow DEF Begun
    <3> QED BY <2>0, <2>01, <3>1, <3>4 DEF Begun
  <2>9. CASE Histories!ReturnSurvivors
    BY <2>0, <2>9 DEF Histories!ReturnSurvivors, Histories!request, Begun
  <2>10. CASE Histories!Join
    <3>1. PICK s \in Histories!Range(survivors), other \in Others \cup {input},
               op \in {"HAdd", "HSub", "HMul"} :
            \E pair \in {<<s.endpoint, other>>, <<other, s.endpoint>>} :
              /\ operands' = Append(pair, op)
              /\ outcome' = Histories!Binary(op, pair[1], pair[2])
      BY <2>10 DEF Histories!Join
    <3>2. pc' = "joined" /\ UNCHANGED <<input, index, packet, groups, survivors>>
      BY <2>10 DEF Histories!Join, Histories!request
    <3>3. Grounded(s.endpoint)
      BY <2>0, SequentialAppend DEF Begun, Ends, OnTheWay, Histories!Range
    <3>4. Grounded(other)
      BY <2>0, UploadsAreGrounded DEF Begun, OnTheWay
    <3>5. PICK pair \in {<<s.endpoint, other>>, <<other, s.endpoint>>} :
            /\ operands' = Append(pair, op)
            /\ outcome' = Histories!Binary(op, pair[1], pair[2])
      BY <3>1
    <3>6. pair = <<pair[1], pair[2]>> /\ Grounded(pair[1]) /\ Grounded(pair[2])
      <4>1. CASE pair = <<s.endpoint, other>>
        BY <3>3, <3>4, <4>1
      <4>2. CASE pair = <<other, s.endpoint>>
        BY <3>3, <3>4, <4>2
      <4> QED BY <4>1, <4>2
    <3>7. outcome'.kind = "state" =>
            Grounded(outcome'.state) /\ Youngest(operands', outcome'.state)
      <4>1. PICK l, r : l = pair[1] /\ r = pair[2]
        OBVIOUS
      <4>2. pair = <<l, r>> /\ Grounded(l) /\ Grounded(r)
        BY <3>6, <4>1
      <4>3. operands' = Append(<<l, r>>, op) /\ outcome' = Histories!Binary(op, l, r)
        BY <3>5, <4>1, <4>2
      <4> QED BY <4>2, <4>3, BinaryIsYoungest
    <3> QED BY <2>0, <3>2, <3>7 DEF Begun
  <2> QED BY <1>2, <2>1, <2>2, <2>3, <2>4, <2>5, <2>6, <2>7, <2>8, <2>9, <2>10
       DEF Histories!Next
<1> QED BY <1>1, <1>2 DEF Next, Ended, vars

LEMMA InvariantIsEnough == CInv => CausalHistory
<1> SUFFICES ASSUME CInv PROVE CausalHistory
  OBVIOUS
<1>1. CASE pc = "idle" /\ outcome.kind = "none" /\ packet = <<>>
  BY <1>1 DEF CausalHistory, Histories!CausalHistory, Histories!Range
<1>2. CASE Begun
  <2>1. outcome.kind = "state" =>
          \A c \in {"epoch", "depth", "generation"} : outcome.state.address[c] <= CounterMaximum
    BY <1>2, Counters DEF Begun
  <2>2. ASSUME NEW b \in Histories!Range(packet)
        PROVE  /\ b.endpoint.address.depth = input.address.depth + Len(b.endpoint.history)
               /\ \A k \in DOMAIN b.endpoint.history :
                    b.endpoint.history[k].left.history = SubSeq(b.endpoint.history, 1, k - 1)
    <3>1. OnTheWay(input, b.endpoint)
      BY <1>2, SequentialAppend DEF Begun, Ends, Histories!Range
    <3>2. DOMAIN b.endpoint.history = 1 .. Len(b.endpoint.history)
      BY <3>1, SequentialAppend DEF OnTheWay, Grounded
    <3> QED BY <3>1, <3>2 DEF OnTheWay, Chained
  <2> QED BY <1>2, <2>1, <2>2 DEF CausalHistory, Histories!CausalHistory, Begun, Youngest
<1> QED BY <1>1, <1>2 DEF CInv

\* Endpoints know their depth and carry the states before them, joined states
\* are younger than their parents, and no counter passes its limit: for every
\* family of functors, every width and every input.
THEOREM CausalHistoryHolds == Spec => []CausalHistory
<1>1. Spec => []CInv
  BY InitEstablishes, StepPreserves, PTL DEF Spec
<1> QED BY <1>1, InvariantIsEnough, PTL

-------------------------------------------------------------------------------
(* Tensors: the verdict of analyze_entanglement is the rank *)

\* A factor that is not zero is no larger than the product.
LEMMA FactorBound ==
  ASSUME NEW b \in Nat, NEW t \in Int, t # 0, NEW v \in Int, t * v \in (-b) .. b
  PROVE  v \in (-b) .. b
<1>1. ASSUME NEW m \in Nat, NEW n \in Nat PROVE m * n >= 0
  OBVIOUS
<1>2. CASE t > 0 /\ v >= 0
  <2>1. t - 1 \in Nat /\ v \in Nat
    BY <1>2
  <2>2. (t - 1) * v >= 0
    BY <1>1, <2>1
  <2>3. t * v = (t - 1) * v + v
    OBVIOUS
  <2> QED BY <1>2, <2>2, <2>3
<1>3. CASE t > 0 /\ v < 0
  <2>1. t - 1 \in Nat /\ -v \in Nat
    BY <1>3
  <2>2. (t - 1) * (-v) >= 0
    BY <1>1, <2>1
  <2>3. t * v = -((t - 1) * (-v)) + v
    OBVIOUS
  <2> QED BY <1>3, <2>2, <2>3
<1>4. CASE t < 0 /\ v >= 0
  <2>1. -t - 1 \in Nat /\ v \in Nat
    BY <1>4
  <2>2. (-t - 1) * v >= 0
    BY <1>1, <2>1
  <2>3. t * v = -((-t - 1) * v) - v
    OBVIOUS
  <2> QED BY <1>4, <2>2, <2>3
<1>5. CASE t < 0 /\ v < 0
  <2>1. -t - 1 \in Nat /\ -v \in Nat
    BY <1>5
  <2>2. (-t - 1) * (-v) >= 0
    BY <1>1, <2>1
  <2>3. t * v = (-t - 1) * (-v) - v
    OBVIOUS
  <2> QED BY <1>5, <2>2, <2>3
<1> QED BY <1>2, <1>3, <1>4, <1>5

\* A table all of whose minors vanish, for every pair of rows and columns.
MinorsVanish(A, r, c) ==
  \A i, k \in 1 .. r : \A j, l \in 1 .. c : A[i][j] * A[k][l] = A[i][l] * A[k][j]

\* The rows of integers that are parallel to a row with a pivot a in column q.
ParallelTo(w, a, q, c) == {y \in [1 .. c -> Int] : \A j \in 1 .. c : y[j] * a = y[q] * w[j]}

\* One that is less than another at the pivot, by multiples of it.
LEMMA ParallelDifference ==
  ASSUME NEW c \in Nat, NEW w \in [1 .. c -> Int], NEW a \in Int, NEW q \in 1 .. c,
         NEW y \in ParallelTo(w, a, q, c), NEW v \in ParallelTo(w, a, q, c), NEW t \in Int
  PROVE  [j \in 1 .. c |-> y[j] - t * v[j]] \in ParallelTo(w, a, q, c)
<1> DEFINE z == [j \in 1 .. c |-> y[j] - t * v[j]]
<1>1. y \in [1 .. c -> Int] /\ v \in [1 .. c -> Int]
  BY DEF ParallelTo
<1>2. \A j \in 1 .. c : y[j] \in Int /\ v[j] \in Int /\ w[j] \in Int
  BY <1>1
<1>3. \A x, g \in Int : x - t * g \in Int
  OBVIOUS
<1>4. z \in [1 .. c -> Int] /\ \A j \in 1 .. c : z[j] = y[j] - t * v[j]
  BY <1>2, <1>3
<1>5. ASSUME NEW g \in Int, NEW h \in Int PROVE (g - t * h) * a = g * a - t * (h * a)
  OBVIOUS
<1>6. ASSUME NEW g \in Int, NEW h \in Int, NEW k \in Int
      PROVE  (g - t * h) * k = g * k - t * (h * k)
  OBVIOUS
<1> HIDE DEF z
<1>7. ASSUME NEW j \in 1 .. c PROVE z[j] * a = z[q] * w[j]
  <2>1. y[j] * a = y[q] * w[j] /\ v[j] * a = v[q] * w[j]
    BY DEF ParallelTo
  <2>2. z[j] * a = y[j] * a - t * (v[j] * a)
    BY <1>2, <1>4, <1>5
  <2>3. z[q] * w[j] = y[q] * w[j] - t * (v[q] * w[j])
    BY <1>2, <1>4, <1>6
  <2> QED BY <2>1, <2>2, <2>3
<1>8. z \in ParallelTo(w, a, q, c)
  BY <1>4, <1>7 DEF ParallelTo
<1> QED BY <1>8 DEF z

\* The rows of such a table are multiples of one row of integers: the parallel
\* one whose entry at a pivot is least.
LEMMA RowsAreMultiples ==
  ASSUME NEW r \in Nat, NEW c \in Nat, NEW A \in [1 .. r -> [1 .. c -> Int]], MinorsVanish(A, r, c),
         NEW p \in 1 .. r, NEW q \in 1 .. c, A[p][q] # 0
  PROVE  \E v \in [1 .. c -> Int] :
           /\ v[q] # 0
           /\ \A i \in 1 .. r : \E t \in Int : \A j \in 1 .. c : A[i][j] = t * v[j]
<1> DEFINE a == A[p][q]
           w == A[p]
           Z == ParallelTo(w, a, q, c)
           T == {n \in Nat : n # 0 /\ \E y \in Z : y[q] = n}
<1>0. a \in Int /\ a # 0 /\ w \in [1 .. c -> Int] /\ w[q] = a
  OBVIOUS
<1>1. \A i \in 1 .. r : A[i] \in Z
  <2> SUFFICES ASSUME NEW i \in 1 .. r, NEW j \in 1 .. c PROVE A[i][j] * a = A[i][q] * A[p][j]
    BY DEF ParallelTo
  <2> QED BY DEF MinorsVanish
<1> HIDE DEF a, w
<1>Z. \A y \in Z : y \in [1 .. c -> Int] /\ \A j \in 1 .. c : y[j] \in Int /\ y[j] * a = y[q] * w[j]
  BY DEF ParallelTo
<1>2. T # {}
  <2>1. CASE a > 0
    <3>1. a \in Nat /\ w \in Z
      BY <1>0, <1>1, <2>1 DEF w
    <3> HIDE DEF Z
    <3> QED BY <1>0, <3>1
  <2>2. CASE a < 0
    <3> PICK two \in Int : two = 2
      OBVIOUS
    <3> DEFINE y == [j \in 1 .. c |-> w[j] - two * w[j]]
    <3>1. w \in Z
      BY <1>1 DEF w
    <3> HIDE DEF Z
    <3>2. y \in Z
      BY <1>0, <3>1, ParallelDifference DEF Z
    <3>3. y[q] = a - 2 * a
      BY <1>0
    <3>4. y[q] \in Nat /\ y[q] # 0
      BY <1>0, <2>2, <3>3
    <3> HIDE DEF y, Z
    <3> QED BY <3>2, <3>4
  <2> QED BY <1>0, <2>1, <2>2
<1>3. PICK m \in T : \A n \in T : m <= n
  <2>1. T \subseteq Nat
    OBVIOUS
  <2> HIDE DEF T
  <2> QED BY <1>2, <2>1, LeastNatural
<1>4. m \in Nat /\ m # 0
  OBVIOUS
<1>5. PICK v \in Z : v[q] = m
  OBVIOUS
<1>T. \A y \in Z : y[q] \in Nat /\ y[q] # 0 => m <= y[q]
  BY <1>3
<1> HIDE DEF T, Z
<1>6. ASSUME NEW y \in Z PROVE \E t \in Int : \A j \in 1 .. c : y[j] = t * v[j]
  <2> DEFINE z(t) == [j \in 1 .. c |-> y[j] - t * v[j]]
  <2>1. ASSUME NEW x \in Int, NEW k \in Nat, k # 0
        PROVE  \E t \in Int : x - t * k \in 0 .. k - 1
    <3>1. x \div k \in Int /\ x % k \in 0 .. k - 1 /\ x = k * (x \div k) + (x % k)
      BY <2>1
    <3>2. x - (x \div k) * k = x % k
      BY <3>1
    <3> QED BY <3>1, <3>2
  <2>2. PICK t \in Int : y[q] - t * m \in 0 .. m - 1
    BY <1>4, <1>Z, <2>1
  <2>3. z(t) \in Z
    BY <1>0, ParallelDifference DEF Z
  <2>4. \A j \in 1 .. c : z(t)[j] = y[j] - t * v[j]
    OBVIOUS
  <2> HIDE DEF z
  <2>5. z(t)[q] \in 0 .. m - 1
    BY <1>5, <2>2, <2>4
  <2>6. z(t)[q] = 0
    BY <1>4, <1>T, <2>3, <2>5
  <2>7. ASSUME NEW j \in 1 .. c PROVE y[j] = t * v[j]
    <3>1. z(t)[j] \in Int /\ z(t)[j] * a = z(t)[q] * w[j] /\ w[j] \in Int
      BY <1>0, <1>Z, <2>3
    <3>2. ASSUME NEW g \in Int, NEW h \in Int, g * a = 0 * h PROVE g = 0
      BY <1>0, <3>2
    <3>3. z(t)[j] = 0
      BY <2>6, <3>1, <3>2
    <3>4. y[j] \in Int /\ v[j] \in Int
      BY <1>Z
    <3>5. ASSUME NEW g \in Int, NEW h \in Int, g - t * h = 0 PROVE g = t * h
      BY <3>5
    <3> QED BY <2>4, <3>3, <3>4, <3>5
  <2> QED BY <2>7
<1>7. v[q] # 0 /\ v \in [1 .. c -> Int]
  BY <1>4, <1>5, <1>Z
<1>8. \A i \in 1 .. r : \E t \in Int : \A j \in 1 .. c : A[i][j] = t * v[j]
  BY <1>1, <1>6
<1> QED BY <1>7, <1>8

\* A table with entries up to b, and an outer product of vectors up to b.
TableWithin(A, r, c, b) ==
  A \in [1 .. r -> [1 .. c -> Int]] /\ \A i \in 1 .. r, j \in 1 .. c : A[i][j] \in (-b) .. b

OuterProductWithin(A, r, c, b) ==
  \E u \in [1 .. r -> (-b) .. b], v \in [1 .. c -> (-b) .. b] :
    \A i \in 1 .. r, j \in 1 .. c : A[i][j] = u[i] * v[j]

\* ... so that it is an outer product, of vectors no larger than its entries.
LEMMA VanishingMinorsSeparate ==
  ASSUME NEW r \in Nat, NEW c \in Nat, NEW A, NEW b \in Nat,
         TableWithin(A, r, c, b), MinorsVanish(A, r, c)
  PROVE  OuterProductWithin(A, r, c, b)
<1> SUFFICES \E u \in [1 .. r -> (-b) .. b], v \in [1 .. c -> (-b) .. b] :
               \A i \in 1 .. r, j \in 1 .. c : A[i][j] = u[i] * v[j]
  BY DEF OuterProductWithin
<1>0. A \in [1 .. r -> [1 .. c -> Int]] /\ \A i \in 1 .. r, j \in 1 .. c : A[i][j] \in (-b) .. b
  BY DEF TableWithin
<1>1. CASE \A i \in 1 .. r, j \in 1 .. c : A[i][j] = 0
  <2> DEFINE u == [i \in 1 .. r |-> 0]
             v == [j \in 1 .. c |-> 0]
  <2>1. u \in [1 .. r -> (-b) .. b] /\ v \in [1 .. c -> (-b) .. b]
    OBVIOUS
  <2>2. \A i \in 1 .. r, j \in 1 .. c : A[i][j] = u[i] * v[j]
    BY <1>1
  <2> HIDE DEF u, v
  <2> QED BY <2>1, <2>2
<1>2. CASE \E p \in 1 .. r, q \in 1 .. c : A[p][q] # 0
  <2>1. PICK p \in 1 .. r, q \in 1 .. c : A[p][q] # 0
    BY <1>2
  <2>2. PICK v \in [1 .. c -> Int] :
          /\ v[q] # 0
          /\ \A i \in 1 .. r : \E t \in Int : \A j \in 1 .. c : A[i][j] = t * v[j]
    BY <1>0, <2>1, RowsAreMultiples
  <2> DEFINE u == [i \in 1 .. r |-> CHOOSE t \in Int : \A j \in 1 .. c : A[i][j] = t * v[j]]
  <2>3. ASSUME NEW i \in 1 .. r
        PROVE  u[i] \in Int /\ \A j \in 1 .. c : A[i][j] = u[i] * v[j]
    BY <2>2
  <2>4. u = [i \in 1 .. r |-> u[i]]
    OBVIOUS
  <2> HIDE DEF u
  <2>5. ASSUME NEW i \in 1 .. r PROVE u[i] \in (-b) .. b
    <3>1. A[i][q] = u[i] * v[q] /\ A[i][q] \in (-b) .. b /\ u[i] \in Int /\ v[q] \in Int
      BY <1>0, <2>3
    <3>2. v[q] * u[i] \in (-b) .. b
      BY <3>1
    <3> QED BY <2>2, <3>1, <3>2, FactorBound
  <2>6. ASSUME NEW j \in 1 .. c PROVE v[j] \in (-b) .. b
    <3>1. A[p][q] = u[p] * v[q] /\ u[p] \in Int /\ v[q] \in Int /\ v[j] \in Int
      BY <2>3
    <3>2. u[p] # 0
      BY <2>1, <3>1
    <3>3. u[p] * v[j] \in (-b) .. b
      BY <1>0, <2>3
    <3> QED BY <3>1, <3>2, <3>3, FactorBound
  <2>7. u \in [1 .. r -> (-b) .. b] /\ v \in [1 .. c -> (-b) .. b]
    BY <2>4, <2>5, <2>6
  <2> QED BY <2>3, <2>7
<1> QED BY <1>1, <1>2

\* Some quadruple of a set is the first of it.
LEMMA FirstExists ==
  ASSUME NEW S, S \subseteq Nat \X Nat \X Nat \X Nat, S # {}
  PROVE  Tensor!FirstOf(S) \in S
<1> DEFINE Least(R, k) == {m \in R : \A n \in R : m[k] <= n[k]}
<1>1. ASSUME NEW R, R \subseteq S, R # {}, NEW k \in 1 .. 4 PROVE Least(R, k) # {}
  <2> DEFINE T == {m[k] : m \in R}
  <2>1. T # {} /\ \A m \in R : m[k] \in Nat
    <3>1. ASSUME NEW m \in R PROVE m[k] \in Nat
      <4>1. m \in Nat \X Nat \X Nat \X Nat
        BY <1>1
      <4> QED BY <4>1
    <3> QED BY <1>1, <3>1
  <2>2. T \subseteq Nat
    BY <2>1
  <2>3. \A m \in R : m[k] \in T
    OBVIOUS
  <2>4. \A x \in T : \E m \in R : m[k] = x
    OBVIOUS
  <2> HIDE DEF T
  <2>5. PICK x \in T : \A y \in T : x <= y
    BY <2>1, <2>2, LeastNatural
  <2> QED BY <2>3, <2>4, <2>5
<1> DEFINE A == Least(S, 1)
           B == Least(A, 2)
           C == Least(B, 3)
           D == Least(C, 4)
<1>2. A # {} /\ A \subseteq S /\ B \subseteq A /\ C \subseteq B /\ D \subseteq C
  <2>1. \A R, k : Least(R, k) \subseteq R
    OBVIOUS
  <2> HIDE DEF Least
  <2>2. S \subseteq S /\ 1 \in 1 .. 4
    OBVIOUS
  <2> QED BY <1>1, <2>1, <2>2
<1>3. D # {}
  <2> HIDE DEF Least
  <2>1. B # {}
    BY <1>1, <1>2
  <2>2. C # {}
    BY <1>1, <1>2, <2>1
  <2> QED BY <1>1, <1>2, <2>2
<1>4. PICK m \in D : TRUE
  BY <1>3
<1>5. m \in S
  BY <1>2
<1>6. ASSUME NEW n \in S, n # m PROVE Tensor!Lexicographic(m, n)
  <2>1. m \in Nat \X Nat \X Nat \X Nat /\ n \in Nat \X Nat \X Nat \X Nat
    BY <1>5
  <2>2. /\ m[1] <= n[1]
        /\ m[1] = n[1] => n \in A
        /\ n \in A => m[2] <= n[2] /\ (m[2] = n[2] => n \in B)
        /\ n \in B => m[3] <= n[3] /\ (m[3] = n[3] => n \in C)
        /\ n \in C => m[4] <= n[4]
    <3>1. m \in A /\ m \in B /\ m \in C
      BY <1>2, <1>4
    <3>2. m[1] <= n[1] /\ (m[1] = n[1] => n \in A)
      BY <3>1
    <3>3. n \in A => m[2] <= n[2] /\ (m[2] = n[2] => n \in B)
      BY <3>1
    <3>4. n \in B => m[3] <= n[3] /\ (m[3] = n[3] => n \in C)
      BY <3>1
    <3>5. n \in C => m[4] <= n[4]
      BY <1>4
    <3> QED BY <3>2, <3>3, <3>4, <3>5
  <2> HIDE DEF A, B, C, D
  <2>3. /\ m[1] \in Nat /\ m[2] \in Nat /\ m[3] \in Nat /\ m[4] \in Nat
        /\ n[1] \in Nat /\ n[2] \in Nat /\ n[3] \in Nat /\ n[4] \in Nat
        /\ m = <<m[1], m[2], m[3], m[4]>> /\ n = <<n[1], n[2], n[3], n[4]>>
    BY <2>1
  <2>4. ~(m[1] = n[1] /\ m[2] = n[2] /\ m[3] = n[3] /\ m[4] = n[4])
    BY <1>6, <2>3
  <2>5. \/ m[1] < n[1]
        \/ m[1] = n[1] /\ m[2] < n[2]
        \/ m[1] = n[1] /\ m[2] = n[2] /\ m[3] < n[3]
        \/ m[1] = n[1] /\ m[2] = n[2] /\ m[3] = n[3] /\ m[4] < n[4]
    BY <2>2, <2>3, <2>4
  <2> SUFFICES \E k \in 1 .. 4 : m[k] < n[k] /\ \A j \in 1 .. k - 1 : m[j] = n[j]
    BY DEF Tensor!Lexicographic
  <2>6. CASE m[1] < n[1]
    <3>1. 1 \in 1 .. 4 /\ \A j \in 1 .. 1 - 1 : m[j] = n[j]
      OBVIOUS
    <3> QED BY <2>6, <3>1
  <2>7. CASE m[1] = n[1] /\ m[2] < n[2]
    <3>1. 2 \in 1 .. 4 /\ \A j \in 1 .. 2 - 1 : j = 1
      OBVIOUS
    <3> QED BY <2>7, <3>1
  <2>8. CASE m[1] = n[1] /\ m[2] = n[2] /\ m[3] < n[3]
    <3>1. 3 \in 1 .. 4 /\ \A j \in 1 .. 3 - 1 : j = 1 \/ j = 2
      OBVIOUS
    <3> QED BY <2>8, <3>1
  <2>9. CASE m[1] = n[1] /\ m[2] = n[2] /\ m[3] = n[3] /\ m[4] < n[4]
    <3>1. 4 \in 1 .. 4 /\ \A j \in 1 .. 4 - 1 : j = 1 \/ j = 2 \/ j = 3
      OBVIOUS
    <3> QED BY <2>9, <3>1
  <2> QED BY <2>5, <2>6, <2>7, <2>8, <2>9
<1> HIDE DEF A, B, C, D
<1> QED BY <1>5, <1>6 DEF Tensor!FirstOf

\* A minor vanishes.
VanishesModulo(t, m) ==
  Tensor!Entry(t, m[1], m[3]) * Tensor!Entry(t, m[2], m[4])
    = Tensor!Entry(t, m[1], m[4]) * Tensor!Entry(t, m[2], m[3])

\* A tensor of the coefficients' type with a place for every one of them.
Shaped(t) ==
  /\ t.rows \in Nat \ {0} /\ t.columns \in Nat \ {0}
  /\ t.coefficients \in Seq(Signed)
  /\ Len(t.coefficients) = t.rows * t.columns

\* What the analysis has visited vanishes, what it says it has seen, and a
\* tensor that was built as a product has no minor that does not vanish.
TInv ==
  /\ verdict = "idle" => minors = {}
  /\ factors # <<>> => factors \in Factors
  /\ verdict \in {"none", "unresolved", "entangled", "separable"} =>
       /\ Shaped(tensor)
       /\ minors \subseteq Tensor!Minors(tensor)
       /\ factors # <<>> => \A m \in Tensor!Minors(tensor) : VanishesModulo(tensor, m)
  /\ verdict \in {"none", "separable"} =>
       \A m \in Tensor!Minors(tensor) \ minors : VanishesModulo(tensor, m)
  /\ verdict = "separable" => minors = {}
  /\ verdict = "entangled" => \E m \in Tensor!Minors(tensor) : ~VanishesModulo(tensor, m)
  /\ verdict = "unresolved" => \E m \in Tensor!Minors(tensor) : ~Tensor!MinorFits(m)

\* Every place of a matrix is a place of its coefficients, row after row.
LEMMA Places ==
  ASSUME NEW r \in Nat, NEW c \in Nat, NEW i \in 1 .. r, NEW j \in 1 .. c
  PROVE  /\ (i - 1) * c + j \in 1 .. r * c
         /\ ((i - 1) * c + j - 1) \div c + 1 = i
         /\ (((i - 1) * c + j - 1) % c) + 1 = j
<1>1. i - 1 \in Nat /\ r - i \in Nat /\ c \in Nat \ {0}
  OBVIOUS
<1>2. ASSUME NEW x \in Nat, NEW y \in Nat PROVE x * y \in Nat
  OBVIOUS
<1>3. (i - 1) * c \in Nat /\ (r - i) * c \in Nat
  BY <1>1, <1>2
<1>4. r * c = (i - 1) * c + c + (r - i) * c
  OBVIOUS
<1>5. (i - 1) * c + j \in 1 .. r * c
  BY <1>3, <1>4
<1> DEFINE k == (i - 1) * c + j - 1
<1>6. k \in Nat /\ k = c * (i - 1) + (j - 1) /\ j - 1 \in 0 .. c - 1
  BY <1>3
<1> HIDE DEF k
<1>7. k \div c = i - 1 /\ k % c = j - 1
  BY <1>1, <1>6
<1> QED BY <1>5, <1>7 DEF k

LEMMA EntriesAreSigned ==
  ASSUME NEW t, Shaped(t), NEW i \in 1 .. t.rows, NEW j \in 1 .. t.columns
  PROVE  Tensor!Entry(t, i, j) \in Signed
<1> PICK r \in Nat, c \in Nat : r = t.rows /\ c = t.columns
  BY DEF Shaped
<1>1. (i - 1) * c + j \in 1 .. r * c
  BY Places
<1>2. t.coefficients \in Seq(Signed) /\ Len(t.coefficients) = r * c
  BY DEF Shaped
<1>3. \A k \in 1 .. r * c : t.coefficients[k] \in Signed
  BY <1>2
<1> QED BY <1>1, <1>3 DEF Tensor!Entry

LEMMA MinorsArePlaces ==
  ASSUME NEW t, NEW m \in Tensor!Minors(t)
  PROVE  /\ m[1] \in 1 .. t.rows /\ m[2] \in 1 .. t.rows
         /\ m[3] \in 1 .. t.columns /\ m[4] \in 1 .. t.columns
         /\ m[1] < m[2] /\ m[3] < m[4]
<1>1. m \in (1 .. t.rows) \X (1 .. t.rows) \X (1 .. t.columns) \X (1 .. t.columns)
  BY DEF Tensor!Minors
<1> QED BY <1>1 DEF Tensor!Minors

\* The arithmetic of the tensors is the arithmetic of the values.
LEMMA SameArithmetic ==
  /\ Tensor!Checked!Coefficient = Signed
  /\ Tensor!Checked!Coefficient \cup {-Tensor!Checked!Minimum} = (-(Maximum + 1)) .. (Maximum + 1)
  /\ \A l, r : Tensor!Checked!MultiplyFits(l, r) <=> Histories!MultiplyFits(l, r)
  /\ \A l, r : Tensor!Checked!SubtractFits(l, r) <=> Histories!SubtractFits(l, r)
<1>1. Tensor!Checked!Coefficient = Signed
  BY DEF Signed, Tensor!Checked!Coefficient, Histories!Coefficient,
         Tensor!Checked!Minimum, Histories!Minimum
<1>2. Tensor!Checked!Coefficient \cup {-Tensor!Checked!Minimum} = (-(Maximum + 1)) .. (Maximum + 1)
  BY <1>1, SignedIsAnInterval, WidthsAssumption DEF Tensor!Checked!Minimum
<1>3. \A l, r : Tensor!Checked!MultiplyFits(l, r) <=> Histories!MultiplyFits(l, r)
  BY DEF Tensor!Checked!MultiplyFits, Histories!MultiplyFits, Tensor!Checked!Quotient,
         Histories!Quotient, Tensor!Checked!Magnitude, Histories!Magnitude,
         Tensor!Checked!Minimum, Histories!Minimum
<1>4. \A l, r : Tensor!Checked!SubtractFits(l, r) <=> Histories!SubtractFits(l, r)
  BY DEF Tensor!Checked!SubtractFits, Histories!SubtractFits,
         Tensor!Checked!Minimum, Histories!Minimum
<1> QED BY <1>1, <1>2, <1>3, <1>4

\* A tensor is separable if and only if all of its minors vanish.
LEMMA SeparableIsVanishing ==
  ASSUME NEW t, Shaped(t)
  PROVE  Tensor!Separable(t) <=> \A m \in Tensor!Minors(t) : VanishesModulo(t, m)
<1> PICK r \in Nat, c \in Nat : r = t.rows /\ c = t.columns
  BY DEF Shaped
<1> DEFINE b == Maximum + 1
<1>0. b \in Nat /\ \A x \in Signed : x \in Int /\ x \in (-b) .. b
  BY WidthsAssumption, SignedIsAnInterval
<1>1. \A n : Tensor!Vectors(n) = [1 .. n -> (-b) .. b]
  BY SameArithmetic DEF Tensor!Vectors
<1> HIDE DEF b
<1>2. ASSUME Tensor!Separable(t), NEW m \in Tensor!Minors(t) PROVE VanishesModulo(t, m)
  <2>1. PICK u \in [1 .. r -> (-b) .. b], v \in [1 .. c -> (-b) .. b] :
          \A i \in 1 .. r, j \in 1 .. c : Tensor!Entry(t, i, j) = u[i] * v[j]
    BY <1>1, <1>2 DEF Tensor!Separable
  <2>2. /\ u[m[1]] \in Int /\ u[m[2]] \in Int /\ v[m[3]] \in Int /\ v[m[4]] \in Int
        /\ Tensor!Entry(t, m[1], m[3]) = u[m[1]] * v[m[3]]
        /\ Tensor!Entry(t, m[2], m[4]) = u[m[2]] * v[m[4]]
        /\ Tensor!Entry(t, m[1], m[4]) = u[m[1]] * v[m[4]]
        /\ Tensor!Entry(t, m[2], m[3]) = u[m[2]] * v[m[3]]
    <3>1. /\ m[1] \in 1 .. r /\ m[2] \in 1 .. r /\ m[3] \in 1 .. c /\ m[4] \in 1 .. c
      BY MinorsArePlaces
    <3>2. /\ u[m[1]] \in (-b) .. b /\ u[m[2]] \in (-b) .. b
          /\ v[m[3]] \in (-b) .. b /\ v[m[4]] \in (-b) .. b
      BY <2>1, <3>1
    <3>3. u[m[1]] \in Int /\ u[m[2]] \in Int /\ v[m[3]] \in Int /\ v[m[4]] \in Int
      BY <1>0, <3>2
    <3>4. \A i \in 1 .. r, j \in 1 .. c : Tensor!Entry(t, i, j) = u[i] * v[j]
      BY <2>1
    <3>5. Tensor!Entry(t, m[1], m[3]) = u[m[1]] * v[m[3]]
      BY <3>1, <3>4
    <3>6. Tensor!Entry(t, m[2], m[4]) = u[m[2]] * v[m[4]]
      BY <3>1, <3>4
    <3>7. Tensor!Entry(t, m[1], m[4]) = u[m[1]] * v[m[4]]
      BY <3>1, <3>4
    <3>8. Tensor!Entry(t, m[2], m[3]) = u[m[2]] * v[m[3]]
      BY <3>1, <3>4
    <3> QED BY <3>3, <3>5, <3>6, <3>7, <3>8
  <2>3. ASSUME NEW x \in Int, NEW y \in Int, NEW z \in Int, NEW w \in Int
        PROVE  (x * z) * (y * w) = (x * w) * (y * z)
    OBVIOUS
  <2> QED BY <2>2, <2>3 DEF VanishesModulo
<1>3. ASSUME \A m \in Tensor!Minors(t) : VanishesModulo(t, m) PROVE Tensor!Separable(t)
  <2> DEFINE A == [i \in 1 .. r |-> [j \in 1 .. c |-> Tensor!Entry(t, i, j)]]
  <2>1. \A i \in 1 .. r, j \in 1 .. c :
          /\ Tensor!Entry(t, i, j) \in Int
          /\ Tensor!Entry(t, i, j) \in (-b) .. b
    BY <1>0, EntriesAreSigned
  <2>2. A \in [1 .. r -> [1 .. c -> Int]]
    BY <2>1
  <2>3. \A i \in 1 .. r, j \in 1 .. c : A[i][j] = Tensor!Entry(t, i, j)
    OBVIOUS
  <2> HIDE DEF A
  <2>4. ASSUME NEW i \in 1 .. r, NEW k \in 1 .. r, NEW j \in 1 .. c, NEW l \in 1 .. c,
               i < k, j < l
        PROVE  A[i][j] * A[k][l] = A[i][l] * A[k][j]
    <3>1. <<i, k, j, l>> \in Tensor!Minors(t)
      BY <2>4 DEF Tensor!Minors
    <3> QED BY <1>3, <2>3, <3>1 DEF VanishesModulo
  <2>5. ASSUME NEW i \in 1 .. r, NEW k \in 1 .. r, NEW j \in 1 .. c, NEW l \in 1 .. c
        PROVE  A[i][j] * A[k][l] = A[i][l] * A[k][j]
    <3>0. A[i][j] \in Int /\ A[k][l] \in Int /\ A[i][l] \in Int /\ A[k][j] \in Int
      BY <2>1, <2>3
    <3>1. ASSUME NEW x \in Int, NEW y \in Int PROVE x * y = y * x
      OBVIOUS
    <3>2. CASE i = k \/ j = l
      BY <3>0, <3>1, <3>2
    <3>3. CASE i < k /\ j < l
      BY <2>4, <3>3
    <3>4. CASE i < k /\ l < j
      <4>1. A[i][l] * A[k][j] = A[i][j] * A[k][l]
        BY <2>4, <3>4
      <4> QED BY <4>1
    <3>5. CASE k < i /\ j < l
      <4>1. A[k][j] * A[i][l] = A[k][l] * A[i][j]
        BY <2>4, <3>5
      <4> QED BY <3>0, <3>1, <4>1
    <3>6. CASE k < i /\ l < j
      <4>1. A[k][l] * A[i][j] = A[k][j] * A[i][l]
        BY <2>4, <3>6
      <4> QED BY <3>0, <3>1, <4>1
    <3> QED BY <3>2, <3>3, <3>4, <3>5, <3>6
  <2>6. MinorsVanish(A, r, c)
    BY <2>5 DEF MinorsVanish
  <2>7. TableWithin(A, r, c, b)
    BY <2>1, <2>2, <2>3 DEF TableWithin
  <2>8. OuterProductWithin(A, r, c, b)
    BY <1>0, <2>6, <2>7, VanishingMinorsSeparate
  <2>9. \E u \in [1 .. r -> (-b) .. b], v \in [1 .. c -> (-b) .. b] :
          \A i \in 1 .. r, j \in 1 .. c : Tensor!Entry(t, i, j) = u[i] * v[j]
    BY <2>3, <2>8 DEF OuterProductWithin
  <2> QED BY <1>1, <2>9 DEF Tensor!Separable
<1> QED BY <1>2, <1>3

\* Two vectors whose products fit, and the tensor of these products.
Multiplied(u, v, r, c) ==
  /\ \A i \in 1 .. r : u[i] \in Signed
  /\ \A j \in 1 .. c : v[j] \in Signed
  /\ \A i \in 1 .. r, j \in 1 .. c : u[i] * v[j] \in Signed

Placed(t, u, v, r, c) ==
  /\ t.rows = r /\ t.columns = c
  /\ t.coefficients = [k \in 1 .. r * c |-> u[(k - 1) \div c + 1] * v[((k - 1) % c) + 1]]

LEMMA PlaceOfCoefficient ==
  ASSUME NEW r \in Nat, NEW c \in Nat \ {0}, NEW x \in Nat, x < r * c
  PROVE  x \div c + 1 \in 1 .. r /\ (x % c) + 1 \in 1 .. c
<1>1. x \div c \in Nat /\ c * (x \div c) <= x /\ x % c \in 0 .. c - 1
  BY Division
<1>2. ASSUME NEW q \in Nat, c * q <= x, q >= r PROVE FALSE
  <2>1. ASSUME NEW d \in Nat PROVE c * d \in Nat
    OBVIOUS
  <2>2. q - r \in Nat /\ c \in Nat
    BY <1>2
  <2>3. c * (q - r) \in Nat
    BY <2>1, <2>2
  <2>4. c * (q - r) = c * q - r * c
    OBVIOUS
  <2> QED BY <1>2, <2>3, <2>4
<1>3. x \div c < r
  BY <1>1, <1>2
<1> QED BY <1>1, <1>3

LEMMA PlacedVanish ==
  ASSUME NEW r \in Nat \ {0}, NEW c \in Nat \ {0}, NEW u, NEW v, Multiplied(u, v, r, c),
         NEW t, Placed(t, u, v, r, c)
  PROVE  Shaped(t) /\ \A m \in Tensor!Minors(t) : VanishesModulo(t, m)
<1>1. ASSUME NEW k \in 1 .. r * c
      PROVE  (k - 1) \div c + 1 \in 1 .. r /\ ((k - 1) % c) + 1 \in 1 .. c
  <2>1. PICK x \in Nat : x = k - 1 /\ x < r * c
    OBVIOUS
  <2>2. x \div c + 1 \in 1 .. r /\ (x % c) + 1 \in 1 .. c
    BY <2>1, PlaceOfCoefficient
  <2> QED BY <2>1, <2>2
<1> DEFINE g == [k \in 1 .. r * c |-> u[(k - 1) \div c + 1] * v[((k - 1) % c) + 1]]
<1>2. t.rows = r /\ t.columns = c /\ t.coefficients = g
  BY DEF Placed
<1>3. g \in Seq(Signed) /\ Len(g) = r * c
  <2>1. PICK n \in Nat : n = r * c
    OBVIOUS
  <2>2. \A k \in 1 .. n : g[k] \in Signed
    BY <1>1, <2>1 DEF Multiplied
  <2>3. g \in [1 .. n -> Signed]
    BY <2>1, <2>2
  <2> HIDE DEF g
  <2> QED BY <2>1, <2>3
<1>4. ASSUME NEW i \in 1 .. r, NEW j \in 1 .. c PROVE Tensor!Entry(t, i, j) = u[i] * v[j]
  <2>1. PICK k : k = (i - 1) * c + j
    OBVIOUS
  <2>2. k \in 1 .. r * c /\ (k - 1) \div c + 1 = i /\ ((k - 1) % c) + 1 = j
    BY <2>1, Places
  <2>3. g[k] = u[i] * v[j]
    BY <2>2
  <2> HIDE DEF g
  <2> QED BY <1>2, <2>1, <2>3 DEF Tensor!Entry
<1> HIDE DEF g
<1>5. Shaped(t)
  BY <1>2, <1>3 DEF Shaped
<1>6. ASSUME NEW m \in Tensor!Minors(t) PROVE VanishesModulo(t, m)
  <2>1. m[1] \in 1 .. r /\ m[2] \in 1 .. r /\ m[3] \in 1 .. c /\ m[4] \in 1 .. c
    BY <1>2, MinorsArePlaces
  <2>2. \A x \in Signed : x \in Int
    BY SignedIsAnInterval, WidthsAssumption
  <2>3. u[m[1]] \in Int /\ u[m[2]] \in Int /\ v[m[3]] \in Int /\ v[m[4]] \in Int
    BY <2>1, <2>2 DEF Multiplied
  <2>4. ASSUME NEW x \in Int, NEW y \in Int, NEW z \in Int, NEW w \in Int
        PROVE  (x * z) * (y * w) = (x * w) * (y * z)
    OBVIOUS
  <2>5. /\ Tensor!Entry(t, m[1], m[3]) = u[m[1]] * v[m[3]]
        /\ Tensor!Entry(t, m[2], m[4]) = u[m[2]] * v[m[4]]
        /\ Tensor!Entry(t, m[1], m[4]) = u[m[1]] * v[m[4]]
        /\ Tensor!Entry(t, m[2], m[3]) = u[m[2]] * v[m[3]]
    BY <1>4, <2>1
  <2> QED BY <2>3, <2>4, <2>5 DEF VanishesModulo
<1> QED BY <1>5, <1>6

LEMMA TensorInitEstablishes == Init => TInv
<1> SUFFICES ASSUME Init PROVE TInv
  OBVIOUS
<1>1. CASE Tensor!Idle
  BY <1>1 DEF Tensor!Idle, TInv
<1>2. CASE Tensor!Init
  BY <1>2 DEF Tensor!Init, TInv
<1> QED BY <1>1, <1>2 DEF Init

\* A tensor is analyzed from the first minor on.
LEMMA AnalysisBegins ==
  ASSUME NEW t, Tensor!Analyzed(t), UNCHANGED factors, factors # <<>> => factors \in Factors,
         ~Tensor!Rejected(t) => Shaped(t),
         factors # <<>> /\ ~Tensor!Rejected(t) => \A m \in Tensor!Minors(t) : VanishesModulo(t, m)
  PROVE  TInv'
<1>1. CASE Tensor!Rejected(t)
  BY <1>1 DEF Tensor!Analyzed, TInv
<1>2. CASE ~Tensor!Rejected(t)
  <2>1. tensor' = t /\ minors' = Tensor!Minors(t) /\ verdict' = "none"
    BY <1>2 DEF Tensor!Analyzed
  <2> QED BY <1>2, <2>1 DEF TInv
<1> QED BY <1>1, <1>2

LEMMA TensorStepPreserves == TInv /\ [Next \/ Ended]_vars => TInv'
<1> SUFFICES ASSUME TInv, [Next \/ Ended]_vars PROVE TInv'
  OBVIOUS
<1>1. CASE UNCHANGED tensor_vars
  BY <1>1 DEF TInv, tensor_vars, Tensor!MinorFits, Tensor!Diagonal, Tensor!OffDiagonal
<1>2. CASE Tensor!Give
  <2>1. PICK t \in Tensors : Tensor!Analyzed(t)
    BY <1>2 DEF Tensor!Give
  <2>2. UNCHANGED factors /\ factors = <<>>
    BY <1>2 DEF Tensor!Give
  <2>3. ~Tensor!Rejected(t) => Shaped(t)
    BY TensorsAssumption DEF Tensor!Rejected, Shaped, Signed
  <2> QED BY <2>1, <2>2, <2>3, AnalysisBegins
<1>3. CASE Tensor!Multiply
  <2>1. factors \in Factors /\ UNCHANGED factors /\ verdict = "idle" /\ minors = {}
    BY <1>3 DEF Tensor!Multiply, TInv
  <2>2. CASE factors[1] = <<>> \/ factors[2] = <<>> \/ ~Tensor!ProductFits
    <3>1. verdict' = "not_built"
      BY <1>3, <2>2 DEF Tensor!Multiply
    <3> QED BY <2>1, <3>1 DEF TInv
  <2>3. CASE factors[1] # <<>> /\ factors[2] # <<>> /\ Tensor!ProductFits
    <3>1. factors[1] \in Seq(Signed) /\ factors[2] \in Seq(Signed)
      BY <2>1, TensorsAssumption DEF Signed
    <3>2. PICK u, v : u = factors[1] /\ v = factors[2]
      OBVIOUS
    <3>3. PICK r \in Nat \ {0}, c \in Nat \ {0} : r = Len(u) /\ c = Len(v)
      BY <2>3, <3>1, <3>2
    <3>4. DOMAIN u = 1 .. r /\ DOMAIN v = 1 .. c /\ u \in Seq(Signed) /\ v \in Seq(Signed)
      BY <3>1, <3>2, <3>3
    <3>5. \A i \in 1 .. r : u[i] \in Signed
      BY <3>3, <3>4
    <3>6. \A j \in 1 .. c : v[j] \in Signed
      BY <3>3, <3>4
    <3>7. \A i \in 1 .. r, j \in 1 .. c : Tensor!Checked!MultiplyFits(u[i], v[j])
      BY <2>3, <3>2, <3>4 DEF Tensor!ProductFits
    <3>8. Multiplied(u, v, r, c)
      BY <3>5, <3>6, <3>7, SameArithmetic, ProductsFitExactly DEF Multiplied
    <3>9. PICK t : /\ t = [rows |-> r, columns |-> c,
                           coefficients |-> [k \in 1 .. r * c |->
                             u[(k - 1) \div c + 1] * v[((k - 1) % c) + 1]]]
                   /\ Tensor!Analyzed(t)
      BY <1>3, <2>3, <3>2, <3>3 DEF Tensor!Multiply
    <3>10. Placed(t, u, v, r, c)
      BY <3>9 DEF Placed
    <3>11. Shaped(t) /\ \A m \in Tensor!Minors(t) : VanishesModulo(t, m)
      BY <3>8, <3>10, PlacedVanish
    <3> QED BY <2>1, <3>9, <3>11, AnalysisBegins
  <2> QED BY <2>2, <2>3
<1>4. CASE Tensor!Visit
  <2>1. verdict = "none" /\ minors # {} /\ UNCHANGED <<tensor, factors>>
    BY <1>4 DEF Tensor!Visit
  <2>2. PICK m : m = Tensor!FirstOf(minors)
    OBVIOUS
  <2>3. /\ verdict' = IF ~Tensor!MinorFits(m) THEN "unresolved"
                      ELSE IF ~VanishesModulo(tensor, m) THEN "entangled"
                      ELSE "none"
        /\ minors' = minors \ {m}
    BY <1>4, <2>2 DEF Tensor!Visit, VanishesModulo, Tensor!Product, Tensor!Diagonal, Tensor!OffDiagonal
  <2>4. m \in minors /\ minors \subseteq Tensor!Minors(tensor)
    <3>1. minors \subseteq Tensor!Minors(tensor)
      BY <2>1 DEF TInv
    <3>2. Tensor!Minors(tensor) \subseteq Nat \X Nat \X Nat \X Nat
      BY DEF Tensor!Minors
    <3> QED BY <2>1, <2>2, <3>1, <3>2, FirstExists
  <2>5. Tensor!MinorFits(m)' <=> Tensor!MinorFits(m)
    BY <2>1 DEF Tensor!MinorFits, Tensor!Diagonal, Tensor!OffDiagonal
  <2>6. CASE ~Tensor!MinorFits(m)
    <3>1. verdict' = "unresolved"
      BY <2>3, <2>6
    <3> QED BY <2>1, <2>3, <2>4, <2>5, <2>6, <3>1 DEF TInv
  <2>7. CASE Tensor!MinorFits(m) /\ ~VanishesModulo(tensor, m)
    <3>1. verdict' = "entangled"
      BY <2>3, <2>7
    <3> QED BY <2>1, <2>3, <2>4, <2>7, <3>1 DEF TInv
  <2>8. CASE Tensor!MinorFits(m) /\ VanishesModulo(tensor, m)
    <3>1. verdict' = "none"
      BY <2>3, <2>8
    <3> QED BY <2>1, <2>3, <2>4, <2>8, <3>1 DEF TInv
  <2> QED BY <2>6, <2>7, <2>8
<1>5. CASE Tensor!NoMinorLeft
  <2>1. verdict = "none" /\ minors = {} /\ verdict' = "separable" /\ UNCHANGED <<tensor, factors, minors>>
    BY <1>5 DEF Tensor!NoMinorLeft
  <2> QED BY <2>1 DEF TInv
<1>6. CASE Tensor!Next
  BY <1>2, <1>3, <1>4, <1>5, <1>6 DEF Tensor!Next
<1> QED BY <1>1, <1>6 DEF Next, Ended, vars, tensor_vars

\* What can be computed of a minor is what fits.
LEMMA MinorFitsExactly ==
  ASSUME Shaped(tensor), NEW m \in Tensor!Minors(tensor), ~Tensor!MinorFits(m)
  PROVE  LET d == Tensor!Product(Tensor!Diagonal(m))
             o == Tensor!Product(Tensor!OffDiagonal(m))
         IN ~({d, o, d - o} \subseteq Signed)
<1>1. PICK x, y, z, w :
        /\ Tensor!Diagonal(m) = <<x, y>> /\ Tensor!OffDiagonal(m) = <<z, w>>
        /\ x \in Signed /\ y \in Signed /\ z \in Signed /\ w \in Signed
  BY MinorsArePlaces, EntriesAreSigned DEF Tensor!Diagonal, Tensor!OffDiagonal
<1>2. Tensor!Product(Tensor!Diagonal(m)) = x * y /\ Tensor!Product(Tensor!OffDiagonal(m)) = z * w
  BY <1>1 DEF Tensor!Product
<1>3. Tensor!MinorFits(m)
        <=> /\ Tensor!Checked!MultiplyFits(x, y) /\ Tensor!Checked!MultiplyFits(z, w)
            /\ Tensor!Checked!SubtractFits(x * y, z * w)
  BY <1>1, <1>2 DEF Tensor!MinorFits
<1>4. Tensor!Checked!MultiplyFits(x, y) <=> x * y \in Signed
  BY <1>1, SameArithmetic, ProductsFitExactly
<1>5. Tensor!Checked!MultiplyFits(z, w) <=> z * w \in Signed
  BY <1>1, SameArithmetic, ProductsFitExactly
<1>6. x * y \in Signed /\ z * w \in Signed =>
        (Tensor!Checked!SubtractFits(x * y, z * w) <=> x * y - z * w \in Signed)
  BY SameArithmetic, DifferencesFitExactly
<1> QED BY <1>2, <1>3, <1>4, <1>5, <1>6

LEMMA TensorInvariantIsEnough == TInv => VerdictIsRank
<1> SUFFICES ASSUME TInv PROVE Tensor!VerdictIsRank
  BY DEF VerdictIsRank
<1>1. verdict = "entangled" => ~Tensor!Separable(tensor)
  BY SeparableIsVanishing DEF TInv
<1>2. verdict = "separable" => Tensor!Separable(tensor)
  BY SeparableIsVanishing DEF TInv
<1>3. verdict = "unresolved" =>
        \E m \in Tensor!Minors(tensor) :
          LET d == Tensor!Product(Tensor!Diagonal(m))
              o == Tensor!Product(Tensor!OffDiagonal(m))
          IN ~({d, o, d - o} \subseteq Tensor!Checked!Coefficient)
  <2> SUFFICES ASSUME verdict = "unresolved"
               PROVE  \E m \in Tensor!Minors(tensor) :
                        LET d == Tensor!Product(Tensor!Diagonal(m))
                            o == Tensor!Product(Tensor!OffDiagonal(m))
                        IN ~({d, o, d - o} \subseteq Signed)
    BY SameArithmetic
  <2>1. Shaped(tensor)
    BY DEF TInv
  <2>2. PICK m \in Tensor!Minors(tensor) : ~Tensor!MinorFits(m)
    BY DEF TInv
  <2> QED BY <2>1, <2>2, MinorFitsExactly
<1>4. factors # <<>> => verdict # "entangled"
  BY DEF TInv
<1> QED BY <1>1, <1>2, <1>3, <1>4 DEF Tensor!VerdictIsRank

\* Entanglement is rank greater than one, never a guess: for every width,
\* every tensor and every pair of vectors.  A table whose minors all vanish is
\* an outer product of integer vectors no larger than its entries; a tensor
\* that was built as a product is never said to be entangled; and the analysis
\* gives up only at a minor that does not fit.
THEOREM VerdictsAreRanks == Spec => []VerdictIsRank
<1>1. Spec => []TInv
  BY TensorInitEstablishes, TensorStepPreserves, PTL DEF Spec
<1> QED BY <1>1, TensorInvariantIsEnough, PTL

-------------------------------------------------------------------------------
(* Interference: what it conserves *)

\* The branches, of the first n of a packet, that ended in a state; the weights
\* of a packet; and the group that stands for these branches.
Bundle(p, n, e) == {k \in 1 .. n : p[k].endpoint = e}
WeightsOf(p) == [k \in 1 .. Len(p) |-> p[k].weight]
GroupOf(p, n, e) ==
  [weight |-> SumOver(WeightsOf(p), Bundle(p, n, e)), members |-> Cardinality(Bundle(p, n, e)),
   endpoint |-> e]

Weighted(p) == Sequential(p) /\ \A k \in 1 .. Len(p) : p[k].weight \in Int

\* The groups stand for the first n branches of the packet, each for all of
\* those that ended in its state.
Grouped(p, gs, n) ==
  /\ Sequential(gs) /\ n \in 0 .. Len(p)
  /\ \A g \in 1 .. Len(gs) :
       gs[g] = GroupOf(p, n, gs[g].endpoint) /\ Bundle(p, n, gs[g].endpoint) # {}
  /\ \A g, h \in 1 .. Len(gs) : gs[g].endpoint = gs[h].endpoint => g = h
  /\ \A k \in 1 .. n : \E g \in 1 .. Len(gs) : gs[g].endpoint = p[k].endpoint

\* The survivors are those of the first m groups that have a weight.
Heavy(gs, m) == {g \in 1 .. m : gs[g].weight # 0}
Kept(gs, ss, m) ==
  /\ Sequential(ss) /\ m \in 0 .. Len(gs)
  /\ \A i \in 1 .. Len(ss) : \E g \in Heavy(gs, m) : ss[i] = gs[g]
  /\ \A g \in Heavy(gs, m) : \E i \in 1 .. Len(ss) : ss[i] = gs[g]
  /\ \A i, j \in 1 .. Len(ss) : ss[i].endpoint = ss[j].endpoint => i = j
  /\ Len(ss) = Cardinality(Heavy(gs, m))

LEMMA FirstNumbersAreFinite ==
  ASSUME NEW n \in Nat
  PROVE  IsFiniteSet(1 .. n) /\ Cardinality(1 .. n) = n
<1>1. 1 \in Int /\ n \in Int
  OBVIOUS
<1>2. IsFiniteSet(1 .. n) /\ Cardinality(1 .. n) = IF 1 > n THEN 0 ELSE n - 1 + 1
  BY <1>1, FS_Interval
<1> QED BY <1>2

LEMMA BundlesAreSummable ==
  ASSUME NEW p, Weighted(p), NEW n \in 0 .. Len(p), NEW e
  PROVE  /\ IsFiniteSet(Bundle(p, n, e)) /\ Cardinality(Bundle(p, n, e)) \in Nat
         /\ Summable(WeightsOf(p), Bundle(p, n, e))
         /\ SumOver(WeightsOf(p), Bundle(p, n, e)) \in Int
<1>1. Len(p) \in Nat /\ n \in Nat
  BY SequentialAppend DEF Weighted
<1>2. IsFiniteSet(Bundle(p, n, e)) /\ Cardinality(Bundle(p, n, e)) \in Nat
  <2>1. Bundle(p, n, e) \in SUBSET (1 .. n)
    BY DEF Bundle
  <2> QED BY <1>1, <2>1, FirstNumbersAreFinite, FS_Subset, FS_CardinalityType
<1>3. Summable(WeightsOf(p), Bundle(p, n, e))
  <2>1. ASSUME NEW k \in Bundle(p, n, e) PROVE WeightsOf(p)[k] \in Int
    <3>1. k \in 1 .. Len(p)
      BY <1>1 DEF Bundle
    <3> QED BY <3>1 DEF WeightsOf, Weighted
  <2> QED BY <1>2, <2>1 DEF Summable
<1> QED BY <1>2, <1>3, SumType

\* One more branch: its bundle grows by it, the others stay.
LEMMA BundlesGrow ==
  ASSUME NEW p, Weighted(p), NEW n \in 0 .. Len(p) - 1, NEW e
  PROVE  /\ e # p[n + 1].endpoint => Bundle(p, n + 1, e) = Bundle(p, n, e)
         /\ e = p[n + 1].endpoint =>
              /\ n + 1 \in Bundle(p, n + 1, e)
              /\ Cardinality(Bundle(p, n + 1, e)) = Cardinality(Bundle(p, n, e)) + 1
              /\ SumOver(WeightsOf(p), Bundle(p, n + 1, e))
                   = SumOver(WeightsOf(p), Bundle(p, n, e)) + p[n + 1].weight
<1>0. Len(p) \in Nat /\ n \in Nat /\ n \in 0 .. Len(p) /\ n + 1 \in 0 .. Len(p) /\ n + 1 \in 1 .. Len(p)
  BY SequentialAppend DEF Weighted
<1>1. 1 .. n + 1 = (1 .. n) \cup {n + 1} /\ n + 1 \notin 1 .. n
  BY <1>0
<1>2. e # p[n + 1].endpoint => Bundle(p, n + 1, e) = Bundle(p, n, e)
  BY <1>1 DEF Bundle
<1>3. ASSUME e = p[n + 1].endpoint
      PROVE  /\ n + 1 \in Bundle(p, n + 1, e)
             /\ Cardinality(Bundle(p, n + 1, e)) = Cardinality(Bundle(p, n, e)) + 1
             /\ SumOver(WeightsOf(p), Bundle(p, n + 1, e))
                  = SumOver(WeightsOf(p), Bundle(p, n, e)) + p[n + 1].weight
  <2> DEFINE B == Bundle(p, n, e)
             C == Bundle(p, n + 1, e)
  <2>1. C = B \cup {n + 1} /\ n + 1 \notin B /\ C \ {n + 1} = B /\ n + 1 \in C
    BY <1>1, <1>3 DEF Bundle
  <2>2. IsFiniteSet(B) /\ Summable(WeightsOf(p), C) /\ SumOver(WeightsOf(p), B) \in Int
    BY <1>0, BundlesAreSummable
  <2>3. WeightsOf(p)[n + 1] = p[n + 1].weight /\ p[n + 1].weight \in Int
    BY <1>0 DEF WeightsOf, Weighted
  <2> HIDE DEF B, C
  <2>4. Cardinality(C) = Cardinality(B) + 1
    BY <2>1, <2>2, FS_AddElement
  <2>5. SumOver(WeightsOf(p), C) = WeightsOf(p)[n + 1] + SumOver(WeightsOf(p), B)
    BY <2>1, <2>2, SumWithout
  <2> QED BY <2>1, <2>2, <2>3, <2>4, <2>5 DEF B, C
<1> QED BY <1>2, <1>3

LEMMA NoGroupsAtFirst ==
  ASSUME NEW p, Sequential(p)
  PROVE  Grouped(p, <<>>, 0)
<1>1. Len(p) \in Nat /\ Sequential(<<>>) /\ Len(<<>>) = 0
  <2>1. <<>> \in Seq({})
    OBVIOUS
  <2> QED BY <2>1, SequentialAppend DEF Sequential
<1> QED BY <1>1 DEF Grouped

LEMMA GroupsGrow ==
  ASSUME NEW p, Weighted(p), NEW gs, NEW n, Grouped(p, gs, n), n < Len(p),
         \A g \in 1 .. Len(gs) : gs[g].endpoint # p[n + 1].endpoint,
         NEW e, e = p[n + 1].endpoint, NEW longer,
         longer = Append(gs, [weight |-> p[n + 1].weight, members |-> 1, endpoint |-> e])
  PROVE  Grouped(p, longer, n + 1)
<1> DEFINE new == [weight |-> p[n + 1].weight, members |-> 1, endpoint |-> e]
           N == Len(gs)
<1>0. Len(p) \in Nat /\ n \in 0 .. Len(p) - 1 /\ n + 1 \in 0 .. Len(p) /\ n \in 0 .. Len(p)
  BY SequentialAppend DEF Weighted, Grouped
<1>1. /\ Sequential(longer) /\ N \in Nat /\ Len(longer) = N + 1
      /\ \A g \in 1 .. N : longer[g] = gs[g]
      /\ longer[N + 1] = new
  BY SequentialAppend DEF Grouped
<1>2. Bundle(p, n, e) = {}
  <2> SUFFICES ASSUME NEW k \in 1 .. n, p[k].endpoint = e PROVE FALSE
    BY DEF Bundle
  <2>1. PICK g \in 1 .. Len(gs) : gs[g].endpoint = p[k].endpoint
    BY DEF Grouped
  <2> QED BY <2>1
<1>3. /\ Bundle(p, n + 1, e) # {} /\ Cardinality(Bundle(p, n + 1, e)) = 1
      /\ SumOver(WeightsOf(p), Bundle(p, n + 1, e)) = p[n + 1].weight
  <2>1. p[n + 1].weight \in Int
    BY <1>0 DEF Weighted
  <2>2. /\ n + 1 \in Bundle(p, n + 1, e)
        /\ Cardinality(Bundle(p, n + 1, e)) = Cardinality(Bundle(p, n, e)) + 1
        /\ SumOver(WeightsOf(p), Bundle(p, n + 1, e))
             = SumOver(WeightsOf(p), Bundle(p, n, e)) + p[n + 1].weight
    BY <1>0, BundlesGrow
  <2>3. Cardinality(Bundle(p, n, e)) = 0 /\ SumOver(WeightsOf(p), Bundle(p, n, e)) = 0
    BY <1>2, FS_EmptySet, SumOfNone
  <2>4. Bundle(p, n + 1, e) # {}
    BY <2>2
  <2> HIDE DEF new
  <2>5. Cardinality(Bundle(p, n + 1, e)) = 1
    BY <2>2, <2>3
  <2>6. SumOver(WeightsOf(p), Bundle(p, n + 1, e)) = p[n + 1].weight
    BY <2>1, <2>2, <2>3
  <2> QED BY <2>4, <2>5, <2>6
<1>4. new = GroupOf(p, n + 1, e) /\ new.endpoint = e
  BY <1>3 DEF GroupOf
<1>5. ASSUME NEW g \in 1 .. N
      PROVE  /\ gs[g] = GroupOf(p, n + 1, gs[g].endpoint)
             /\ Bundle(p, n + 1, gs[g].endpoint) # {}
  <2>1. gs[g].endpoint # e /\ gs[g] = GroupOf(p, n, gs[g].endpoint) /\ Bundle(p, n, gs[g].endpoint) # {}
    BY DEF Grouped
  <2>2. Bundle(p, n + 1, gs[g].endpoint) = Bundle(p, n, gs[g].endpoint)
    BY <1>0, <2>1, BundlesGrow
  <2> QED BY <2>1, <2>2 DEF GroupOf
<1> HIDE DEF new, N
<1>6. \A g \in 1 .. N + 1 : g \in 1 .. N \/ g = N + 1
  BY <1>1
<1>7. ASSUME NEW g \in 1 .. N + 1
      PROVE  /\ longer[g] = GroupOf(p, n + 1, longer[g].endpoint)
             /\ Bundle(p, n + 1, longer[g].endpoint) # {}
  <2>1. CASE g \in 1 .. N
    BY <1>1, <1>5, <2>1
  <2>2. CASE g = N + 1
    BY <1>1, <1>3, <1>4, <2>2
  <2> QED BY <1>6, <2>1, <2>2
<1>8. ASSUME NEW g \in 1 .. N + 1, NEW h \in 1 .. N + 1, longer[g].endpoint = longer[h].endpoint
      PROVE  g = h
  <2>1. \A i \in 1 .. N : longer[i].endpoint = gs[i].endpoint /\ gs[i].endpoint # e
    BY <1>1 DEF N
  <2>2. longer[N + 1].endpoint = e
    BY <1>1, <1>4
  <2>3. \A i, j \in 1 .. N : gs[i].endpoint = gs[j].endpoint => i = j
    BY DEF Grouped, N
  <2> QED BY <1>6, <1>8, <2>1, <2>2, <2>3
<1>9. ASSUME NEW k \in 1 .. n + 1 PROVE \E g \in 1 .. N + 1 : longer[g].endpoint = p[k].endpoint
  <2>1. CASE k = n + 1
    <3>1. N + 1 \in 1 .. N + 1
      BY <1>1
    <3> QED BY <1>1, <1>4, <2>1, <3>1
  <2>2. CASE k \in 1 .. n
    <3>1. PICK g \in 1 .. N : gs[g].endpoint = p[k].endpoint
      BY <2>2 DEF Grouped, N
    <3>2. g \in 1 .. N + 1 /\ longer[g] = gs[g]
      BY <1>1, <3>1
    <3> QED BY <3>1, <3>2
  <2>3. k = n + 1 \/ k \in 1 .. n
    BY <1>0
  <2> QED BY <2>1, <2>2, <2>3
<1> QED BY <1>0, <1>1, <1>7, <1>8, <1>9 DEF Grouped

Reweighted(t, v, z) == [t EXCEPT !.weight = v, !.members = z]
Record(x, y, e) == [weight |-> x, members |-> y, endpoint |-> e]

LEMMA ReweightedRecord ==
  ASSUME NEW x, NEW y, NEW e, NEW v, NEW z
  PROVE  Reweighted(Record(x, y, e), v, z) = Record(v, z, e)
<1>0. PICK t : t = [weight |-> x, members |-> y, endpoint |-> e]
  OBVIOUS
<1>1. PICK q : q = [t EXCEPT !.weight = v]
  OBVIOUS
<1>2. q = [weight |-> v, members |-> y, endpoint |-> e]
  BY <1>0, <1>1
<1>3. [t EXCEPT !.weight = v, !.members = z] = [q EXCEPT !.members = z]
  BY <1>1
<1>4. [q EXCEPT !.members = z] = [weight |-> v, members |-> z, endpoint |-> e]
  BY <1>2
<1>5. [t EXCEPT !.weight = v, !.members = z] = [weight |-> v, members |-> z, endpoint |-> e]
  BY <1>3, <1>4
<1> QED BY <1>0, <1>5 DEF Reweighted, Record

LEMMA GroupsAreJoined ==
  ASSUME NEW p, Weighted(p), NEW gs, NEW n, Grouped(p, gs, n), n < Len(p),
         NEW g \in 1 .. Len(gs), gs[g].endpoint = p[n + 1].endpoint
  PROVE  Grouped(p, [gs EXCEPT ![g].weight = @ + p[n + 1].weight, ![g].members = @ + 1], n + 1)
<1> DEFINE joined == [gs EXCEPT ![g].weight = @ + p[n + 1].weight, ![g].members = @ + 1]
           e == p[n + 1].endpoint
           w == p[n + 1].weight
           N == Len(gs)
<1>0. Len(p) \in Nat /\ n \in 0 .. Len(p) - 1 /\ n + 1 \in 0 .. Len(p) /\ n \in 0 .. Len(p)
  BY SequentialAppend DEF Weighted, Grouped
<1>1. N \in Nat /\ DOMAIN gs = 1 .. N
  BY SequentialAppend DEF Grouped
<1>2. /\ gs[g] = GroupOf(p, n, e) /\ Bundle(p, n, e) # {}
      /\ \A h \in 1 .. N : h # g => /\ gs[h].endpoint # e
                                   /\ gs[h] = GroupOf(p, n, gs[h].endpoint)
                                   /\ Bundle(p, n, gs[h].endpoint) # {}
  BY DEF Grouped
<1>3. joined[g] = [gs[g] EXCEPT !.weight = @ + w, !.members = @ + 1]
  BY <1>1
<1>4. \A h \in 1 .. N : h # g => joined[h] = gs[h]
  BY <1>1
<1>5. DOMAIN joined = 1 .. N /\ joined = [h \in 1 .. N |-> joined[h]]
  <2>1. joined = [h \in 1 .. N |-> joined[h]]
    BY <1>1
  <2> HIDE DEF N
  <2> QED BY <2>1
<1> HIDE DEF joined
<1>6. Sequential(joined) /\ Len(joined) = N
  <2> DEFINE S == {joined[k] : k \in 1 .. N}
  <2>1. joined \in [1 .. N -> S]
    BY <1>5
  <2> HIDE DEF S, N
  <2>2. joined \in Seq(S) /\ Len(joined) = N
    BY <1>1, <2>1
  <2> QED BY <2>2 DEF Sequential
<1>7. joined[g] = GroupOf(p, n + 1, e)
  <2>1. /\ Cardinality(Bundle(p, n + 1, e)) = Cardinality(Bundle(p, n, e)) + 1
        /\ SumOver(WeightsOf(p), Bundle(p, n + 1, e)) = SumOver(WeightsOf(p), Bundle(p, n, e)) + w
    BY <1>0, BundlesGrow
  <2> DEFINE x == SumOver(WeightsOf(p), Bundle(p, n, e))
             y == Cardinality(Bundle(p, n, e))
  <2>2. gs[g] = [weight |-> x, members |-> y, endpoint |-> e]
    BY <1>2 DEF GroupOf
  <2>3. GroupOf(p, n + 1, e) = [weight |-> x + w, members |-> y + 1, endpoint |-> e]
    BY <2>1 DEF GroupOf
  <2> HIDE DEF x, y, e, w
  <2>4. joined[g] = [weight |-> x + w, members |-> y + 1, endpoint |-> e]
    <3>1. PICK t : t = gs[g]
      OBVIOUS
    <3>2. t = Record(x, y, e) /\ t.weight = x /\ t.members = y
      BY <2>2, <3>1 DEF Record
    <3>3. joined[g] = Reweighted(t, x + w, y + 1)
      BY <1>3, <3>1, <3>2 DEF Reweighted
    <3>4. joined[g] = Record(x + w, y + 1, e)
      BY <3>2, <3>3, ReweightedRecord
    <3> QED BY <3>4 DEF Record
  <2> QED BY <2>3, <2>4
<1> HIDE DEF N, e, w
<1>8. joined[g].endpoint = e /\ Bundle(p, n + 1, e) # {}
  <2>1. n + 1 \in Bundle(p, n + 1, e)
    BY <1>0, BundlesGrow DEF e
  <2>2. joined[g].endpoint = e
    BY <1>7 DEF GroupOf
  <2> QED BY <2>1, <2>2
<1>9. ASSUME NEW h \in 1 .. N
      PROVE  /\ joined[h] = GroupOf(p, n + 1, joined[h].endpoint)
             /\ Bundle(p, n + 1, joined[h].endpoint) # {}
             /\ joined[h].endpoint = gs[h].endpoint
  <2>1. CASE h = g
    <3>1. gs[g].endpoint = e
      BY DEF e
    <3> QED BY <1>7, <1>8, <2>1, <3>1
  <2>2. CASE h # g
    <3>1. joined[h] = gs[h] /\ gs[h].endpoint # e /\ gs[h] = GroupOf(p, n, gs[h].endpoint)
          /\ Bundle(p, n, gs[h].endpoint) # {}
      BY <1>2, <1>4, <2>2
    <3>2. Bundle(p, n + 1, gs[h].endpoint) = Bundle(p, n, gs[h].endpoint)
      BY <1>0, <3>1, BundlesGrow DEF e
    <3>3. GroupOf(p, n + 1, gs[h].endpoint) = GroupOf(p, n, gs[h].endpoint)
      BY <3>2 DEF GroupOf
    <3> QED BY <3>1, <3>2, <3>3
  <2> QED BY <2>1, <2>2
<1>10. \A h, i \in 1 .. N : gs[h].endpoint = gs[i].endpoint => h = i
  BY DEF Grouped, N
<1>11. ASSUME NEW k \in 1 .. n + 1 PROVE \E h \in 1 .. N : gs[h].endpoint = p[k].endpoint
  <2>1. CASE k = n + 1
    BY <2>1 DEF N
  <2>2. CASE k \in 1 .. n
    BY <2>2 DEF Grouped, N
  <2> QED BY <1>0, <2>1, <2>2
<1>12. \A h, i \in 1 .. N : joined[h].endpoint = joined[i].endpoint => h = i
  BY <1>9, <1>10
<1>13. \A k \in 1 .. n + 1 : \E h \in 1 .. N : joined[h].endpoint = p[k].endpoint
  BY <1>9, <1>11
<1>14. Grouped(p, joined, n + 1)
  BY <1>0, <1>6, <1>9, <1>12, <1>13 DEF Grouped, N
<1> QED BY <1>14 DEF joined

LEMMA NoneKeptAtFirst ==
  ASSUME NEW gs, Sequential(gs)
  PROVE  Kept(gs, <<>>, 0)
<1>1. Len(gs) \in Nat /\ Sequential(<<>>) /\ Len(<<>>) = 0
  <2>1. <<>> \in Seq({})
    OBVIOUS
  <2> QED BY <2>1, SequentialAppend DEF Sequential
<1>2. Heavy(gs, 0) = {}
  BY DEF Heavy
<1> QED BY <1>1, <1>2, FS_EmptySet DEF Kept

\* Groups with distinct endpoints.
Distinct(gs) ==
  Sequential(gs) /\ \A g, h \in 1 .. Len(gs) : gs[g].endpoint = gs[h].endpoint => g = h

LEMMA HeavyGrows ==
  ASSUME NEW gs, Sequential(gs), NEW m \in 0 .. Len(gs) - 1
  PROVE  /\ IsFiniteSet(Heavy(gs, m)) /\ m + 1 \notin Heavy(gs, m)
         /\ gs[m + 1].weight = 0 => Heavy(gs, m + 1) = Heavy(gs, m)
         /\ gs[m + 1].weight # 0 => Heavy(gs, m + 1) = Heavy(gs, m) \cup {m + 1}
<1>1. Len(gs) \in Nat /\ m \in Nat
  BY SequentialAppend
<1>2. 1 .. m + 1 = (1 .. m) \cup {m + 1} /\ m + 1 \notin 1 .. m
  BY <1>1
<1>3. IsFiniteSet(Heavy(gs, m))
  <2>1. Heavy(gs, m) \in SUBSET (1 .. m)
    BY DEF Heavy
  <2> QED BY <1>1, <2>1, FirstNumbersAreFinite, FS_Subset
<1> QED BY <1>2, <1>3 DEF Heavy

LEMMA KeptPasses ==
  ASSUME NEW gs, NEW ss, NEW m, Kept(gs, ss, m), Sequential(gs), m < Len(gs),
         gs[m + 1].weight = 0
  PROVE  Kept(gs, ss, m + 1)
<1>1. Len(gs) \in Nat /\ m \in 0 .. Len(gs) - 1 /\ m + 1 \in 0 .. Len(gs)
  BY SequentialAppend DEF Kept
<1>2. Heavy(gs, m + 1) = Heavy(gs, m)
  BY <1>1, HeavyGrows
<1> QED BY <1>1, <1>2 DEF Kept

LEMMA KeptGrows ==
  ASSUME NEW gs, NEW ss, NEW m, Kept(gs, ss, m), Distinct(gs), m < Len(gs),
         gs[m + 1].weight # 0, NEW longer, longer = Append(ss, gs[m + 1])
  PROVE  Kept(gs, longer, m + 1)
<1> DEFINE N == Len(ss)
           H == Heavy(gs, m)
           I == Heavy(gs, m + 1)
<1>1. Len(gs) \in Nat /\ m \in 0 .. Len(gs) - 1 /\ m + 1 \in 0 .. Len(gs) /\ m + 1 \in 1 .. Len(gs)
  BY SequentialAppend DEF Kept, Distinct
<1>2. /\ Sequential(longer) /\ N \in Nat /\ Len(longer) = N + 1
      /\ \A i \in 1 .. N : longer[i] = ss[i]
      /\ longer[N + 1] = gs[m + 1]
  BY SequentialAppend DEF Kept
<1>3. I = H \cup {m + 1} /\ IsFiniteSet(H) /\ m + 1 \notin H
  BY <1>1, HeavyGrows DEF Distinct
<1>4. \A g \in H : g \in 1 .. m /\ g \in 1 .. Len(gs)
  BY <1>1 DEF Heavy
<1>5. /\ \A i \in 1 .. N : \E g \in H : ss[i] = gs[g]
      /\ \A g \in H : \E i \in 1 .. N : ss[i] = gs[g]
      /\ \A i, j \in 1 .. N : ss[i].endpoint = ss[j].endpoint => i = j
      /\ N = Cardinality(H)
  BY DEF Kept
<1>6. \A g, h \in 1 .. Len(gs) : gs[g].endpoint = gs[h].endpoint => g = h
  BY DEF Distinct
<1> HIDE DEF N, H, I
<1>7. \A i \in 1 .. N + 1 : i \in 1 .. N \/ i = N + 1
  BY <1>2
<1>8. N + 1 \in 1 .. N + 1 /\ 1 .. N \subseteq 1 .. N + 1
  BY <1>2
<1>9. ASSUME NEW i \in 1 .. N + 1 PROVE \E g \in I : longer[i] = gs[g]
  <2>1. CASE i \in 1 .. N
    <3>1. PICK g \in H : ss[i] = gs[g]
      BY <1>5, <2>1
    <3> QED BY <1>2, <1>3, <2>1, <3>1
  <2>2. CASE i = N + 1
    BY <1>2, <1>3, <2>2
  <2> QED BY <1>7, <2>1, <2>2
<1>10. ASSUME NEW g \in I PROVE \E i \in 1 .. N + 1 : longer[i] = gs[g]
  <2>1. CASE g \in H
    <3>1. PICK i \in 1 .. N : ss[i] = gs[g]
      BY <1>5, <2>1
    <3> QED BY <1>2, <1>8, <3>1
  <2>2. CASE g = m + 1
    BY <1>2, <1>8, <2>2
  <2> QED BY <1>3, <2>1, <2>2
<1>11. ASSUME NEW i \in 1 .. N PROVE longer[i].endpoint # gs[m + 1].endpoint
  <2>1. PICK g \in H : ss[i] = gs[g]
    BY <1>5
  <2>2. g # m + 1 /\ g \in 1 .. Len(gs)
    BY <1>3, <1>4
  <2>3. gs[g].endpoint # gs[m + 1].endpoint
    BY <1>1, <1>6, <2>2
  <2> QED BY <1>2, <2>1, <2>3
<1>12. ASSUME NEW i \in 1 .. N + 1, NEW j \in 1 .. N + 1, longer[i].endpoint = longer[j].endpoint
       PROVE  i = j
  <2>1. CASE i \in 1 .. N /\ j \in 1 .. N
    BY <1>2, <1>5, <1>12, <2>1
  <2>2. CASE i \in 1 .. N /\ j = N + 1
    BY <1>2, <1>11, <1>12, <2>2
  <2>3. CASE i = N + 1 /\ j \in 1 .. N
    <3>1. longer[j].endpoint # gs[m + 1].endpoint
      BY <1>11, <2>3
    <3>2. longer[i].endpoint = gs[m + 1].endpoint
      BY <1>2, <2>3
    <3> QED BY <1>12, <3>1, <3>2
  <2> QED BY <1>7, <2>1, <2>2, <2>3
<1>13. N + 1 = Cardinality(I)
  BY <1>3, <1>5, FS_AddElement
<1> HIDE DEF N, H, I
<1>14. /\ \A i \in 1 .. Len(longer) : \E g \in I : longer[i] = gs[g]
       /\ \A g \in I : \E i \in 1 .. Len(longer) : longer[i] = gs[g]
       /\ \A i, j \in 1 .. Len(longer) : longer[i].endpoint = longer[j].endpoint => i = j
       /\ Len(longer) = Cardinality(I)
  BY <1>2, <1>9, <1>10, <1>12, <1>13
<1> QED BY <1>1, <1>2, <1>14 DEF Kept, I

\* The loop over the branches groups those before its index, and the loop over
\* the groups keeps those before its index.
WInv ==
  /\ pc = "branches" =>
       /\ Weighted(packet) /\ index \in Nat \ {0} /\ groups = <<>> /\ survivors = <<>>
       /\ Weighted(left \o right)
  /\ pc = "interference" =>
       /\ Weighted(packet) /\ index \in Nat \ {0} /\ survivors = <<>>
       /\ Grouped(packet, groups, index - 1)
  /\ pc = "survival" =>
       /\ Weighted(packet) /\ index \in Nat \ {0}
       /\ Grouped(packet, groups, Len(packet)) /\ Kept(groups, survivors, index - 1)
  /\ pc \in {"done", "joined"} =>
       /\ Weighted(packet)
       /\ Grouped(packet, groups, Len(packet)) /\ Kept(groups, survivors, Len(groups))

LEMMA WeightsInit == Init => WInv
<1> SUFFICES ASSUME Init PROVE WInv
  OBVIOUS
<1>1. CASE Histories!Idle
  BY <1>1 DEF Histories!Idle, WInv
<1>2. CASE Histories!Init
  <2>1. PICK pair \in Families : left = pair[1] /\ right = pair[2]
    BY <1>2 DEF Histories!Init
  <2> DEFINE S == Histories!Range(left) \cup Histories!Range(right)
  <2>2. /\ left \in Seq(Histories!Range(left)) /\ right \in Seq(Histories!Range(right))
        /\ \A i \in DOMAIN left : left[i].weight \in Signed
        /\ \A i \in DOMAIN right : right[i].weight \in Signed
    BY <2>1, FamiliesAssumption DEF Signed
  <2>3. \A x \in S : x.weight \in Int
    BY <2>2, SignedIsAnInterval, WidthsAssumption DEF Histories!Range
  <2> HIDE DEF S
  <2>4. left \in Seq(S) /\ right \in Seq(S)
    BY <2>2, SequencesGrow DEF S
  <2>5. Weighted(left \o right)
    <3>1. left \o right \in Seq(S)
      BY <2>4
    <3>2. \A k \in 1 .. Len(left \o right) : (left \o right)[k] \in S
      BY <3>1
    <3> QED BY <2>3, <3>1, <3>2 DEF Weighted, Sequential
  <2>6. Weighted(<<>>)
    <3>1. <<>> \in Seq({}) /\ Len(<<>>) = 0
      OBVIOUS
    <3> QED BY <3>1 DEF Weighted, Sequential
  <2>7. pc = "branches" /\ index = 1 /\ packet = <<>> /\ groups = <<>> /\ survivors = <<>>
    BY <1>2 DEF Histories!Init
  <2> QED BY <2>5, <2>6, <2>7 DEF WInv
<1> QED BY <1>1, <1>2 DEF Init

LEMMA WeightedGrows ==
  ASSUME NEW p, Weighted(p), NEW b, b.weight \in Int
  PROVE  Weighted(Append(p, b))
<1> DEFINE longer == Append(p, b)
<1>1. /\ Sequential(longer) /\ Len(p) \in Nat /\ Len(longer) = Len(p) + 1
      /\ \A k \in 1 .. Len(p) : longer[k] = p[k]
      /\ longer[Len(p) + 1] = b
  BY SequentialAppend DEF Weighted
<1> HIDE DEF longer
<1>2. ASSUME NEW k \in 1 .. Len(longer) PROVE longer[k].weight \in Int
  <2>1. k \in 1 .. Len(p) \/ k = Len(p) + 1
    BY <1>1
  <2> QED BY <1>1, <2>1 DEF Weighted
<1> QED BY <1>1, <1>2 DEF Weighted, longer

LEMMA WeightsStep == WInv /\ [Next \/ Ended]_vars => WInv'
<1> SUFFICES ASSUME WInv, [Next \/ Ended]_vars PROVE WInv'
  OBVIOUS
<1>0. CASE UNCHANGED history_vars
  BY <1>0 DEF WInv, history_vars
<1>1. CASE Histories!SkipBranch
  BY <1>1 DEF Histories!SkipBranch, Histories!InBranch, Histories!request, WInv
<1>2. CASE Histories!Execute
  BY <1>2 DEF Histories!Execute, Histories!InBranch, Histories!request, WInv
<1>3. CASE Histories!ReachEndpoint
  <2> DEFINE b == [weight |-> (left \o right)[index].weight, endpoint |-> outcome.state]
  <2>1. /\ packet' = Append(packet, b) /\ index' = index + 1 /\ index <= Len(left \o right)
        /\ pc = "branches" /\ UNCHANGED <<left, right, pc, groups, survivors>>
    BY <1>3 DEF Histories!ReachEndpoint, Histories!InBranch, Histories!request,
                Histories!Branch, Histories!family, Histories!Superpose
  <2>2. Weighted(packet) /\ index \in Nat \ {0} /\ groups = <<>> /\ survivors = <<>>
        /\ Weighted(left \o right)
    BY <2>1 DEF WInv
  <2>3. b.weight \in Int
    <3>1. Len(left \o right) \in Nat
      BY <2>2, SequentialAppend DEF Weighted
    <3>2. index \in 1 .. Len(left \o right)
      BY <2>1, <2>2, <3>1
    <3> QED BY <2>2, <3>2 DEF Weighted
  <2> HIDE DEF b
  <2>4. Weighted(packet')
    BY <2>1, <2>2, <2>3, WeightedGrows
  <2> QED BY <2>1, <2>2, <2>4 DEF WInv
<1>4. CASE Histories!BeginInterference
  <2>1. /\ pc = "branches" /\ pc' = "interference" /\ index' = 1
        /\ UNCHANGED <<packet, groups, survivors>>
    BY <1>4 DEF Histories!BeginInterference
  <2>2. Weighted(packet) /\ groups = <<>> /\ survivors = <<>>
    BY <2>1 DEF WInv
  <2>3. Grouped(packet, groups, 0) /\ index' - 1 = 0
    BY <2>1, <2>2, NoGroupsAtFirst DEF Weighted
  <2> QED BY <2>1, <2>2, <2>3 DEF WInv
<1>5. CASE Histories!NewGroup
  <2>1. /\ pc = "interference" /\ index <= Len(packet) /\ Histories!Matching(packet[index]) = {}
        /\ groups' = Append(groups, [weight |-> packet[index].weight, members |-> 1,
                                     endpoint |-> packet[index].endpoint])
        /\ index' = index + 1 /\ UNCHANGED <<pc, packet, survivors>>
    BY <1>5 DEF Histories!NewGroup
  <2>2. Weighted(packet) /\ index \in Nat \ {0} /\ survivors = <<>> /\ Grouped(packet, groups, index - 1)
    BY <2>1 DEF WInv
  <2>3. DOMAIN groups = 1 .. Len(groups) /\ Len(packet) \in Nat
    BY <2>2, SequentialAppend DEF Grouped, Weighted
  <2>4. \A g \in 1 .. Len(groups) : groups[g].endpoint # packet[index].endpoint
    BY <2>1, <2>3 DEF Histories!Matching, Histories!SameEndpoint
  <2>5. PICK n : n = index - 1 /\ n < Len(packet) /\ n + 1 = index /\ index' - 1 = n + 1
                 /\ index' \in Nat \ {0}
    BY <2>1, <2>2, <2>3
  <2>6. Grouped(packet, groups', n + 1)
    BY <2>1, <2>2, <2>4, <2>5, GroupsGrow
  <2> QED BY <2>1, <2>2, <2>5, <2>6 DEF WInv
<1>6. CASE Histories!JoinGroup
  <2> DEFINE h == Histories!Min(Histories!Matching(packet[index]))
             w == packet[index].weight
  <2>1. /\ pc = "interference" /\ index <= Len(packet) /\ Histories!Matching(packet[index]) # {}
        /\ UNCHANGED <<packet, survivors>>
        /\ \/ /\ groups' = [groups EXCEPT ![h].weight = @ + w, ![h].members = @ + 1]
              /\ index' = index + 1 /\ UNCHANGED pc
           \/ pc' = "refused"
    BY <1>6 DEF Histories!JoinGroup
  <2> HIDE DEF h, w
  <2>2. Weighted(packet) /\ index \in Nat \ {0} /\ survivors = <<>> /\ Grouped(packet, groups, index - 1)
    BY <2>1 DEF WInv
  <2>3. DOMAIN groups = 1 .. Len(groups) /\ Len(packet) \in Nat
    BY <2>2, SequentialAppend DEF Grouped, Weighted
  <2>4. PICK n : n = index - 1 /\ n < Len(packet) /\ n + 1 = index
    BY <2>1, <2>2, <2>3
  <2>5. PICK g \in 1 .. Len(groups) : groups[g].endpoint = packet[index].endpoint
    BY <2>1, <2>3 DEF Histories!Matching, Histories!SameEndpoint
  <2>6. Histories!Matching(packet[index]) = {g}
    <3>1. \A i \in 1 .. Len(groups) : groups[i].endpoint = packet[index].endpoint <=> i = g
      BY <2>2, <2>5 DEF Grouped
    <3> QED BY <2>3, <3>1 DEF Histories!Matching, Histories!SameEndpoint
  <2>7. h = g
    <3>1. g \in Int /\ g <= g
      BY <2>5
    <3> QED BY <2>6, <3>1 DEF h, Histories!Min
  <2>8. CASE pc' = "refused"
    BY <2>8 DEF WInv
  <2>9. CASE /\ groups' = [groups EXCEPT ![h].weight = @ + w, ![h].members = @ + 1]
             /\ index' = index + 1 /\ UNCHANGED pc
    <3>1. Grouped(packet, [groups EXCEPT ![g].weight = @ + packet[n + 1].weight,
                                         ![g].members = @ + 1], n + 1)
      BY <2>2, <2>4, <2>5, GroupsAreJoined
    <3>2. groups' = [groups EXCEPT ![g].weight = @ + packet[n + 1].weight, ![g].members = @ + 1]
      BY <2>4, <2>7, <2>9 DEF w
    <3>3. Grouped(packet, groups', n + 1)
      BY <3>1, <3>2
    <3>4. index' - 1 = n + 1 /\ index' \in Nat \ {0}
      BY <2>2, <2>4, <2>9
    <3> QED BY <2>1, <2>2, <2>9, <3>3, <3>4 DEF WInv
  <2> QED BY <2>1, <2>8, <2>9
<1>7. CASE Histories!BeginSurvival
  <2>1. /\ pc = "interference" /\ index > Len(packet) /\ pc' = "survival" /\ index' = 1
        /\ UNCHANGED <<packet, groups, survivors>>
    BY <1>7 DEF Histories!BeginSurvival
  <2>2. Weighted(packet) /\ index \in Nat \ {0} /\ survivors = <<>> /\ Grouped(packet, groups, index - 1)
    BY <2>1 DEF WInv
  <2>3. index - 1 = Len(packet)
    <3>1. Len(packet) \in Nat /\ index - 1 \in 0 .. Len(packet)
      BY <2>2, SequentialAppend DEF Weighted, Grouped
    <3> QED BY <2>1, <2>2, <3>1
  <2>4. Kept(groups, survivors, 0) /\ index' - 1 = 0 /\ index' \in Nat \ {0}
    BY <2>1, <2>2, NoneKeptAtFirst DEF Grouped
  <2> QED BY <2>1, <2>2, <2>3, <2>4 DEF WInv
<1>8. CASE Histories!Survive
  <2>1. /\ pc = "survival" /\ index <= Len(groups) /\ index' = index + 1
        /\ survivors' = IF groups[index].weight # 0 THEN Append(survivors, groups[index]) ELSE survivors
        /\ UNCHANGED <<pc, packet, groups>>
    BY <1>8 DEF Histories!Survive, Histories!Survives
  <2>2. /\ Weighted(packet) /\ index \in Nat \ {0}
        /\ Grouped(packet, groups, Len(packet)) /\ Kept(groups, survivors, index - 1)
    BY <2>1 DEF WInv
  <2>3. Distinct(groups) /\ Sequential(groups) /\ Len(groups) \in Nat
    BY <2>2, SequentialAppend DEF Grouped, Distinct
  <2>4. PICK m : m = index - 1 /\ m < Len(groups) /\ m + 1 = index /\ index' - 1 = m + 1
                 /\ index' \in Nat \ {0}
    BY <2>1, <2>2, <2>3
  <2>5. CASE groups[index].weight = 0
    <3>1. Kept(groups, survivors, m + 1) /\ survivors' = survivors
      BY <2>1, <2>2, <2>3, <2>4, <2>5, KeptPasses
    <3> QED BY <2>1, <2>2, <2>4, <3>1 DEF WInv
  <2>6. CASE groups[index].weight # 0
    <3>1. survivors' = Append(survivors, groups[m + 1])
      BY <2>1, <2>4, <2>6
    <3>2. Kept(groups, survivors', m + 1)
      BY <2>2, <2>3, <2>4, <2>6, <3>1, KeptGrows
    <3> QED BY <2>1, <2>2, <2>4, <3>2 DEF WInv
  <2> QED BY <2>5, <2>6
<1>9. CASE Histories!ReturnSurvivors
  <2>1. /\ pc = "survival" /\ index > Len(groups) /\ pc' = "done"
        /\ UNCHANGED <<packet, groups, survivors>>
    BY <1>9 DEF Histories!ReturnSurvivors
  <2>2. /\ Weighted(packet) /\ index \in Nat \ {0}
        /\ Grouped(packet, groups, Len(packet)) /\ Kept(groups, survivors, index - 1)
    BY <2>1 DEF WInv
  <2>3. index - 1 = Len(groups)
    <3>1. Len(groups) \in Nat /\ index - 1 \in 0 .. Len(groups)
      BY <2>2, SequentialAppend DEF Grouped, Kept
    <3> QED BY <2>1, <2>2, <3>1
  <2> QED BY <2>1, <2>2, <2>3 DEF WInv
<1>10. CASE Histories!Join
  <2>1. pc = "done" /\ pc' = "joined" /\ UNCHANGED <<packet, groups, survivors>>
    BY <1>10 DEF Histories!Join
  <2> QED BY <2>1 DEF WInv
<1>11. CASE Histories!Next
  BY <1>1, <1>2, <1>3, <1>4, <1>5, <1>6, <1>7, <1>8, <1>9, <1>10, <1>11 DEF Histories!Next
<1> QED BY <1>0, <1>11 DEF Next, Ended, vars

\* Sums and sizes of the model are those of the lemmas.
SumInHistories(f, S) == Histories!MapThenSumSet(LAMBDA x : f[x], S)

LEMMA SumsAreSums ==
  ASSUME NEW f, NEW S
  PROVE  SumInHistories(f, S) = SumOver(f, S)
BY DEF SumInHistories, SumOver, MapThenSumSet, MapThenFoldSet, Histories!MapThenSumSet, Histories!MapThenFoldSet

LEMMA SizesAreSizes ==
  ASSUME NEW S
  PROVE  Histories!Cardinality(S) = Cardinality(S)
BY DEF Histories!Cardinality, Cardinality

LEMMA WeightIsSum ==
  ASSUME NEW p, Sequential(p), NEW e
  PROVE  Histories!Weight(p, e) = SumOver(WeightsOf(p), Bundle(p, Len(p), e))
<1>1. DOMAIN p = 1 .. Len(p)
  BY SequentialAppend
<1>2. PICK f, S : f = WeightsOf(p) /\ S = Bundle(p, Len(p), e)
  OBVIOUS
<1>3. Histories!Weight(p, e) = SumInHistories(f, S)
  BY <1>1, <1>2 DEF Histories!Weight, WeightsOf, Bundle, SumInHistories
<1> QED BY <1>2, <1>3, SumsAreSums

\* What the invariant says at the end of the two loops.
LEMMA WeightsAreConserved == WInv => InterferenceConserves
<1> SUFFICES ASSUME WInv, pc \in {"done", "joined"}
             PROVE  /\ \A b \in Histories!Range(packet) :
                         Histories!Weight(survivors, b.endpoint) = Histories!Weight(packet, b.endpoint)
                    /\ \A i, j \in DOMAIN survivors :
                         survivors[i].endpoint = survivors[j].endpoint => i = j
                    /\ \A s \in Histories!Range(survivors) : s.weight # 0
                    /\ Histories!CanceledBranches = Histories!Cardinality(Histories!Canceled)
                    /\ Histories!CanceledEndpoints
                         = Histories!Cardinality({packet[k].endpoint : k \in Histories!Canceled})
  BY DEF InterferenceConserves, Histories!InterferenceConserves
<1> DEFINE L == Len(packet)
           G == Len(groups)
           N == Len(survivors)
           H == Heavy(groups, G)
           Z == (1 .. G) \ H
           e == [g \in 1 .. G |-> groups[g].endpoint]
           B == [g \in 1 .. G |-> Bundle(packet, L, e[g])]
           S(x) == SumOver(WeightsOf(packet), Bundle(packet, L, x))
<1>1. Weighted(packet) /\ Grouped(packet, groups, L) /\ Kept(groups, survivors, G)
  BY DEF WInv
<1>2. /\ Sequential(packet) /\ Sequential(groups) /\ Sequential(survivors)
      /\ L \in Nat /\ G \in Nat /\ N \in Nat
      /\ DOMAIN packet = 1 .. L /\ DOMAIN groups = 1 .. G /\ DOMAIN survivors = 1 .. N
  BY <1>1, SequentialAppend DEF Weighted, Grouped, Kept
<1>3. ASSUME NEW g \in 1 .. G
      PROVE  /\ e[g] = groups[g].endpoint /\ groups[g].weight = S(e[g])
             /\ groups[g].members = Cardinality(B[g]) /\ B[g] # {} /\ B[g] = Bundle(packet, L, e[g])
             /\ IsFiniteSet(B[g])
  <2>1. groups[g] = GroupOf(packet, L, groups[g].endpoint) /\ Bundle(packet, L, groups[g].endpoint) # {}
    BY <1>1 DEF Grouped
  <2>2. e[g] = groups[g].endpoint /\ B[g] = Bundle(packet, L, e[g])
    OBVIOUS
  <2>3. IsFiniteSet(Bundle(packet, L, e[g]))
    BY <1>1, <1>2, BundlesAreSummable
  <2> HIDE DEF e, B
  <2> QED BY <2>1, <2>2, <2>3 DEF GroupOf
<1>4. /\ \A g, h \in 1 .. G : e[g] = e[h] => g = h
      /\ \A k \in 1 .. L : \E g \in 1 .. G : e[g] = packet[k].endpoint
  <2>1. \A g \in 1 .. G : e[g] = groups[g].endpoint
    OBVIOUS
  <2> HIDE DEF e
  <2> QED BY <1>1, <2>1 DEF Grouped
<1>5. ASSUME NEW g \in 1 .. G PROVE g \in H <=> S(e[g]) # 0
  <2> HIDE DEF e, S
  <2> QED BY <1>3 DEF Heavy
<1>6. ASSUME NEW x PROVE Histories!Weight(packet, x) = S(x)
  BY <1>2, WeightIsSum
<1>7. H \subseteq 1 .. G /\ IsFiniteSet(1 .. G) /\ IsFiniteSet(H) /\ Cardinality(1 .. G) = G
  <2>1. H \in SUBSET (1 .. G)
    BY DEF Heavy
  <2> QED BY <1>2, <2>1, FirstNumbersAreFinite, FS_Subset
<1>8. /\ \A i \in 1 .. N : \E g \in H : survivors[i] = groups[g]
      /\ \A g \in H : \E i \in 1 .. N : survivors[i] = groups[g]
      /\ \A i, j \in 1 .. N : survivors[i].endpoint = survivors[j].endpoint => i = j
      /\ N = Cardinality(H)
  BY <1>1 DEF Kept
<1> HIDE DEF L, G, N, H, e, B, S
<1>9. ASSUME NEW b \in Histories!Range(packet)
      PROVE  Histories!Weight(survivors, b.endpoint) = Histories!Weight(packet, b.endpoint)
  <2>1. PICK g \in 1 .. G : e[g] = b.endpoint
    BY <1>2, <1>4 DEF Histories!Range
  <2> DEFINE W == WeightsOf(survivors)
             C == Bundle(survivors, N, b.endpoint)
  <2>2. Histories!Weight(survivors, b.endpoint) = SumOver(W, C)
    BY <1>2, WeightIsSum DEF N
  <2>3. CASE g \in H
    <3>1. PICK i \in 1 .. N : survivors[i] = groups[g]
      BY <1>8, <2>3
    <3>2. survivors[i].endpoint = b.endpoint /\ survivors[i].weight = S(b.endpoint)
      BY <1>3, <2>1, <3>1
    <3>3. C = {i}
      BY <1>8, <3>2 DEF Bundle
    <3>4. W[i] = S(b.endpoint)
      BY <3>2 DEF WeightsOf, N
    <3>5. S(b.endpoint) \in Int
      BY <1>1, <1>2, BundlesAreSummable DEF S
    <3> HIDE DEF C, W
    <3>6. Summable(W, C) /\ i \in C /\ C \ {i} = {}
      BY <3>3, <3>4, <3>5, FS_Singleton DEF Summable
    <3>7. SumOver(W, C) = W[i] + SumOver(W, C \ {i})
      BY <3>6, SumWithout
    <3>8. SumOver(W, C) = W[i] + 0
      BY <3>6, <3>7, SumOfNone
    <3> QED BY <1>6, <2>2, <3>4, <3>5, <3>8
  <2>4. CASE g \notin H
    <3>1. C = {}
      <4> SUFFICES ASSUME NEW i \in 1 .. N, survivors[i].endpoint = b.endpoint PROVE FALSE
        BY DEF Bundle
      <4>1. PICK h \in H : survivors[i] = groups[h]
        BY <1>8
      <4>2. h \in 1 .. G /\ e[h] = e[g]
        BY <1>3, <1>7, <2>1, <4>1
      <4> QED BY <1>4, <2>4, <4>2
    <3>2. S(b.endpoint) = 0
      BY <1>5, <2>1, <2>4
    <3> HIDE DEF C, W
    <3> QED BY <1>6, <2>2, <3>1, <3>2, SumOfNone
  <2> QED BY <2>3, <2>4
<1>10. \A s \in Histories!Range(survivors) : s.weight # 0
  <2>1. \A g \in H : groups[g].weight # 0
    BY DEF H, Heavy
  <2> QED BY <1>2, <1>8, <2>1 DEF Histories!Range
<1>11. Z \subseteq 1 .. G /\ IsFiniteSet(Z) /\ Cardinality(Z) = G - N
  <2>1. (1 .. G) \cap H = H
    BY <1>7
  <2>2. IsFiniteSet(Z) /\ Cardinality(Z) = Cardinality(1 .. G) - Cardinality(H)
    BY <1>7, <2>1, FS_Difference
  <2> QED BY <1>7, <1>8, <2>2
<1>12. Histories!Canceled = UNION {B[g] : g \in Z}
  <2>1. Histories!Canceled = {k \in 1 .. L : S(packet[k].endpoint) = 0}
    BY <1>2, <1>6 DEF Histories!Canceled
  <2>2. ASSUME NEW k \in 1 .. L, S(packet[k].endpoint) = 0 PROVE \E g \in Z : k \in B[g]
    <3>1. PICK g \in 1 .. G : e[g] = packet[k].endpoint
      BY <1>4
    <3>2. g \in Z
      BY <1>5, <2>2, <3>1
    <3>3. k \in Bundle(packet, L, e[g])
      BY <3>1 DEF Bundle
    <3> QED BY <1>3, <3>2, <3>3
  <2>3. ASSUME NEW g \in Z, NEW k \in B[g] PROVE k \in 1 .. L /\ S(packet[k].endpoint) = 0
    <3>1. S(e[g]) = 0 /\ k \in Bundle(packet, L, e[g])
      BY <1>3, <1>5, <1>11
    <3> QED BY <3>1 DEF Bundle
  <2> HIDE DEF Z
  <2> QED BY <2>1, <2>2, <2>3
<1>13. Histories!CanceledBranches = Cardinality(Histories!Canceled)
  <2> DEFINE f == [g \in 1 .. G |-> groups[g].members]
  <2>1. Histories!CanceledBranches = SumInHistories(f, Z)
    <3>1. {g \in DOMAIN groups : ~Histories!Survives(groups[g])} = Z
      BY <1>2 DEF Histories!Survives, H, Heavy
    <3>2. PICK h, T : /\ h = [g \in DOMAIN groups |-> groups[g].members]
                      /\ T = {g \in DOMAIN groups : ~Histories!Survives(groups[g])}
      OBVIOUS
    <3>3. Histories!CanceledBranches = SumInHistories(h, T)
      BY <3>2 DEF Histories!CanceledBranches, SumInHistories
    <3>4. h = f /\ T = Z
      BY <1>2, <3>1, <3>2
    <3> HIDE DEF Z, f
    <3> QED BY <3>3, <3>4
  <2>2. \A g \in Z : f[g] = Cardinality(B[g])
    BY <1>3, <1>11
  <2>3. Disjoint(B, Z)
    <3>1. \A g \in Z : IsFiniteSet(B[g])
      BY <1>3, <1>11
    <3>2. ASSUME NEW g \in Z, NEW h \in Z, g # h PROVE B[g] \cap B[h] = {}
      <4>1. /\ e[g] # e[h] /\ B[g] = Bundle(packet, L, e[g]) /\ B[h] = Bundle(packet, L, e[h])
        BY <1>3, <1>4, <1>11, <3>2
      <4> QED BY <4>1 DEF Bundle
    <3> HIDE DEF Z
    <3> QED BY <3>1, <3>2 DEF Disjoint
  <2> HIDE DEF f, Z
  <2>4. SumOver(f, Z) = Cardinality(Histories!Canceled)
    <3>1. Sizes(f, B, Z) /\ Histories!Canceled = UnionOver(B, Z)
      BY <1>12, <2>2 DEF Sizes, UnionOver
    <3> QED BY <1>11, <2>3, <3>1, SumOfSizes
  <2> QED BY <2>1, <2>4, SumsAreSums
<1>14. Histories!CanceledEndpoints = Cardinality({packet[k].endpoint : k \in Histories!Canceled})
  <2> DEFINE T == {packet[k].endpoint : k \in Histories!Canceled}
             d == [g \in Z |-> e[g]]
  <2>1. T = {e[g] : g \in Z}
    <3>1. ASSUME NEW k \in Histories!Canceled PROVE \E g \in Z : packet[k].endpoint = e[g]
      <4>1. PICK g \in Z : k \in B[g]
        BY <1>12
      <4>2. k \in Bundle(packet, L, e[g])
        BY <1>3, <1>11, <4>1
      <4> QED BY <4>2 DEF Bundle
    <3>2. ASSUME NEW g \in Z PROVE \E k \in Histories!Canceled : packet[k].endpoint = e[g]
      <4>1. PICK k : k \in B[g]
        BY <1>3, <1>11
      <4>2. k \in Bundle(packet, L, e[g])
        BY <1>3, <1>11, <4>1
      <4>3. k \in Histories!Canceled
        BY <1>12, <4>1
      <4> QED BY <4>2, <4>3 DEF Bundle
    <3> HIDE DEF Z
    <3> QED BY <3>1, <3>2
  <2> HIDE DEF T
  <2>2. d \in Bijection(Z, T)
    <3>1. DOMAIN d = Z /\ \A g \in Z : d[g] = e[g] /\ e[g] \in T
      BY <2>1
    <3>2. d \in [Z -> T]
      BY <2>1
    <3>3. \A g, h \in Z : e[g] = e[h] => g = h
      BY <1>4, <1>11
    <3>4. \A x \in T : \E g \in Z : e[g] = x
      BY <2>1
    <3> HIDE DEF d, Z
    <3>5. d \in Surjection(Z, T)
      BY <3>1, <3>2, <3>4 DEF Surjection
    <3>6. IsInjective(d)
      BY <3>1, <3>3 DEF IsInjective
    <3> QED BY <3>2, <3>5, <3>6 DEF Bijection, Injection, IsInjective
  <2> HIDE DEF d, Z
  <2>3. Cardinality(T) = G - N
    BY <1>11, <2>2, FS_Bijection DEF ExistsBijection
  <2> QED BY <2>3 DEF T, Histories!CanceledEndpoints, G, N
<1>15. \A i, j \in DOMAIN survivors : survivors[i].endpoint = survivors[j].endpoint => i = j
  BY <1>2, <1>8
<1> HIDE DEF Z
<1> QED BY <1>9, <1>10, <1>13, <1>14, <1>15, SizesAreSizes

\* Interference conserves weight: for every family of branches, every input and
\* every width, what survives carries, for every complete state, the weight of
\* all the branches that ended in it, and what cancelled is counted exactly.
THEOREM WeightIsConserved == Spec => []InterferenceConserves
<1>1. Spec => []WInv
  BY WeightsInit, WeightsStep, PTL DEF Spec
<1> QED BY <1>1, WeightsAreConserved, PTL
===============================================================================
