----------------------------- MODULE TensorHistory -----------------------------
(***************************************************************************)
(* tensor_product and analyze_entanglement of src/high_dimensional.cpp.  A *)
(* tensor is a matrix of coefficients, row after row; the analysis visits  *)
(* its minors of two rows and two columns until one is not zero or cannot  *)
(* be computed.  One step per minor.                                       *)
(***************************************************************************)
EXTENDS Integers, Sequences

CONSTANTS
  Maximum,      \* the largest Coefficient
  Tensors,      \* the tensors a caller gives: rows, columns, coefficients
  Factors       \* the pairs of vectors a caller multiplies

VARIABLES tensor, factors, minors, verdict

vars == <<tensor, factors, minors, verdict>>

Checked == INSTANCE TriClassArithmetic

\* TensorHistory::exact.
Rejected(t) == t.rows = 0 \/ t.columns = 0 \/ Len(t.coefficients) # t.rows * t.columns

Entry(t, i, j) == t.coefficients[(i - 1) * t.columns + j]

Lexicographic(p, q) ==
  \E k \in 1 .. 4 : p[k] < q[k] /\ \A j \in 1 .. k - 1 : p[j] = q[j]

\* Variant: neighbouring rows only.
MinorsOfNeighbours(t) ==
  {m \in (1 .. t.rows) \X (1 .. t.rows) \X (1 .. t.columns) \X (1 .. t.columns) :
     m[2] = m[1] + 1 /\ m[3] < m[4]}

\* Two rows and two columns.
Minors(t) ==
  {m \in (1 .. t.rows) \X (1 .. t.rows) \X (1 .. t.columns) \X (1 .. t.columns) :
     m[1] < m[2] /\ m[3] < m[4]}

\* The one that the nesting of the four loops reaches first.
FirstOf(S) == CHOOSE m \in S : \A n \in S : n = m \/ Lexicographic(m, n)

Analyzed(t) ==
  /\ tensor' = t
  /\ minors' = IF Rejected(t) THEN {} ELSE Minors(t)
  /\ verdict' = IF Rejected(t) THEN "rejected" ELSE "none"

Init ==
  /\ tensor = [rows |-> 0, columns |-> 0, coefficients |-> <<>>]
  /\ minors = {} /\ verdict = "idle"
  /\ factors \in Factors \cup {<<>>}

Idle ==
  /\ tensor = [rows |-> 0, columns |-> 0, coefficients |-> <<>>]
  /\ minors = {} /\ verdict = "out" /\ factors = <<>>

Give ==
  /\ verdict = "idle" /\ factors = <<>>
  /\ \E t \in Tensors : Analyzed(t)
  /\ UNCHANGED factors

ProductFits ==
  \A i \in DOMAIN factors[1], j \in DOMAIN factors[2] :
    Checked!MultiplyFits(factors[1][i], factors[2][j])

\* tensor_product, whose continuation claims nothing about the tensor.
Multiply ==
  /\ verdict = "idle" /\ factors # <<>>
  /\ LET l == factors[1]
         r == factors[2]
     IN IF l = <<>> \/ r = <<>> \/ ~ProductFits
        THEN verdict' = "not_built" /\ UNCHANGED <<tensor, minors>>
        ELSE Analyzed([rows |-> Len(l), columns |-> Len(r),
               coefficients |-> [k \in 1 .. Len(l) * Len(r) |->
                 l[(k - 1) \div Len(r) + 1] * r[((k - 1) % Len(r)) + 1]]])
  /\ UNCHANGED factors

Diagonal(m)    == <<Entry(tensor, m[1], m[3]), Entry(tensor, m[2], m[4])>>
OffDiagonal(m) == <<Entry(tensor, m[1], m[4]), Entry(tensor, m[2], m[3])>>
Product(p) == p[1] * p[2]

MinorFits(m) ==
  /\ Checked!MultiplyFits(Diagonal(m)[1], Diagonal(m)[2])
  /\ Checked!MultiplyFits(OffDiagonal(m)[1], OffDiagonal(m)[2])
  /\ Checked!SubtractFits(Product(Diagonal(m)), Product(OffDiagonal(m)))

Visit ==
  /\ verdict = "none" /\ minors # {}
  /\ LET m == FirstOf(minors)
     IN /\ verdict' = IF ~MinorFits(m) THEN "unresolved"
                      ELSE IF Product(Diagonal(m)) # Product(OffDiagonal(m)) THEN "entangled"
                      ELSE "none"
        /\ minors' = minors \ {m}
  /\ UNCHANGED <<tensor, factors>>

NoMinorLeft ==
  /\ verdict = "none" /\ minors = {}
  /\ verdict' = "separable"
  /\ UNCHANGED <<tensor, factors, minors>>

Next == Give \/ Multiply \/ Visit \/ NoMinorLeft

-------------------------------------------------------------------------------
(* Properties *)

Vectors(n) == [1 .. n -> Checked!Coefficient \cup {-Checked!Minimum}]

\* Rank at most one over the rationals: an outer product of integer vectors
\* (their entries are no larger than the tensor's).
Separable(t) ==
  \E u \in Vectors(t.rows), v \in Vectors(t.columns) :
    \A i \in 1 .. t.rows, j \in 1 .. t.columns : Entry(t, i, j) = u[i] * v[j]

\* The verdict is the rank: entangled and separable are never said of the
\* wrong tensor; a tensor that was built as a product is not entangled; and
\* the analysis ends without a verdict only at a minor it cannot compute.
VerdictIsRank ==
  /\ verdict = "entangled" => ~Separable(tensor)
  /\ verdict = "separable" => Separable(tensor)
  /\ verdict = "unresolved" =>
       \E m \in Minors(tensor) :
         LET d == Product(Diagonal(m))
             o == Product(OffDiagonal(m))
         IN ~({d, o, d - o} \subseteq Checked!Coefficient)
  /\ factors # <<>> => verdict # "entangled"
===============================================================================
