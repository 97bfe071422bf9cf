--------------------------- MODULE JointWilson_proofs ---------------------------
(***************************************************************************)
(* Theorems about the joint consumer, for every candidate and policy.      *)
(* First the arithmetic: how a factorial folds on the half of its factors, *)
(* and why the width the search chooses is never above the square root the *)
(* operator asks for.  Then the invariant of the activations and of the    *)
(* products they are promised, what follows for the answer, and the        *)
(* measure that every step lowers.                                         *)
(***************************************************************************)
EXTENDS JointWilson, SharedTheorems

(* ------------------------- the folded factorial ------------------------ *)

\* A sign for every pair.
Sign(k) == IF k % 2 = 1 THEN -1 ELSE 1

\* One pair more, the other sign.
LEMMA SignTurns ==
  ASSUME NEW k \in Nat
  PROVE  Sign(k) \in Int /\ Sign(k + 1) = -Sign(k)
BY DEF Sign

\* The last k factors are the negatives of the first k.
LEMMA FactorsMirror ==
  ASSUME NEW n \in Nat
  PROVE  \A k \in Nat : k <= n =>
           Same(ProductOf(n + 1 - k .. n), Sign(k) * ProductOf(1 .. k), n + 1)
<1> DEFINE T == {k \in Nat : k <= n =>
                   Same(ProductOf(n + 1 - k .. n), Sign(k) * ProductOf(1 .. k), n + 1)}
<1>1. 0 \in T
  <2>1. n + 1 - 0 .. n = {} /\ 1 .. 0 = {} /\ Sign(0) = 1
    BY DEF Sign
  <2>2. Same(1, 1, n + 1)
    BY SameIsReflexive
  <2>3. ProductOf(n + 1 - 0 .. n) = 1 /\ Sign(0) * ProductOf(1 .. 0) = 1
    BY <2>1, ProductOfNone
  <2> QED BY <2>2, <2>3
<1>2. ASSUME NEW k \in Nat, k \in T PROVE k + 1 \in T
  <2> SUFFICES ASSUME k + 1 <= n
               PROVE  Same(ProductOf(n + 1 - (k + 1) .. n), Sign(k + 1) * ProductOf(1 .. k + 1), n + 1)
    OBVIOUS
  <2>1. PICK a \in Int : a = ProductOf(n + 1 - k .. n)
    BY IntervalsAreNumbers, ProductType
  <2>2. PICK p \in Int : p = ProductOf(1 .. k)
    BY IntervalsAreNumbers, ProductType
  <2>3. PICK s \in Int : s = Sign(k) /\ Sign(k + 1) = -s
    BY SignTurns
  <2>4. Same(a, s * p, n + 1)
    BY <1>2, <2>1, <2>2, <2>3
  <2>5. ProductOf(n + 1 - (k + 1) .. n) = (n - k) * a
    <3>1. n + 1 - (k + 1) .. n = (n + 1 - k .. n) \cup {n - k} /\ n - k \notin n + 1 - k .. n
      OBVIOUS
    <3>2. Numbers(n + 1 - k .. n) /\ n - k \in Int
      BY IntervalsAreNumbers
    <3> QED BY <2>1, <3>1, <3>2, ProductWith
  <2>6. ProductOf(1 .. k + 1) = (k + 1) * p
    BY <2>2, IntervalNext
  <2>7. Same(n - k, -(k + 1), n + 1)
    <3>1. n - k = -(k + 1) + 1 * (n + 1)
      OBVIOUS
    <3> QED BY <3>1 DEF Same
  <2>8. Same((n - k) * a, (-(k + 1)) * (s * p), n + 1)
    <3>1. PICK b \in Int : b = n - k
      OBVIOUS
    <3>2. PICK c \in Int : c = -(k + 1)
      OBVIOUS
    <3>3. PICK d \in Int : d = s * p
      OBVIOUS
    <3>4. Same(b * a, c * d, n + 1)
      BY <2>4, <2>7, <3>1, <3>2, <3>3, SameTimes
    <3> QED BY <3>1, <3>2, <3>3, <3>4
  <2>9. (-(k + 1)) * (s * p) = (-s) * ((k + 1) * p)
    OBVIOUS
  <2> QED BY <2>3, <2>5, <2>6, <2>8, <2>9
<1>3. \A k \in Nat : k \in T
  <2> HIDE DEF T
  <2> QED BY <1>1, <1>2, SetOfAllNaturals
<1> QED BY <1>3

\* n! from h!, the sign of h pairs and the middle factor.
THEOREM FactorialFolds ==
  ASSUME NEW n \in Nat, NEW h \in Nat, NEW e \in {0, 1}, n = 2 * h + e
  PROVE  Same(ProductOf(1 .. n),
              (Sign(h) * (ProductOf(1 .. h) * ProductOf(1 .. h))) * (IF e = 1 THEN h + 1 ELSE 1),
              n + 1)
<1>1. PICK p \in Int : p = ProductOf(1 .. h)
  BY IntervalsAreNumbers, ProductType
<1>2. PICK q \in Int : q = ProductOf(n + 1 - h .. n)
  BY IntervalsAreNumbers, ProductType
<1>3. PICK c \in Int : c = IF e = 1 THEN h + 1 ELSE 1
  OBVIOUS
<1>4. PICK s \in Int : s = Sign(h)
  BY SignTurns
<1>5. Same(q, s * p, n + 1)
  <2>1. h <= n
    OBVIOUS
  <2> QED BY <1>1, <1>2, <1>4, <2>1, FactorsMirror
<1>6. ProductOf(1 .. h + e) = p * c
  <2>1. CASE e = 0
    <3>1. c = 1 /\ h + e = h
      BY <1>3, <2>1
    <3> QED BY <1>1, <3>1
  <2>2. CASE e = 1
    <3>1. c = h + 1 /\ h + e = h + 1
      BY <1>3, <2>2
    <3>2. ProductOf(1 .. h + 1) = (h + 1) * p
      BY <1>1, IntervalNext
    <3> QED BY <1>1, <3>1, <3>2
  <2> QED BY <2>1, <2>2
<1>7. ProductOf(1 .. n) = (p * c) * q
  <2>1. PICK z \in Int : z = 0
    OBVIOUS
  <2>2. PICK b \in Int : b = h + e
    OBVIOUS
  <2>3. n \in Int /\ z <= b /\ b <= n /\ z + 1 = 1 /\ b + 1 = n + 1 - h
    BY <2>1, <2>2
  <2>4. ProductOf(z + 1 .. n) = ProductOf(z + 1 .. b) * ProductOf(b + 1 .. n)
    BY <2>3, IntervalSplit
  <2> QED BY <1>2, <1>6, <2>2, <2>3, <2>4
<1>8. Same((p * c) * q, (p * c) * (s * p), n + 1)
  <2>1. PICK u \in Int : u = p * c
    OBVIOUS
  <2>2. PICK v \in Int : v = s * p
    OBVIOUS
  <2>3. n + 1 \in Int /\ Same(u, u, n + 1)
    BY SameIsReflexive
  <2>4. Same(u * q, u * v, n + 1)
    BY <1>5, <2>2, <2>3, SameTimes
  <2> QED BY <2>1, <2>2, <2>4
<1>9. (p * c) * (s * p) = (s * (p * p)) * c
  OBVIOUS
<1> QED BY <1>1, <1>3, <1>4, <1>7, <1>8, <1>9

(* ------------------------ the least of four keys ----------------------- *)

\* Some element of a set is before all others in the order of three numbers
\* and its own value.
Precedes(T, M, R, w, v) ==
  \/ T[w] < T[v]
  \/ T[w] = T[v] /\ M[w] < M[v]
  \/ T[w] = T[v] /\ M[w] = M[v] /\ R[w] < R[v]
  \/ T[w] = T[v] /\ M[w] = M[v] /\ R[w] = R[v] /\ w < v

\* A set of naturals, by any key, has a least element,
LEMMA LeastByKey ==
  ASSUME NEW W, W # {}, NEW K, \A w \in W : K[w] \in Nat
  PROVE  \E w \in W : \A v \in W : K[w] <= K[v]
<1> DEFINE U == {K[w] : w \in W}
<1>1. U \subseteq Nat /\ U # {}
  OBVIOUS
<1> HIDE DEF U
<1>2. PICK k \in U : \A u \in U : k <= u
  BY <1>1, LeastNatural
<1> QED BY <1>2 DEF U

\* and one that is least by three keys and then itself.
LEMMA LexicographicMinimum ==
  ASSUME NEW W, W # {}, W \subseteq Nat, NEW T, NEW M, NEW R,
         \A w \in W : T[w] \in Nat /\ M[w] \in Nat /\ R[w] \in Nat
  PROVE  \E w \in W : \A v \in W \ {w} : Precedes(T, M, R, w, v)
<1>1. PICK a \in W : \A v \in W : T[a] <= T[v]
  BY LeastByKey
<1> DEFINE A == {w \in W : T[w] = T[a]}
<1>2. PICK b \in A : \A v \in A : M[b] <= M[v]
  <2>1. A # {} /\ \A w \in A : M[w] \in Nat
    OBVIOUS
  <2> HIDE DEF A
  <2> QED BY <2>1, LeastByKey
<1> DEFINE B == {w \in A : M[w] = M[b]}
<1>3. PICK c \in B : \A v \in B : R[c] <= R[v]
  <2>1. B # {} /\ \A w \in B : R[w] \in Nat
    OBVIOUS
  <2> HIDE DEF A, B
  <2> QED BY <2>1, LeastByKey
<1> DEFINE C == {w \in B : R[w] = R[c]}
<1>4. PICK d \in C : \A v \in C : d <= v
  <2>1. C # {} /\ C \subseteq Nat
    OBVIOUS
  <2> HIDE DEF A, B, C
  <2> QED BY <2>1, LeastNatural
<1>5. d \in W /\ T[d] = T[a] /\ M[d] = M[b] /\ R[d] = R[c]
  OBVIOUS
<1>6. ASSUME NEW v \in W \ {d} PROVE Precedes(T, M, R, d, v)
  <2>1. CASE T[v] # T[a]
    BY <1>1, <1>5, <2>1 DEF Precedes
  <2>2. CASE T[v] = T[a] /\ M[v] # M[b]
    <3>1. v \in A
      BY <2>2
    <3>2. M[b] <= M[v] /\ M[b] \in Nat /\ M[v] \in Nat
      BY <1>2, <3>1
    <3> QED BY <1>5, <2>2, <3>2 DEF Precedes
  <2>3. CASE T[v] = T[a] /\ M[v] = M[b] /\ R[v] # R[c]
    <3>1. v \in B
      BY <2>3
    <3>2. R[c] <= R[v] /\ R[c] \in Nat /\ R[v] \in Nat
      BY <1>3, <3>1
    <3> QED BY <1>5, <2>3, <3>2 DEF Precedes
  <2>4. CASE T[v] = T[a] /\ M[v] = M[b] /\ R[v] = R[c]
    <3>1. v \in C
      BY <2>4
    <3>2. d <= v /\ d \in Nat /\ v \in Nat /\ v # d
      BY <1>4, <1>5, <3>1
    <3> QED BY <1>5, <2>4, <3>2 DEF Precedes
  <2> QED BY <2>1, <2>2, <2>3, <2>4
<1> QED BY <1>5, <1>6

(* --------------------------- the width search -------------------------- *)

\* The key choose_block_width compares first.
Total(n, w) == w + (n \div w) + (n % w)

\* The larger of two.
LEMMA MaxOfTwo ==
  ASSUME NEW a \in Nat, NEW b \in Nat
  PROVE  Max({a, b}) \in Nat
<1>1. \E m \in {a, b} : \A x \in {a, b} : m >= x
  <2>1. CASE a >= b
    BY <2>1
  <2>2. CASE b >= a
    BY <2>2
  <2> QED BY <2>1, <2>2
<1>2. Max({a, b}) \in {a, b}
  BY <1>1 DEF Max
<1> QED BY <1>2

\* A quotient, its rest and the number they make.
LEMMA Divided ==
  ASSUME NEW n \in Nat, NEW w \in Nat \ {0}
  PROVE  /\ n \div w \in Nat
         /\ n % w \in 0 .. w - 1
         /\ n = w * (n \div w) + (n % w)
<1>1. n % w \in 0 .. w - 1 /\ n = w * (n \div w) + (n % w)
  OBVIOUS
<1> QED BY <1>1, Division

\* The numbers that make it are the quotient and the rest.
LEMMA DividedBy ==
  ASSUME NEW n \in Nat, NEW w \in Nat \ {0}, NEW q \in Nat, NEW t \in 0 .. w - 1, n = w * q + t
  PROVE  n \div w = q /\ n % w = t
<1>1. w * q <= n /\ n < w * q + w
  <2>1. w * q \in Int
    OBVIOUS
  <2> QED BY <2>1
<1>2. n \div w = q
  BY <1>1, QuotientIs
<1>3. Same(n, t, w)
  <2>1. n = t + q * w
    <3>1. w * q = q * w /\ w * q \in Int
      OBVIOUS
    <3> QED BY <3>1
  <2> QED BY <2>1 DEF Same
<1>4. n % w = t
  BY <1>3, RestIsSmall
<1> QED BY <1>2, <1>4

\* The first key decides,
LEMMA BeforeByTotal ==
  ASSUME NEW n, NEW w, NEW v, Total(n, w) < Total(n, v)
  PROVE  Before(Dimension(n, w), Dimension(n, v))
<1>1. Dimension(n, w)[1] < Dimension(n, v)[1]
  BY DEF Dimension, Total
<1>2. 1 \in 1 .. 4 /\ 1 .. 1 - 1 = {}
  OBVIOUS
<1> QED BY <1>1, <1>2 DEF Before

\* the last one where the others are equal.
LEMMA BeforeByWidth ==
  ASSUME NEW n, NEW w \in Int, NEW v \in Int, w < v, Total(n, w) = Total(n, v),
         Max({w, n \div w}) = Max({v, n \div v}), n % w = n % v
  PROVE  Before(Dimension(n, w), Dimension(n, v))
<1>1. \A j \in 1 .. 4 - 1 : Dimension(n, w)[j] = Dimension(n, v)[j]
  BY DEF Dimension, Total
<1>2. Dimension(n, w)[4] < Dimension(n, v)[4]
  BY DEF Dimension
<1>3. 4 \in 1 .. 4
  OBVIOUS
<1> QED BY <1>1, <1>2, <1>3 DEF Before

\* The four keys decide, one after another.
LEMMA BeforeIs ==
  ASSUME NEW d, NEW e, Before(d, e)
  PROVE  \/ d[1] < e[1]
         \/ d[1] = e[1] /\ d[2] < e[2]
         \/ d[1] = e[1] /\ d[2] = e[2] /\ d[3] < e[3]
         \/ d[1] = e[1] /\ d[2] = e[2] /\ d[3] = e[3] /\ d[4] < e[4]
<1>1. PICK i \in 1 .. 4 : d[i] < e[i] /\ \A j \in 1 .. i - 1 : d[j] = e[j]
  BY DEF Before
<1>2. CASE i = 1
  BY <1>1, <1>2
<1>3. CASE i = 2
  BY <1>1, <1>3
<1>4. CASE i = 3
  BY <1>1, <1>4
<1>5. CASE i = 4
  BY <1>1, <1>5
<1> QED BY <1>2, <1>3, <1>4, <1>5

\* What is before in one of these ways is before.
LEMMA BeforeIf ==
  ASSUME NEW d, NEW e,
         \/ d[1] < e[1]
         \/ d[1] = e[1] /\ d[2] < e[2]
         \/ d[1] = e[1] /\ d[2] = e[2] /\ d[3] < e[3]
         \/ d[1] = e[1] /\ d[2] = e[2] /\ d[3] = e[3] /\ d[4] < e[4]
  PROVE  Before(d, e)
<1>1. CASE d[1] < e[1]
  <2>1. 1 \in 1 .. 4 /\ 1 .. 1 - 1 = {}
    OBVIOUS
  <2> QED BY <1>1, <2>1 DEF Before
<1>2. CASE d[1] = e[1] /\ d[2] < e[2]
  <2>1. 2 \in 1 .. 4 /\ 1 .. 2 - 1 = {1}
    OBVIOUS
  <2> QED BY <1>2, <2>1 DEF Before
<1>3. CASE d[1] = e[1] /\ d[2] = e[2] /\ d[3] < e[3]
  <2>1. 3 \in 1 .. 4 /\ 1 .. 3 - 1 = {1, 2}
    OBVIOUS
  <2> QED BY <1>3, <2>1 DEF Before
<1>4. CASE d[1] = e[1] /\ d[2] = e[2] /\ d[3] = e[3] /\ d[4] < e[4]
  <2>1. 4 \in 1 .. 4 /\ 1 .. 4 - 1 = {1, 2, 3}
    OBVIOUS
  <2> QED BY <1>4, <2>1 DEF Before
<1> QED BY <1>1, <1>2, <1>3, <1>4

\* The root the search starts from.
LEMMA FloorRootFacts ==
  ASSUME NEW n \in Nat \ {0}
  PROVE  LET f == FloorRoot(n) IN f \in 1 .. n /\ f * f <= n /\ n < (f + 1) * (f + 1)
<1> DEFINE U == {r \in Nat : (r + 1) * (r + 1) > n}
<1>1. n \in U
  <2>1. (n + 1) * (n + 1) = n * n + 2 * n + 1 /\ n * n >= 0
    OBVIOUS
  <2> QED BY <2>1
<1>2. PICK r \in U : \A u \in U : r <= u
  <2>1. U \subseteq Nat /\ U # {}
    BY <1>1
  <2> HIDE DEF U
  <2> QED BY <2>1, LeastNatural
<1>3. r \in Nat /\ (r + 1) * (r + 1) > n
  OBVIOUS
<1>4. r # 0
  <2>1. (0 + 1) * (0 + 1) = 1
    OBVIOUS
  <2> QED BY <1>3, <2>1
<1>5. r * r <= n
  <2>1. r - 1 \in Nat /\ r - 1 \notin U
    BY <1>2, <1>3, <1>4
  <2>2. (r - 1) + 1 = r
    BY <1>3
  <2>3. ~(r * r > n)
    BY <2>1, <2>2
  <2>4. r * r \in Int
    BY <1>3
  <2> QED BY <2>3, <2>4
<1>6. r <= n
  <2>1. r <= r * r
    BY <1>3, <1>4
  <2>2. r * r \in Int
    BY <1>3
  <2> QED BY <1>3, <1>5, <2>1, <2>2
<1>7. r \in 0 .. n
  BY <1>3, <1>6
<1> DEFINE f == FloorRoot(n)
<1>8. f \in 0 .. n /\ f * f <= n /\ (f + 1) * (f + 1) > n
  BY <1>3, <1>5, <1>7 DEF FloorRoot
<1> HIDE DEF f
<1>9. f # 0
  <2>1. (0 + 1) * (0 + 1) = 1
    OBVIOUS
  <2> QED BY <1>8, <2>1
<1>10. f \in 1 .. n /\ f * f <= n /\ n < (f + 1) * (f + 1)
  <2>1. (f + 1) * (f + 1) \in Int
    BY <1>8
  <2> QED BY <1>8, <1>9, <2>1
<1> QED BY <1>10 DEF f

\* What the root costs: at most twice itself and what is left of the number.
LEMMA TotalOfRoot ==
  ASSUME NEW n \in Nat \ {0}, NEW f \in Nat \ {0}, NEW s \in 0 .. 2 * f, n = f * f + s
  PROVE  /\ Total(n, f) \in Nat
         /\ Total(n, f) <= 2 * f + s
         /\ s >= f => Total(n, f) <= f + s + 1
<1>1. PICK a \in Nat : a = n \div f
  BY Divided
<1>2. PICK b \in 0 .. f - 1 : b = n % f
  BY Divided
<1>3. n = f * a + b
  BY <1>1, <1>2, Divided
<1>4. a >= f
  <2> SUFFICES ASSUME a <= f - 1 PROVE FALSE
    OBVIOUS
  <2>1. f * a <= f * (f - 1)
    OBVIOUS
  <2>2. f * (f - 1) = f * f - f
    OBVIOUS
  <2>3. f * a \in Int /\ f * f \in Int
    OBVIOUS
  <2> QED BY <1>3, <2>1, <2>2, <2>3
<1>5. PICK d \in Nat : d = a - f
  BY <1>4
<1>6. s = f * d + b
  <2>1. f * a = f * f + f * d
    BY <1>5
  <2>2. f * a \in Int /\ f * f \in Int /\ f * d \in Int
    OBVIOUS
  <2> QED BY <1>3, <2>1, <2>2
<1>7. f * d >= d /\ f * d \in Int
  OBVIOUS
<1>8. Total(n, f) = f + a + b
  BY <1>1, <1>2 DEF Total
<1>9. s >= f => f * d >= f + d - 1
  <2> SUFFICES ASSUME s >= f PROVE f * d >= f + d - 1
    OBVIOUS
  <2>1. d >= 1
    <3> SUFFICES ASSUME d = 0 PROVE FALSE
      OBVIOUS
    <3>1. f * d = 0
      OBVIOUS
    <3> QED BY <1>6, <3>1
  <2>2. (f - 1) * (d - 1) >= 0
    BY <2>1
  <2>3. (f - 1) * (d - 1) = f * d - f - d + 1
    OBVIOUS
  <2> QED BY <1>7, <2>2, <2>3
<1> QED BY <1>5, <1>6, <1>7, <1>8, <1>9

\* The algebra of a width above the square root.
LEMMA CostOfWidth ==
  ASSUME NEW f \in Int, NEW k \in Int, NEW j \in Int, NEW s \in Int
  PROVE  (f + 1 + k) + (f + 1 - j) + ((f * f + s) - (f + 1 + k) * (f + 1 - j))
           = 1 + s + (j - k) * f + k * j
OBVIOUS

\* What a number is cut into, and the cost of a width above the root.
IsCut(n, w, q, t) == n = w * q + t
IsSquareAnd(n, f, s) == n = f * f + s
CostAbove(f, s, j, k) == 1 + s + (j - k) * f + k * j

\* What a width above the root costs.
LEMMA TotalAboveRoot ==
  ASSUME NEW n \in Nat \ {0}, NEW f \in Nat \ {0}, NEW s \in Int, IsSquareAnd(n, f, s),
         NEW k \in Nat, NEW w \in Nat \ {0}, w = f + 1 + k,
         NEW q \in Nat, NEW t \in 0 .. w - 1, IsCut(n, w, q, t),
         NEW j \in Int, j = f + 1 - q
  PROVE  Total(n, w) = CostAbove(f, s, j, k)
<1>1. n \div w = q /\ n % w = t
  BY DividedBy DEF IsCut
<1>2. Total(n, w) = w + q + t
  BY <1>1 DEF Total
<1>3. q = f + 1 - j
  OBVIOUS
<1>4. PICK y \in Int : y = w * q
  OBVIOUS
<1>5. t = n - y
  BY <1>4 DEF IsCut
<1>6. y = (f + 1 + k) * (f + 1 - j)
  BY <1>3, <1>4
<1>7. w + q + t = (f + 1 + k) + (f + 1 - j) + ((f * f + s) - (f + 1 + k) * (f + 1 - j))
  BY <1>3, <1>5, <1>6 DEF IsSquareAnd
<1> QED BY <1>2, <1>7, CostOfWidth DEF CostAbove

\* A width and its number of blocks exchange their roles, at no cost.
LEMMA ExchangeIsBefore ==
  ASSUME NEW n \in Nat \ {0}, NEW w \in Nat \ {0}, NEW q \in Nat, NEW t \in 0 .. w - 1,
         n = w * q + t, q >= 2, q < w
  PROVE  Before(Dimension(n, q), Dimension(n, w))
<1>1. n \div w = q /\ n % w = t
  BY DividedBy
<1>2. Total(n, w) = w + q + t
  BY <1>1 DEF Total
<1>3. w * q = q * w /\ w * q \in Int
  OBVIOUS
<1>4. CASE t < q
  <2>1. n = q * w + t /\ t \in 0 .. q - 1 /\ q \in Nat \ {0} /\ w \in Nat
    BY <1>3, <1>4
  <2>2. n \div q = w /\ n % q = t
    BY <2>1, DividedBy
  <2>3. Total(n, q) = Total(n, w)
    BY <1>2, <2>2 DEF Total
  <2>4. {q, n \div q} = {w, n \div w}
    BY <1>1, <2>2
  <2>5. q \in Int /\ w \in Int /\ n % q = n % w
    BY <1>1, <2>2
  <2> QED BY <2>3, <2>4, <2>5, BeforeByWidth
<1>5. CASE t >= q
  <2>0. q \in Nat \ {0} /\ t \in Nat
    OBVIOUS
  <2>1. PICK a \in Nat : a = t \div q
    BY <2>0, Divided
  <2>2. PICK b \in 0 .. q - 1 : b = t % q
    BY <2>0, Divided
  <2>3. t = q * a + b
    BY <2>0, <2>1, <2>2, Divided
  <2>4. a >= 1
    <3> SUFFICES ASSUME a = 0 PROVE FALSE
      OBVIOUS
    <3>1. q * a = 0
      OBVIOUS
    <3> QED BY <1>5, <2>3, <3>1
  <2>5. PICK x \in Nat : x = w + a
    OBVIOUS
  <2>6. n = q * x + b
    <3>1. q * (w + a) = q * w + q * a /\ q * w \in Int /\ q * a \in Int
      OBVIOUS
    <3> QED BY <1>3, <2>3, <2>5, <3>1
  <2>7. n \div q = x /\ n % q = b
    BY <2>0, <2>6, DividedBy
  <2>8. Total(n, q) = q + x + b
    BY <2>7 DEF Total
  <2>9. q * a > a
    <3>1. q * a >= 2 * a
      BY <2>4
    <3> QED BY <2>4, <3>1
  <2>10. q * a \in Int
    OBVIOUS
  <2> QED BY <1>2, <2>3, <2>5, <2>8, <2>9, <2>10, BeforeByTotal
<1> QED BY <1>4, <1>5

\* What a width has to do with the root it was found from.
LEMMA WidthsNearRoot ==
  ASSUME NEW n \in Nat \ {0}, NEW radius \in Nat, NEW f, f = FloorRoot(n)
  PROVE  /\ \A v \in 1 .. n : v >= f - radius /\ v <= f => v \in Widths(n, radius)
         /\ \A w \in Widths(n, radius) :
              /\ w \in 1 .. n
              /\ \/ w <= f + 1 + radius
                 \/ w = f + 2 + radius /\ n >= f * f + f + 1
<1>1. f \in 1 .. n /\ f * f <= n /\ n < (f + 1) * (f + 1)
  BY FloorRootFacts
<1>2. Max({1, f}) = f
  <2>1. \A x \in {1, f} : f >= x
    BY <1>1
  <2>2. Max({1, f}) \in {1, f} /\ \A x \in {1, f} : Max({1, f}) >= x
    BY <2>1 DEF Max
  <2> QED BY <1>1, <2>1, <2>2
<1>3. Anchors(n) = {f, CeilRoot(n), CeilDivide(n, f)}
  BY <1>2 DEF Anchors
<1>4. \A v \in 1 .. n : v >= f - radius /\ v <= f => v \in Widths(n, radius)
  BY <1>1, <1>3 DEF Widths
<1>5. CeilRoot(n) <= f + 1 /\ CeilRoot(n) \in Int
  <2>1. PICK c \in 1 .. n : c = CeilRoot(n) /\ (c - 1) * (c - 1) < n
    BY CeilRootFacts
  <2> SUFFICES ASSUME c >= f + 2 PROVE FALSE
    BY <1>1, <2>1
  <2>2. (c - 1) * (c - 1) >= (f + 1) * (f + 1)
    BY <1>1
  <2>3. (c - 1) * (c - 1) \in Int /\ (f + 1) * (f + 1) \in Int
    BY <1>1
  <2> QED BY <1>1, <2>1, <2>2, <2>3
<1>6. PICK a \in Nat : a = CeilDivide(n, f) /\ f * a <= n + f - 1
  <2>1. n + f - 1 \in Nat /\ f \in Nat \ {0}
    BY <1>1
  <2> QED BY <2>1, Division DEF CeilDivide
<1>7. a <= f + 2
  <2> SUFFICES ASSUME a >= f + 3 PROVE FALSE
    BY <1>1
  <2>1. f * a >= f * (f + 3)
    BY <1>1
  <2>2. f * (f + 3) = f * f + 3 * f /\ (f + 1) * (f + 1) = f * f + 2 * f + 1 /\ f * f \in Int
    BY <1>1
  <2>3. f * a \in Int
    BY <1>1
  <2> QED BY <1>1, <1>6, <2>1, <2>2, <2>3
<1>8. a = f + 2 => n >= f * f + f + 1
  <2> SUFFICES ASSUME a = f + 2 PROVE n >= f * f + f + 1
    OBVIOUS
  <2>1. f * a = f * f + 2 * f /\ f * f \in Int
    BY <1>1
  <2> QED BY <1>1, <1>6, <2>1
<1>9. ASSUME NEW w \in Widths(n, radius)
      PROVE  /\ w \in 1 .. n
             /\ \/ w <= f + 1 + radius
                \/ w = f + 2 + radius /\ n >= f * f + f + 1
  <2>1. w \in 1 .. n
    BY DEF Widths
  <2>2. PICK x \in Anchors(n) : w \in x - radius .. x + radius
    BY DEF Widths
  <2>3. CASE x <= f + 1 /\ x \in Int
    <3>1. w <= x + radius
      BY <2>2
    <3> QED BY <1>1, <2>1, <2>3, <3>1
  <2>4. CASE x = a
    <3>1. w <= a + radius
      BY <2>2, <2>4
    <3>2. f \in Int /\ w \in Int
      BY <1>1, <2>1
    <3>3. CASE a <= f + 1
      BY <2>1, <3>1, <3>2, <3>3
    <3>4. CASE a = f + 2
      <4>1. n >= f * f + f + 1
        BY <1>8, <3>4
      <4>2. w <= f + 1 + radius \/ w = f + 2 + radius
        BY <3>1, <3>2, <3>4
      <4> QED BY <2>1, <4>1, <4>2
    <3> QED BY <1>7, <3>2, <3>3, <3>4
  <2>5. (x \in Int /\ x <= f + 1) \/ x = a
    BY <1>1, <1>3, <1>5, <1>6
  <2> QED BY <2>3, <2>4, <2>5
<1> QED BY <1>4, <1>9

\* Above the square root there is always a width that costs less.
LEMMA NarrowerIsBefore ==
  ASSUME NEW n \in Nat \ {0}, NEW radius \in Nat, NEW w \in Widths(n, radius), w > CeilRoot(n)
  PROVE  \E v \in Widths(n, radius) \ {w} : Before(Dimension(n, v), Dimension(n, w))
<1>1. PICK f \in Int : f = FloorRoot(n) /\ f \in 1 .. n /\ f * f <= n /\ n < (f + 1) * (f + 1)
  BY FloorRootFacts
<1>2. /\ \A v \in 1 .. n : v >= f - radius /\ v <= f => v \in Widths(n, radius)
      /\ w \in 1 .. n
      /\ \/ w <= f + 1 + radius
         \/ w = f + 2 + radius /\ n >= f * f + f + 1
  BY <1>1, WidthsNearRoot
<1>3. PICK g \in Int : g = f * f /\ n >= g
  BY <1>1
<1>4. n <= g + 2 * f
  <2>1. (f + 1) * (f + 1) = f * f + 2 * f + 1
    BY <1>1
  <2> QED BY <1>1, <1>3, <2>1
<1>5. PICK s \in 0 .. 2 * f : n = g + s
  <2>1. n - g \in 0 .. 2 * f
    BY <1>1, <1>3, <1>4
  <2> QED BY <1>3, <2>1
<1>6. PICK c \in 1 .. n : c = CeilRoot(n) /\ c * c >= n
  BY CeilRootFacts
<1>7. c >= f
  <2> SUFFICES ASSUME c <= f - 1 PROVE FALSE
    BY <1>1, <1>6
  <2>1. c * c <= (f - 1) * (f - 1)
    BY <1>1, <1>6
  <2>2. (f - 1) * (f - 1) = f * f - 2 * f + 1
    BY <1>1
  <2>3. c * c \in Int
    BY <1>6
  <2> QED BY <1>1, <1>3, <1>6, <2>1, <2>2, <2>3
<1>8. PICK k \in Nat : w = f + 1 + k
  <2>1. w - f - 1 \in Nat
    BY <1>1, <1>2, <1>6, <1>7
  <2> QED BY <1>1, <1>2, <2>1
<1>9. w \in Nat \ {0} /\ f \in Nat \ {0} /\ s \in Int
  BY <1>1, <1>2
<1>10. PICK q \in Nat : q = n \div w
  BY <1>9, Divided
<1>11. PICK t \in 0 .. w - 1 : t = n % w
  BY <1>9, Divided
<1>12. n = w * q + t
  BY <1>9, <1>10, <1>11, Divided
<1>13. q <= f
  <2> SUFFICES ASSUME q >= f + 1 PROVE FALSE
    BY <1>1
  <2>1. w * q >= (f + 1) * (f + 1)
    BY <1>8, <1>9
  <2>2. w * q \in Int /\ (f + 1) * (f + 1) \in Int
    BY <1>9
  <2> QED BY <1>1, <1>11, <1>12, <2>1, <2>2
<1>14. q >= 1
  <2> SUFFICES ASSUME q = 0 PROVE FALSE
    OBVIOUS
  <2>1. w * q = 0
    BY <1>9
  <2> QED BY <1>2, <1>11, <1>12, <2>1
<1>15. f \in Widths(n, radius) /\ f # w
  <2>1. f >= f - radius /\ f \in 1 .. n
    BY <1>1
  <2> QED BY <1>2, <1>8, <1>9, <2>1
<1>16. /\ Total(n, f) \in Nat
       /\ Total(n, f) <= 2 * f + s
       /\ s >= f => Total(n, f) <= f + s + 1
  BY <1>3, <1>5, <1>9, TotalOfRoot
<1>17. CASE q = 1
  <2>1. Total(n, w) = n + 1
    <3>1. w * q = w
      BY <1>9, <1>17
    <3> QED BY <1>9, <1>10, <1>11, <1>12, <1>17, <3>1 DEF Total
  <2>2. CASE f >= 2
    <3>1. g >= 2 * f
      BY <1>3, <2>2
    <3>2. Total(n, f) < Total(n, w)
      BY <1>5, <1>9, <1>16, <2>1, <3>1
    <3> QED BY <1>15, <3>2, BeforeByTotal
  <2>3. CASE f = 1
    <3>1. n <= 3
      <4>1. g = 1
        BY <1>3, <2>3
      <4> QED BY <1>4, <2>3, <4>1
    <3>2. c >= 2
      <4> SUFFICES ASSUME c = 1 PROVE FALSE
        BY <1>6
      <4>1. c * c = 1
        OBVIOUS
      <4> QED BY <1>2, <1>6, <4>1
    <3>3. n = 3 /\ w = 3
      BY <1>2, <1>6, <3>1, <3>2
    <3>4. 3 \div 1 = 3 /\ 3 % 1 = 0 /\ 3 \div 3 = 1 /\ 3 % 3 = 0
      OBVIOUS
    <3>5. {1, 3 \div 1} = {3, 3 \div 3} /\ Total(3, 1) = Total(3, 3)
      BY <3>4 DEF Total
    <3>6. Before(Dimension(3, 1), Dimension(3, 3))
      <4>1. PICK a \in Int : a = 1
        OBVIOUS
      <4>2. PICK b \in Int : b = 3
        OBVIOUS
      <4>3. Max({a, 3 \div a}) = Max({b, 3 \div b}) /\ Total(3, a) = Total(3, b)
        BY <3>5, <4>1, <4>2
      <4>4. 3 % a = 3 % b /\ a < b
        BY <3>4, <4>1, <4>2
      <4>5. Before(Dimension(3, a), Dimension(3, b))
        BY <4>3, <4>4, BeforeByWidth
      <4> QED BY <4>1, <4>2, <4>5
    <3> QED BY <1>15, <2>3, <3>3, <3>6
  <2> QED BY <1>9, <2>2, <2>3
<1>18. CASE q >= 2
  <2>1. PICK j \in Int : j = f + 1 - q
    BY <1>9
  <2>2. PICK x \in Int : x = (j - k) * f
    OBVIOUS
  <2>3. PICK y \in Int : y = k * j
    OBVIOUS
  <2>4. n = f * f + s
    BY <1>3, <1>5
  <2>5. Total(n, w) = 1 + s + x + y
    <3>1. q \in Nat /\ t \in 0 .. w - 1
      BY <1>10, <1>11
    <3>2. IsCut(n, w, q, t) /\ IsSquareAnd(n, f, s)
      BY <1>12, <2>4 DEF IsCut, IsSquareAnd
    <3>3. Total(n, w) = CostAbove(f, s, j, k)
      BY <1>8, <1>9, <2>1, <3>1, <3>2, TotalAboveRoot
    <3>4. CostAbove(f, s, j, k) = 1 + s + (j - k) * f + k * j
      BY DEF CostAbove
    <3> QED BY <2>2, <2>3, <3>3, <3>4
  <2>6. j >= 1 /\ y >= 0
    <3>1. j >= 1
      BY <1>9, <1>13, <2>1
    <3> QED BY <2>3, <3>1
  <2>7. q \in Widths(n, radius) => \E v \in Widths(n, radius) \ {w} : Before(Dimension(n, v), Dimension(n, w))
    <3>1. q < w
      BY <1>8, <1>9, <1>13
    <3>2. Before(Dimension(n, q), Dimension(n, w))
      BY <1>9, <1>12, <1>18, <3>1, ExchangeIsBefore
    <3> QED BY <1>9, <3>1, <3>2
  <2>8. Total(n, f) < Total(n, w) => \E v \in Widths(n, radius) \ {w} : Before(Dimension(n, v), Dimension(n, w))
    BY <1>15, BeforeByTotal
  <2>9. q \in 1 .. n
    BY <1>1, <1>9, <1>13, <1>14
  <2>10. CASE j - k >= 2
    <3>1. x >= 2 * f
      BY <1>9, <2>2, <2>10
    <3>2. Total(n, f) < Total(n, w)
      BY <1>9, <1>16, <2>5, <2>6, <3>1
    <3> QED BY <2>8, <3>2
  <2>11. CASE j - k <= 1 /\ k <= radius
    <3>1. q >= f - radius
      BY <1>9, <2>1, <2>11
    <3> QED BY <1>2, <1>13, <2>7, <2>9, <3>1
  <2>12. CASE j - k <= 1 /\ k > radius
    <3>1. k = radius + 1 /\ n >= f * f + f + 1
      BY <1>2, <1>8, <1>9, <2>12
    <3>2. s >= f + 1
      BY <1>3, <1>5, <1>9, <3>1
    <3>3. CASE j - k = 1
      <4>1. x = f
        BY <1>9, <2>2, <3>3
      <4>2. y >= 1
        BY <2>3, <2>6, <3>1
      <4>3. Total(n, f) < Total(n, w)
        BY <1>9, <1>16, <2>5, <3>2, <4>1, <4>2
      <4> QED BY <2>8, <4>3
    <3>4. CASE j - k <= 0
      <4>1. q >= f - radius
        BY <1>9, <2>1, <3>1, <3>4
      <4> QED BY <1>2, <1>13, <2>7, <2>9, <4>1
    <3> QED BY <2>12, <3>3, <3>4
  <2> QED BY <2>10, <2>11, <2>12
<1> QED BY <1>14, <1>17, <1>18

\* There is a first width, and it is never above the square root.
THEOREM ChosenWidth ==
  ASSUME NEW n \in Nat \ {0}, NEW radius \in Nat
  PROVE  /\ ChooseBlockWidth(n, radius) \in 1 .. n
         /\ ChooseBlockWidth(n, radius) <= CeilRoot(n)
<1> DEFINE W == Widths(n, radius)
           T == [w \in W |-> Total(n, w)]
           M == [w \in W |-> Max({w, n \div w})]
           R == [w \in W |-> n % w]
           First(w) == \A v \in W \ {w} : Before(Dimension(n, w), Dimension(n, v))
<1>1. W \subseteq 1 .. n /\ W # {}
  <2>1. W \subseteq 1 .. n
    BY DEF Widths
  <2>2. PICK f \in 1 .. n : f = FloorRoot(n)
    BY FloorRootFacts
  <2>3. f >= f - radius /\ f <= f
    OBVIOUS
  <2>4. f \in W
    BY <2>2, <2>3, WidthsNearRoot
  <2> QED BY <2>1, <2>4
<1>2. ASSUME NEW w \in W
      PROVE  Total(n, w) \in Nat /\ Max({w, n \div w}) \in Nat /\ n % w \in Nat /\ w \in Nat
  <2>1. w \in Nat \ {0}
    BY <1>1
  <2>2. n \div w \in Nat /\ n % w \in 0 .. w - 1
    BY <2>1, Divided
  <2>3. n % w \in Nat
    BY <2>1, <2>2
  <2>4. Total(n, w) \in Nat
    BY <2>1, <2>2, <2>3 DEF Total
  <2>5. Max({w, n \div w}) \in Nat
    BY <2>1, <2>2, MaxOfTwo
  <2> QED BY <2>1, <2>3, <2>4, <2>5
<1>3. PICK w \in W : \A v \in W \ {w} : Precedes(T, M, R, w, v)
  <2>1. \A w \in W : T[w] \in Nat /\ M[w] \in Nat /\ R[w] \in Nat
    BY <1>2
  <2>2. W \subseteq Nat
    BY <1>1
  <2> HIDE DEF W, T, M, R
  <2> QED BY <1>1, <2>1, <2>2, LexicographicMinimum
<1>4. First(w)
  <2> SUFFICES ASSUME NEW v \in W \ {w} PROVE Before(Dimension(n, w), Dimension(n, v))
    OBVIOUS
  <2>1. Precedes(T, M, R, w, v)
    BY <1>3
  <2>2. \A x \in W : /\ T[x] = Dimension(n, x)[1] /\ M[x] = Dimension(n, x)[2]
                     /\ R[x] = Dimension(n, x)[3] /\ x = Dimension(n, x)[4]
    BY DEF Dimension, Total
  <2> HIDE DEF W, T, M, R
  <2> QED BY <2>1, <2>2, BeforeIf DEF Precedes
<1> DEFINE u == ChooseBlockWidth(n, radius)
<1>5. u \in W /\ First(u)
  BY <1>4 DEF ChooseBlockWidth
<1>6. u <= CeilRoot(n)
  <2> SUFFICES ASSUME u > CeilRoot(n) PROVE FALSE
    <3>1. CeilRoot(n) \in 1 .. n
      BY CeilRootFacts
    <3> HIDE DEF u
    <3> QED BY <1>1, <1>5, <3>1
  <2>1. PICK v \in W \ {u} : Before(Dimension(n, v), Dimension(n, u))
    <3> HIDE DEF u
    <3> QED BY <1>5, NarrowerIsBefore
  <2>2. Before(Dimension(n, u), Dimension(n, v))
    <3> HIDE DEF u
    <3> QED BY <1>5
  <2>3. \A x \in W : /\ Dimension(n, x)[1] \in Nat /\ Dimension(n, x)[2] \in Nat
                     /\ Dimension(n, x)[3] \in Nat /\ Dimension(n, x)[4] \in Nat
    <3> HIDE DEF W, u
    <3> QED BY <1>2 DEF Dimension, Total
  <2> HIDE DEF W, u
  <2> QED BY <1>5, <2>1, <2>2, <2>3, BeforeIs
<1> HIDE DEF u
<1> QED BY <1>1, <1>5, <1>6 DEF u

(* ------------------------------- requests ------------------------------ *)

HalfOf(q) == (q.candidate - 1) \div 2

\* A candidate is at least two, and its factors are two halves and one or none.
LEMMA RequestFacts ==
  ASSUME NEW q \in Requests
  PROVE  /\ q.candidate \in Nat \ {0, 1}
         /\ HalfOf(q) \in Nat /\ HalfOf(q) <= q.candidate - 1
         /\ \E e \in {0, 1} : q.candidate - 1 = 2 * HalfOf(q) + e
         /\ q.policy \in [radius : Nat, max_width : Nat, product_limit : Nat, ntt_limit : Nat \ {0},
                         minimum_crt_primes : Nat]
<1>1. q.candidate \in Nat /\ q.candidate >= 2
      /\ q.policy \in [radius : Nat, max_width : Nat, product_limit : Nat, ntt_limit : Nat \ {0},
                         minimum_crt_primes : Nat]
  BY RequestsAssumption
<1>2. PICK n \in Nat : n = q.candidate - 1
  BY <1>1
<1>3. PICK h \in Nat : h = n \div 2
  OBVIOUS
<1>4. h <= n /\ (n = 2 * h \/ n = 2 * h + 1)
  BY <1>3
<1>5. \E e \in {0, 1} : n = 2 * h + e
  BY <1>4
<1>6. HalfOf(q) = h
  BY <1>2, <1>3 DEF HalfOf
<1> QED BY <1>1, <1>2, <1>4, <1>5, <1>6

\* A number is a factorial's residue when it is one of the modulus and the
\* same.
LEMMA FactorialRestIs ==
  ASSUME NEW n \in Int, NEW m \in Nat \ {0}, NEW r \in 0 .. m - 1, NEW p, p = ProductOf(1 .. n),
         Same(p, r, m)
  PROVE  r = FactorialRest(n, m)
<1>1. p \in Int
  BY IntervalsAreNumbers, ProductType
<1> QED BY <1>1, RestIsSmall DEF FactorialRest

\* The residue of a factorial is the same as the factorial.
LEMMA FactorialRestFacts ==
  ASSUME NEW n \in Int, NEW m \in Nat \ {0}
  PROVE  /\ ProductOf(1 .. n) \in Int
         /\ FactorialRest(n, m) \in 0 .. m - 1
         /\ Same(FactorialRest(n, m), ProductOf(1 .. n), m)
<1>1. PICK p \in Int : p = ProductOf(1 .. n)
  BY IntervalsAreNumbers, ProductType
<1> QED BY <1>1, SameAsRest DEF FactorialRest

\* The square of h!, its sign and the middle factor make the factorial.
LEMMA AssembledIsRest ==
  ASSUME request \in Requests, residue = FactorialRest(half_count, candidate)
  PROVE  Assembled = FactorialRest(factor_count, candidate)
<1>1. PICK m \in Nat \ {0, 1} : m = candidate
  BY RequestFacts DEF candidate
<1>2. PICK h \in Nat, e \in {0, 1} : h = half_count /\ m - 1 = 2 * h + e
  BY <1>1, RequestFacts DEF candidate, half_count, factor_count, HalfOf
<1>3. PICK n \in Nat : n = factor_count /\ n = m - 1 /\ n + 1 = m
  BY <1>1 DEF factor_count
<1>4. m \in Nat \ {0} /\ m \in Int
  BY <1>1
<1>5. n % 2 = e
  BY <1>2, <1>3
<1>6. PICK p \in Int : p = ProductOf(1 .. h)
  BY <1>2, IntervalsAreNumbers, ProductType
<1>7. PICK r \in Int : r = residue /\ Same(r, p, m)
  BY <1>1, <1>2, <1>4, <1>6, FactorialRestFacts
<1>8. PICK s \in Int : s = (r * r) % m /\ s \in 0 .. m - 1 /\ Same(s, p * p, m)
  <2>1. PICK a \in Int : a = r * r
    OBVIOUS
  <2>2. PICK b \in Int : b = p * p
    OBVIOUS
  <2>3. Same(a, b, m)
    BY <1>4, <1>7, <2>1, <2>2, SameTimes
  <2>4. a % m \in 0 .. m - 1 /\ Same(a % m, a, m) /\ a % m \in Int
    BY <1>4, SameAsRest
  <2>5. Same(a % m, b, m)
    BY <1>4, <2>3, <2>4, SameIsTransitive
  <2> QED BY <2>1, <2>2, <2>4, <2>5
<1>9. PICK g \in Int : g = Sign(h)
  BY SignTurns
<1>10. PICK u \in Int : /\ u = IF h % 2 = 1 THEN (0 - s) % m ELSE s
                        /\ u \in 0 .. m - 1
                        /\ Same(u, g * (p * p), m)
  <2>1. PICK b \in Int : b = p * p
    OBVIOUS
  <2>2. CASE h % 2 = 1
    <3>1. g = -1
      BY <1>9, <2>2 DEF Sign
    <3>2. Same(-1, -1, m)
      BY <1>4, SameIsReflexive
    <3>3. Same((-1) * s, (-1) * b, m)
      BY <1>4, <1>8, <2>1, <3>2, SameTimes
    <3>4. PICK x \in Int : x = 0 - s
      OBVIOUS
    <3>5. PICK y \in Int : y = g * b
      OBVIOUS
    <3>6. Same(x, y, m)
      BY <3>1, <3>3, <3>4, <3>5
    <3>7. x % m \in 0 .. m - 1 /\ Same(x % m, x, m) /\ x % m \in Int
      BY <1>4, SameAsRest
    <3>8. Same(x % m, y, m)
      BY <1>4, <3>6, <3>7, SameIsTransitive
    <3> QED BY <2>1, <2>2, <3>4, <3>5, <3>7, <3>8
  <2>3. CASE h % 2 # 1
    <3>1. g = 1
      BY <1>9, <2>3 DEF Sign
    <3>2. g * b = b
      BY <3>1
    <3> QED BY <1>8, <2>1, <2>3, <3>2
  <2> QED BY <2>2, <2>3
<1>11. PICK c \in Int : c = IF e = 1 THEN h + 1 ELSE 1
  OBVIOUS
<1>12. PICK y \in Int : y = g * (p * p)
  OBVIOUS
<1>13. PICK z \in Int : /\ z = IF n % 2 = 1 THEN (u * (h + 1)) % m ELSE u
                        /\ z \in 0 .. m - 1
                        /\ Same(z, y * c, m)
  <2>1. CASE e = 1
    <3>1. PICK a \in Int : a = u * c
      OBVIOUS
    <3>2. PICK b \in Int : b = y * c
      OBVIOUS
    <3>3. Same(c, c, m)
      BY <1>4, SameIsReflexive
    <3>4. Same(a, b, m)
      BY <1>4, <1>10, <1>12, <3>1, <3>2, <3>3, SameTimes
    <3>5. a % m \in 0 .. m - 1 /\ Same(a % m, a, m) /\ a % m \in Int
      BY <1>4, SameAsRest
    <3>6. Same(a % m, b, m)
      BY <1>4, <3>4, <3>5, SameIsTransitive
    <3>7. a = u * (h + 1) /\ n % 2 = 1
      BY <1>5, <1>11, <2>1, <3>1
    <3> QED BY <3>2, <3>5, <3>6, <3>7
  <2>2. CASE e = 0
    <3>1. c = 1 /\ n % 2 = 0
      BY <1>5, <1>11, <2>2
    <3>2. y * c = y
      BY <3>1
    <3> QED BY <1>10, <1>12, <3>1, <3>2
  <2> QED BY <2>1, <2>2
<1>14. PICK f \in Int : f = ProductOf(1 .. n)
  BY IntervalsAreNumbers, ProductType
<1>15. Same(f, y * c, m)
  <2>1. n = 2 * h + e
    BY <1>2, <1>3
  <2> QED BY <1>3, <1>6, <1>9, <1>11, <1>12, <1>14, <2>1, FactorialFolds
<1>16. Same(f, z, m)
  <2>1. PICK b \in Int : b = y * c
    OBVIOUS
  <2>2. Same(b, z, m)
    BY <1>4, <1>13, <2>1, SameIsSymmetric
  <2> QED BY <1>4, <1>15, <2>1, <2>2, SameIsTransitive
<1>17. z = FactorialRest(n, m)
  BY <1>4, <1>13, <1>14, <1>16, FactorialRestIs
<1>18. Assembled = z
  BY <1>1, <1>2, <1>3, <1>7, <1>8, <1>10, <1>13 DEF Assembled
<1> QED BY <1>1, <1>3, <1>17, <1>18

(* --------------------------- blocks and ranges ------------------------- *)

\* The factors before a block and its product make those before the next.
LEMMA BlockIsRead ==
  ASSUME NEW m \in Nat \ {0, 1}, NEW w \in Nat, NEW b \in Nat, NEW r, r = FactorialRest(w * b, m),
         NEW v, v = BlockProduct(b, w) % m
  PROVE  (r * v) % m = FactorialRest(w * (b + 1), m)
<1>1. PICK x \in Nat : x = w * b /\ x = b * w
  <2>1. w * b \in Nat /\ w * b = b * w
    OBVIOUS
  <2> QED BY <2>1
<1>2. w * (b + 1) = x + w
  BY <1>1
<1>3. PICK p \in Int : p = ProductOf(x + 1 .. x + w) /\ p = BlockProduct(b, w)
  <2>1. x + 1 \in Int /\ x + w \in Int
    OBVIOUS
  <2> QED BY <1>1, <2>1, IntervalsAreNumbers, ProductType DEF BlockProduct
<1>4. v \in Int /\ Same(v, p, m)
  <2>1. m \in Nat \ {0}
    OBVIOUS
  <2>2. p % m \in 0 .. m - 1 /\ Same(p % m, p, m)
    BY <2>1, SameAsRest
  <2>3. v = p % m /\ p % m \in Int
    BY <1>3, <2>2
  <2> QED BY <2>2, <2>3
<1>5. x + w \in Nat /\ x <= x + w
  OBVIOUS
<1>6. (FactorialRest(x, m) * v) % m = FactorialRest(x + w, m)
  BY <1>3, <1>4, <1>5, FactorialJoins
<1> QED BY <1>1, <1>2, <1>6

\* Where the streamed ranges of the blocks begin, and the last one ends.
StartOf(full, r) == IF r = 1 THEN 1 ELSE IF r = 2 THEN Middle(1, full) ELSE full
StageOf(full, r) == <<StartOf(full, r), StartOf(full, r + 1)>>

\* Where they begin, one after another.
LEMMA StageFacts ==
  ASSUME NEW full \in Nat \ {0}, NEW r \in 1 .. 2
  PROVE  /\ StartOf(full, 1) = 1 /\ StartOf(full, 3) = full
         /\ StartOf(full, r) \in Nat /\ StartOf(full, r) >= 1
         /\ StartOf(full, r + 1) \in Nat /\ StartOf(full, r) <= StartOf(full, r + 1)
         /\ StageOf(full, r) = <<Left(<<1, full>>), Right(<<1, full>>)>>[r]
<1>1. PICK d \in Nat : d = (full - 1) \div 2 /\ 1 + d <= full
  <2>1. PICK n \in Nat : n = full - 1
    OBVIOUS
  <2>2. n \div 2 \in Nat /\ n \div 2 <= n
    OBVIOUS
  <2> QED BY <2>1, <2>2
<1>2. Middle(1, full) = 1 + d
  BY <1>1 DEF Middle
<1>3. CASE r = 1
  BY <1>1, <1>2, <1>3 DEF StartOf, StageOf, Left, Right
<1>4. CASE r = 2
  BY <1>1, <1>2, <1>4 DEF StartOf, StageOf, Left, Right
<1> QED BY <1>3, <1>4

(* ------------------------------ activations ---------------------------- *)

\* The first block an activation has still to read, or the one behind it.
Lo(f) ==
  IF f.stage = "left" THEN f.node[1]
  ELSE IF f.stage = "right" THEN Middle(f.node[1], f.node[2])
  ELSE f.node[2]

\* The products of the branches an activation has not taken.
Kept(lo, v, root, ps, w, m) ==
  \A u \in Nodes(root) : ~IsLeaf(u) /\ lo <= u[1] /\ u[2] <= v[2] /\ u # v => RootsAt(ps[u], u, w, m)

FrameOf(f, root, m) ==
  /\ f.node \in Nodes(root) /\ ~IsLeaf(f.node)
  /\ f.stage \in {"left", "right", "read"}

FrameRight(f, root, ps, w, m) ==
  /\ FrameOf(f, root, m)
  /\ f.stage # "read" => RightBelow(f.reduced, <<Lo(f), f.node[2]>>, w, m)
  /\ Kept(Lo(f), f.node, root, ps, w, m)

\* The stack: an activation begins where the one above it ends.
Stacked(s, root, ps, w, m) ==
  /\ s # <<>> => s[Len(s)].node[2] = root[2]
  /\ \A i \in DOMAIN s : FrameRight(s[i], root, ps, w, m)
  /\ \A i \in DOMAIN s : i > 1 => Lo(s[i]) = s[i - 1].node[2]
  /\ \A i \in DOMAIN s : \A j \in DOMAIN s : i < j => s[i].node[2] <= Lo(s[j])

Activations == [node : Nat \X Nat, reduced : Seq(Int), stage : {"left", "right", "read"}]

\* The places of an activation.
LEMMA FrameFacts ==
  ASSUME NEW root, Span(root), NEW m, NEW f, FrameOf(f, root, m)
  PROVE  /\ f.node[1] \in Nat /\ f.node[2] \in Nat /\ Lo(f) \in Nat
         /\ f.node = <<f.node[1], f.node[2]>> /\ f.node \in Nat \X Nat
         /\ f.node[1] <= Lo(f) /\ Lo(f) <= f.node[2]
         /\ root[1] <= f.node[1] /\ f.node[2] <= root[2]
         /\ Middle(f.node[1], f.node[2]) \in Nat
         /\ f.node[1] < Middle(f.node[1], f.node[2]) /\ Middle(f.node[1], f.node[2]) < f.node[2]
         /\ Left(f.node) = <<f.node[1], Middle(f.node[1], f.node[2])>>
         /\ Right(f.node) = <<Middle(f.node[1], f.node[2]), f.node[2]>>
         /\ Left(f.node) \in Nodes(root) /\ Right(f.node) \in Nodes(root)
<1>1. f.node \in Within(root) /\ Left(f.node) \in Nodes(root) /\ Right(f.node) \in Nodes(root)
  BY NodesFacts DEF FrameOf
<1>2. /\ f.node[1] \in Nat /\ f.node[2] \in Nat /\ f.node[1] < f.node[2]
      /\ f.node = <<f.node[1], f.node[2]>>
      /\ root[1] <= f.node[1] /\ f.node[2] <= root[2]
  BY <1>1, HalvesFacts
<1>3. f.node[2] - f.node[1] # 1
  BY DEF FrameOf, IsLeaf
<1>4. /\ Middle(f.node[1], f.node[2]) \in Nat
      /\ f.node[1] < Middle(f.node[1], f.node[2]) /\ Middle(f.node[1], f.node[2]) < f.node[2]
  BY <1>2, <1>3, MiddleFacts
<1>5. Lo(f) \in Nat /\ f.node[1] <= Lo(f) /\ Lo(f) <= f.node[2]
  BY <1>2, <1>4 DEF Lo
<1>6. f.node \in Nat \X Nat
  BY <1>2
<1> QED BY <1>1, <1>2, <1>4, <1>5, <1>6 DEF Left, Right

\* Activations return in their order.
LEMMA StackPop ==
  ASSUME NEW s \in Seq(Activations), s # <<>>, NEW root, NEW ps, NEW w, NEW m,
         Stacked(s, root, ps, w, m)
  PROVE  /\ Tail(s) \in Seq(Activations)
         /\ Stacked(Tail(s), root, ps, w, m)
         /\ Tail(s) = <<>> => s[1].node[2] = root[2]
         /\ Tail(s) # <<>> => Lo(Tail(s)[1]) = s[1].node[2]
<1> DEFINE r == Tail(s)
<1>1. /\ r \in Seq(Activations) /\ Len(s) \in Nat /\ Len(s) >= 1
      /\ Len(r) = Len(s) - 1 /\ DOMAIN s = 1 .. Len(s) /\ DOMAIN r = 1 .. Len(r)
      /\ \A i \in DOMAIN r : r[i] = s[i + 1]
  OBVIOUS
<1>2. r = <<>> => Len(s) = 1
  BY <1>1
<1>3. r # <<>> => Len(r) >= 1 /\ Len(s) >= 2
  BY <1>1
<1> HIDE DEF r
<1>4. \A i \in DOMAIN r : i + 1 \in DOMAIN s /\ r[i] = s[i + 1] /\ i \in Nat /\ i >= 1
  BY <1>1
<1>5. r # <<>> => r[Len(r)].node[2] = root[2]
  <2> SUFFICES ASSUME r # <<>> PROVE r[Len(r)].node[2] = root[2]
    OBVIOUS
  <2>1. Len(r) \in DOMAIN r /\ Len(r) + 1 = Len(s)
    BY <1>1, <1>3
  <2>2. r[Len(r)] = s[Len(s)]
    BY <1>1, <2>1
  <2> QED BY <2>2 DEF Stacked
<1>6. \A i \in DOMAIN r : FrameRight(r[i], root, ps, w, m)
  BY <1>4 DEF Stacked
<1>7. ASSUME NEW i \in DOMAIN r, i > 1 PROVE Lo(r[i]) = r[i - 1].node[2]
  <2>1. i - 1 \in DOMAIN r /\ (i - 1) + 1 = i /\ (i + 1) - 1 = i /\ i + 1 > 1
    BY <1>1, <1>7
  <2>2. r[i - 1] = s[i] /\ r[i] = s[i + 1] /\ i + 1 \in DOMAIN s
    BY <1>4, <2>1
  <2>3. Lo(s[i + 1]) = s[(i + 1) - 1].node[2]
    BY <2>1, <2>2 DEF Stacked
  <2> QED BY <2>1, <2>2, <2>3
<1>8. ASSUME NEW i \in DOMAIN r, NEW j \in DOMAIN r, i < j PROVE r[i].node[2] <= Lo(r[j])
  <2>1. i + 1 < j + 1
    BY <1>4, <1>8
  <2> QED BY <1>4, <2>1 DEF Stacked
<1>9. r # <<>> => Lo(r[1]) = s[1].node[2]
  <2> SUFFICES ASSUME r # <<>> PROVE Lo(r[1]) = s[1].node[2]
    OBVIOUS
  <2>1. 1 \in DOMAIN r /\ 2 \in DOMAIN s /\ 2 > 1 /\ 2 - 1 = 1 /\ 1 + 1 = 2
    BY <1>1, <1>3
  <2>2. Lo(s[2]) = s[2 - 1].node[2]
    BY <2>1 DEF Stacked
  <2> QED BY <1>4, <2>1, <2>2
<1>10. r = <<>> => s[1].node[2] = root[2]
  BY <1>2 DEF Stacked
<1> QED BY <1>1, <1>5, <1>6, <1>7, <1>8, <1>9, <1>10 DEF Stacked, r

\* One more activation, which ends where the next one begins.
LEMMA StackPush ==
  ASSUME NEW s \in Seq(Activations), NEW root, Span(root), NEW ps, NEW w, NEW m,
         Stacked(s, root, ps, w, m),
         NEW f \in Activations, FrameRight(f, root, ps, w, m),
         f.node[2] = IF s = <<>> THEN root[2] ELSE Lo(s[1])
  PROVE  /\ <<f>> \o s \in Seq(Activations) /\ <<f>> \o s # <<>>
         /\ (<<f>> \o s)[1] = f /\ Head(<<f>> \o s) = f
         /\ Stacked(<<f>> \o s, root, ps, w, m)
<1> DEFINE r == <<f>> \o s
<1>1. /\ r \in Seq(Activations) /\ Len(s) \in Nat
      /\ Len(r) = Len(s) + 1 /\ DOMAIN s = 1 .. Len(s) /\ DOMAIN r = 1 .. Len(r)
      /\ r[1] = f /\ \A i \in DOMAIN s : r[i + 1] = s[i]
  OBVIOUS
<1>2. r # <<>> /\ Head(r) = f
  <2>1. Len(r) # 0
    BY <1>1
  <2> QED BY <1>1, <2>1
<1> HIDE DEF r
<1>3. \A i \in DOMAIN r : i = 1 \/ (i > 1 /\ i - 1 \in DOMAIN s /\ r[i] = s[i - 1])
  <2> SUFFICES ASSUME NEW i \in DOMAIN r, i # 1
               PROVE  i > 1 /\ i - 1 \in DOMAIN s /\ r[i] = s[i - 1]
    OBVIOUS
  <2>1. i > 1 /\ i - 1 \in DOMAIN s /\ (i - 1) + 1 = i
    BY <1>1
  <2> QED BY <1>1, <2>1
<1>4. \A i \in DOMAIN r : FrameRight(r[i], root, ps, w, m)
  BY <1>1, <1>3 DEF Stacked
<1>5. r[Len(r)].node[2] = root[2]
  <2>1. CASE s = <<>>
    BY <1>1, <2>1
  <2>2. CASE s # <<>>
    <3>1. Len(s) \in DOMAIN s /\ Len(s) + 1 = Len(r)
      BY <1>1, <2>2
    <3>2. r[Len(r)] = s[Len(s)]
      BY <1>1, <3>1
    <3> QED BY <2>2, <3>2 DEF Stacked
  <2> QED BY <2>1, <2>2
<1>6. \A i \in DOMAIN s : /\ Lo(s[i]) \in Nat /\ s[i].node[2] \in Nat /\ Lo(s[i]) <= s[i].node[2]
  BY FrameFacts DEF Stacked, FrameRight
<1>7. ASSUME NEW i \in DOMAIN r, i > 1 PROVE Lo(r[i]) = r[i - 1].node[2]
  <2>1. PICK j \in DOMAIN s : j = i - 1 /\ r[i] = s[j]
    BY <1>3, <1>7
  <2>2. CASE j = 1
    <3>1. s # <<>> /\ i - 1 = 1
      BY <2>1, <2>2
    <3> QED BY <1>1, <2>1, <2>2, <3>1
  <2>3. CASE j # 1
    <3>1. j > 1 /\ j - 1 \in DOMAIN s /\ (j - 1) + 1 = i - 1
      BY <1>1, <2>1, <2>3
    <3>2. r[i - 1] = s[j - 1]
      BY <1>1, <3>1
    <3> QED BY <2>1, <3>1, <3>2 DEF Stacked
  <2> QED BY <2>2, <2>3
<1>8. ASSUME NEW i \in DOMAIN r, NEW j \in DOMAIN r, i < j PROVE r[i].node[2] <= Lo(r[j])
  <2>0. i \in Nat /\ j \in Nat /\ i >= 1
    BY <1>1
  <2>1. j # 1
    BY <1>8, <2>0
  <2>2. PICK k \in DOMAIN s : k = j - 1 /\ r[j] = s[k]
    BY <1>3, <2>1
  <2>3. CASE i = 1
    <3>1. s # <<>> /\ 1 \in DOMAIN s /\ k >= 1 /\ k \in Nat
      BY <1>1, <2>2
    <3>2. f.node[2] = Lo(s[1]) /\ r[i] = f
      BY <1>1, <2>3, <3>1
    <3>3. CASE k = 1
      BY <1>6, <2>2, <3>1, <3>2, <3>3
    <3>4. CASE k # 1
      <4>1. 1 < k
        BY <3>1, <3>4
      <4>2. s[1].node[2] <= Lo(s[k])
        BY <3>1, <4>1 DEF Stacked
      <4>3. /\ Lo(s[1]) \in Nat /\ s[1].node[2] \in Nat /\ Lo(s[1]) <= s[1].node[2]
            /\ Lo(s[k]) \in Nat
        BY <1>6, <3>1
      <4> QED BY <2>2, <3>2, <4>2, <4>3
    <3> QED BY <3>3, <3>4
  <2>4. CASE i # 1
    <3>1. PICK h \in DOMAIN s : h = i - 1 /\ r[i] = s[h]
      BY <1>3, <2>4
    <3>2. h < k
      BY <1>8, <2>0, <2>2, <3>1
    <3> QED BY <2>2, <3>1, <3>2 DEF Stacked
  <2> QED BY <2>3, <2>4
<1> QED BY <1>1, <1>2, <1>4, <1>5, <1>7, <1>8 DEF Stacked, r

Pushable(f, s, root, ps, w, m) ==
  /\ f \in Activations /\ FrameRight(f, root, ps, w, m)
  /\ s \in Seq(Activations) /\ Span(root) /\ Stacked(s, root, ps, w, m)
  /\ f.node[2] = IF s = <<>> THEN root[2] ELSE Lo(s[1])

Pushed(f, n, root, ps, w, m) ==
  /\ n \in Seq(Activations) /\ n # <<>> /\ n[1] = f
  /\ Stacked(n, root, ps, w, m)

\* The same, in one word.
LEMMA StackPushed ==
  ASSUME NEW f, NEW s, NEW root, NEW ps, NEW w, NEW m, Pushable(f, s, root, ps, w, m)
  PROVE  Pushed(f, <<f>> \o s, root, ps, w, m)
BY StackPush DEF Pushable, Pushed

\* What lies before every activation may be released.
LEMMA StackRelease ==
  ASSUME NEW s \in Seq(Activations), NEW root, Span(root), NEW ps, DOMAIN ps = Nodes(root),
         NEW w, NEW m, Stacked(s, root, ps, w, m),
         NEW v \in Nodes(root), s # <<>> => v[2] <= Lo(s[1])
  PROVE  Stacked(s, root, [ps EXCEPT ![v] = <<>>], w, m)
<1> DEFINE qs == [ps EXCEPT ![v] = <<>>]
<1>1. v \in Within(root)
  BY NodesFacts
<1>2. v[1] \in Nat /\ v[2] \in Nat /\ v[1] < v[2]
  BY <1>1, HalvesFacts
<1>3. \A u \in Nodes(root) : u # v => qs[u] = ps[u]
  OBVIOUS
<1> HIDE DEF qs
<1>4. ASSUME NEW i \in DOMAIN s PROVE FrameRight(s[i], root, qs, w, m)
  <2>1. FrameRight(s[i], root, ps, w, m) /\ 1 \in DOMAIN s /\ s # <<>> /\ i \in Nat /\ i >= 1
    BY DEF Stacked
  <2>2. FrameRight(s[1], root, ps, w, m)
    BY <2>1 DEF Stacked
  <2>3. /\ Lo(s[1]) \in Nat /\ Lo(s[1]) <= s[1].node[2] /\ s[1].node[2] \in Nat
        /\ Lo(s[i]) \in Nat
    BY <2>1, <2>2, FrameFacts DEF FrameRight
  <2>4. v[2] <= Lo(s[i])
    <3>1. CASE i = 1
      BY <2>1, <3>1
    <3>2. CASE i # 1
      <4>1. 1 < i
        BY <2>1, <3>2
      <4>2. s[1].node[2] <= Lo(s[i])
        BY <2>1, <4>1 DEF Stacked
      <4> QED BY <1>2, <2>1, <2>3, <4>2
    <3> QED BY <3>1, <3>2
  <2>5. \A u \in Nodes(root) : Lo(s[i]) <= u[1] => u # v
    BY <1>2, <2>3, <2>4
  <2>6. Kept(Lo(s[i]), s[i].node, root, qs, w, m)
    BY <1>3, <2>1, <2>5 DEF FrameRight, Kept
  <2> QED BY <2>1, <2>6 DEF FrameRight
<1> QED BY <1>4 DEF Stacked, qs

(* ----------------------------- the invariant --------------------------- *)

Descending(root, w, m, ps, s, r) ==
  /\ Span(root) /\ ~IsLeaf(root) /\ DOMAIN ps = Nodes(root)
  /\ s \in Seq(Activations) /\ s # <<>> /\ Stacked(s, root, ps, w, m)
  /\ r = FactorialRest(w * Lo(s[1]), m)

JInv ==
  /\ request \in Requests
  /\ pc \in {"request", "block", "range", "descend", "tail", "done", "rejected"}
  /\ width \in 0 .. half_count
  /\ width > 0 => width <= RequiredWidth
  /\ residue \in 0 .. candidate - 1
  /\ block \in Poly(candidate)
  /\ range \in 1 .. 3
  /\ factor \in 1 .. half_count + 1
  /\ frames # <<>> <=> pc = "descend"
  /\ pc \notin {"done", "rejected"} => answer = [kind |-> "none"]
  /\ pc = "request" => width = 0 /\ range = 1 /\ factor = 1
  /\ pc \in {"request", "block"} => residue = 1
  /\ pc = "block" => range = 1
  /\ pc \in {"block", "range", "descend"} => width >= 1
  /\ pc \in {"range", "descend"} => FactorsOf(block, <<0, width>>, candidate)
  /\ pc = "range" => residue = FactorialRest(width * StartOf(full_blocks, range), candidate)
  /\ pc = "descend" => /\ range \in 1 .. 2
                       /\ Descending(StageOf(full_blocks, range), width, candidate,
                                     products, frames, residue)
  /\ pc = "tail" => residue = FactorialRest(factor - 1, candidate)
  /\ pc = "done" => \/ answer.kind = "limit"
                    \/ answer = [kind |-> "observation",
                                 residue |-> FactorialRest(factor_count, candidate),
                                 prime |-> FactorialRest(factor_count, candidate) = candidate - 1]
  /\ pc = "rejected" => answer = [kind |-> "rejected"] /\ PolicyRejected

\* What holds of every request the consumer is given.
LEMMA JointFacts ==
  ASSUME JInv
  PROVE  /\ candidate \in Nat \ {0, 1} /\ candidate \in Nat \ {0} /\ candidate \in Int
         /\ half_count \in Nat /\ half_count <= candidate - 1 /\ 1 % candidate = 1
         /\ half_count = HalfOf(request) /\ factor_count = candidate - 1
         /\ policy = request.policy /\ policy.max_width \in Nat /\ policy.radius \in Nat
         /\ width >= 1 => /\ full_blocks \in Nat \ {0} /\ full_blocks * width <= half_count
                          /\ width * full_blocks = full_blocks * width
<1>1. request \in Requests /\ width \in 0 .. half_count
  BY DEF JInv
<1>2. candidate \in Nat \ {0, 1} /\ half_count \in Nat /\ half_count <= candidate - 1
  BY <1>1, RequestFacts DEF candidate, half_count, factor_count, HalfOf
<1>3. 1 % candidate = 1
  BY <1>2
<1>4. policy.max_width \in Nat /\ policy.radius \in Nat
  BY <1>1, RequestFacts DEF policy
<1>5. half_count = HalfOf(request)
  BY DEF half_count, factor_count, HalfOf, candidate
<1>6. ASSUME width >= 1
      PROVE  /\ full_blocks \in Nat \ {0} /\ full_blocks * width <= half_count
             /\ width * full_blocks = full_blocks * width
  <2>1. PICK w \in Nat \ {0}, h \in Nat : w = width /\ h = half_count /\ w <= h
    BY <1>1, <1>2, <1>6
  <2>2. PICK f \in Nat : f = h \div w /\ w * f <= h /\ h < w * f + w
    BY Division
  <2>3. f # 0
    <3> SUFFICES ASSUME f = 0 PROVE FALSE
      OBVIOUS
    <3>1. w * f = 0
      OBVIOUS
    <3> QED BY <2>1, <2>2, <3>1
  <2>4. w * f = f * w
    OBVIOUS
  <2>5. full_blocks = f
    BY <2>1, <2>2 DEF full_blocks
  <2> QED BY <2>1, <2>2, <2>3, <2>4, <2>5
<1> QED BY <1>2, <1>3, <1>4, <1>5, <1>6 DEF factor_count, policy

\* The request stays, and with it all that is read off it.
LEMMA SameRequest ==
  ASSUME request' = request
  PROVE  /\ candidate' = candidate /\ half_count' = half_count /\ factor_count' = factor_count
         /\ RequiredWidth' = RequiredWidth /\ policy' = policy
         /\ PolicyRejected' = PolicyRejected
         /\ width' = width => full_blocks' = full_blocks
BY DEF candidate, half_count, factor_count, RequiredWidth, policy, PolicyRejected, full_blocks

\* A call begins in it.
LEMMA JointInit ==
  ASSUME Init
  PROVE  JInv
<1>1. request \in Requests
  BY DEF Init
<1>2. candidate \in Nat \ {0, 1} /\ half_count \in Nat
  BY <1>1, RequestFacts DEF candidate, half_count, factor_count, HalfOf
<1>3. 1 % candidate = 1 /\ candidate \in Nat \ {0}
  BY <1>2
<1>4. <<>> \in Poly(candidate)
  BY <1>3, EmptyPoly
<1> QED BY <1>1, <1>2, <1>3, <1>4 DEF Init, JInv

\* A limit, and a rejection, leave nothing that is promised.
LEMMA JointLimits ==
  ASSUME JInv, request' = request, width' \in 0 .. half_count,
         width' > 0 => width' <= RequiredWidth,
         residue' = residue, range' = range, factor' = factor,
         block' = block \/ block' = <<>>, frames' = <<>>,
         \/ pc' = "done" /\ answer'.kind = "limit"
         \/ pc' = "rejected" /\ answer' = [kind |-> "rejected"] /\ PolicyRejected
  PROVE  JInv'
<1>1. <<>> \in Poly(candidate)
  BY JointFacts, EmptyPoly
<1> QED BY <1>1, SameRequest DEF JInv

\* What EngineRefuses and Rejects leave.
LEMMA RefusalFacts ==
  /\ EngineRefuses => /\ pc' = "done" /\ answer'.kind = "limit"
                      /\ block' = <<>> /\ frames' = <<>>
                      /\ UNCHANGED <<request, residue, range, factor>>
  /\ Rejects => /\ pc' = "rejected" /\ answer' = [kind |-> "rejected"]
                /\ block' = <<>> /\ frames' = <<>>
                /\ UNCHANGED <<request, width, residue, range, factor>>
BY DEF EngineRefuses, Rejects, Limit

\* An engine that refuses ends the call with a limit.
LEMMA EngineEnds ==
  ASSUME JInv, EngineRefuses, width' = width
  PROVE  JInv'
<1>1. width \in 0 .. half_count /\ (width > 0 => width <= RequiredWidth)
  BY DEF JInv
<1> QED BY <1>1, RefusalFacts, JointLimits

\* The policy and the width.
LEMMA JointPlans ==
  ASSUME JInv, RefuseWidth \/ RejectPolicy \/ PlanNothing \/ Plan
  PROVE  JInv' /\ request' = request
<1>0. width \in 0 .. half_count /\ (width > 0 => width <= RequiredWidth) /\ (frames # <<>> <=> pc = "descend")
  BY DEF JInv
<1>1. CASE RefuseWidth
  <2>1. /\ request' = request /\ width' = width /\ residue' = residue /\ range' = range
        /\ factor' = factor /\ block' = block /\ frames' = <<>>
        /\ pc' = "done" /\ answer'.kind = "limit"
    BY <1>0, <1>1 DEF RefuseWidth, Limit, tree
  <2> QED BY <1>0, <2>1, JointLimits
<1>2. CASE RejectPolicy
  <2>1. Rejects /\ PolicyRejected
    BY <1>2 DEF RejectPolicy
  <2> QED BY <1>0, <2>1, RefusalFacts, JointLimits
<1>3. CASE PlanNothing
  <2>1. FactorialRest(0, candidate) = 1
    BY JointFacts, FactorialStarts
  <2>2. request' = request /\ pc' = "tail"
    BY <1>3 DEF PlanNothing
  <2> QED BY <1>3, <2>1, <2>2, SameRequest DEF PlanNothing, JInv, tree
<1>4. CASE Plan
  <2>1. half_count \in Nat \ {0} /\ policy.radius \in Nat
    BY <1>4, JointFacts DEF Plan
  <2>2. width' = ChooseBlockWidth(half_count, policy.radius)
    BY <1>4 DEF Plan
  <2>3. width' \in 1 .. half_count /\ width' <= RequiredWidth
    BY <2>1, <2>2, ChosenWidth DEF RequiredWidth
  <2>4. CASE EngineRefuses
    BY <2>3, <2>4, RefusalFacts, JointLimits
  <2>5. CASE pc' = "block" /\ UNCHANGED <<request, block, residue, range, tree, factor, answer>>
    BY <1>4, <2>3, <2>5, SameRequest DEF Plan, JInv, tree
  <2> QED BY <1>4, <2>4, <2>5, RefusalFacts DEF Plan
<1> QED BY <1>1, <1>2, <1>3, <1>4

(* ------------------------------ the block ------------------------------ *)

\* The factor polynomial is monic,
LEMMA FactorTreeIsMonic ==
  ASSUME NEW m \in Nat \ {0, 1}, NEW root, Span(root)
  PROVE  Monic(ProductTree(FactorLeaves(root, m), root, m))
<1> DEFINE leaf == FactorLeaves(root, m)
           K == {x \in Within(root) \X Poly(m) : Monic(x[2])}
<1>1. m \in Nat \ {0} /\ root[1] \in Nat /\ root[2] \in Nat
  BY DEF Span
<1>2. \A i \in root[1] .. root[2] - 1 : leaf[i] \in Poly(m) /\ Monic(leaf[i])
  <2> SUFFICES ASSUME NEW i \in root[1] .. root[2] - 1 PROVE leaf[i] \in Poly(m) /\ Monic(leaf[i])
    OBVIOUS
  <2>1. PICK c \in 0 .. m - 1 : c = (i + 1) % m
    <3>1. i + 1 \in Int
      BY <1>1
    <3> QED BY <1>1, <3>1, SameAsRest
  <2>2. leaf[i] = <<c, 1>>
    BY <2>1 DEF FactorLeaves
  <2>3. 0 \in Int
    OBVIOUS
  <2> QED BY <2>2, <2>3, AtLeaf
<1>3. Leaves(leaf, root, m)
  BY <1>2 DEF Leaves
<1>4. Inherited(K, leaf, root, m)
  <2>1. ASSUME NEW v \in Within(root), IsLeaf(v) PROVE <<v, leaf[v[1]]>> \in K
    <3>1. v[1] \in Nat /\ root[1] <= v[1] /\ v[2] = v[1] + 1 /\ v[2] <= root[2]
      BY <2>1, HalvesFacts
    <3>2. v[1] \in root[1] .. root[2] - 1
      BY <1>1, <3>1
    <3> HIDE DEF leaf
    <3> QED BY <1>2, <3>2
  <2>2. ASSUME NEW v \in Within(root), NEW p \in Poly(m), NEW q \in Poly(m), ~IsLeaf(v),
               <<Left(v), p>> \in K, <<Right(v), q>> \in K
        PROVE  <<v, Product(p, q, m)>> \in K
    <3>1. Monic(p) /\ Monic(q)
      BY <2>2
    <3>2. Product(p, q, m) \in Poly(m) /\ Monic(Product(p, q, m))
      BY <1>1, <3>1, ProductFacts, ProductIsMonic
    <3> QED BY <3>2
  <2> HIDE DEF leaf, K
  <2> QED BY <2>1, <2>2 DEF Inherited
<1>5. <<root, ProductTree(leaf, root, m)>> \in K
  <2> HIDE DEF K, leaf
  <2> QED BY <1>1, <1>3, <1>4, TreeInduction
<1> QED BY <1>5

\* and its first coefficient is the product of the first block.
LEMMA FirstCoefficient ==
  ASSUME NEW m \in Nat \ {0, 1}, NEW w \in Nat \ {0}, NEW p, FactorsOf(p, <<0, w>>, m), Monic(p)
  PROVE  p[1] \in 0 .. m - 1 /\ Same(p[1], ProductOf(1 .. w), m)
<1>1. m \in Nat \ {0} /\ 0 \in Int
  OBVIOUS
<1>2. p \in Poly(m) /\ Same(At(0, p), ProductOf(0 + 0 + 1 .. 0 + w), m)
  BY <1>1 DEF FactorsOf, PartOf
<1>3. Len(p) \in Nat /\ Ser(p) \in Series /\ p # <<>> /\ DOMAIN p = 1 .. Len(p)
      /\ \A i \in 1 .. Len(p) : p[i] \in 0 .. m - 1
  BY <1>1, <1>2, PolyFacts DEF Monic
<1>4. PICK n \in Nat : Len(p) = n + 1
  <2>1. Len(p) # 0
    BY <1>2, <1>3 DEF Poly
  <2>2. Len(p) - 1 \in Nat /\ Len(p) = (Len(p) - 1) + 1
    BY <1>3, <2>1
  <2> QED BY <2>2
<1>5. Ev(0, n + 1, Ser(p)) = Ser(p)[0] + 0 * Ev(0, n, Shift(Ser(p)))
  BY <1>1, <1>3, EvEquations
<1>6. Ev(0, n, Shift(Ser(p))) \in Int
  BY <1>1, <1>3, EvEquations, SeriesTypes
<1>7. 1 \in 1 .. Len(p) /\ Ser(p)[0] = p[1]
  BY <1>3, <1>4 DEF Ser
<1>8. p[1] \in 0 .. m - 1
  BY <1>3, <1>7
<1>9. At(0, p) = p[1]
  BY <1>4, <1>5, <1>6, <1>7, <1>8 DEF At
<1>10. 0 + 0 + 1 .. 0 + w = 1 .. w
  OBVIOUS
<1> QED BY <1>2, <1>8, <1>9, <1>10

(* ------------------------------ the ranges ----------------------------- *)

\* Where the stage stands in the ranges.
LEMMA RangeFacts ==
  ASSUME JInv, pc \in {"range", "descend"}, range \in 1 .. 2
  PROVE  /\ width \in Nat \ {0} /\ full_blocks \in Nat \ {0}
         /\ StartOf(full_blocks, range) \in Nat /\ StartOf(full_blocks, range) >= 1
         /\ StartOf(full_blocks, range + 1) \in Nat
         /\ StartOf(full_blocks, range) <= StartOf(full_blocks, range + 1)
         /\ Halves[range] = <<StartOf(full_blocks, range), StartOf(full_blocks, range + 1)>>
         /\ Halves[range] = StageOf(full_blocks, range)
<1>1. width >= 1 /\ width \in Nat
  BY JointFacts DEF JInv
<1>2. full_blocks \in Nat \ {0}
  BY <1>1, JointFacts
<1> QED BY <1>1, <1>2, StageFacts DEF Halves, StageOf

\* A range that ends in the residue of its factors.
LEMMA RangeEnds ==
  ASSUME JInv, pc \in {"range", "descend"}, range \in 1 .. 2,
         residue' \in 0 .. candidate - 1,
         residue' = FactorialRest(width * StartOf(full_blocks, range + 1), candidate),
         range' = range + 1, pc' = "range", frames' = <<>>,
         UNCHANGED <<request, width, block, factor, answer>>
  PROVE  JInv' /\ request' = request
<1>1. full_blocks' = full_blocks /\ candidate' = candidate /\ half_count' = half_count
      /\ RequiredWidth' = RequiredWidth
  BY SameRequest
<1>2. range' \in 1 .. 3
  BY DEF JInv
<1>3. residue' = FactorialRest(width' * StartOf(full_blocks', range'), candidate')
  BY <1>1
<1> QED BY <1>1, <1>2, <1>3 DEF JInv

\* A residue after a factor.
LEMMA TimesType ==
  ASSUME JInv, NEW v, Times(v), v \in Int
  PROVE  residue' \in 0 .. candidate - 1 /\ residue' = (residue * v) % candidate
<1>1. PICK x \in Int : x = residue * v
  BY JointFacts DEF JInv
<1>2. candidate \in Nat \ {0}
  BY JointFacts
<1> QED BY <1>1, <1>2, SameAsRest DEF Times

\* The factor polynomial, and the first block.
LEMMA JointBuilds ==
  ASSUME JInv, BuildBlock
  PROVE  JInv' /\ request' = request
<1>1. CASE EngineRefuses /\ UNCHANGED width
  BY <1>1, EngineEnds, RefusalFacts
<1>2. CASE /\ block' = FactorPolynomial(width)
           /\ Times(block'[1])
           /\ pc' = "range"
           /\ UNCHANGED <<request, width, range, tree, factor, answer>>
  <2>1. PICK w \in Nat \ {0} : w = width /\ w <= half_count
    BY JointFacts DEF BuildBlock, JInv
  <2>2. PICK m \in Nat \ {0, 1} : m = candidate
    BY JointFacts
  <2>3. Span(<<0, w>>)
    BY DEF Span
  <2>4. FactorsOf(block', <<0, w>>, m) /\ Monic(block')
    BY <1>2, <2>1, <2>2, <2>3, FactorTreeIsRight, FactorTreeIsMonic DEF FactorPolynomial
  <2>5. block' \in Poly(m)
    <3>1. 0 \in Int
      OBVIOUS
    <3> QED BY <2>4, <3>1 DEF FactorsOf, PartOf
  <2>6. PICK v \in Int : v = block'[1] /\ Same(v, ProductOf(1 .. w), m)
    BY <2>4, FirstCoefficient
  <2>7. residue' \in 0 .. m - 1 /\ residue' = (1 * v) % m
    <3>1. residue = 1
      BY DEF BuildBlock, JInv
    <3> QED BY <1>2, <2>2, <2>6, <3>1, TimesType
  <2>8. residue' = FactorialRest(w, m)
    <3>1. 0 \in Nat /\ w \in Nat /\ 0 <= w /\ 0 + 1 = 1
      OBVIOUS
    <3>2. (FactorialRest(0, m) * v) % m = FactorialRest(w, m)
      BY <2>6, <3>1, FactorialJoins
    <3> QED BY <2>7, <3>2, FactorialStarts
  <2>9. /\ range = 1 /\ w * StartOf(full_blocks, 1) = w
        /\ pc = "block" /\ answer = [kind |-> "none"]
    BY DEF BuildBlock, JInv, StartOf
  <2>10. frames = <<>>
    BY DEF BuildBlock, JInv
  <2>11. full_blocks' = full_blocks /\ candidate' = candidate /\ half_count' = half_count
         /\ RequiredWidth' = RequiredWidth
    BY <1>2, SameRequest
  <2>12. residue' = FactorialRest(width' * StartOf(full_blocks', range'), candidate')
    BY <1>2, <2>1, <2>2, <2>8, <2>9, <2>11
  <2> QED BY <1>2, <2>1, <2>2, <2>4, <2>5, <2>7, <2>9, <2>10, <2>11, <2>12 DEF JInv, tree
<1> QED BY <1>1, <1>2 DEF BuildBlock

\* An empty range.
LEMMA JointSkips ==
  ASSUME JInv, SkipRange
  PROVE  JInv' /\ request' = request
<1>1. pc = "range" /\ range \in 1 .. 2 /\ Halves[range][1] = Halves[range][2]
  BY DEF SkipRange, AtRange
<1>2. StartOf(full_blocks, range) = StartOf(full_blocks, range + 1)
  BY <1>1, RangeFacts
<1>3. residue \in 0 .. candidate - 1 /\ frames = <<>>
      /\ residue = FactorialRest(width * StartOf(full_blocks, range), candidate)
  BY <1>1 DEF JInv
<1>4. /\ residue' = residue /\ frames' = frames /\ range' = range + 1 /\ pc' = pc
      /\ UNCHANGED <<request, width, block, factor, answer>>
  BY DEF SkipRange, tree
<1> QED BY <1>1, <1>2, <1>3, <1>4, RangeEnds

\* The polynomial of the factors is right at the points of its blocks.
LEMMA BlockIsRight ==
  ASSUME JInv, pc \in {"range", "descend"}, NEW v, v[1] \in Nat, v[2] \in Nat
  PROVE  RightBelow(block, v, width, candidate)
<1>1. FactorsOf(block, <<0, width>>, candidate) /\ width \in Nat
  BY JointFacts DEF JInv
<1> QED BY <1>1, JointFacts, BlockPolynomialIsRight

\* A block is read off a polynomial that is right at its point.
LEMMA BlockIsCounted ==
  ASSUME JInv, width \in Nat, NEW v, NEW p, RightBelow(p, v, width, candidate),
         NEW b \in Nat, b \in v[1] .. v[2] - 1,
         residue = FactorialRest(width * b, candidate),
         Times(Value(p, Point(b), candidate))
  PROVE  /\ residue' \in 0 .. candidate - 1
         /\ residue' = FactorialRest(width * (b + 1), candidate)
<1>1. PICK m \in Nat \ {0, 1} : m = candidate
  BY JointFacts
<1>2. PICK x \in Int : x = Value(p, Point(b), candidate) /\ x = BlockProduct(b, width) % m
  <2>1. BlockProduct(b, width) \in Int
    <3>1. b * width + 1 \in Int /\ b * width + width \in Int
      OBVIOUS
    <3> QED BY <3>1, IntervalsAreNumbers, ProductType DEF BlockProduct
  <2>2. m \in Nat \ {0}
    OBVIOUS
  <2>3. BlockProduct(b, width) % m \in Int
    BY <2>1, <2>2, SameAsRest
  <2> QED BY <1>1, <2>3 DEF RightBelow, Point
<1>3. residue' \in 0 .. m - 1 /\ residue' = (residue * x) % m
  BY <1>1, <1>2, TimesType
<1> QED BY <1>1, <1>2, <1>3, BlockIsRead

\* A range of one block.
LEMMA JointReadsLoneBlock ==
  ASSUME JInv, EvaluateLoneBlock
  PROVE  JInv' /\ request' = request
<1>1. pc = "range" /\ range \in 1 .. 2 /\ IsLeaf(Halves[range])
  BY DEF EvaluateLoneBlock, AtRange
<1>2. PICK b \in Nat : b = StartOf(full_blocks, range)
  BY <1>1, RangeFacts
<1>3. Halves[range] = <<b, b + 1>> /\ StartOf(full_blocks, range + 1) = b + 1 /\ width \in Nat
  BY <1>1, <1>2, RangeFacts DEF IsLeaf
<1>4. RightBelow(block, <<b, b + 1>>, width, candidate)
  BY <1>1, BlockIsRight
<1>5. residue = FactorialRest(width * b, candidate) /\ frames = <<>>
  BY <1>1, <1>2 DEF JInv
<1>6. Times(Value(block, Point(b), candidate))
  BY <1>3 DEF EvaluateLoneBlock
<1>7. b \in <<b, b + 1>>[1] .. <<b, b + 1>>[2] - 1
  OBVIOUS
<1>8. /\ residue' \in 0 .. candidate - 1
      /\ residue' = FactorialRest(width * (b + 1), candidate)
  BY <1>3, <1>4, <1>5, <1>6, <1>7, BlockIsCounted
<1>9. /\ frames' = <<>> /\ range' = range + 1 /\ pc' = "range"
      /\ UNCHANGED <<request, width, block, factor, answer>>
  BY <1>1, <1>5 DEF EvaluateLoneBlock, tree
<1> QED BY <1>1, <1>3, <1>8, <1>9, RangeEnds

\* A polynomial that is right, and nothing kept that is not promised.
LEMMA ActivationType ==
  ASSUME NEW m \in Nat \ {0}, NEW v \in Nat \X Nat, NEW p \in Poly(m),
         NEW stage \in {"left", "right", "read"}
  PROVE  [node |-> v, reduced |-> p, stage |-> stage] \in Activations
<1>1. p \in Seq(Int)
  BY PolyFacts
<1> QED BY <1>1 DEF Activations

\* What the tree of a range is made of.
LEMMA TreeIsKept ==
  ASSUME NEW root, Span(root), ~IsLeaf(root), candidate \in Nat \ {0, 1}, width \in Nat,
         NEW ps, ps = [EvaluationProducts(root) EXCEPT ![root] = <<>>]
  PROVE  /\ DOMAIN ps = Nodes(root)
         /\ Kept(root[1], root, root, ps, width, candidate)
<1>1. DOMAIN ps = Nodes(root)
  BY DEF EvaluationProducts
<1>2. ASSUME NEW u \in Nodes(root), ~IsLeaf(u), u # root
      PROVE  RootsAt(ps[u], u, width, candidate)
  <2>1. u \in Within(root)
    BY NodesFacts
  <2>2. Span(u)
    BY <2>1, HalvesFacts
  <2>3. ps[u] = RangeProduct(u)
    BY <1>2 DEF EvaluationProducts
  <2> QED BY <2>2, <2>3, VanishingTreeFacts DEF RangeProduct
<1> QED BY <1>1, <1>2 DEF Kept

\* A tree, and the remainder at its root.
LEMMA JointPlants ==
  ASSUME JInv, BuildTree
  PROVE  JInv' /\ request' = request
<1> DEFINE root == Halves[range]
           product == RangeProduct(root)
<1>1. pc = "range" /\ range \in 1 .. 2 /\ root[2] - root[1] > 1
  BY DEF BuildTree, AtRange
<1>2. CASE EngineRefuses /\ UNCHANGED width
  BY <1>2, EngineEnds, RefusalFacts
<1>3. CASE /\ products' = [EvaluationProducts(root) EXCEPT ![root] = <<>>]
           /\ frames' = <<Frame(root, Remainder(block, product, candidate, policy))>>
           /\ pc' = "descend"
           /\ UNCHANGED <<request, width, block, residue, range, factor, answer>>
  <2>1. /\ root[1] \in Nat /\ root[2] \in Nat /\ root[1] = StartOf(full_blocks, range)
        /\ root = <<root[1], root[2]>> /\ root = StageOf(full_blocks, range)
        /\ width \in Nat /\ width \in Nat \ {0}
    <3>1. /\ StartOf(full_blocks, range) \in Nat /\ StartOf(full_blocks, range + 1) \in Nat
          /\ root = <<StartOf(full_blocks, range), StartOf(full_blocks, range + 1)>>
          /\ root = StageOf(full_blocks, range) /\ width \in Nat \ {0}
      BY <1>1, RangeFacts
    <3> HIDE DEF root
    <3> QED BY <3>1
  <2>2. Span(root) /\ ~IsLeaf(root)
    <3> HIDE DEF root
    <3> QED BY <1>1, <2>1 DEF Span, IsLeaf
  <2>3. PICK m \in Nat \ {0, 1} : m = candidate
    BY JointFacts
  <2>4. RootsAt(product, root, width, m)
    BY <2>1, <2>2, <2>3, VanishingTreeFacts DEF RangeProduct
  <2>5. RightBelow(block, root, width, m)
    BY <1>1, <2>1, <2>3, BlockIsRight
  <2> DEFINE p == Remainder(block, product, candidate, policy)
             f == Frame(root, p)
  <2> HIDE DEF root, product
  <2>6. RightBelow(p, root, width, m)
    <3>1. root[1] .. root[2] - 1 \subseteq root[1] .. root[2] - 1
      OBVIOUS
    <3> QED BY <2>1, <2>2, <2>3, <2>4, <2>5, <3>1, RemainderIsRight
  <2>7. p \in Poly(m)
    BY <2>6 DEF RightBelow
  <2> HIDE DEF p
  <2>8. f.node = root /\ f.reduced = p /\ f.stage = "left" /\ f \in Activations
    <3>1. root \in Nat \X Nat /\ m \in Nat \ {0} /\ "left" \in {"left", "right", "read"}
      BY <2>1
    <3>2. f = [node |-> root, reduced |-> p, stage |-> "left"]
      BY DEF Frame
    <3>3. f \in Activations
      BY <2>7, <3>1, <3>2, ActivationType
    <3> HIDE DEF f
    <3> QED BY <3>2, <3>3
  <2> HIDE DEF f
  <2>9. Lo(f) = root[1]
    BY <2>8 DEF Lo
  <2>10. DOMAIN products' = Nodes(root) /\ Kept(root[1], root, root, products', width, m)
    BY <1>3, <2>1, <2>2, <2>3, TreeIsKept DEF root
  <2>11. root \in Nodes(root)
    BY <2>2, NodesFacts
  <2>12. FrameRight(f, root, products', width, m)
    BY <2>1, <2>2, <2>6, <2>8, <2>9, <2>10, <2>11 DEF FrameRight, FrameOf
  <2>13. Stacked(<<>>, root, products', width, m) /\ <<>> \in Seq(Activations)
    BY DEF Stacked
  <2>14. /\ <<f>> \o <<>> \in Seq(Activations) /\ <<f>> \o <<>> # <<>>
         /\ (<<f>> \o <<>>)[1] = f
         /\ Stacked(<<f>> \o <<>>, root, products', width, m)
    <3>1. PICK s \in Seq(Activations) : s = <<>> /\ Stacked(s, root, products', width, m)
      BY <2>13
    <3>2. f.node[2] = IF s = <<>> THEN root[2] ELSE Lo(s[1])
      BY <2>8, <3>1
    <3>3. PICK g \in Activations : g = f
      BY <2>8
    <3>4. FrameRight(g, root, products', width, m) /\ g.node[2] = IF s = <<>> THEN root[2] ELSE Lo(s[1])
      BY <2>12, <3>2, <3>3
    <3>5. Span(root) /\ Stacked(s, root, products', width, m)
      BY <2>2, <3>1
    <3>6. /\ <<g>> \o s \in Seq(Activations) /\ <<g>> \o s # <<>>
          /\ (<<g>> \o s)[1] = g
          /\ Stacked(<<g>> \o s, root, products', width, m)
      BY <3>4, <3>5, StackPush
    <3> QED BY <3>1, <3>3, <3>6
  <2>15. frames' = <<f>>
    BY <1>3 DEF f, p, root, product
  <2>16. <<f>> \o <<>> = frames'
    <3>1. <<f>> \in Seq(Activations)
      BY <2>8
    <3> QED BY <2>15, <3>1
  <2>17. residue = FactorialRest(width * root[1], m)
    BY <1>1, <2>1, <2>3 DEF JInv
  <2>18. full_blocks' = full_blocks /\ candidate' = candidate /\ half_count' = half_count
         /\ RequiredWidth' = RequiredWidth
    BY <1>3, SameRequest
  <2>19. Descending(root, width, m, products', frames', residue)
    BY <2>2, <2>9, <2>10, <2>14, <2>16, <2>17 DEF Descending
  <2>20. Descending(StageOf(full_blocks', range'), width', candidate', products', frames', residue')
    BY <1>3, <2>1, <2>3, <2>18, <2>19
  <2>21. frames' # <<>>
    BY <2>14, <2>16
  <2> QED BY <1>1, <1>3, <2>1, <2>18, <2>20, <2>21 DEF JInv
<1> QED BY <1>2, <1>3 DEF BuildTree

(* ------------------------------ the descent ---------------------------- *)

\* The range that is descended.
Root == StageOf(full_blocks, range)

\* The innermost activation.
LEMMA TopFacts ==
  ASSUME JInv, pc = "descend"
  PROVE  /\ range \in 1 .. 2 /\ Span(Root) /\ ~IsLeaf(Root) /\ DOMAIN products = Nodes(Root)
         /\ width \in Nat /\ frames \in Seq(Activations) /\ frames # <<>>
         /\ Stacked(frames, Root, products, width, candidate)
         /\ Top = frames[1] /\ Top \in Activations
         /\ FrameRight(Top, Root, products, width, candidate)
         /\ FrameOf(Top, Root, candidate)
         /\ residue \in 0 .. candidate - 1
         /\ residue = FactorialRest(width * Lo(Top), candidate)
<1>1. range \in 1 .. 2 /\ width \in 0 .. half_count /\ residue \in 0 .. candidate - 1
      /\ Descending(Root, width, candidate, products, frames, residue)
  BY DEF JInv, Root
<1>2. /\ Span(Root) /\ ~IsLeaf(Root) /\ DOMAIN products = Nodes(Root)
      /\ frames \in Seq(Activations) /\ frames # <<>>
      /\ Stacked(frames, Root, products, width, candidate)
      /\ residue = FactorialRest(width * Lo(frames[1]), candidate)
  BY <1>1 DEF Descending
<1>3. Top = frames[1] /\ Top \in Activations /\ 1 \in DOMAIN frames
  BY <1>2 DEF Top
<1>4. FrameRight(Top, Root, products, width, candidate)
  BY <1>2, <1>3 DEF Stacked
<1>5. width \in Nat
  BY <1>1, JointFacts
<1> QED BY <1>1, <1>2, <1>3, <1>4, <1>5 DEF FrameRight

\* What is left when the innermost activation is gone.
LEMMA RestFacts ==
  ASSUME JInv, pc = "descend"
  PROVE  /\ Rest \in Seq(Activations)
         /\ Stacked(Rest, Root, products, width, candidate)
         /\ Top.node[2] = IF Rest = <<>> THEN Root[2] ELSE Lo(Rest[1])
<1>1. PICK s \in Seq(Activations) : s = frames /\ s # <<>> /\ Stacked(s, Root, products, width, candidate)
      /\ Top = s[1]
  BY TopFacts
<1>2. /\ Tail(s) \in Seq(Activations)
      /\ Stacked(Tail(s), Root, products, width, candidate)
      /\ Tail(s) = <<>> => s[1].node[2] = Root[2]
      /\ Tail(s) # <<>> => Lo(Tail(s)[1]) = s[1].node[2]
  BY <1>1, StackPop
<1> QED BY <1>1, <1>2 DEF Rest

\* A descent goes on.
LEMMA DescentGoesOn ==
  ASSUME JInv, pc = "descend", pc' = "descend",
         UNCHANGED <<request, width, block, range, factor, answer>>,
         DOMAIN products' = Nodes(Root),
         frames' \in Seq(Activations), frames' # <<>>,
         Stacked(frames', Root, products', width, candidate),
         residue' \in 0 .. candidate - 1,
         residue' = FactorialRest(width * Lo(frames'[1]), candidate)
  PROVE  JInv' /\ request' = request
<1>1. full_blocks' = full_blocks /\ candidate' = candidate /\ half_count' = half_count
      /\ RequiredWidth' = RequiredWidth
  BY SameRequest
<1>2. Descending(Root, width, candidate, products', frames', residue')
  BY TopFacts DEF Descending
<1>3. Descending(StageOf(full_blocks', range'), width', candidate', products', frames', residue')
  BY <1>1, <1>2 DEF Root
<1>4. range' \in 1 .. 2
  BY TopFacts
<1> QED BY <1>1, <1>3, <1>4 DEF JInv

\* An activation returns.
LEMMA PopKeeps ==
  ASSUME JInv, pc = "descend", Pop,
         residue' \in 0 .. candidate - 1,
         residue' = FactorialRest(width * Top.node[2], candidate),
         UNCHANGED <<request, width, block, factor, answer>>
  PROVE  JInv' /\ request' = request
<1>1. CASE Rest = <<>>
  <2>1. Top.node[2] = StartOf(full_blocks, range + 1)
    BY <1>1, RestFacts DEF Root, StageOf
  <2>2. range \in 1 .. 2 /\ range' = range + 1 /\ pc' = "range" /\ frames' = <<>>
    BY <1>1, TopFacts DEF Pop
  <2> QED BY <2>1, <2>2, RangeEnds
<1>2. CASE Rest # <<>>
  <2>1. pc' = "descend" /\ range' = range /\ products' = products /\ frames' = Rest
    BY <1>2 DEF Pop
  <2>2. Top.node[2] = Lo(Rest[1])
    BY <1>2, RestFacts
  <2> QED BY <1>2, <2>1, <2>2, TopFacts, RestFacts, DescentGoesOn
<1> QED BY <1>1, <1>2

\* The innermost activation turns to its right branch, or to its end.
LEMMA TurnKeeps ==
  ASSUME JInv, pc = "descend", NEW stage \in {"right", "read"}, NEW p, p \in Poly(candidate),
         NEW f, f = Turn(stage, p), Top.stage # "read",
         stage = "right" => Top.stage = "left" /\ p = Top.reduced
  PROVE  /\ f \in Activations /\ f.node = Top.node /\ f.stage = stage
         /\ Lo(f) = IF stage = "right" THEN Middle(Top.node[1], Top.node[2]) ELSE Top.node[2]
         /\ <<f>> \o Rest \in Seq(Activations) /\ <<f>> \o Rest # <<>>
         /\ (<<f>> \o Rest)[1] = f
         /\ Stacked(<<f>> \o Rest, Root, products, width, candidate)
<1>1. /\ Span(Root) /\ Top \in Activations /\ FrameOf(Top, Root, candidate)
      /\ FrameRight(Top, Root, products, width, candidate)
  BY TopFacts
<1>2. p \in Seq(Int)
  BY JointFacts, PolyFacts
<1>3. f \in Activations /\ f.node = Top.node /\ f.stage = stage /\ f.reduced = p
  BY <1>1, <1>2 DEF Turn, Activations
<1> DEFINE v == Top.node
<1>4. /\ v[1] \in Nat /\ v[2] \in Nat /\ Middle(v[1], v[2]) \in Nat
      /\ v[1] < Middle(v[1], v[2]) /\ Middle(v[1], v[2]) < v[2]
      /\ v[1] <= Lo(Top) /\ Lo(Top) \in Nat
  BY <1>1, FrameFacts
<1>5. Lo(f) = IF stage = "right" THEN Middle(v[1], v[2]) ELSE v[2]
  BY <1>3 DEF Lo
<1>6. FrameOf(f, Root, candidate)
  BY <1>1, <1>3 DEF FrameOf
<1>7. Lo(f) \in Nat /\ Lo(Top) <= Lo(f)
  <2>1. Top.stage \in {"left", "right"}
    BY <1>1 DEF FrameOf
  <2>2. CASE stage = "right"
    BY <1>4, <1>5, <2>2 DEF Lo
  <2>3. CASE stage = "read"
    BY <1>4, <1>5, <2>1, <2>3 DEF Lo
  <2> QED BY <2>2, <2>3
<1>8. Kept(Lo(f), v, Root, products, width, candidate)
  <2>1. \A u \in Nodes(Root) : u[1] \in Nat
    BY <1>1, NodesFacts, HalvesFacts
  <2>2. \A u \in Nodes(Root) : Lo(f) <= u[1] => Lo(Top) <= u[1]
    BY <1>4, <1>7, <2>1
  <2> QED BY <1>1, <2>2 DEF FrameRight, Kept
<1>9. ASSUME stage # "read" PROVE RightBelow(f.reduced, <<Lo(f), f.node[2]>>, width, candidate)
  <2>1. RightBelow(Top.reduced, <<Lo(Top), v[2]>>, width, candidate)
    BY <1>1 DEF FrameRight
  <2>2. \A b \in Lo(f) .. v[2] - 1 : b \in Lo(Top) .. v[2] - 1
    BY <1>4, <1>7
  <2>3. f.reduced = Top.reduced
    BY <1>3, <1>9
  <2> QED BY <1>3, <2>1, <2>2, <2>3 DEF RightBelow
<1>10. FrameRight(f, Root, products, width, candidate)
  BY <1>3, <1>6, <1>8, <1>9 DEF FrameRight
<1>11. PICK s \in Seq(Activations) : s = Rest /\ Stacked(s, Root, products, width, candidate)
                                    /\ f.node[2] = IF s = <<>> THEN Root[2] ELSE Lo(s[1])
  BY <1>3, RestFacts
<1>12. /\ <<f>> \o s \in Seq(Activations) /\ <<f>> \o s # <<>>
       /\ (<<f>> \o s)[1] = f
       /\ Stacked(<<f>> \o s, Root, products, width, candidate)
  BY <1>1, <1>3, <1>10, <1>11, StackPush
<1> QED BY <1>3, <1>5, <1>11, <1>12

\* A branch is taken: its remainder is right, and its product is released.
LEMMA BranchKeeps ==
  ASSUME JInv, pc = "descend", pc' = "descend", Top.stage # "read",
         NEW v \in Nodes(Root), ~IsLeaf(v), v[1] = Lo(Top), v[2] <= Top.node[2], v # Top.node,
         NEW t \in Activations, NEW s \in Seq(Activations), s = <<t>> \o Rest,
         Stacked(s, Root, products, width, candidate), s # <<>>, s[1] = t, Lo(t) = v[2],
         frames' = <<Frame(v, Reduce(Top.reduced, v)), t>> \o Rest,
         products' = Release(v),
         UNCHANGED <<request, width, block, residue, range, factor, answer>>
  PROVE  JInv' /\ request' = request
<1>1. /\ Span(Root) /\ FrameRight(Top, Root, products, width, candidate) /\ width \in Nat
      /\ DOMAIN products = Nodes(Root) /\ FrameOf(Top, Root, candidate)
      /\ residue \in 0 .. candidate - 1
      /\ residue = FactorialRest(width * Lo(Top), candidate)
  BY TopFacts
<1>2. PICK m \in Nat \ {0, 1} : m = candidate
  BY JointFacts
<1>3. /\ v \in Within(Root) /\ v[1] \in Nat /\ v[2] \in Nat /\ v[1] < v[2]
      /\ v = <<v[1], v[2]>> /\ Span(v)
  <2>1. v \in Within(Root)
    BY <1>1, NodesFacts
  <2> QED BY <1>1, <2>1, HalvesFacts
<1>4. Lo(Top) \in Nat /\ Top.node[2] \in Nat
  BY <1>1, FrameFacts
<1>5. RootsAt(products[v], v, width, m)
  BY <1>1, <1>2, <1>3, <1>4 DEF FrameRight, Kept
<1> DEFINE p == Reduce(Top.reduced, v)
           f == Frame(v, p)
           qs == Release(v)
<1>6. RightBelow(p, v, width, m)
  <2>1. RightBelow(Top.reduced, <<Lo(Top), Top.node[2]>>, width, m)
    BY <1>1, <1>2 DEF FrameRight
  <2>2. PICK u : u = <<Lo(Top), Top.node[2]>>
    OBVIOUS
  <2>3. v[1] .. v[2] - 1 \subseteq u[1] .. u[2] - 1
    BY <1>3, <1>4, <2>2
  <2>4. RightBelow(Remainder(Top.reduced, products[v], m, policy), v, width, m)
    BY <1>1, <1>3, <1>5, <2>1, <2>2, <2>3, RemainderIsRight
  <2> QED BY <1>2, <2>4 DEF Reduce
<1> HIDE DEF p
<1>7. p \in Poly(m)
  BY <1>6 DEF RightBelow
<1>8. f \in Activations /\ f.node = v /\ f.reduced = p /\ f.stage = "left"
  <2>1. v \in Nat \X Nat /\ m \in Nat \ {0} /\ "left" \in {"left", "right", "read"}
    BY <1>3
  <2>2. f = [node |-> v, reduced |-> p, stage |-> "left"]
    BY DEF Frame
  <2>3. f \in Activations
    BY <1>7, <2>1, <2>2, ActivationType
  <2> HIDE DEF f
  <2> QED BY <2>2, <2>3
<1> HIDE DEF f
<1>9. Lo(f) = v[1]
  BY <1>8 DEF Lo
<1>10. DOMAIN qs = Nodes(Root) /\ \A u \in Nodes(Root) : u # v => qs[u] = products[u]
  BY <1>1 DEF Release
<1>11. Stacked(s, Root, qs, width, m)
  <2>1. s # <<>> => v[2] <= Lo(s[1])
    BY <1>3
  <2> QED BY <1>1, <1>2, <2>1, StackRelease DEF Release
<1> HIDE DEF qs
<1>12. Kept(v[1], v, Root, qs, width, m)
  <2> SUFFICES ASSUME NEW u \in Nodes(Root), ~IsLeaf(u), v[1] <= u[1], u[2] <= v[2], u # v
               PROVE  RootsAt(qs[u], u, width, m)
    BY DEF Kept
  <2>1. u \in Within(Root)
    BY <1>1, NodesFacts
  <2>2. u[1] \in Nat /\ u[2] \in Nat /\ u = <<u[1], u[2]>>
    BY <1>1, <2>1, HalvesFacts
  <2>3. u # Top.node
    <3> SUFFICES ASSUME u = Top.node PROVE FALSE
      OBVIOUS
    <3>1. Top.node[1] <= Lo(Top) /\ Top.node[1] \in Nat
      BY <1>1, FrameFacts
    <3>2. u[1] = v[1] /\ u[2] = v[2]
      BY <1>3, <1>4, <2>2, <3>1
    <3> QED BY <1>3, <2>2, <3>2
  <2>4. RootsAt(products[u], u, width, m)
    <3>1. Lo(Top) <= u[1] /\ u[2] <= Top.node[2]
      BY <1>3, <1>4, <2>2
    <3>2. Kept(Lo(Top), Top.node, Root, products, width, m)
      BY <1>1, <1>2 DEF FrameRight
    <3> QED BY <2>3, <3>1, <3>2 DEF Kept
  <2> QED BY <1>10, <2>4
<1>13. v \in Nodes(Root)
  OBVIOUS
<1>14. FrameRight(f, Root, qs, width, m)
  BY <1>3, <1>6, <1>8, <1>9, <1>12, <1>13 DEF FrameRight, FrameOf
<1>15. f.node[2] = IF s = <<>> THEN Root[2] ELSE Lo(s[1])
  BY <1>8
<1>16. /\ <<f>> \o s \in Seq(Activations) /\ <<f>> \o s # <<>>
       /\ (<<f>> \o s)[1] = f
       /\ Stacked(<<f>> \o s, Root, qs, width, m)
  <2>1. Pushable(f, s, Root, qs, width, m)
    BY <1>1, <1>8, <1>11, <1>14, <1>15 DEF Pushable
  <2>2. Pushed(f, <<f>> \o s, Root, qs, width, m)
    BY <2>1, StackPushed
  <2> QED BY <2>2 DEF Pushed
<1>17. frames' = <<f>> \o s
  <2>1. PICK n : n = <<f, t>> \o Rest
    OBVIOUS
  <2>2. Rest \in Seq(Activations)
    BY RestFacts
  <2>3. n = <<f>> \o (<<t>> \o Rest)
    BY <1>8, <2>1, <2>2, TwoFirst
  <2> QED BY <2>1, <2>3 DEF f, p
<1>18. residue' = FactorialRest(width * Lo(frames'[1]), candidate)
  BY <1>1, <1>9, <1>16, <1>17
<1>19. DOMAIN products' = Nodes(Root) /\ products' = qs
  BY <1>10 DEF qs
<1> QED BY <1>1, <1>2, <1>16, <1>17, <1>18, <1>19, DescentGoesOn

\* The product of a branch that is taken is monic.
LEMMA BranchIsMonic ==
  ASSUME JInv, pc = "descend",
         NEW v \in Nodes(Root), ~IsLeaf(v), Lo(Top) <= v[1], v[2] <= Top.node[2], v # Top.node
  PROVE  Monic(products[v])
BY TopFacts DEF FrameRight, Kept, RootsAt

\* The left branch is one block,
LEMMA JointLeftLeaf ==
  ASSUME JInv, LeftLeaf
  PROVE  JInv' /\ request' = request
<1> DEFINE v == Top.node
<1>1. pc = "descend" /\ Top.stage = "left" /\ IsLeaf(Left(v))
      /\ Times(Value(Top.reduced, Point(v[1]), candidate))
  BY DEF LeftLeaf
<1>2. /\ Span(Root) /\ width \in Nat /\ FrameOf(Top, Root, candidate)
      /\ FrameRight(Top, Root, products, width, candidate)
      /\ residue = FactorialRest(width * Lo(Top), candidate)
      /\ DOMAIN products = Nodes(Root)
  BY <1>1, TopFacts
<1>3. /\ v[1] \in Nat /\ v[2] \in Nat /\ Middle(v[1], v[2]) \in Nat
      /\ Middle(v[1], v[2]) < v[2] /\ Left(v) = <<v[1], Middle(v[1], v[2])>>
  BY <1>2, FrameFacts
<1>4. Middle(v[1], v[2]) = v[1] + 1
  BY <1>1, <1>3 DEF IsLeaf
<1>5. Lo(Top) = v[1]
  BY <1>1 DEF Lo
<1>6. PICK p : p = Top.reduced /\ RightBelow(p, <<v[1], v[2]>>, width, candidate)
  BY <1>1, <1>2, <1>5 DEF FrameRight
<1>7. v[1] \in <<v[1], v[2]>>[1] .. <<v[1], v[2]>>[2] - 1
  <2>1. PICK a \in Nat, b \in Nat : a = v[1] /\ b = v[2] /\ a < b
    <3> HIDE DEF v
    <3> QED BY <1>3, <1>4
  <2>2. a \in <<a, b>>[1] .. <<a, b>>[2] - 1
    BY <2>1
  <2> QED BY <2>1, <2>2
<1>8. /\ residue' \in 0 .. candidate - 1
      /\ residue' = FactorialRest(width * (v[1] + 1), candidate)
  BY <1>1, <1>2, <1>3, <1>5, <1>6, <1>7, BlockIsCounted
<1>9. PICK f : f = Turn("right", p)
  OBVIOUS
<1>10. /\ Lo(f) = Middle(v[1], v[2])
       /\ <<f>> \o Rest \in Seq(Activations) /\ <<f>> \o Rest # <<>>
       /\ (<<f>> \o Rest)[1] = f
       /\ Stacked(<<f>> \o Rest, Root, products, width, candidate)
  <2>1. p \in Poly(candidate)
    BY <1>6 DEF RightBelow
  <2> QED BY <1>1, <1>6, <1>9, <2>1, TurnKeeps
<1>11. frames' = <<f>> \o Rest /\ pc' = "descend" /\ products' = products
       /\ UNCHANGED <<request, width, block, range, factor, answer>>
  BY <1>1, <1>6, <1>9 DEF LeftLeaf
<1>12. residue' = FactorialRest(width * Lo(frames'[1]), candidate)
  BY <1>4, <1>8, <1>10, <1>11
<1> QED BY <1>1, <1>2, <1>8, <1>10, <1>11, <1>12, DescentGoesOn

\* the right one is,
LEMMA JointRightLeaf ==
  ASSUME JInv, RightLeaf
  PROVE  JInv' /\ request' = request
<1> DEFINE v == Top.node
<1>1. pc = "descend" /\ Top.stage = "right" /\ IsLeaf(Right(v))
      /\ Times(Value(Top.reduced, Point(Right(v)[1]), candidate))
      /\ Pop /\ UNCHANGED <<request, width, block, factor, answer>>
  BY DEF RightLeaf
<1>2. /\ Span(Root) /\ width \in Nat /\ FrameOf(Top, Root, candidate)
      /\ FrameRight(Top, Root, products, width, candidate)
      /\ residue = FactorialRest(width * Lo(Top), candidate)
  BY <1>1, TopFacts
<1>3. PICK b \in Nat : b = Middle(v[1], v[2])
  BY <1>2, FrameFacts
<1>4. v[1] \in Nat /\ v[2] \in Nat /\ b < v[2] /\ Right(v) = <<b, v[2]>>
  BY <1>2, <1>3, FrameFacts
<1>5. v[2] = b + 1 /\ Right(v)[1] = b
  BY <1>1, <1>3, <1>4 DEF IsLeaf
<1>6. Lo(Top) = b
  BY <1>1, <1>3 DEF Lo
<1>7. PICK p : p = Top.reduced /\ RightBelow(p, <<b, v[2]>>, width, candidate)
  BY <1>1, <1>2, <1>6 DEF FrameRight
<1>8. b \in <<b, v[2]>>[1] .. <<b, v[2]>>[2] - 1
  BY <1>4
<1>9. Times(Value(p, Point(b), candidate)) /\ residue = FactorialRest(width * b, candidate)
  BY <1>1, <1>2, <1>5, <1>6, <1>7
<1>10. /\ residue' \in 0 .. candidate - 1
       /\ residue' = FactorialRest(width * (b + 1), candidate)
  BY <1>2, <1>7, <1>8, <1>9, BlockIsCounted
<1> QED BY <1>1, <1>5, <1>10, PopKeeps

\* or the right one has returned.
LEMMA JointReturns ==
  ASSUME JInv, Return
  PROVE  JInv' /\ request' = request
<1>1. pc = "descend" /\ Top.stage = "read" /\ Pop
      /\ UNCHANGED <<request, width, block, residue, factor, answer>>
  BY DEF Return
<1>2. Lo(Top) = Top.node[2]
  BY <1>1 DEF Lo
<1>3. residue' \in 0 .. candidate - 1 /\ residue' = FactorialRest(width * Top.node[2], candidate)
  BY <1>1, <1>2, TopFacts
<1> QED BY <1>1, <1>3, PopKeeps

\* The left branch is a tree,
LEMMA JointLeftBranch ==
  ASSUME JInv, LeftBranch
  PROVE  JInv' /\ request' = request
<1> DEFINE v == Left(Top.node)
<1>1. pc = "descend" /\ Top.stage = "left" /\ ~IsLeaf(v)
  BY DEF LeftBranch
<1>2. /\ Span(Root) /\ FrameOf(Top, Root, candidate)
      /\ FrameRight(Top, Root, products, width, candidate)
  BY <1>1, TopFacts
<1>3. /\ v \in Nodes(Root) /\ Top.node[1] \in Nat /\ Top.node[2] \in Nat
      /\ v = <<Top.node[1], Middle(Top.node[1], Top.node[2])>>
      /\ Middle(Top.node[1], Top.node[2]) \in Nat
      /\ Middle(Top.node[1], Top.node[2]) < Top.node[2]
  BY <1>2, FrameFacts
<1>4. Lo(Top) = Top.node[1]
  BY <1>1 DEF Lo
<1>5. /\ v[1] = Lo(Top) /\ Lo(Top) <= v[1] /\ v[2] <= Top.node[2] /\ v # Top.node
      /\ v[2] = Middle(Top.node[1], Top.node[2])
  <2> HIDE DEF v
  <2> QED BY <1>3, <1>4
<1>6. Monic(products[v])
  <2> HIDE DEF v
  <2> QED BY <1>1, <1>3, <1>5, BranchIsMonic
<1>7. CASE EngineRefuses /\ UNCHANGED width
  BY <1>7, EngineEnds, RefusalFacts
<1>8. CASE /\ frames' = <<Frame(v, Reduce(Top.reduced, v)), Turn("right", Top.reduced)>> \o Rest
           /\ products' = Release(v)
           /\ UNCHANGED <<request, pc, width, block, residue, range, factor, answer>>
  <2>1. PICK p \in Poly(candidate) : p = Top.reduced
    BY <1>1, <1>2 DEF FrameRight, RightBelow
  <2>2. PICK t : t = Turn("right", p)
    OBVIOUS
  <2>3. /\ t \in Activations /\ Lo(t) = v[2]
        /\ <<t>> \o Rest \in Seq(Activations) /\ <<t>> \o Rest # <<>>
        /\ (<<t>> \o Rest)[1] = t
        /\ Stacked(<<t>> \o Rest, Root, products, width, candidate)
    BY <1>1, <1>5, <2>1, <2>2, TurnKeeps
  <2>4. /\ frames' = <<Frame(v, Reduce(Top.reduced, v)), t>> \o Rest
        /\ pc' = "descend" /\ Top.stage # "read"
    BY <1>1, <1>8, <2>1, <2>2
  <2> HIDE DEF v
  <2> QED BY <1>1, <1>3, <1>5, <1>8, <2>3, <2>4, BranchKeeps
<1> QED BY <1>6, <1>7, <1>8 DEF LeftBranch

\* the right one is.
LEMMA JointRightBranch ==
  ASSUME JInv, RightBranch
  PROVE  JInv' /\ request' = request
<1> DEFINE v == Right(Top.node)
<1>1. pc = "descend" /\ Top.stage = "right" /\ ~IsLeaf(v)
  BY DEF RightBranch
<1>2. /\ Span(Root) /\ FrameOf(Top, Root, candidate)
      /\ FrameRight(Top, Root, products, width, candidate)
  BY <1>1, TopFacts
<1>3. /\ v \in Nodes(Root) /\ Top.node[1] \in Nat /\ Top.node[2] \in Nat
      /\ v = <<Middle(Top.node[1], Top.node[2]), Top.node[2]>>
      /\ Middle(Top.node[1], Top.node[2]) \in Nat
      /\ Top.node[1] < Middle(Top.node[1], Top.node[2])
  BY <1>2, FrameFacts
<1>4. Lo(Top) = Middle(Top.node[1], Top.node[2])
  BY <1>1 DEF Lo
<1>5. /\ v[1] = Lo(Top) /\ Lo(Top) <= v[1] /\ v[2] <= Top.node[2] /\ v # Top.node
      /\ v[2] = Top.node[2]
  <2> HIDE DEF v
  <2> QED BY <1>3, <1>4
<1>6. Monic(products[v])
  <2> HIDE DEF v
  <2> QED BY <1>1, <1>3, <1>5, BranchIsMonic
<1>7. CASE EngineRefuses /\ UNCHANGED width
  BY <1>7, EngineEnds, RefusalFacts
<1>8. CASE /\ frames' = <<Frame(v, Reduce(Top.reduced, v)), Turn("read", <<>>)>> \o Rest
           /\ products' = Release(v)
           /\ UNCHANGED <<request, pc, width, block, residue, range, factor, answer>>
  <2>1. PICK p \in Poly(candidate) : p = <<>>
    BY JointFacts, EmptyPoly
  <2>2. PICK t : t = Turn("read", p)
    OBVIOUS
  <2>3. /\ t \in Activations /\ Lo(t) = v[2]
        /\ <<t>> \o Rest \in Seq(Activations) /\ <<t>> \o Rest # <<>>
        /\ (<<t>> \o Rest)[1] = t
        /\ Stacked(<<t>> \o Rest, Root, products, width, candidate)
    BY <1>1, <1>5, <2>1, <2>2, TurnKeeps
  <2>4. /\ frames' = <<Frame(v, Reduce(Top.reduced, v)), t>> \o Rest
        /\ pc' = "descend" /\ Top.stage # "read"
    BY <1>1, <1>8, <2>1, <2>2
  <2> HIDE DEF v
  <2> QED BY <1>1, <1>3, <1>5, <1>8, <2>3, <2>4, BranchKeeps
<1> QED BY <1>6, <1>7, <1>8 DEF RightBranch

(* ------------------------- the tail, the answer ------------------------ *)

\* All blocks are read.
LEMMA JointLeaves ==
  ASSUME JInv, RangesEnd
  PROVE  JInv' /\ request' = request
<1>1. pc = "range" /\ range = 3 /\ pc' = "tail" /\ factor' = full_blocks * width + 1
      /\ UNCHANGED <<request, width, block, residue, range, tree, answer>>
  BY DEF RangesEnd
<1>2. width >= 1 /\ residue = FactorialRest(width * StartOf(full_blocks, range), candidate)
  BY <1>1 DEF JInv
<1>3. PICK n \in Nat : n = full_blocks * width /\ n <= half_count /\ n = width * full_blocks
  <2>1. /\ full_blocks \in Nat /\ width \in Nat /\ full_blocks * width <= half_count
        /\ width * full_blocks = full_blocks * width
    BY <1>2, JointFacts DEF JInv
  <2>2. full_blocks * width \in Nat
    BY <2>1
  <2> QED BY <2>1, <2>2
<1>4. StartOf(full_blocks, range) = full_blocks
  BY <1>1 DEF StartOf
<1>5. residue = FactorialRest(n, candidate)
  BY <1>2, <1>3, <1>4
<1>6. factor' = n + 1 /\ factor' \in 1 .. half_count + 1 /\ factor' - 1 = n
  BY <1>1, <1>3, JointFacts
<1>7. full_blocks' = full_blocks /\ candidate' = candidate /\ half_count' = half_count
      /\ RequiredWidth' = RequiredWidth
  BY <1>1, SameRequest
<1> QED BY <1>1, <1>5, <1>6, <1>7 DEF JInv, tree

\* One factor more.
LEMMA JointTails ==
  ASSUME JInv, TailFactor
  PROVE  JInv' /\ request' = request
<1>1. pc = "tail" /\ factor <= half_count /\ Times(factor % candidate) /\ factor' = factor + 1
      /\ UNCHANGED <<request, pc, width, block, range, tree, answer>>
  BY DEF TailFactor, NextFactor
<1>2. factor \in 1 .. half_count + 1 /\ residue = FactorialRest(factor - 1, candidate)
  BY <1>1 DEF JInv
<1>3. PICK m \in Nat \ {0} : m = candidate /\ half_count \in Nat /\ half_count <= m - 1
  BY JointFacts
<1>4. PICK n \in Nat : n = factor - 1 /\ factor = n + 1 /\ n + 1 \in Int
  BY <1>2
<1>5. factor % candidate = n + 1
  BY <1>1, <1>3, <1>4
<1>6. residue' \in 0 .. candidate - 1 /\ residue' = (residue * (n + 1)) % candidate
  BY <1>1, <1>4, <1>5, TimesType
<1>7. residue' = FactorialRest(n + 1, candidate)
  BY <1>2, <1>3, <1>4, <1>6, FactorialGrows
<1>8. factor' \in 1 .. half_count + 1 /\ factor' - 1 = n + 1
  BY <1>1, <1>3, <1>4
<1>9. full_blocks' = full_blocks /\ candidate' = candidate /\ half_count' = half_count
      /\ RequiredWidth' = RequiredWidth
  BY <1>1, SameRequest
<1>10. residue' = FactorialRest(factor' - 1, candidate')
  BY <1>7, <1>8, <1>9
<1> QED BY <1>1, <1>6, <1>8, <1>9, <1>10 DEF JInv, tree

\* The answer.
LEMMA JointAnswers ==
  ASSUME JInv, Assemble
  PROVE  JInv' /\ request' = request
<1>1. /\ pc = "tail" /\ factor > half_count /\ pc' = "done" /\ block' = <<>>
      /\ answer' = [kind |-> "observation", residue |-> Assembled,
                    prime |-> Assembled = candidate - 1]
      /\ UNCHANGED <<request, width, residue, range, tree, factor>>
  BY DEF Assemble
<1>2. factor - 1 = half_count
  BY <1>1, JointFacts DEF JInv
<1>3. residue = FactorialRest(half_count, candidate)
  BY <1>1, <1>2 DEF JInv
<1>4. Assembled = FactorialRest(factor_count, candidate)
  BY <1>3, AssembledIsRest DEF JInv
<1>5. full_blocks' = full_blocks /\ candidate' = candidate /\ half_count' = half_count
      /\ RequiredWidth' = RequiredWidth /\ factor_count' = factor_count
  BY <1>1, SameRequest
<1>6. <<>> \in Poly(candidate)
  BY JointFacts, EmptyPoly
<1> QED BY <1>1, <1>4, <1>5, <1>6 DEF JInv, tree

\* Every step keeps it.
LEMMA JointSteps ==
  ASSUME JInv, [Next \/ Answered]_vars
  PROVE  JInv' /\ request' = request
<1>1. CASE UNCHANGED vars
  BY <1>1, SameRequest DEF vars, tree, JInv
<1>2. CASE Next
  BY <1>2, JointPlans, JointBuilds, JointSkips, JointReadsLoneBlock, JointPlants, JointLeftLeaf,
     JointLeftBranch, JointRightLeaf, JointRightBranch, JointReturns, JointLeaves, JointTails,
     JointAnswers DEF Next, Descend
<1> QED BY <1>1, <1>2 DEF Answered

\* and so it holds throughout.
LEMMA JointIsSound == Spec => []JInv
<1>1. Init => JInv
  BY JointInit
<1>2. JInv /\ [Next \/ Answered]_vars => JInv'
  BY JointSteps
<1> QED BY <1>1, <1>2, PTL DEF Spec

(* ----------------------------- what follows ---------------------------- *)

\* The factorial an observer promises.
LEMMA PromisedFactorials ==
  ASSUME JInv, NEW n \in Nat
  PROVE  Observer!FactorialMod(n, candidate) = FactorialRest(n, candidate)
<1>1. Observer!FactorialMod(n, candidate) = HalvingPartial(n, candidate)[<<0, n>>]
  BY DEF Observer!FactorialMod, HalvingPartial, HalvingStep
<1>2. candidate \in Nat \ {0}
  BY JointFacts
<1>3. HalvingPartial(n, candidate)[<<0, n>>] = FactorialRest(n, candidate)
  BY <1>2, HalvingIsRest DEF FactorialRest
<1> QED BY <1>1, <1>3

\* The first of consecutive numbers.
LEMMA MinOfRange ==
  ASSUME NEW a \in Int, NEW b \in Int
  PROVE  (a .. b = {} <=> b < a) /\ (a <= b => Min(a .. b) = a)
<1>1. a .. b = {} <=> b < a
  <2>1. a <= b => a \in a .. b
    OBVIOUS
  <2> QED BY <2>1
<1>2. ASSUME a <= b PROVE Min(a .. b) = a
  <2>1. a \in a .. b /\ \A y \in a .. b : a <= y
    BY <1>2
  <2>2. \A x \in a .. b : (\A y \in a .. b : x <= y) => x = a
    BY <2>1
  <2> QED BY <2>1, <2>2 DEF Min
<1> QED BY <1>1, <1>2

\* The blocks an activation has still to read, by the first of them.
LEMMA UnreadFacts ==
  ASSUME NEW root, Span(root), NEW m, NEW f, FrameOf(f, root, m)
  PROVE  /\ Unread(f) = Lo(f) .. f.node[2] - 1
         /\ (IF Unread(f) = {} THEN f.node[2] ELSE Min(Unread(f))) = Lo(f)
         /\ f.stage = "read" => Unread(f) = {}
<1>1. /\ f.node[1] \in Nat /\ f.node[2] \in Nat /\ Lo(f) \in Nat /\ Lo(f) <= f.node[2]
      /\ f.stage \in {"left", "right", "read"}
  BY FrameFacts DEF FrameOf
<1>2. PICK a \in Nat, b \in Nat : a = Lo(f) /\ b = f.node[2] /\ a <= b
  BY <1>1
<1>3. b .. b - 1 = {}
  OBVIOUS
<1>4. Unread(f) = a .. b - 1
  <2>1. CASE f.stage = "left"
    BY <1>2, <2>1 DEF Unread, Lo
  <2>2. CASE f.stage = "right"
    BY <1>2, <2>2 DEF Unread, Lo
  <2>3. CASE f.stage = "read"
    BY <1>2, <1>3, <2>3 DEF Unread, Lo
  <2> QED BY <1>1, <2>1, <2>2, <2>3
<1>5. (IF Unread(f) = {} THEN b ELSE Min(Unread(f))) = a
  <2>1. b - 1 \in Int /\ (b - 1 < a => a = b)
    BY <1>2
  <2> QED BY <1>2, <1>4, <2>1, MinOfRange
<1>6. f.stage = "read" => a = b
  BY <1>2 DEF Lo
<1> QED BY <1>2, <1>3, <1>4, <1>5, <1>6

\* The prefix of the factors whose product the residue is.
LEMMA ConsumedIs ==
  ASSUME JInv, pc \in {"range", "descend", "tail"}
  PROVE  Consumed \in Nat /\ residue = FactorialRest(Consumed, candidate)
<1>1. CASE pc = "tail"
  <2>1. Consumed = factor - 1 /\ residue = FactorialRest(factor - 1, candidate)
    BY <1>1 DEF Consumed, JInv
  <2>2. factor - 1 \in Nat
    BY DEF JInv
  <2> QED BY <2>1, <2>2
<1>2. CASE pc = "range"
  <2>1. width \in Nat /\ full_blocks \in Nat \ {0} /\ range \in 1 .. 3
    BY <1>2, JointFacts DEF JInv
  <2>2. 1 \in 1 .. 2 /\ 2 \in 1 .. 2
    OBVIOUS
  <2>3. /\ StartOf(full_blocks, 1) = 1 /\ StartOf(full_blocks, 3) = full_blocks
        /\ StartOf(full_blocks, 2) \in Nat
        /\ Halves[2] = <<StartOf(full_blocks, 2), StartOf(full_blocks, 2 + 1)>>
    BY <2>1, <2>2, StageFacts DEF Halves, StageOf
  <2>4. Consumed = width * StartOf(full_blocks, range)
    BY <1>2, <2>1, <2>3 DEF Consumed
  <2>5. StartOf(full_blocks, range) \in Nat
    BY <2>1, <2>3
  <2> QED BY <1>2, <2>1, <2>4, <2>5 DEF JInv
<1>3. CASE pc = "descend"
  <2>1. /\ Span(Root) /\ FrameOf(Top, Root, candidate) /\ width \in Nat
        /\ residue = FactorialRest(width * Lo(Top), candidate)
    BY <1>3, TopFacts
  <2>2. Lo(Top) \in Nat
    BY <2>1, FrameFacts
  <2>3. Consumed = width * Lo(Top)
    BY <1>3, <2>1, UnreadFacts DEF Consumed
  <2> QED BY <2>1, <2>2, <2>3
<1> QED BY <1>1, <1>2, <1>3

\* What holds of every activation of the stack.
LEMMA StackFacts ==
  ASSUME JInv, NEW i \in DOMAIN frames
  PROVE  /\ pc = "descend" /\ Span(Root) /\ width \in Nat
         /\ FrameRight(frames[i], Root, products, width, candidate)
         /\ FrameOf(frames[i], Root, candidate)
<1>1. pc = "descend"
  <2>1. frames # <<>>
    OBVIOUS
  <2> QED BY <2>1 DEF JInv
<1>2. /\ Span(Root) /\ width \in Nat
      /\ Stacked(frames, Root, products, width, candidate)
  BY <1>1, TopFacts
<1>3. FrameRight(frames[i], Root, products, width, candidate)
  BY <1>2 DEF Stacked
<1> QED BY <1>1, <1>2, <1>3 DEF FrameRight

\* The activations' polynomials agree with the block's where they are read,
LEMMA RemaindersAreRight ==
  ASSUME JInv
  PROVE  RemaindersAgree
<1> SUFFICES ASSUME NEW i \in DOMAIN frames, NEW b \in Unread(frames[i])
             PROVE  Value(frames[i].reduced, Point(b), candidate) = Value(block, Point(b), candidate)
  BY DEF RemaindersAgree
<1>1. PICK f : f = frames[i]
  OBVIOUS
<1>2. /\ pc = "descend" /\ Span(Root) /\ width \in Nat
      /\ FrameRight(f, Root, products, width, candidate) /\ FrameOf(f, Root, candidate)
  BY <1>1, StackFacts
<1>3. Unread(f) = Lo(f) .. f.node[2] - 1 /\ f.stage # "read" /\ Lo(f) \in Nat /\ f.node[2] \in Nat
  BY <1>1, <1>2, UnreadFacts, FrameFacts
<1>4. PICK v : v = <<Lo(f), f.node[2]>> /\ v[1] = Lo(f) /\ v[2] = f.node[2]
  <2>1. PICK x \in Nat, y \in Nat : x = Lo(f) /\ y = f.node[2]
    BY <1>3
  <2>2. <<x, y>>[1] = x /\ <<x, y>>[2] = y
    OBVIOUS
  <2> QED BY <2>1, <2>2
<1>5. b \in v[1] .. v[2] - 1
  BY <1>1, <1>3, <1>4
<1>6. RightBelow(f.reduced, v, width, candidate)
  BY <1>2, <1>3, <1>4 DEF FrameRight
<1>7. RightBelow(block, v, width, candidate)
  BY <1>2, <1>3, <1>4, BlockIsRight
<1> QED BY <1>1, <1>5, <1>6, <1>7 DEF RightBelow, Point

\* and their products are there.
LEMMA ProductsAreThere ==
  ASSUME JInv
  PROVE  ProductsLast
<1> SUFFICES ASSUME NEW i \in DOMAIN frames, NEW f, f = frames[i]
             PROVE  /\ f.stage = "left" /\ ~IsLeaf(Left(f.node)) => Monic(products[Left(f.node)])
                    /\ f.stage # "read" /\ ~IsLeaf(Right(f.node)) => Monic(products[Right(f.node)])
  BY DEF ProductsLast
<1>1. /\ Span(Root) /\ FrameOf(f, Root, candidate)
      /\ Kept(Lo(f), f.node, Root, products, width, candidate)
  BY StackFacts DEF FrameRight
<1>2. PICK a \in Nat, b \in Nat, c \in Nat :
        /\ a = f.node[1] /\ b = f.node[2] /\ c = Middle(f.node[1], f.node[2]) /\ a < c /\ c < b
        /\ f.node = <<a, b>>
        /\ Left(f.node) = <<a, c>> /\ Right(f.node) = <<c, b>>
        /\ Left(f.node) \in Nodes(Root) /\ Right(f.node) \in Nodes(Root)
  BY <1>1, FrameFacts
<1>3. PICK l : l = Left(f.node) /\ l[1] = a /\ l[2] = c /\ l \in Nodes(Root) /\ l # f.node
  BY <1>2
<1>4. PICK r : r = Right(f.node) /\ r[1] = c /\ r[2] = b /\ r \in Nodes(Root) /\ r # f.node
  BY <1>2
<1>5. ASSUME f.stage = "left", ~IsLeaf(l) PROVE Monic(products[l])
  <2>1. Lo(f) = a
    BY <1>2, <1>5 DEF Lo
  <2>2. Lo(f) <= l[1] /\ l[2] <= f.node[2]
    BY <1>2, <1>3, <2>1
  <2> QED BY <1>1, <1>3, <1>5, <2>2 DEF Kept, RootsAt
<1>6. ASSUME f.stage # "read", ~IsLeaf(r) PROVE Monic(products[r])
  <2>1. Lo(f) \in {a, c}
    BY <1>1, <1>2, <1>6 DEF Lo, FrameOf
  <2>2. Lo(f) <= r[1] /\ r[2] <= f.node[2]
    BY <1>2, <1>4, <2>1
  <2> QED BY <1>1, <1>4, <1>6, <2>2 DEF Kept, RootsAt
<1> QED BY <1>3, <1>4, <1>5, <1>6

\* At every moment the residue is the product of the factors read so far, in
\* their order; what the activations keep is right wherever it is still read,
\* although the candidate may be composite, and their divisors are there; the
\* chosen width never exceeds the one the operator asked the policy for; and
\* only a policy is ever rejected.
THEOREM JointConsumerHolds == Spec => []IInv
<1>1. ASSUME JInv PROVE IInv
  <2>1. \A i \in DOMAIN block : block[i] \in 0 .. candidate - 1
    <3>1. block \in Poly(candidate) /\ candidate \in Nat \ {0}
      BY <1>1, JointFacts DEF JInv
    <3> QED BY <3>1, PolyFacts
  <2>2. TypeOK
    BY <1>1, <2>1 DEF TypeOK, JInv
  <2>3. ResidueIsPrefix
    BY <1>1, ConsumedIs, PromisedFactorials DEF ResidueIsPrefix
  <2>4. LimitsNameTheirCause /\ (pc = "rejected" => PolicyRejected)
    BY <1>1 DEF LimitsNameTheirCause, JInv
  <2> QED BY <1>1, <2>2, <2>3, <2>4, RemaindersAreRight, ProductsAreThere DEF IInv
<1> QED BY <1>1, JointIsSound, PTL

\* The answer is given once: from none to what is promised.
LEMMA AnswersAreSteps ==
  ASSUME JInv, request' = request, answer = [kind |-> "none"],
         \/ answer'.kind = "limit"
         \/ answer' = [kind |-> "rejected"]
         \/ answer' = [kind |-> "observation", residue |-> FactorialRest(factor_count, candidate),
                       prime |-> FactorialRest(factor_count, candidate) = candidate - 1]
  PROVE  Observer!Next
<1>0. candidate' = candidate
  BY SameRequest
<1>1. CASE answer'.kind = "limit"
  BY <1>0, <1>1 DEF Observer!Next, Observer!Refuse
<1>2. CASE answer' = [kind |-> "rejected"]
  BY <1>0, <1>2 DEF Observer!Next, Observer!Refuse
<1>3. CASE answer' = [kind |-> "observation", residue |-> FactorialRest(factor_count, candidate),
                      prime |-> FactorialRest(factor_count, candidate) = candidate - 1]
  <2> DEFINE r == FactorialRest(factor_count, candidate)
  <2>1. factor_count \in Nat /\ factor_count = candidate - 1 /\ candidate \in Nat \ {0, 1}
    BY JointFacts
  <2>2. Observer!FactorialMod(candidate - 1, candidate) = r
    BY <2>1, PromisedFactorials
  <2>3. Observer!Prime(candidate) = (r = candidate - 1)
    <3>1. Observer!Prime(candidate) <=> IsPrime(candidate)
      BY DEF Observer!Prime, IsPrime
    <3>2. IsPrime(candidate) <=> r = candidate - 1
      BY <2>1, WilsonsTheorem DEF FactorialRest
    <3>3. Observer!Prime(candidate) \in BOOLEAN
      BY DEF Observer!Prime
    <3> QED BY <3>1, <3>2, <3>3
  <2> HIDE DEF r
  <2>4. answer' = [kind |-> "observation", residue |-> r, prime |-> r = candidate - 1]
    BY <1>3 DEF r
  <2>5. answer'.kind = "observation"
    BY <2>4
  <2> QED BY <1>0, <2>2, <2>3, <2>4, <2>5 DEF Observer!Next, Observer!Observe
<1> QED BY <1>1, <1>2, <1>3

\* A step changes the answer once, and to what is promised.
LEMMA JointKeepsPromise ==
  ASSUME JInv, [Next \/ Answered]_vars
  PROVE  Observer!Next \/ UNCHANGED Observer!vars
<1>1. JInv' /\ request' = request /\ candidate' = candidate /\ factor_count' = factor_count
  BY JointSteps, SameRequest
<1>2. CASE answer' = answer
  BY <1>1, <1>2 DEF Observer!vars
<1>3. CASE answer' # answer
  <2>1. pc \notin {"done", "rejected"} /\ pc' \in {"done", "rejected"}
    <3>1. CASE pc \in {"done", "rejected"}
      <4>1. UNCHANGED vars
        BY <3>1 DEF Next, Descend, Answered, RefuseWidth, RejectPolicy, PlanNothing, Plan,
           BuildBlock, SkipRange, EvaluateLoneBlock, BuildTree, LeftLeaf, LeftBranch, RightLeaf,
           RightBranch, Return, RangesEnd, TailFactor, Assemble, AtRange
      <4> QED BY <1>3, <4>1 DEF vars
    <3>2. CASE pc \notin {"done", "rejected"} /\ pc' \notin {"done", "rejected"}
      BY <1>1, <1>3, <3>2 DEF JInv
    <3> QED BY <3>1, <3>2
  <2>2. answer = [kind |-> "none"]
    BY <2>1 DEF JInv
  <2>3. \/ answer'.kind = "limit"
        \/ answer' = [kind |-> "rejected"]
        \/ answer' = [kind |-> "observation", residue |-> FactorialRest(factor_count, candidate),
                      prime |-> FactorialRest(factor_count, candidate) = candidate - 1]
    BY <1>1, <2>1 DEF JInv
  <2> QED BY <1>1, <2>2, <2>3, AnswersAreSteps
<1> QED BY <1>2, <1>3

\* The joint consumer answers at most once, and with the residue of
\* (candidate - 1)! and the right verdict or with a refusal: a factorial
\* folded on half of its factors, whose blocks are the values of one
\* polynomial, read off by remainders.
THEOREM JointConsumerImplementsObserver == Spec => ImplementsObserver
<1>1. Init => Observer!Init
  <2> SUFFICES ASSUME Init PROVE Observer!Init
    OBVIOUS
  <2>1. request \in Requests /\ answer = [kind |-> "none"]
    BY DEF Init
  <2>2. candidate \in {r.candidate : r \in Requests}
    BY <2>1 DEF candidate
  <2>3. (IF answer.kind = "limit" THEN [kind |-> "limit"] ELSE answer) = [kind |-> "none"]
    BY <2>1
  <2> QED BY <2>2, <2>3 DEF Observer!Init
<1>2. JInv /\ [Next \/ Answered]_vars => [Observer!Next]_(Observer!vars)
  BY JointKeepsPromise
<1> QED BY <1>1, <1>2, JointIsSound, PTL DEF Spec, ImplementsObserver, Observer!Spec

(* ------------------------------- progress ------------------------------ *)

\* The steps the activations of a stack still take,
FrameWorks(s) == [i \in DOMAIN s |-> FrameWork(s[i])]
StackWork(s) == SumOver(FrameWorks(s), DOMAIN s)

\* each of them a natural number of steps.
Working(s) == (\E T : s \in Seq(T)) /\ \A i \in DOMAIN s : FrameWork(s[i]) \in Nat

\* What is left is a number of steps.
LEMMA StackWorkType ==
  ASSUME NEW s, Working(s)
  PROVE  StackWork(s) \in Nat /\ Summable(FrameWorks(s), DOMAIN s)
<1>1. IsFiniteSet(DOMAIN s)
  <2>1. Len(s) \in Nat /\ DOMAIN s = 1 .. Len(s)
    BY DEF Working
  <2> QED BY <2>1, FS_Interval
<1>2. \A i \in DOMAIN s : FrameWorks(s)[i] \in Nat
  BY DEF FrameWorks, Working
<1> QED BY <1>1, <1>2, SumOfNaturals DEF StackWork

\* The innermost activation's steps and those of the others.
LEMMA StackWorkOfHead ==
  ASSUME NEW s, Working(s), s # <<>>
  PROVE  /\ StackWork(s) = FrameWork(s[1]) + StackWork(Tail(s))
         /\ Working(Tail(s)) /\ FrameWork(s[1]) \in Nat
<1> DEFINE r == Tail(s)
           S == DOMAIN r
           T == DOMAIN s \ {1}
           b == [i \in S |-> i + 1]
<1>0. PICK A : s \in Seq(A)
  BY DEF Working
<1>1. s \in Seq(A) /\ Len(s) \in Nat /\ Len(s) >= 1 /\ DOMAIN s = 1 .. Len(s)
  BY <1>0
<1>2. r \in Seq(A) /\ Len(r) = Len(s) - 1 /\ S = 1 .. Len(s) - 1
      /\ \A i \in S : r[i] = s[i + 1]
  BY <1>1
<1>3. Working(r)
  <2>1. \A i \in S : i + 1 \in DOMAIN s
    BY <1>1, <1>2
  <2> HIDE DEF r
  <2> QED BY <1>2, <2>1 DEF Working
<1>4. 1 \in DOMAIN s
  BY <1>1
<1>5. Matches(FrameWorks(r), S, FrameWorks(s), T, b)
  <2>1. b \in [S -> T]
    BY <1>1, <1>2
  <2>2. \A x, y \in S : b[x] = b[y] => x = y
    BY <1>1, <1>2
  <2>3. \A t \in T : \E x \in S : b[x] = t
    <3> SUFFICES ASSUME NEW t \in T PROVE \E x \in S : b[x] = t
      OBVIOUS
    <3>1. t - 1 \in S /\ b[t - 1] = t
      BY <1>1, <1>2
    <3> QED BY <3>1
  <2>4. \A x \in S : FrameWorks(s)[b[x]] = FrameWorks(r)[x]
    <3> SUFFICES ASSUME NEW x \in S PROVE FrameWorks(s)[b[x]] = FrameWorks(r)[x]
      OBVIOUS
    <3>1. x + 1 \in DOMAIN s /\ b[x] = x + 1 /\ r[x] = s[x + 1]
      BY <1>1, <1>2
    <3> HIDE DEF r, b
    <3> QED BY <3>1 DEF FrameWorks
  <2> HIDE DEF S, T, b
  <2> QED BY <2>1, <2>2, <2>3, <2>4 DEF Matches
<1>6. SumOver(FrameWorks(s), T) = SumOver(FrameWorks(r), S)
  <2> HIDE DEF r, T, b
  <2> QED BY <1>3, <1>5, StackWorkType, SumOfMatching
<1>7. SumOver(FrameWorks(s), DOMAIN s) = FrameWorks(s)[1] + SumOver(FrameWorks(s), T)
  BY <1>4, StackWorkType, SumWithout
<1>8. FrameWorks(s)[1] = FrameWork(s[1]) /\ FrameWork(s[1]) \in Nat
  BY <1>4 DEF FrameWorks, Working
<1> QED BY <1>3, <1>6, <1>7, <1>8 DEF StackWork

\* No activation, no step.
LEMMA StackWorkOfNone == StackWork(<<>>) = 0 /\ Working(<<>>)
<1>1. DOMAIN <<>> = {} /\ <<>> \in Seq({})
  OBVIOUS
<1> QED BY <1>1, SumOfNone DEF StackWork, Working

\* One activation more.
LEMMA StackWorkWith ==
  ASSUME NEW f, FrameWork(f) \in Nat, NEW r, Working(r)
  PROVE  /\ Working(<<f>> \o r)
         /\ StackWork(<<f>> \o r) = FrameWork(f) + StackWork(r)
<1> DEFINE s == <<f>> \o r
<1>0. PICK A : r \in Seq(A)
  BY DEF Working
<1>1. PICK B : B = A \cup {f}
  OBVIOUS
<1>2. r \in Seq(B) /\ f \in B
  <2>1. \A i \in 1 .. Len(r) : r[i] \in B
    BY <1>0, <1>1
  <2> QED BY <1>0, <1>1, <2>1
<1>3. /\ s \in Seq(B) /\ s # <<>> /\ s[1] = f /\ Tail(s) = r
      /\ Len(s) = Len(r) + 1 /\ \A i \in DOMAIN s : i # 1 => s[i] = r[i - 1] /\ i - 1 \in DOMAIN r
  BY <1>2
<1> HIDE DEF s
<1>4. Working(s)
  BY <1>3 DEF Working
<1> QED BY <1>3, <1>4, StackWorkOfHead DEF s

\* Two more.
LEMMA StackWorkWithTwo ==
  ASSUME NEW f, FrameWork(f) \in Nat, NEW g, FrameWork(g) \in Nat, NEW r, Working(r)
  PROVE  StackWork(<<f, g>> \o r) = FrameWork(f) + (FrameWork(g) + StackWork(r))
<1>1. PICK A : r \in Seq(A)
  BY DEF Working
<1>2. PICK B : B = A \cup {f, g}
  OBVIOUS
<1>3. r \in Seq(B) /\ f \in B /\ g \in B
  <2>1. \A i \in 1 .. Len(r) : r[i] \in B
    BY <1>1, <1>2
  <2> QED BY <1>1, <1>2, <2>1
<1>4. PICK s : s = <<f, g>> \o r
  OBVIOUS
<1>5. s = <<f>> \o (<<g>> \o r)
  BY <1>3, <1>4, TwoFirst
<1>6. PICK t : t = <<g>> \o r
  OBVIOUS
<1>7. Working(t) /\ StackWork(t) = FrameWork(g) + StackWork(r)
  BY <1>6, StackWorkWith
<1>8. StackWork(s) = FrameWork(f) + StackWork(t)
  BY <1>5, <1>6, <1>7, StackWorkWith
<1> QED BY <1>4, <1>7, <1>8

\* The recursion of the sum in Work.
FramesStep(s, g) ==
  [u \in SUBSET DOMAIN s |->
     IF u = {} THEN 0
     ELSE FrameWork(s[CHOOSE x \in u : TRUE]) + g[u \ {CHOOSE x \in u : TRUE}]]

FramesPartial(s) == CHOOSE g : g = FramesStep(s, g)

\* It is the sum of the measure.
LEMMA FramesSum ==
  ASSUME NEW s, Working(s)
  PROVE  MapThenSumSet(LAMBDA i : FrameWork(s[i]), DOMAIN s) = StackWork(s)
<1> DEFINE P == Partial(FrameWorks(s), DOMAIN s)
           c == FramesPartial(s)
<1>1. MapThenSumSet(LAMBDA i : FrameWork(s[i]), DOMAIN s) = c[DOMAIN s]
  BY DEF MapThenSumSet, MapThenFoldSet, FramesStep, FramesPartial
<1>2. \A g : FramesStep(s, g) = SumStep(FrameWorks(s), DOMAIN s, g)
  <2> SUFFICES ASSUME NEW g
               PROVE  FramesStep(s, g) = SumStep(FrameWorks(s), DOMAIN s, g)
    OBVIOUS
  <2>1. ASSUME NEW u \in SUBSET DOMAIN s, u # {}
        PROVE  FrameWorks(s)[CHOOSE x \in u : TRUE] = FrameWork(s[CHOOSE x \in u : TRUE])
    <3>1. (CHOOSE x \in u : TRUE) \in DOMAIN s
      BY <2>1
    <3> QED BY <3>1 DEF FrameWorks
  <2> QED BY <2>1 DEF FramesStep, SumStep
<1>3. Summable(FrameWorks(s), DOMAIN s)
  BY StackWorkType
<1>4. P = FramesStep(s, P)
  BY <1>2, <1>3, PartialEquation
<1>5. c = FramesStep(s, c)
  <2> HIDE DEF P
  <2> QED BY <1>4 DEF FramesPartial
<1>6. c = SumStep(FrameWorks(s), DOMAIN s, c)
  <2> HIDE DEF c
  <2> QED BY <1>2, <1>5
<1> QED BY <1>1, <1>3, <1>6, SumIsSolved DEF StackWork

\* The steps of the ranges from one on.
RangeWork(full, r) == 3 * (full - StartOf(full, r)) + 3 - r

RangeLengths == [r \in 1 .. 2 |-> 3 * (Halves[r][2] - Halves[r][1]) + 1]

RangesStep(S, g) ==
  [u \in SUBSET S |->
     IF u = {} THEN 0
     ELSE (3 * (Halves[CHOOSE x \in u : TRUE][2] - Halves[CHOOSE x \in u : TRUE][1]) + 1)
          + g[u \ {CHOOSE x \in u : TRUE}]]

RangesPartial(S) == CHOOSE g : g = RangesStep(S, g)

\* The sum of the measure, over the ranges.
LEMMA RangesSum ==
  ASSUME NEW S \in SUBSET (1 .. 2), Summable(RangeLengths, S)
  PROVE  MapThenSumSet(LAMBDA r : 3 * (Halves[r][2] - Halves[r][1]) + 1, S) = SumOver(RangeLengths, S)
<1> DEFINE P == Partial(RangeLengths, S)
           c == RangesPartial(S)
<1>1. MapThenSumSet(LAMBDA r : 3 * (Halves[r][2] - Halves[r][1]) + 1, S) = c[S]
  BY DEF MapThenSumSet, MapThenFoldSet, RangesStep, RangesPartial
<1>2. \A g : RangesStep(S, g) = SumStep(RangeLengths, S, g)
  <2> SUFFICES ASSUME NEW g
               PROVE  RangesStep(S, g) = SumStep(RangeLengths, S, g)
    OBVIOUS
  <2>1. ASSUME NEW u \in SUBSET S, u # {}
        PROVE  RangeLengths[CHOOSE x \in u : TRUE]
                 = 3 * (Halves[CHOOSE x \in u : TRUE][2] - Halves[CHOOSE x \in u : TRUE][1]) + 1
    <3>1. (CHOOSE x \in u : TRUE) \in 1 .. 2
      BY <2>1
    <3> QED BY <3>1 DEF RangeLengths
  <2> QED BY <2>1 DEF RangesStep, SumStep
<1>4. P = RangesStep(S, P)
  BY <1>2, PartialEquation
<1>5. c = RangesStep(S, c)
  <2> HIDE DEF P
  <2> QED BY <1>4 DEF RangesPartial
<1>6. c = SumStep(RangeLengths, S, c)
  <2> HIDE DEF c
  <2> QED BY <1>2, <1>5
<1> QED BY <1>1, <1>6, SumIsSolved

\* The ranges abut.
LEMMA RangesWorkIs ==
  ASSUME JInv, width >= 1
  PROVE  RangesWork = RangeWork(full_blocks, range) /\ RangeWork(full_blocks, range) \in Nat
<1>1. full_blocks \in Nat \ {0} /\ range \in 1 .. 3
  BY JointFacts DEF JInv
<1>2. PICK n \in Nat \ {0} : n = full_blocks
  BY <1>1
<1>3. PICK a \in Nat, b \in Nat : a = StartOf(n, 2) /\ b = n /\ 1 <= a /\ a <= b
  <2>1. 1 \in 1 .. 2 /\ 2 \in 1 .. 2 /\ 1 + 1 = 2 /\ 2 + 1 = 3
    OBVIOUS
  <2>2. /\ StartOf(n, 2) \in Nat /\ StartOf(n, 2) >= 1
        /\ StartOf(n, 2) <= StartOf(n, 2 + 1) /\ StartOf(n, 3) = n
    BY <2>1, StageFacts
  <2> QED BY <2>1, <2>2
<1>4. StartOf(n, 1) = 1 /\ StartOf(n, 3) = b
  BY <1>3 DEF StartOf
<1>5. Halves[1] = <<1, a>> /\ Halves[2] = <<a, b>>
  <2>1. 1 \in 1 .. 2 /\ 2 \in 1 .. 2 /\ 1 + 1 = 2 /\ 2 + 1 = 3
    OBVIOUS
  <2>2. Halves[1] = StageOf(n, 1) /\ Halves[2] = StageOf(n, 2)
    BY <1>2, <2>1, StageFacts DEF Halves
  <2> QED BY <1>3, <1>4, <2>1, <2>2 DEF StageOf
<1>6. RangeLengths[1] = 3 * (a - 1) + 1 /\ RangeLengths[2] = 3 * (b - a) + 1
  BY <1>5 DEF RangeLengths
<1>7. IsFiniteSet({}) /\ IsFiniteSet({2}) /\ IsFiniteSet({1, 2})
  BY FS_EmptySet, FS_Singleton, FS_AddElement
<1>8. CASE range = 3
  <2>1. {r \in 1 .. 2 : r >= range} = {}
    BY <1>8
  <2>2. Summable(RangeLengths, {})
    BY <1>7 DEF Summable
  <2>3. RangesWork = 0
    BY <2>1, <2>2, RangesSum, SumOfNone DEF RangesWork
  <2> QED BY <1>2, <1>3, <1>4, <1>8, <2>3 DEF RangeWork
<1>9. CASE range = 2
  <2>1. {r \in 1 .. 2 : r >= range} = {2} /\ {2} \ {2} = {}
    BY <1>9
  <2>2. Summable(RangeLengths, {2})
    BY <1>6, <1>7 DEF Summable
  <2>3. SumOver(RangeLengths, {2}) = RangeLengths[2] + 0
    BY <2>1, <2>2, SumWithout, SumOfNone
  <2>4. RangesWork = SumOver(RangeLengths, {2})
    <3>1. {2} \in SUBSET (1 .. 2)
      OBVIOUS
    <3> QED BY <2>1, <2>2, <3>1, RangesSum DEF RangesWork
  <2>5. RangesWork = 3 * (b - a) + 1
    BY <1>3, <1>6, <2>3, <2>4
  <2> QED BY <1>2, <1>3, <1>4, <1>9, <2>5 DEF RangeWork
<1>10. CASE range = 1
  <2>1. {r \in 1 .. 2 : r >= range} = {1, 2} /\ {2} \ {2} = {} /\ {1, 2} \ {1} = {2}
    BY <1>10
  <2>2. Summable(RangeLengths, {2}) /\ Summable(RangeLengths, {1, 2})
    BY <1>6, <1>7 DEF Summable
  <2>3. SumOver(RangeLengths, {2}) = RangeLengths[2] + 0
    BY <2>1, <2>2, SumWithout, SumOfNone
  <2>4. SumOver(RangeLengths, {1, 2}) = RangeLengths[1] + RangeLengths[2]
    BY <2>1, <2>2, <2>3, <1>6, SumWithout
  <2>5. RangesWork = SumOver(RangeLengths, {1, 2})
    <3>1. {1, 2} \in SUBSET (1 .. 2)
      OBVIOUS
    <3> QED BY <2>1, <2>2, <3>1, RangesSum DEF RangesWork
  <2>6. RangesWork = 3 * (b - 1) + 2
    BY <1>3, <1>6, <2>4, <2>5
  <2> QED BY <1>2, <1>3, <1>4, <1>10, <2>6 DEF RangeWork
<1> QED BY <1>1, <1>8, <1>9, <1>10

\* The steps an activation still takes, stage by stage.
LEMMA FrameWorkIs ==
  ASSUME NEW root, Span(root), NEW m, NEW f, FrameOf(f, root, m)
  PROVE  /\ FrameWork(f) \in Nat
         /\ f.stage = "left"  => FrameWork(f) = 3 * (f.node[2] - f.node[1] - 1)
         /\ f.stage = "right" => FrameWork(f) = 3 * (f.node[2] - Middle(f.node[1], f.node[2]) - 1) + 2
         /\ f.stage = "read"  => FrameWork(f) = 1
<1>1. PICK a \in Nat, b \in Nat, c \in Nat :
        /\ a = f.node[1] /\ b = f.node[2] /\ c = Middle(f.node[1], f.node[2]) /\ a < c /\ c < b
        /\ f.stage \in {"left", "right", "read"}
  BY FrameFacts DEF FrameOf
<1>2. 3 * (b - a - 1) \in Nat /\ 3 * (b - c - 1) + 2 \in Nat
  <2>1. b - a - 1 \in Nat /\ b - c - 1 \in Nat
    BY <1>1
  <2> QED BY <2>1
<1>3. CASE f.stage = "left"
  BY <1>1, <1>2, <1>3 DEF FrameWork
<1>4. CASE f.stage = "right"
  BY <1>1, <1>2, <1>4 DEF FrameWork
<1>5. CASE f.stage = "read"
  BY <1>1, <1>5 DEF FrameWork
<1> QED BY <1>1, <1>3, <1>4, <1>5

\* The stack of the invariant is one of them.
LEMMA StackedIsWorking ==
  ASSUME NEW s \in Seq(Activations), NEW root, Span(root), NEW ps, NEW w, NEW m,
         Stacked(s, root, ps, w, m)
  PROVE  Working(s)
<1>1. \A i \in DOMAIN s : FrameOf(s[i], root, m)
  BY DEF Stacked, FrameRight
<1> QED BY <1>1, FrameWorkIs DEF Working

\* The measure, as a state of the loops.
StepsLeft ==
  CASE pc = "request" -> 4 * half_count + 5
    [] pc = "block"   -> RangeWork(full_blocks, range) + (half_count - full_blocks * width) + 3
    [] pc = "range"   -> RangeWork(full_blocks, range) + (half_count - full_blocks * width) + 2
    [] pc = "descend" -> StackWork(frames) + RangeWork(full_blocks, range + 1)
                           + (half_count - full_blocks * width) + 3
    [] pc = "tail"    -> half_count - factor + 2
    [] OTHER          -> 0

\* The work of a range is that of the ranges after it, and its own.
LEMMA RangeWorkNext ==
  ASSUME JInv, width >= 1, range \in 1 .. 2
  PROVE  /\ RangeWork(full_blocks, range + 1) \in Nat
         /\ RangeWork(full_blocks, range)
              = RangeWork(full_blocks, range + 1) + 3 * (Halves[range][2] - Halves[range][1]) + 1
         /\ Halves[range][1] = Root[1] /\ Halves[range][2] = Root[2]
         /\ Root[1] \in Nat /\ Root[2] \in Nat /\ Root[1] <= Root[2]
<1>1. PICK n \in Nat \ {0} : n = full_blocks
  BY JointFacts
<1>2. PICK a \in Nat, b \in Nat :
        /\ a = StartOf(n, range) /\ b = StartOf(n, range + 1) /\ a <= b
        /\ StageOf(n, range) = Halves[range] /\ StartOf(n, 3) = n
  <2>1. /\ StartOf(n, range) \in Nat /\ StartOf(n, range + 1) \in Nat
        /\ StartOf(n, range) <= StartOf(n, range + 1) /\ StartOf(n, 3) = n
    BY StageFacts
  <2>2. StageOf(n, range) = Halves[range]
    BY <1>1, StageFacts DEF Halves
  <2> QED BY <2>1, <2>2
<1>3. Halves[range] = <<a, b>> /\ Root = <<a, b>>
  BY <1>1, <1>2 DEF StageOf, Root
<1>4. b <= n
  <2>1. CASE range = 2
    BY <1>2, <2>1
  <2>2. CASE range = 1
    <3>1. 2 \in 1 .. 2 /\ 2 + 1 = 3 /\ 1 + 1 = 2
      OBVIOUS
    <3>2. StartOf(n, 2) <= StartOf(n, 2 + 1)
      BY <3>1, StageFacts
    <3> QED BY <1>2, <2>2, <3>1, <3>2
  <2> QED BY <2>1, <2>2
<1>5. RangeWork(n, range) = 3 * (n - a) + 3 - range
      /\ RangeWork(n, range + 1) = 3 * (n - b) + 3 - (range + 1)
  BY <1>2 DEF RangeWork
<1>6. RangeWork(n, range + 1) \in Nat
  <2>1. n - b \in Nat
    BY <1>4
  <2> QED BY <1>5, <2>1
<1>7. RangeWork(n, range) = RangeWork(n, range + 1) + 3 * (b - a) + 1
  BY <1>5
<1> QED BY <1>1, <1>2, <1>3, <1>6, <1>7

\* The tail is a number of factors.
LEMMA TailFacts ==
  ASSUME JInv, width >= 1
  PROVE  half_count \in Nat /\ full_blocks * width \in Nat /\ half_count - full_blocks * width \in Nat
<1>1. PICK a \in Nat, b \in Nat, h \in Nat : a = full_blocks /\ b = width /\ h = half_count /\ a * b <= h
  BY JointFacts DEF JInv
<1>2. a * b \in Nat
  OBVIOUS
<1> QED BY <1>1, <1>2

\* It is the bound of the model, and a natural number.
LEMMA WorkIsStepsLeft ==
  ASSUME JInv
  PROVE  Work = StepsLeft /\ StepsLeft \in Nat
<1>1. half_count \in Nat /\ factor \in 1 .. half_count + 1
  BY JointFacts DEF JInv
<1>2. CASE pc = "request"
  BY <1>1, <1>2 DEF Work, StepsLeft
<1>3. CASE pc \in {"block", "range"}
  <2>1. width >= 1
    BY <1>3 DEF JInv
  <2>2. RangesWork = RangeWork(full_blocks, range) /\ RangeWork(full_blocks, range) \in Nat
    BY <2>1, RangesWorkIs
  <2>3. half_count - full_blocks * width \in Nat
    BY <2>1, TailFacts
  <2> QED BY <1>3, <2>2, <2>3 DEF Work, StepsLeft
<1>4. CASE pc = "descend"
  <2>1. width >= 1 /\ range \in 1 .. 2
    BY <1>4 DEF JInv
  <2>2. PICK x \in Nat : x = StackWork(frames)
          /\ MapThenSumSet(LAMBDA i : FrameWork(frames[i]), DOMAIN frames) = x
    <3>1. Working(frames)
      BY <1>4, TopFacts, StackedIsWorking
    <3> QED BY <3>1, StackWorkType, FramesSum
  <2>3. PICK y \in Nat : y = RangeWork(full_blocks, range + 1)
          /\ RangeWork(full_blocks, range) = y + 3 * (Halves[range][2] - Halves[range][1]) + 1
          /\ Halves[range][2] \in Int /\ Halves[range][1] \in Int
    BY <2>1, RangeWorkNext
  <2>4. RangesWork = RangeWork(full_blocks, range)
    BY <2>1, RangesWorkIs
  <2>5. PICK t \in Nat : t = half_count - full_blocks * width
    BY <2>1, TailFacts
  <2>6. PICK z \in Int : z = 3 * (Halves[range][2] - Halves[range][1])
    BY <2>3
  <2>7. Work = x + RangesWork - 3 * (Halves[range][2] - Halves[range][1]) - 1 + t + 3
    BY <1>4, <2>2, <2>5 DEF Work
  <2>8. StepsLeft = x + y + t + 3
    BY <1>4, <2>2, <2>3, <2>5 DEF StepsLeft
  <2>9. x + (y + z + 1) - z - 1 + t + 3 = x + y + t + 3
    OBVIOUS
  <2> QED BY <2>3, <2>4, <2>6, <2>7, <2>8, <2>9
<1>5. CASE pc = "tail"
  BY <1>1, <1>5 DEF Work, StepsLeft
<1>6. CASE pc \in {"done", "rejected"}
  BY <1>6 DEF Work, StepsLeft
<1> QED BY <1>2, <1>3, <1>4, <1>5, <1>6 DEF JInv

\* A call that ended has no steps left.
LEMMA EndedIsLess ==
  ASSUME JInv, pc \notin {"done", "rejected"}, pc' \in {"done", "rejected"}
  PROVE  StepsLeft' < StepsLeft
<1>1. StepsLeft' = 0
  BY DEF StepsLeft
<1>2. StepsLeft \in Nat /\ StepsLeft # 0
  <2>1. StepsLeft \in Nat /\ half_count \in Nat /\ factor \in 1 .. half_count + 1
    BY WorkIsStepsLeft, JointFacts DEF JInv
  <2>2. CASE pc = "request"
    BY <2>1, <2>2 DEF StepsLeft
  <2>3. CASE pc \in {"block", "range"}
    <3>1. width >= 1
      BY <2>3 DEF JInv
    <3>2. RangeWork(full_blocks, range) \in Nat /\ half_count - full_blocks * width \in Nat
      BY <3>1, RangesWorkIs, TailFacts
    <3> QED BY <2>3, <3>2 DEF StepsLeft
  <2>4. CASE pc = "descend"
    <3>1. width >= 1 /\ range \in 1 .. 2
      BY <2>4 DEF JInv
    <3>2. RangeWork(full_blocks, range + 1) \in Nat /\ half_count - full_blocks * width \in Nat
      BY <3>1, RangeWorkNext, TailFacts
    <3>3. StackWork(frames) \in Nat
      BY <2>4, TopFacts, StackedIsWorking, StackWorkType
    <3> QED BY <2>4, <3>2, <3>3 DEF StepsLeft
  <2>5. CASE pc = "tail"
    BY <2>1, <2>5 DEF StepsLeft
  <2> QED BY <2>2, <2>3, <2>4, <2>5 DEF JInv
<1> QED BY <1>1, <1>2

\* A plan has no more steps than there are factors to read in them.
LEMMA PlannedSteps ==
  ASSUME NEW h \in Nat, NEW w \in 1 .. h
  PROVE  RangeWork(h \div w, 1) + (h - (h \div w) * w) + 3 < 4 * h + 5
<1>1. PICK v \in Nat \ {0} : v = w /\ v <= h
  OBVIOUS
<1>2. PICK f \in Nat : f = h \div v /\ v * f <= h /\ h < v * f + v
  BY <1>1, Division
<1>3. PICK x \in Nat : x = f * v /\ x = v * f /\ f <= x
  <2>1. f * v \in Nat /\ f * v = v * f
    OBVIOUS
  <2>2. PICK u \in Nat : v = u + 1
    <3>1. v - 1 \in Nat /\ v = (v - 1) + 1
      OBVIOUS
    <3> QED BY <3>1
  <2>3. f * v = f * u + f /\ f * u \in Nat
    BY <2>2
  <2> QED BY <2>1, <2>3
<1>4. RangeWork(f, 1) = 3 * (f - 1) + 2
  BY DEF RangeWork, StartOf
<1>5. RangeWork(f, 1) + (h - x) + 3 < 4 * h + 5
  BY <1>2, <1>3, <1>4
<1> QED BY <1>1, <1>2, <1>3, <1>5

\* Planning lowers the measure.
LEMMA PlanLowers ==
  ASSUME JInv, JInv', request' = request, PlanNothing \/ Plan
  PROVE  StepsLeft' < StepsLeft
<1>1. half_count' = half_count /\ half_count \in Nat /\ pc = "request"
      /\ StepsLeft = 4 * half_count + 5
  BY SameRequest, JointFacts DEF PlanNothing, Plan, StepsLeft
<1>2. CASE PlanNothing
  <2>1. factor' = factor /\ factor = 1 /\ pc' = "tail"
    BY <1>2 DEF PlanNothing, JInv
  <2> QED BY <1>1, <2>1 DEF StepsLeft
<1>3. CASE Plan /\ pc' = "done"
  BY <1>1, <1>3, EndedIsLess
<1>4. CASE Plan /\ pc' # "done"
  <2>1. pc' = "block" /\ range' = range /\ range = 1
    BY <1>4 DEF Plan, EngineRefuses, JInv
  <2>2. width' \in 1 .. half_count
    <3>1. width' >= 1 /\ width' \in 0 .. half_count
      BY <1>1, <2>1 DEF JInv
    <3> QED BY <1>1, <3>1
  <2>3. full_blocks' = half_count \div width'
    BY <1>1 DEF full_blocks
  <2>4. StepsLeft' = RangeWork(half_count \div width', 1)
                       + (half_count - (half_count \div width') * width') + 3
    BY <1>1, <2>1, <2>3 DEF StepsLeft
  <2> QED BY <1>1, <2>2, <2>4, PlannedSteps
<1> QED BY <1>2, <1>3, <1>4

\* What stays when the plan stays.
LEMMA SamePlan ==
  ASSUME JInv, request' = request, width' = width
  PROVE  half_count' = half_count /\ full_blocks' = full_blocks
BY SameRequest

\* The block polynomial is one step.
LEMMA BlockLowers ==
  ASSUME JInv, BuildBlock
  PROVE  StepsLeft' < StepsLeft
<1>1. pc = "block" /\ request' = request /\ width' = width /\ range' = range /\ width >= 1
  BY DEF BuildBlock, EngineRefuses, JInv
<1>2. CASE pc' = "done"
  BY <1>1, <1>2, EndedIsLess
<1>3. CASE pc' # "done"
  <2>1. pc' = "range"
    BY <1>3 DEF BuildBlock, EngineRefuses
  <2>2. PICK x \in Nat, t \in Nat : x = RangeWork(full_blocks, range)
                                 /\ t = half_count - full_blocks * width
    BY <1>1, RangesWorkIs, TailFacts
  <2>3. StepsLeft = x + t + 3
    BY <1>1, <2>2 DEF StepsLeft
  <2>4. StepsLeft' = x + t + 2
    BY <1>1, <2>1, <2>2, SamePlan DEF StepsLeft
  <2> QED BY <2>3, <2>4
<1> QED BY <1>2, <1>3

\* A range that is done at once.
LEMMA RangeLowers ==
  ASSUME JInv, SkipRange \/ EvaluateLoneBlock
  PROVE  StepsLeft' < StepsLeft
<1>1. pc = "range" /\ range \in 1 .. 2 /\ request' = request /\ width' = width
      /\ pc' = "range" /\ range' = range + 1 /\ width >= 1
  BY DEF SkipRange, EvaluateLoneBlock, AtRange, JInv
<1>2. PICK x \in Nat, t \in Nat : x = RangeWork(full_blocks, range + 1)
                               /\ t = half_count - full_blocks * width
  BY <1>1, RangeWorkNext, TailFacts
<1>3. PICK a \in Nat, b \in Nat : a <= b /\ RangeWork(full_blocks, range) = x + 3 * (b - a) + 1
  BY <1>1, <1>2, RangeWorkNext
<1>4. StepsLeft = RangeWork(full_blocks, range) + t + 2
  BY <1>1, <1>2 DEF StepsLeft
<1>5. StepsLeft' = x + t + 2
  BY <1>1, <1>2, SamePlan DEF StepsLeft
<1> QED BY <1>3, <1>4, <1>5
\* The activations and the innermost one.
LEMMA TopWork ==
  ASSUME JInv, pc = "descend"
  PROVE  /\ Working(frames) /\ Working(Rest) /\ StackWork(Rest) \in Nat
         /\ FrameWork(Top) \in Nat
         /\ StackWork(frames) = FrameWork(Top) + StackWork(Rest)
<1>1. PICK s \in Seq(Activations) :
        s = frames /\ s # <<>> /\ Stacked(s, Root, products, width, candidate) /\ Top = s[1]
        /\ Span(Root)
  BY TopFacts
<1>2. Working(s)
  BY <1>1, StackedIsWorking
<1> QED BY <1>1, <1>2, StackWorkOfHead, StackWorkType DEF Rest

\* A descent that lowers the work of the stack.
LEMMA DescentLowers ==
  ASSUME JInv, pc = "descend", pc' = "descend", UNCHANGED <<request, width, range>>,
         StackWork(frames') \in Nat, StackWork(frames') < StackWork(frames)
  PROVE  StepsLeft' < StepsLeft
<1>1. width >= 1 /\ range \in 1 .. 2
  BY DEF JInv
<1>2. PICK x \in Nat, t \in Nat : x = RangeWork(full_blocks, range + 1)
                               /\ t = half_count - full_blocks * width
  BY <1>1, RangeWorkNext, TailFacts
<1>3. PICK a \in Nat, b \in Nat : a = StackWork(frames) /\ b = StackWork(frames') /\ b < a
  BY TopWork
<1>4. StepsLeft = a + x + t + 3
  BY <1>2, <1>3 DEF StepsLeft
<1>5. StepsLeft' = b + x + t + 3
  BY <1>2, <1>3, SamePlan DEF StepsLeft
<1> QED BY <1>3, <1>4, <1>5

\* An activation that returns had a step left, its return.
LEMMA PopLowers ==
  ASSUME JInv, pc = "descend", Pop, UNCHANGED <<request, width>>, FrameWork(Top) >= 1
  PROVE  StepsLeft' < StepsLeft
<1>1. CASE Rest = <<>>
  <2>1. pc' = "range" /\ range' = range + 1 /\ width >= 1 /\ range \in 1 .. 2
    BY <1>1 DEF Pop, JInv
  <2>2. PICK x \in Nat, t \in Nat : x = RangeWork(full_blocks, range + 1)
                                 /\ t = half_count - full_blocks * width
    BY <2>1, RangeWorkNext, TailFacts
  <2>3. PICK a \in Nat : a = StackWork(frames) /\ a >= 1
    BY TopWork
  <2>4. StepsLeft = a + x + t + 3
    BY <2>2, <2>3 DEF StepsLeft
  <2>5. StepsLeft' = x + t + 2
    BY <2>1, <2>2, SamePlan DEF StepsLeft
  <2> QED BY <2>3, <2>4, <2>5
<1>2. CASE Rest # <<>>
  <2>1. pc' = "descend" /\ range' = range /\ frames' = Rest
    BY <1>2 DEF Pop
  <2>2. StackWork(Rest) < StackWork(frames) /\ StackWork(Rest) \in Nat
    BY TopWork
  <2> QED BY <2>1, <2>2, DescentLowers
<1> QED BY <1>1, <1>2

\* The tree of a range takes its steps.
LEMMA TreeLowers ==
  ASSUME JInv, BuildTree
  PROVE  StepsLeft' < StepsLeft
<1>1. pc = "range" /\ range \in 1 .. 2 /\ width >= 1
  BY DEF BuildTree, AtRange, JInv
<1>2. CASE pc' = "done"
  BY <1>1, <1>2, EndedIsLess
<1>3. CASE pc' # "done"
  <2>1. PICK d : d = Remainder(block, RangeProduct(Halves[range]), candidate, policy)
    OBVIOUS
  <2>2. /\ pc' = "descend" /\ range' = range /\ request' = request /\ width' = width
        /\ frames' = <<Frame(Halves[range], d)>>
    BY <1>3, <2>1 DEF BuildTree, EngineRefuses
  <2>3. PICK x \in Nat, t \in Nat : x = RangeWork(full_blocks, range + 1)
                                 /\ t = half_count - full_blocks * width
    BY <1>1, RangeWorkNext, TailFacts
  <2>4. PICK a \in Nat, b \in Nat :
          /\ a = Halves[range][1] /\ b = Halves[range][2] /\ b - a > 1
          /\ RangeWork(full_blocks, range) = x + 3 * (b - a) + 1
    <3>1. Halves[range][2] - Halves[range][1] > 1
      BY DEF BuildTree
    <3> QED BY <1>1, <2>3, <3>1, RangeWorkNext
  <2>5. PICK f : f = Frame(Halves[range], d) /\ frames' = <<f>>
    BY <2>2
  <2>6. FrameWork(f) = 3 * (b - a - 1) /\ FrameWork(f) \in Nat
    <3>1. f.stage = "left" /\ f.node[1] = a /\ f.node[2] = b
      BY <2>4, <2>5 DEF Frame
    <3>2. FrameWork(f) = 3 * (b - a - 1)
      BY <3>1 DEF FrameWork
    <3>3. b - a - 1 \in Nat
      BY <2>4
    <3> QED BY <3>2, <3>3
  <2>7. StackWork(frames') = 3 * (b - a - 1)
    <3>1. StackWork(<<f>> \o <<>>) = FrameWork(f) + 0
      BY <2>6, StackWorkWith, StackWorkOfNone
    <3>2. <<f>> \o <<>> = <<f>>
      OBVIOUS
    <3> QED BY <2>5, <2>6, <3>1, <3>2
  <2>8. StepsLeft = RangeWork(full_blocks, range) + t + 2
    BY <1>1, <2>3 DEF StepsLeft
  <2>9. StepsLeft' = 3 * (b - a - 1) + x + t + 3
    BY <2>2, <2>3, <2>7, SamePlan DEF StepsLeft
  <2> QED BY <2>4, <2>8, <2>9
<1> QED BY <1>2, <1>3

\* The innermost activation, its place and its middle.
LEMMA TopPlace ==
  ASSUME JInv, pc = "descend"
  PROVE  \E a \in Nat, b \in Nat, c \in Nat :
           /\ a = Top.node[1] /\ b = Top.node[2] /\ c = Middle(a, b) /\ a < c /\ c < b
           /\ Left(Top.node) = <<a, c>> /\ Right(Top.node) = <<c, b>>
           /\ Top.stage = "left"  => FrameWork(Top) = 3 * (b - a - 1)
           /\ Top.stage = "right" => FrameWork(Top) = 3 * (b - c - 1) + 2
           /\ Top.stage = "read"  => FrameWork(Top) = 1
           /\ \A d : /\ FrameWork(Turn("right", d)) = 3 * (b - c - 1) + 2
                     /\ FrameWork(Turn("read", d)) = 1
<1>1. Span(Root) /\ FrameOf(Top, Root, candidate) /\ Top \in Activations
  BY TopFacts
<1>2. PICK a \in Nat, b \in Nat, c \in Nat :
        /\ a = Top.node[1] /\ b = Top.node[2] /\ c = Middle(a, b) /\ a < c /\ c < b
        /\ Left(Top.node) = <<a, c>> /\ Right(Top.node) = <<c, b>>
  BY <1>1, FrameFacts
<1>3. /\ Top.stage = "left"  => FrameWork(Top) = 3 * (b - a - 1)
      /\ Top.stage = "right" => FrameWork(Top) = 3 * (b - c - 1) + 2
      /\ Top.stage = "read"  => FrameWork(Top) = 1
  BY <1>1, <1>2, FrameWorkIs
<1>4. ASSUME NEW d
      PROVE  FrameWork(Turn("right", d)) = 3 * (b - c - 1) + 2 /\ FrameWork(Turn("read", d)) = 1
  <2>1. PICK f : f = Turn("right", d)
    OBVIOUS
  <2>2. PICK g : g = Turn("read", d)
    OBVIOUS
  <2>3. f.stage = "right" /\ f.node = Top.node
    BY <1>1, <2>1 DEF Turn, Activations
  <2>4. g.stage = "read" /\ g.node = Top.node
    BY <1>1, <2>2 DEF Turn, Activations
  <2>5. FrameWork(f) = 3 * (b - c - 1) + 2
    BY <1>2, <2>3 DEF FrameWork
  <2>6. FrameWork(g) = 1
    BY <1>2, <2>4 DEF FrameWork
  <2> QED BY <2>1, <2>2, <2>5, <2>6
<1> QED BY <1>2, <1>3, <1>4

\* A left leaf is read in place.
LEMMA LeftLeafLowers ==
  ASSUME JInv, LeftLeaf
  PROVE  StepsLeft' < StepsLeft
<1>1. /\ pc = "descend" /\ pc' = "descend" /\ UNCHANGED <<request, width, range>>
      /\ Top.stage = "left" /\ IsLeaf(Left(Top.node))
      /\ frames' = <<Turn("right", Top.reduced)>> \o Rest
  BY DEF LeftLeaf
<1>2. PICK a \in Nat, b \in Nat, c \in Nat :
        /\ a < c /\ c < b /\ Left(Top.node) = <<a, c>>
        /\ FrameWork(Top) = 3 * (b - a - 1)
        /\ FrameWork(Turn("right", Top.reduced)) = 3 * (b - c - 1) + 2
  BY <1>1, TopPlace
<1>3. c - a = 1
  BY <1>1, <1>2 DEF IsLeaf
<1>4. PICK f : f = Turn("right", Top.reduced)
  OBVIOUS
<1>5. FrameWork(f) \in Nat /\ FrameWork(f) < FrameWork(Top)
  <2>1. b - c - 1 \in Nat
    BY <1>2
  <2> QED BY <1>2, <1>3, <1>4, <2>1
<1>6. Working(Rest) /\ StackWork(Rest) \in Nat /\ FrameWork(Top) \in Nat
      /\ StackWork(frames) = FrameWork(Top) + StackWork(Rest)
  BY <1>1, TopWork
<1>7. StackWork(frames') = FrameWork(f) + StackWork(Rest)
  BY <1>1, <1>4, <1>5, <1>6, StackWorkWith
<1>8. StackWork(frames') \in Nat /\ StackWork(frames') < StackWork(frames)
  BY <1>5, <1>6, <1>7
<1> QED BY <1>1, <1>8, DescentLowers

\* A branch is as many steps as it has inner nodes, less those of its parent.
LEMMA BranchLowers ==
  ASSUME JInv, pc = "descend", pc' = "descend", UNCHANGED <<request, width, range>>,
         NEW n, NEW f, frames' = <<n, f>> \o Rest,
         FrameWork(n) \in Nat, FrameWork(f) \in Nat,
         FrameWork(n) + FrameWork(f) < FrameWork(Top)
  PROVE  StepsLeft' < StepsLeft
<1>1. Working(Rest) /\ StackWork(Rest) \in Nat /\ FrameWork(Top) \in Nat
      /\ StackWork(frames) = FrameWork(Top) + StackWork(Rest)
  BY TopWork
<1>2. StackWork(frames') = FrameWork(n) + (FrameWork(f) + StackWork(Rest))
  BY <1>1, StackWorkWithTwo
<1>3. StackWork(frames') \in Nat /\ StackWork(frames') < StackWork(frames)
  BY <1>1, <1>2
<1> QED BY <1>3, DescentLowers

\* The left branch.
LEMMA LeftBranchLowers ==
  ASSUME JInv, LeftBranch
  PROVE  StepsLeft' < StepsLeft
<1>1. pc = "descend" /\ Top.stage = "left" /\ ~IsLeaf(Left(Top.node))
  BY DEF LeftBranch
<1>2. CASE pc' \in {"done", "rejected"}
  BY <1>1, <1>2, EndedIsLess
<1>3. CASE pc' \notin {"done", "rejected"}
  <2>1. PICK a \in Nat, b \in Nat, c \in Nat :
          /\ a < c /\ c < b /\ Left(Top.node) = <<a, c>>
          /\ FrameWork(Top) = 3 * (b - a - 1)
          /\ FrameWork(Turn("right", Top.reduced)) = 3 * (b - c - 1) + 2
    BY <1>1, TopPlace
  <2>2. PICK d : d = Reduce(Top.reduced, Left(Top.node))
    OBVIOUS
  <2>3. PICK f : f = Turn("right", Top.reduced)
    OBVIOUS
  <2>4. PICK n : n = Frame(<<a, c>>, d)
    OBVIOUS
  <2>5. /\ pc' = "descend" /\ UNCHANGED <<request, width, range>>
        /\ frames' = <<n, f>> \o Rest
    BY <1>1, <1>3, <2>1, <2>2, <2>3, <2>4 DEF LeftBranch, EngineRefuses, Rejects
  <2>6. FrameWork(n) = 3 * (c - a - 1)
    <3>1. n.stage = "left" /\ n.node[1] = a /\ n.node[2] = c
      BY <2>4 DEF Frame
    <3> QED BY <3>1 DEF FrameWork
  <2>7. FrameWork(n) \in Nat /\ FrameWork(f) \in Nat /\ FrameWork(n) + FrameWork(f) < FrameWork(Top)
    <3>1. c - a - 1 \in Nat /\ b - c - 1 \in Nat
      BY <2>1
    <3> QED BY <2>1, <2>3, <2>6, <3>1
  <2> QED BY <1>1, <2>5, <2>7, BranchLowers
<1> QED BY <1>2, <1>3

\* The right branch.
LEMMA RightBranchLowers ==
  ASSUME JInv, RightBranch
  PROVE  StepsLeft' < StepsLeft
<1>1. pc = "descend" /\ Top.stage = "right" /\ ~IsLeaf(Right(Top.node))
  BY DEF RightBranch
<1>2. CASE pc' \in {"done", "rejected"}
  BY <1>1, <1>2, EndedIsLess
<1>3. CASE pc' \notin {"done", "rejected"}
  <2>1. PICK b \in Nat, c \in Nat :
          /\ c < b /\ Right(Top.node) = <<c, b>>
          /\ FrameWork(Top) = 3 * (b - c - 1) + 2
          /\ FrameWork(Turn("read", <<>>)) = 1
    BY <1>1, TopPlace
  <2>2. PICK d : d = Reduce(Top.reduced, Right(Top.node))
    OBVIOUS
  <2>3. PICK f : f = Turn("read", <<>>)
    OBVIOUS
  <2>4. PICK n : n = Frame(<<c, b>>, d)
    OBVIOUS
  <2>5. /\ pc' = "descend" /\ UNCHANGED <<request, width, range>>
        /\ frames' = <<n, f>> \o Rest
    BY <1>1, <1>3, <2>1, <2>2, <2>3, <2>4 DEF RightBranch, EngineRefuses, Rejects
  <2>6. FrameWork(n) = 3 * (b - c - 1)
    <3>1. n.stage = "left" /\ n.node[1] = c /\ n.node[2] = b
      BY <2>4 DEF Frame
    <3> QED BY <3>1 DEF FrameWork
  <2>7. FrameWork(n) \in Nat /\ FrameWork(f) \in Nat /\ FrameWork(n) + FrameWork(f) < FrameWork(Top)
    <3>1. b - c - 1 \in Nat
      BY <2>1
    <3> QED BY <2>1, <2>3, <2>6, <3>1
  <2> QED BY <1>1, <2>5, <2>7, BranchLowers
<1> QED BY <1>2, <1>3

\* The right leaf and the return end an activation.
LEMMA ReturnLowers ==
  ASSUME JInv, RightLeaf \/ Return
  PROVE  StepsLeft' < StepsLeft
<1>1. pc = "descend" /\ Pop /\ UNCHANGED <<request, width>> /\ Top.stage \in {"right", "read"}
  BY DEF RightLeaf, Return
<1>2. FrameWork(Top) >= 1
  <2>1. PICK b \in Nat, c \in Nat :
          /\ c < b
          /\ Top.stage = "right" => FrameWork(Top) = 3 * (b - c - 1) + 2
          /\ Top.stage = "read"  => FrameWork(Top) = 1
    BY <1>1, TopPlace
  <2>2. b - c - 1 \in Nat
    BY <2>1
  <2> QED BY <1>1, <2>1, <2>2
<1> QED BY <1>1, <1>2, PopLowers

\* The tail, factor by factor.
LEMMA TailLowers ==
  ASSUME JInv, RangesEnd \/ TailFactor
  PROVE  StepsLeft' < StepsLeft
<1>1. CASE RangesEnd
  <2>1. /\ pc = "range" /\ range = 3 /\ pc' = "tail" /\ width >= 1
        /\ factor' = full_blocks * width + 1 /\ request' = request /\ width' = width
    BY <1>1 DEF RangesEnd, JInv
  <2>2. PICK x \in Nat : x = full_blocks * width /\ half_count \in Nat /\ half_count - x \in Nat
    BY <2>1, TailFacts
  <2>3. RangeWork(full_blocks, range) \in Nat
    BY <2>1, RangesWorkIs
  <2>4. RangeWork(full_blocks, range) = 0
    <3>1. full_blocks \in Nat
      BY <2>1, JointFacts
    <3> QED BY <2>1, <3>1 DEF RangeWork, StartOf
  <2>5. StepsLeft = 0 + (half_count - x) + 2
    BY <2>1, <2>2, <2>4 DEF StepsLeft
  <2>6. StepsLeft' = half_count - (x + 1) + 2
    BY <2>1, <2>2, SamePlan DEF StepsLeft
  <2> QED BY <2>2, <2>5, <2>6
<1>2. CASE TailFactor
  <2>1. /\ pc = "tail" /\ pc' = "tail" /\ factor' = factor + 1 /\ request' = request /\ width' = width
    BY <1>2 DEF TailFactor, NextFactor
  <2>2. half_count \in Nat /\ factor \in Nat
    BY JointFacts DEF JInv
  <2>3. StepsLeft = half_count - factor + 2
    BY <2>1 DEF StepsLeft
  <2>4. StepsLeft' = half_count - (factor + 1) + 2
    BY <2>1, SamePlan DEF StepsLeft
  <2> QED BY <2>2, <2>3, <2>4
<1> QED BY <1>1, <1>2

\* Every step lowers the measure.
LEMMA StepsLower ==
  ASSUME JInv, Next
  PROVE  StepsLeft' < StepsLeft
<1>1. JInv' /\ request' = request
  BY JointSteps
<1>2. CASE RefuseWidth \/ RejectPolicy \/ Assemble
  <2>1. pc \notin {"done", "rejected"} /\ pc' \in {"done", "rejected"}
    BY <1>2 DEF RefuseWidth, RejectPolicy, Rejects, Assemble
  <2> QED BY <2>1, EndedIsLess
<1>3. CASE PlanNothing \/ Plan
  BY <1>1, <1>3, PlanLowers
<1>4. CASE Descend
  BY <1>4, LeftLeafLowers, LeftBranchLowers, RightBranchLowers, ReturnLowers DEF Descend
<1> QED BY <1>2, <1>3, <1>4, BlockLowers, RangeLowers, TreeLowers, TailLowers DEF Next

\* Every step of the joint consumer lowers a natural number that its request
\* bounds: the loop over ranges, the recursion down the tree and the tail end
\* for every candidate and policy, whatever the engine refuses.
THEOREM JointConsumerProgresses == Spec => EachStepProgresses
<1> DEFINE E == Work = StepsLeft /\ StepsLeft \in Nat
<1>1. JInv => E
  BY WorkIsStepsLeft
<1>2. JInv /\ [Next \/ Answered]_vars => [StepsLeft' < StepsLeft]_vars
  BY StepsLower DEF Answered
<1>3. E /\ E' /\ [StepsLeft' < StepsLeft]_vars => [Work' < Work /\ Work' \in Nat]_vars
  OBVIOUS
<1> HIDE DEF E
<1> QED BY <1>1, <1>2, <1>3, JointIsSound, PTL DEF Spec, EachStepProgresses
===============================================================================
