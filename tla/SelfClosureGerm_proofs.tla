------------------------ MODULE SelfClosureGerm_proofs ------------------------
(***************************************************************************)
(* The germ of materialize_self_closure_germ, for every order, jet order,  *)
(* number of cycles and modulus.  The tensors that a family of rows grows  *)
(* fold onto the tensors of a divisor (SharedTheorems); their leading      *)
(* columns are the orbit of a comb under the operators 1 - S^k, in which   *)
(* only the turns matter; and the orbit of a comb survives p - 1 turns     *)
(* modulo a prime p that does not divide the order.                        *)
(***************************************************************************)
EXTENDS SelfClosureGerm, SharedTheorems

(* --------------------------- the leading column ------------------------ *)

\* Columns without a modulus, unrolled along the integers.
Wave == [Int -> Int]

Periodic(h, n) == h \in Wave /\ \A i \in Int : h[i + n] = h[i]

\* A period can be added any number of times,
LEMMA PeriodRepeats ==
  ASSUME NEW n \in Nat, NEW h, Periodic(h, n)
  PROVE  \A q \in Int : \A i \in Int : h[i + q * n] = h[i]
<1> DEFINE T == {q \in Nat : \A i \in Int : h[i + q * n] = h[i]}
<1>1. 0 \in T
  OBVIOUS
<1>2. ASSUME NEW q \in Nat, q \in T PROVE q + 1 \in T
  <2> SUFFICES ASSUME NEW i \in Int PROVE h[i + (q + 1) * n] = h[i]
    OBVIOUS
  <2>1. PICK u \in Int : u = i + q * n
    OBVIOUS
  <2>2. i + (q + 1) * n = u + n
    BY <2>1
  <2>3. h[u + n] = h[u]
    BY DEF Periodic
  <2> QED BY <1>2, <2>1, <2>2, <2>3
<1>3. \A q \in Nat : q \in T
  <2> HIDE DEF T
  <2> QED BY <1>1, <1>2, SetOfAllNaturals
<1>4. ASSUME NEW q \in Int, NEW i \in Int PROVE h[i + q * n] = h[i]
  <2>1. CASE q >= 0
    <3>1. q \in Nat
      BY <2>1
    <3>2. q \in T
      BY <1>3, <3>1
    <3> QED BY <3>2
  <2>2. CASE q < 0
    <3>1. PICK e \in Nat : e = 0 - q
      BY <2>2
    <3>2. PICK u \in Int : u = i + q * n
      OBVIOUS
    <3>3. u + e * n = i
      BY <3>1, <3>2
    <3>4. e \in T
      BY <1>3
    <3>5. h[u + e * n] = h[u]
      BY <3>4
    <3> QED BY <3>2, <3>3, <3>5
  <2> QED BY <2>1, <2>2
<1> QED BY <1>4

\* so an index can be reduced.
LEMMA PeriodicRest ==
  ASSUME NEW n \in Nat \ {0}, NEW h, Periodic(h, n), NEW i \in Int
  PROVE  h[i % n] = h[i]
<1>1. Same(i % n, i, n)
  BY SameAsRest
<1>2. PICK q \in Int : i % n = i + q * n
  BY <1>1 DEF Same
<1> QED BY <1>2, PeriodRepeats

\* The leading column from one factor to the next: within a turn it is
\* multiplied by 1 - S^s, at the end of a turn by -s.
Led(w, h, n, s) ==
  \A i \in Int : w[i] = IF s % n = 0 THEN (0 - s) * h[i] ELSE h[i] - h[i - s]

Orbit(X, n) ==
  /\ X \in [Nat -> Wave]
  /\ \A s \in Nat : Periodic(X[s], n)
  /\ \A s \in Nat : Led(X[s + 1], X[s], n, s + 1)

\* The wave of the tensor before the first factor.
Comb(n) == [i \in Int |-> IF i % n = 0 THEN 1 ELSE 0]

\* The wave a factor leaves.
LedWave(h, n, s) == [i \in Int |-> IF s % n = 0 THEN (0 - s) * h[i] ELSE h[i] - h[i - s]]

\* It is as periodic as the wave before.
LEMMA LedIsPeriodic ==
  ASSUME NEW n \in Nat \ {0}, NEW h, Periodic(h, n), NEW s \in Nat
  PROVE  Periodic(LedWave(h, n, s), n) /\ Led(LedWave(h, n, s), h, n, s)
<1>1. \A i \in Int : h[i] \in Int /\ h[i + n] = h[i]
  BY DEF Wave, Periodic
<1>2. LedWave(h, n, s) \in Wave
  <2>1. ASSUME NEW i \in Int PROVE (0 - s) * h[i] \in Int /\ h[i] - h[i - s] \in Int
    <3>1. PICK x \in Int, y \in Int : x = h[i] /\ y = h[i - s]
      BY <1>1
    <3> QED BY <3>1
  <2> QED BY <2>1 DEF Wave, LedWave
<1>3. ASSUME NEW i \in Int PROVE LedWave(h, n, s)[i + n] = LedWave(h, n, s)[i]
  <2>1. i + n \in Int /\ (i + n) - s = (i - s) + n /\ i - s \in Int
    OBVIOUS
  <2>2. h[i + n] = h[i] /\ h[(i - s) + n] = h[i - s]
    BY <1>1, <2>1
  <2> QED BY <2>1, <2>2 DEF LedWave
<1>4. Led(LedWave(h, n, s), h, n, s)
  BY DEF Led, LedWave
<1> QED BY <1>2, <1>3, <1>4 DEF Periodic

\* The step of an orbit.
LeadStep(n) ==
  [w \in Numbered({h \in Wave : Periodic(h, n)}) |-> LedWave(w[2], n, w[1])]

\* Every periodic wave has an orbit.
LEMMA OrbitExists ==
  ASSUME NEW n \in Nat \ {0}, NEW h, Periodic(h, n)
  PROVE  \E X : Orbit(X, n) /\ X[0] = h
<1> DEFINE V == {w \in Wave : Periodic(w, n)}
<1>1. ASSUME NEW s \in Nat, NEW w \in V
      PROVE  LedWave(w, n, s) \in V /\ Led(LedWave(w, n, s), w, n, s)
  BY LedIsPeriodic DEF Periodic
<1>2. \A s \in Nat : \A w \in V :
        /\ <<s, w>> \in Numbered(V)
        /\ LeadStep(n)[<<s, w>>] = LedWave(w, n, s)
  BY DEF LeadStep, Numbered
<1>3. LeadStep(n) \in [Numbered(V) -> V]
  <2>1. ASSUME NEW x \in Numbered(V) PROVE LeadStep(n)[x] \in V
    <3>1. PICK s \in Nat, w \in V : x = <<s, w>>
      BY DEF Numbered
    <3>2. LedWave(w, n, s) \in V
      BY <1>1
    <3> HIDE DEF V
    <3> QED BY <1>2, <3>1, <3>2
  <2>2. LeadStep(n) = [x \in Numbered(V) |-> LeadStep(n)[x]]
    BY DEF LeadStep
  <2>3. PICK f : f = LeadStep(n)
    OBVIOUS
  <2>4. f \in [Numbered(V) -> V]
    <3>1. f = [x \in Numbered(V) |-> f[x]] /\ \A x \in Numbered(V) : f[x] \in V
      BY <2>1, <2>2, <2>3
    <3> HIDE DEF V
    <3> QED BY <3>1
  <2> QED BY <2>3, <2>4
<1>4. h \in V
  BY DEF Periodic
<1>5. PICK X : Ladder(V, h, LeadStep(n), X)
  <2> HIDE DEF V
  <2> QED BY <1>3, <1>4, LadderExists
<1>6. X \in [Nat -> V] /\ X[0] = h
  BY <1>5 DEF Ladder
<1>7. X \in [Nat -> Wave] /\ \A s \in Nat : Periodic(X[s], n)
  BY <1>6
<1>8. ASSUME NEW s \in Nat PROVE Led(X[s + 1], X[s], n, s + 1)
  <2>1. X[s] \in V /\ s + 1 \in Nat
    BY <1>6
  <2>2. X[s + 1] = LeadStep(n)[<<s + 1, X[s]>>]
    BY <1>5 DEF Ladder
  <2>3. X[s + 1] = LedWave(X[s], n, s + 1)
    BY <1>2, <2>1, <2>2
  <2> QED BY <1>1, <2>1, <2>3
<1> QED BY <1>6, <1>7, <1>8 DEF Orbit

\* The comb is periodic, and agrees with the tensor before the first factor.
LEMMA CombFacts ==
  ASSUME NEW n \in Nat \ {0}
  PROVE  /\ Periodic(Comb(n), n)
         /\ \A i \in Column(n) : Comb(n)[i] = (IF i = 0 THEN 1 ELSE 0)
<1>1. Comb(n) \in Wave
  BY DEF Comb, Wave
<1>2. ASSUME NEW i \in Int PROVE (i + n) % n = i % n
  <2>1. Same(i + n, i, n)
    <3>1. i + n = i + 1 * n
      OBVIOUS
    <3> QED BY <3>1 DEF Same
  <2>2. i + n \in Int
    OBVIOUS
  <2> QED BY <2>1, <2>2, RestsOfSame
<1>3. ASSUME NEW i \in Column(n) PROVE i \in Int /\ i % n = i
  <2>1. i \in 0 .. n - 1 /\ i \in Int
    BY DEF Column
  <2>2. Same(i, i, n)
    BY <2>1, SameIsReflexive
  <2> QED BY <2>1, <2>2, RestIsSmall
<1>4. ASSUME NEW i \in Int PROVE Comb(n)[i + n] = Comb(n)[i]
  <2>1. i + n \in Int
    OBVIOUS
  <2> QED BY <1>2, <2>1 DEF Comb
<1>5. ASSUME NEW i \in Column(n) PROVE Comb(n)[i] = (IF i = 0 THEN 1 ELSE 0)
  BY <1>3 DEF Comb
<1> QED BY <1>1, <1>4, <1>5 DEF Periodic

\* A quotient grows exactly when the remainder returns to zero.
LEMMA NextQuotient ==
  ASSUME NEW n \in Nat \ {0}, NEW s \in Nat
  PROVE  /\ s \div n \in Nat
         /\ (s + 1) \div n = IF (s + 1) % n = 0 THEN s \div n + 1 ELSE s \div n
<1>1. PICK q \in Nat : q = s \div n
  BY Division
<1>2. n * q <= s /\ s < n * q + n
  BY <1>1, Division
<1>3. PICK b \in Nat : b = n * q
  OBVIOUS
<1>4. CASE s + 1 < b + n
  <2>1. (s + 1) \div n = q
    BY <1>2, <1>3, <1>4, QuotientIs
  <2>2. PICK x \in 0 .. n - 1 : x = (s + 1) - b /\ x # 0
    BY <1>2, <1>3, <1>4
  <2>3. Same(s + 1, x, n)
    <3>1. s + 1 = x + q * n
      BY <1>3, <2>2
    <3> QED BY <3>1 DEF Same
  <2>4. (s + 1) % n = x
    <3>1. s + 1 \in Int
      OBVIOUS
    <3> QED BY <2>3, <3>1, RestIsSmall
  <2> QED BY <1>1, <2>1, <2>2, <2>4
<1>5. CASE ~(s + 1 < b + n)
  <2>1. s + 1 = b + n
    BY <1>2, <1>3, <1>5
  <2>2. n * (q + 1) = s + 1
    BY <1>3, <2>1
  <2>3. (s + 1) \div n = q + 1
    <3>1. q + 1 \in Int /\ n * (q + 1) <= s + 1 /\ s + 1 < n * (q + 1) + n
      BY <2>2
    <3> QED BY <3>1, QuotientIs
  <2>4. Same(s + 1, 0, n)
    <3>1. n * (q + 1) = (q + 1) * n /\ q + 1 \in Int
      OBVIOUS
    <3>2. s + 1 = 0 + (q + 1) * n
      BY <2>2, <3>1
    <3> QED BY <3>1, <3>2 DEF Same
  <2>5. (s + 1) % n = 0
    <3>1. s + 1 \in Int /\ 0 \in 0 .. n - 1
      OBVIOUS
    <3> QED BY <2>4, <3>1, RestIsSmall
  <2> QED BY <1>1, <2>3, <2>5
<1> QED BY <1>1, <1>4, <1>5

\* The tensor vanishes below degree q.
Below(g, n, J, q) == \A d \in 0 .. J : d < q => \A i \in Column(n) : g[d][i] = 0

\* Below its leading degree and there, a degree loses its own column,
LEMMA ShortLag ==
  ASSUME NEW n, NEW J, NEW m, Shape(n, J, m), NEW g \in JetTensors(n, J, m),
         NEW s \in Nat, NEW r, IsRow(r, s, J), Begins(r, s, m),
         NEW q \in Nat, Below(g, n, J, q), NEW d \in 0 .. J, d <= q, NEW i \in Column(n)
  PROVE  SumOver(Lag(g, r, d, i), Lags(r, d)) = g[d][i]
<1> DEFINE T == Lags(r, d)
           l == Lag(g, r, d, i)
<1>0. n \in Nat /\ J \in Nat /\ m \in Nat
  BY DEF Shape
<1>1. Summable(l, T) /\ IsFiniteSet(T) /\ 0 \in T
        /\ \A j \in T : j \in Nat /\ j <= d /\ d - j \in 0 .. J /\ r[j] \in Int
  BY <1>0, LagIsSummable, LagsFacts
<1>2. g[d][i] \in Int
  BY DEF JetTensors, Columns, Residues
<1>3. l[0] = g[d][i]
  <2>1. l[0] = g[d - 0][i] * r[0]
    BY <1>1 DEF Lag
  <2>2. d - 0 = d /\ r[0] = 1
    BY DEF Begins
  <2> QED BY <1>2, <2>1, <2>2
<1>4. SumOver(l, T) = l[0] + SumOver(l, T \ {0})
  <2> HIDE DEF l, T
  <2> QED BY <1>1, SumWithout
<1>5. \A j \in T \ {0} : l[j] = 0
  <2> SUFFICES ASSUME NEW j \in T, j # 0 PROVE l[j] = 0
    OBVIOUS
  <2>1. d - j \in 0 .. J /\ d - j < q
    BY <1>1
  <2>2. g[d - j][i] = 0 /\ r[j] \in Int
    BY <1>1, <2>1 DEF Below
  <2> QED BY <2>2 DEF Lag
<1>6. SumOver(l, T \ {0}) = 0
  <2>1. IsFiniteSet(T \ {0})
    <3>1. T \ {0} \subseteq T
      OBVIOUS
    <3> HIDE DEF T
    <3> QED BY <1>1, <3>1, FS_Subset
  <2> HIDE DEF l, T
  <2> QED BY <1>5, <2>1, SumOfZeros
<1> QED BY <1>2, <1>3, <1>4, <1>6

\* and the degree above loses a multiple of the leading column as well.
LEMMA LongLag ==
  ASSUME NEW n, NEW J, NEW m, Shape(n, J, m), NEW g \in JetTensors(n, J, m),
         NEW s \in Nat, s >= 1, NEW r, IsRow(r, s, J), Begins(r, s, m),
         NEW q \in Nat, Below(g, n, J, q), q + 1 <= J, NEW i \in Column(n)
  PROVE  SumOver(Lag(g, r, q + 1, i), Lags(r, q + 1)) = g[q + 1][i] + g[q][i] * r[1]
<1> DEFINE d == q + 1
           T == Lags(r, d)
           l == Lag(g, r, d, i)
<1>0. n \in Nat /\ J \in Nat /\ m \in Nat /\ d \in 0 .. J /\ q \in 0 .. J
  BY DEF Shape
<1>1. Summable(l, T) /\ IsFiniteSet(T) /\ 0 \in T
        /\ \A j \in T : j \in Nat /\ j <= d /\ d - j \in 0 .. J /\ r[j] \in Int
  BY <1>0, LagIsSummable, LagsFacts
<1>2. 1 \in T
  <2>1. 1 \in DOMAIN r
    BY DEF IsRow, Smaller, Shape
  <2> QED BY <2>1 DEF Lags
<1>3. g[d][i] \in Int /\ g[q][i] \in Int /\ r[1] \in Int
  BY <1>0, <1>1, <1>2 DEF JetTensors, Columns, Residues
<1>4. l[0] = g[d][i]
  <2>1. l[0] = g[d - 0][i] * r[0]
    BY <1>1 DEF Lag
  <2>2. d - 0 = d /\ r[0] = 1
    BY DEF Begins
  <2> QED BY <1>3, <2>1, <2>2
<1>5. l[1] = g[q][i] * r[1]
  <2>1. l[1] = g[d - 1][i] * r[1]
    BY <1>2 DEF Lag
  <2>2. d - 1 = q
    OBVIOUS
  <2> QED BY <2>1, <2>2
<1>6. SumOver(l, T) = l[0] + SumOver(l, T \ {0})
  <2> HIDE DEF l, T
  <2> QED BY <1>1, SumWithout
<1>7. SumOver(l, T \ {0}) = l[1] + SumOver(l, (T \ {0}) \ {1})
  <2>1. Summable(l, T \ {0}) /\ 1 \in T \ {0}
    <3> HIDE DEF l, T
    <3> QED BY <1>1, <1>2, SummableSubset
  <2> HIDE DEF l, T
  <2> QED BY <2>1, SumWithout
<1>8. \A j \in (T \ {0}) \ {1} : l[j] = 0
  <2> SUFFICES ASSUME NEW j \in T, j # 0, j # 1 PROVE l[j] = 0
    OBVIOUS
  <2>1. d - j \in 0 .. J /\ d - j < q
    BY <1>1
  <2>2. g[d - j][i] = 0 /\ r[j] \in Int
    BY <1>1, <2>1 DEF Below
  <2> QED BY <2>2 DEF Lag
<1>9. SumOver(l, (T \ {0}) \ {1}) = 0
  <2>1. IsFiniteSet((T \ {0}) \ {1})
    <3>1. (T \ {0}) \ {1} \subseteq T
      OBVIOUS
    <3> HIDE DEF T
    <3> QED BY <1>1, <3>1, FS_Subset
  <2> HIDE DEF l, T
  <2> QED BY <1>8, <2>1, SumOfZeros
<1>10. PICK x \in Int, y \in Int, z \in Int : x = g[d][i] /\ y = g[q][i] /\ z = r[1]
  BY <1>3
<1>11. l[0] = x /\ l[1] = y * z
  BY <1>4, <1>5, <1>10
<1>12. SumOver(l, T) = x + y * z
  <2>1. y * z \in Int
    OBVIOUS
  <2> HIDE DEF l, T
  <2> QED BY <1>6, <1>7, <1>9, <1>11, <2>1
<1> QED BY <1>10, <1>12

\* The tensor vanishes below degree q, and its column there is the wave w.
Leading(g, w, n, J, m, q) ==
  /\ Below(g, n, J, q)
  /\ q \in 0 .. J => \A i \in Column(n) : Same(g[q][i], w[i], m)

\* A factor within a turn keeps the leading degree,
LEMMA LeadingWithin ==
  ASSUME NEW n, NEW J, NEW m, Shape(n, J, m), NEW g \in JetTensors(n, J, m),
         NEW s \in Nat, s % n # 0, NEW r, IsRow(r, s, J), Begins(r, s, m),
         NEW q \in Nat, NEW w, Periodic(w, n), Leading(g, w, n, J, m, q),
         NEW v, Led(v, w, n, s)
  PROVE  Leading(ApplyFactor(g, n, J, m, r, s), v, n, J, m, q)
<1> DEFINE h == ApplyFactor(g, n, J, m, r, s)
<1>0. n \in Nat \ {0} /\ m \in Nat \ {0} /\ m \in Int /\ Below(g, n, J, q)
  BY DEF Shape, Leading
<1>1. ASSUME NEW d \in 0 .. J, d <= q, NEW i \in Column(n)
      PROVE  /\ (i - s) % n \in Column(n) /\ g[d][i] \in Int /\ g[d][(i - s) % n] \in Int
             /\ h[d][i] = (g[d][i] - g[d][(i - s) % n]) % m
  <2>1. /\ (i - s) % n \in Column(n)
        /\ h[d][i] = (g[d][i] - SumOver(Lag(g, r, d, (i - s) % n), Lags(r, d))) % m
    BY FactorIs
  <2>2. PICK u \in Column(n) : u = (i - s) % n
    BY <2>1
  <2>3. SumOver(Lag(g, r, d, u), Lags(r, d)) = g[d][u]
    BY <1>0, <1>1, ShortLag
  <2>4. g[d][i] \in Int /\ g[d][u] \in Int
    BY DEF JetTensors, Columns, Residues
  <2> QED BY <2>1, <2>2, <2>3, <2>4
<1>2. Below(h, n, J, q)
  <2> SUFFICES ASSUME NEW d \in 0 .. J, d < q, NEW i \in Column(n) PROVE h[d][i] = 0
    BY DEF Below
  <2>1. d <= q
    OBVIOUS
  <2>2. (i - s) % n \in Column(n) /\ h[d][i] = (g[d][i] - g[d][(i - s) % n]) % m
    BY <1>1, <2>1
  <2>3. g[d][i] = 0 /\ g[d][(i - s) % n] = 0
    BY <1>0, <2>2 DEF Below
  <2>4. (0 - 0) % m = 0
    BY <1>0
  <2> QED BY <2>2, <2>3, <2>4
<1>3. ASSUME q \in 0 .. J, NEW i \in Column(n) PROVE Same(h[q][i], v[i], m)
  <2>1. q <= q
    OBVIOUS
  <2>2. /\ (i - s) % n \in Column(n) /\ g[q][i] \in Int /\ g[q][(i - s) % n] \in Int
        /\ h[q][i] = (g[q][i] - g[q][(i - s) % n]) % m
    BY <1>1, <1>3, <2>1
  <2>3. PICK u \in Column(n) : u = (i - s) % n
    BY <2>2
  <2>4. i \in Int /\ i - s \in Int
    BY DEF Column
  <2>5. w[u] = w[i - s] /\ w[i] \in Int /\ w[i - s] \in Int
    <3>1. w[(i - s) % n] = w[i - s]
      BY <1>0, <2>4, PeriodicRest
    <3> QED BY <2>3, <2>4, <3>1 DEF Periodic, Wave
  <2>6. v[i] = w[i] - w[i - s]
    BY <2>4 DEF Led
  <2>7. Same(g[q][i], w[i], m) /\ Same(g[q][u], w[u], m)
    BY <1>3 DEF Leading
  <2>8. PICK a \in Int, b \in Int, x \in Int, y \in Int :
          a = g[q][i] /\ b = g[q][u] /\ x = w[i] /\ y = w[i - s]
    BY <2>2, <2>3, <2>5
  <2>9. Same(a, x, m) /\ Same(b, y, m)
    BY <2>5, <2>7, <2>8
  <2>10. Same(a - b, x - y, m)
    <3>1. PICK e \in Int : a = x + e * m
      BY <2>9 DEF Same
    <3>2. PICK f \in Int : b = y + f * m
      BY <2>9 DEF Same
    <3>3. a - b = (x - y) + (e - f) * m
      BY <1>0, <3>1, <3>2
    <3>4. e - f \in Int
      OBVIOUS
    <3> QED BY <3>3, <3>4 DEF Same
  <2>11. Same((a - b) % m, a - b, m) /\ (a - b) % m \in Int
    <3>1. a - b \in Int
      OBVIOUS
    <3>2. Same((a - b) % m, a - b, m) /\ (a - b) % m \in 0 .. m - 1
      BY <1>0, <3>1, SameAsRest
    <3> QED BY <1>0, <3>2
  <2>12. Same((a - b) % m, x - y, m)
    <3>1. a - b \in Int /\ x - y \in Int
      OBVIOUS
    <3> QED BY <1>0, <2>10, <2>11, <3>1, SameIsTransitive
  <2> QED BY <2>2, <2>3, <2>6, <2>8, <2>12
<1> QED BY <1>2, <1>3 DEF Leading

\* and the factor that ends a turn raises it by one.
LEMMA LeadingTurn ==
  ASSUME NEW n, NEW J, NEW m, Shape(n, J, m), NEW g \in JetTensors(n, J, m),
         NEW s \in Nat, s >= 1, s % n = 0, NEW r, IsRow(r, s, J), Begins(r, s, m),
         NEW q \in Nat, NEW w, Periodic(w, n), Leading(g, w, n, J, m, q),
         NEW v, Led(v, w, n, s)
  PROVE  Leading(ApplyFactor(g, n, J, m, r, s), v, n, J, m, q + 1)
<1> DEFINE h == ApplyFactor(g, n, J, m, r, s)
<1>0. n \in Nat \ {0} /\ m \in Nat \ {0} /\ m \in Int /\ Below(g, n, J, q)
  BY DEF Shape, Leading
<1>1. ASSUME NEW i \in Column(n) PROVE (i - s) % n = i /\ i \in Int
  <2>1. i \in 0 .. n - 1 /\ i - s \in Int /\ i \in Int
    BY <1>0 DEF Column
  <2>2. Same(s, s % n, n)
    BY <1>0, SameAsRest
  <2>3. PICK e \in Int : s = 0 + e * n
    BY <2>2 DEF Same
  <2>4. i - s = i + (0 - e) * n /\ 0 - e \in Int
    BY <1>0, <2>1, <2>3
  <2>5. Same(i - s, i, n)
    BY <2>4 DEF Same
  <2> QED BY <1>0, <2>1, <2>5, RestIsSmall
<1>2. ASSUME NEW d \in 0 .. J, NEW i \in Column(n)
      PROVE  /\ g[d][i] \in Int
             /\ h[d][i] = (g[d][i] - SumOver(Lag(g, r, d, i), Lags(r, d))) % m
  <2>1. h[d][i] = (g[d][i] - SumOver(Lag(g, r, d, (i - s) % n), Lags(r, d))) % m
    BY FactorIs
  <2>2. g[d][i] \in Int
    BY DEF JetTensors, Columns, Residues
  <2> QED BY <1>1, <2>1, <2>2
<1>3. Below(h, n, J, q + 1)
  <2> SUFFICES ASSUME NEW d \in 0 .. J, d < q + 1, NEW i \in Column(n) PROVE h[d][i] = 0
    BY DEF Below
  <2>1. d <= q
    OBVIOUS
  <2>2. SumOver(Lag(g, r, d, i), Lags(r, d)) = g[d][i]
    BY <1>0, <2>1, ShortLag
  <2>3. PICK a \in Int : a = g[d][i]
    BY <1>2
  <2>4. a - a = 0 /\ 0 % m = 0
    BY <1>0
  <2> QED BY <1>2, <2>2, <2>3, <2>4
<1>4. ASSUME q + 1 \in 0 .. J, NEW i \in Column(n) PROVE Same(h[q + 1][i], v[i], m)
  <2>1. q + 1 <= J /\ q \in 0 .. J
    BY <1>4 DEF Shape
  <2>2. SumOver(Lag(g, r, q + 1, i), Lags(r, q + 1)) = g[q + 1][i] + g[q][i] * r[1]
    BY <1>0, <2>1, LongLag
  <2>3. h[q + 1][i] = (g[q + 1][i] - (g[q + 1][i] + g[q][i] * r[1])) % m
    BY <1>2, <1>4, <2>2
  <2>4. r[1] \in Int
    <3>1. 1 \in DOMAIN r
      BY DEF IsRow, Smaller, Shape
    <3> QED BY <3>1 DEF IsRow
  <2>5. PICK x \in Int, y \in Int, z \in Int, u \in Int :
          x = g[q + 1][i] /\ y = g[q][i] /\ z = r[1] /\ u = w[i]
    BY <1>1, <1>2, <1>4, <2>1, <2>4 DEF Periodic, Wave
  <2>6. Same(y, u, m) /\ Same(z, s, m)
    BY <2>1, <2>5 DEF Leading, Begins
  <2>7. Same(y * z, u * s, m)
    BY <1>0, <2>6, SameTimes
  <2>8. v[i] = (0 - s) * u
    BY <1>1, <2>5 DEF Led
  <2>9. PICK e \in Int : e = y * z
    OBVIOUS
  <2>10. PICK f \in Int : f = u * s
    OBVIOUS
  <2>11. PICK b \in Int : e = f + b * m
    BY <2>7, <2>9, <2>10 DEF Same
  <2>12. v[i] = 0 - f
    BY <2>8, <2>10
  <2>13. x - (x + e) = 0 - e
    OBVIOUS
  <2>14. 0 - e = (0 - f) + (0 - b) * m /\ 0 - b \in Int
    BY <1>0, <2>11
  <2>15. Same(0 - e, 0 - f, m)
    BY <2>14 DEF Same
  <2>16. h[q + 1][i] = (0 - e) % m
    BY <2>3, <2>5, <2>9, <2>13
  <2>17. Same((0 - e) % m, 0 - e, m) /\ (0 - e) % m \in Int
    <3>1. 0 - e \in Int
      OBVIOUS
    <3>2. Same((0 - e) % m, 0 - e, m) /\ (0 - e) % m \in 0 .. m - 1
      BY <1>0, <3>1, SameAsRest
    <3> QED BY <1>0, <3>2
  <2>18. Same((0 - e) % m, 0 - f, m)
    <3>1. 0 - e \in Int /\ 0 - f \in Int
      OBVIOUS
    <3> QED BY <1>0, <2>15, <2>17, <3>1, SameIsTransitive
  <2> QED BY <2>12, <2>16, <2>18
<1> QED BY <1>3, <1>4 DEF Leading

\* Rows that begin as Pascal's do.
Beginnings(R, m) == \A s \in Nat : s >= 1 => Begins(R[s], s, m)

\* So the tensors such rows grow all have the same leading columns, those of
\* the orbit of the comb, at the number of complete turns.
LEMMA LeadingColumns ==
  ASSUME NEW n, NEW J, NEW m, Shape(n, J, m), NEW R, Rows(R, J), Beginnings(R, m),
         NEW G, Grown(n, J, m, R, G), NEW X, Orbit(X, n), X[0] = Comb(n)
  PROVE  \A s \in Nat : s \div n \in Nat /\ Leading(G[s], X[s], n, J, m, s \div n)
<1>0. n \in Nat \ {0} /\ m \in Int
  BY DEF Shape
<1> DEFINE T == {s \in Nat : Leading(G[s], X[s], n, J, m, s \div n)}
<1>1. 0 \in T
  <2>1. 0 \div n = 0
    <3>1. n * 0 <= 0 /\ 0 < n * 0 + n
      BY <1>0
    <3> QED BY <1>0, <3>1, QuotientIs
  <2>2. Below(G[0], n, J, 0)
    BY DEF Below
  <2>3. ASSUME NEW i \in Column(n) PROVE Same(G[0][0][i], X[0][i], m)
    <3>1. 0 \in 0 .. J
      BY DEF Shape
    <3>2. UnitTensor(n, J)[0][i] = (IF i = 0 THEN 1 ELSE 0)
      BY <3>1, UnitTensorFacts
    <3>3. PICK x \in Int : x = UnitTensor(n, J)[0][i] /\ x = Comb(n)[i]
      BY <1>0, <3>2, CombFacts
    <3>4. Same(x, x, m)
      BY <1>0, SameIsReflexive
    <3> QED BY <3>3, <3>4 DEF Grown
  <2> QED BY <2>1, <2>2, <2>3 DEF Leading
<1>2. ASSUME NEW s \in Nat, s \in T PROVE s + 1 \in T
  <2>1. PICK e \in Nat : e = s + 1 /\ e >= 1
    OBVIOUS
  <2>2. PICK g \in JetTensors(n, J, m), q \in Nat : g = G[s] /\ q = s \div n
    BY <1>0, Division DEF Grown
  <2>3. IsRow(R[e], e, J) /\ Begins(R[e], e, m)
    BY <2>1 DEF Rows, Beginnings
  <2>4. Periodic(X[s], n) /\ Led(X[e], X[s], n, e) /\ Leading(g, X[s], n, J, m, q)
    BY <1>2, <2>1, <2>2 DEF Orbit
  <2>5. G[e] = ApplyFactor(g, n, J, m, R[e], e)
    BY <2>1, <2>2 DEF Grown
  <2>6. e \div n = IF e % n = 0 THEN q + 1 ELSE q
    BY <1>0, <2>1, <2>2, NextQuotient
  <2>7. Leading(G[e], X[e], n, J, m, e \div n)
    <3>1. CASE e % n = 0
      <4>1. Leading(ApplyFactor(g, n, J, m, R[e], e), X[e], n, J, m, q + 1)
        BY <2>1, <2>3, <2>4, <3>1, LeadingTurn
      <4> QED BY <2>5, <2>6, <3>1, <4>1
    <3>2. CASE e % n # 0
      <4>1. Leading(ApplyFactor(g, n, J, m, R[e], e), X[e], n, J, m, q)
        BY <2>3, <2>4, <3>2, LeadingWithin
      <4> QED BY <2>5, <2>6, <3>2, <4>1
    <3> QED BY <3>1, <3>2
  <2> QED BY <2>1, <2>7
<1>3. \A s \in Nat : s \in T
  <2> HIDE DEF T
  <2> QED BY <1>1, <1>2, SetOfAllNaturals
<1> QED BY <1>0, <1>3, Division

(* --------------------------- Pascal's triangle ------------------------- *)

\* Pascal's triangle, all of it.
Triangle(C) ==
  /\ C \in [Nat -> [Nat -> Nat]]
  /\ \A j \in Nat : C[0][j] = IF j = 0 THEN 1 ELSE 0
  /\ \A i, j \in Nat : C[i + 1][j] = IF j = 0 THEN 1 ELSE C[i][j] + C[i][j - 1]

\* There is one.
LEMMA TriangleExists == \E C : Triangle(C)
<1> DEFINE V == [Nat -> Nat]
           tip == [j \in Nat |-> IF j = 0 THEN 1 ELSE 0]
           next(c) == [j \in Nat |-> IF j = 0 THEN 1 ELSE c[j] + c[j - 1]]
           step == [w \in Numbered(V) |-> next(w[2])]
<1>1. tip \in V
  OBVIOUS
<1>2. ASSUME NEW c \in V PROVE next(c) \in V
  <2>1. ASSUME NEW j \in Nat, j # 0 PROVE c[j] + c[j - 1] \in Nat
    <3>1. j - 1 \in Nat
      BY <2>1
    <3> QED BY <3>1
  <2> QED BY <2>1
<1>3. step \in [Numbered(V) -> V]
  <2>1. \A w \in Numbered(V) : w[2] \in V
    BY DEF Numbered
  <2> HIDE DEF next, V
  <2> QED BY <1>2, <2>1
<1>4. \A s \in Nat : \A c \in V : step[<<s, c>>] = next(c)
  BY DEF Numbered
<1>5. PICK C : Ladder(V, tip, step, C)
  <2> HIDE DEF V, tip, step
  <2> QED BY <1>1, <1>3, LadderExists
<1>6. C \in [Nat -> V] /\ C[0] = tip
  BY <1>5 DEF Ladder
<1>7. ASSUME NEW i \in Nat, NEW j \in Nat
      PROVE  C[i + 1][j] = IF j = 0 THEN 1 ELSE C[i][j] + C[i][j - 1]
  <2>1. C[i + 1] = step[<<i + 1, C[i]>>] /\ C[i] \in V /\ i + 1 \in Nat
    <3>1. C[i + 1] = step[<<i + 1, C[i]>>]
      BY <1>5 DEF Ladder
    <3>2. C[i] \in V
      <4> HIDE DEF V
      <4> QED BY <1>6
    <3> QED BY <3>1, <3>2
  <2>2. C[i + 1] = next(C[i])
    BY <1>4, <2>1
  <2> QED BY <2>2
<1> QED BY <1>6, <1>7 DEF Triangle

\* The recursion of Pascal's rows.
PascalStep(n, j, f) ==
  [i \in 0 .. n |->
     [u \in 0 .. j |-> IF u = 0 THEN 1
                       ELSE IF i = 0 THEN 0
                       ELSE f[i - 1][u] + f[i - 1][u - 1]]]

PascalTable(n, j) == CHOOSE f : f = PascalStep(n, j, f)

\* Pascal looks up an entry of the triangle.
LEMMA PascalIs ==
  ASSUME NEW C, Triangle(C), NEW n \in Nat, NEW j \in Nat
  PROVE  Pascal(n, j) = C[n][j]
<1> DEFINE h == [i \in 0 .. n |-> [u \in 0 .. j |-> C[i][u]]]
           t == PascalTable(n, j)
<1>1. h = PascalStep(n, j, h)
  <2> SUFFICES ASSUME NEW i \in 0 .. n, NEW u \in 0 .. j
               PROVE  C[i][u] = IF u = 0 THEN 1 ELSE IF i = 0 THEN 0 ELSE h[i - 1][u] + h[i - 1][u - 1]
    BY DEF PascalStep
  <2>1. CASE i = 0
    BY <2>1 DEF Triangle
  <2>2. CASE i # 0
    <3>1. i - 1 \in Nat /\ i - 1 \in 0 .. n /\ (i - 1) + 1 = i /\ u \in Nat
      BY <2>2
    <3>2. C[(i - 1) + 1][u] = IF u = 0 THEN 1 ELSE C[i - 1][u] + C[i - 1][u - 1]
      BY <3>1 DEF Triangle
    <3>3. u # 0 => u - 1 \in 0 .. j
      OBVIOUS
    <3> QED BY <2>2, <3>1, <3>2, <3>3
  <2> QED BY <2>1, <2>2
<1> HIDE DEF h
<1>2. t = PascalStep(n, j, t)
  BY <1>1 DEF PascalTable
<1>3. Pascal(n, j) = t[n][j]
  BY DEF Pascal, PascalTable, PascalStep
<1> HIDE DEF t
<1> DEFINE T == {i \in Nat : i <= n => \A u \in 0 .. j : t[i][u] = C[i][u]}
<1>4. 0 \in T
  <2> SUFFICES ASSUME NEW u \in 0 .. j PROVE t[0][u] = C[0][u]
    OBVIOUS
  <2>1. PascalStep(n, j, t)[0][u] = IF u = 0 THEN 1 ELSE 0
    BY DEF PascalStep
  <2> QED BY <1>2, <2>1 DEF Triangle
<1>5. ASSUME NEW i \in Nat, i \in T PROVE i + 1 \in T
  <2> SUFFICES ASSUME i + 1 <= n, NEW u \in 0 .. j PROVE t[i + 1][u] = C[i + 1][u]
    OBVIOUS
  <2>1. PICK e \in 0 .. n : e = i + 1 /\ e # 0 /\ e - 1 = i
    OBVIOUS
  <2>2. PascalStep(n, j, t)[e][u] = IF u = 0 THEN 1 ELSE t[i][u] + t[i][u - 1]
    BY <2>1 DEF PascalStep
  <2>3. i <= n
    OBVIOUS
  <2>4. t[i][u] = C[i][u] /\ (u # 0 => t[i][u - 1] = C[i][u - 1])
    <3>1. \A v \in 0 .. j : t[i][v] = C[i][v]
      BY <1>5, <2>3
    <3>2. u # 0 => u - 1 \in 0 .. j
      OBVIOUS
    <3> QED BY <3>1, <3>2
  <2>5. C[i + 1][u] = IF u = 0 THEN 1 ELSE C[i][u] + C[i][u - 1]
    <3>1. u \in Nat
      OBVIOUS
    <3> QED BY <3>1 DEF Triangle
  <2>6. t[e][u] = IF u = 0 THEN 1 ELSE t[i][u] + t[i][u - 1]
    BY <1>2, <2>2
  <2> QED BY <2>1, <2>4, <2>5, <2>6
<1>6. \A i \in Nat : i \in T
  <2> HIDE DEF T
  <2> QED BY <1>4, <1>5, SetOfAllNaturals
<1> QED BY <1>3, <1>6

\* A row begins with one and its number.
LEMMA TriangleBegins ==
  ASSUME NEW C, Triangle(C)
  PROVE  \A i \in Nat : C[i][0] = 1 /\ C[i][1] = i
<1> DEFINE T == {i \in Nat : C[i][0] = 1 /\ C[i][1] = i}
<1>1. 0 \in T
  BY DEF Triangle
<1>2. ASSUME NEW i \in Nat, i \in T PROVE i + 1 \in T
  <2>1. C[i + 1][0] = 1
    BY DEF Triangle
  <2>2. C[i + 1][1] = C[i][1] + C[i][1 - 1]
    BY DEF Triangle
  <2> QED BY <1>2, <2>1, <2>2
<1>3. \A i \in Nat : i \in T
  <2> HIDE DEF T
  <2> QED BY <1>1, <1>2, SetOfAllNaturals
<1> QED BY <1>3

\* Neighbours in a row, in the ratio the program multiplies by.
Absorbs(C, i) == \A j \in Nat : j >= 1 => C[i][j] * j = C[i][j - 1] * (i - j + 1)

\* Every row of the triangle has that ratio.
LEMMA Absorption ==
  ASSUME NEW C, Triangle(C)
  PROVE  \A i \in Nat : Absorbs(C, i)
<1> DEFINE T == {i \in Nat : Absorbs(C, i)}
<1>1. 0 \in T
  <2> SUFFICES ASSUME NEW j \in Nat, j >= 1 PROVE C[0][j] * j = C[0][j - 1] * (0 - j + 1)
    BY DEF Absorbs
  <2>0. \A l \in Nat : C[0][l] = IF l = 0 THEN 1 ELSE 0
    BY DEF Triangle
  <2>1. C[0][j] = 0 /\ j - 1 \in Nat
    <3>1. j # 0 /\ j - 1 \in Nat
      OBVIOUS
    <3> QED BY <2>0, <3>1
  <2>2. CASE j = 1
    <3>1. j - 1 = 0 /\ 0 - j + 1 = 0
      BY <2>2
    <3>2. C[0][j - 1] = 1
      BY <2>0, <2>1, <3>1
    <3> QED BY <2>1, <3>1, <3>2
  <2>3. CASE j # 1
    <3>1. j - 1 # 0 /\ 0 - j + 1 \in Int
      BY <2>3
    <3>2. C[0][j - 1] = 0
      BY <2>0, <2>1, <3>1
    <3> QED BY <2>1, <3>1, <3>2
  <2> QED BY <2>2, <2>3
<1>2. ASSUME NEW i \in Nat, i \in T PROVE i + 1 \in T
  <2> SUFFICES ASSUME NEW j \in Nat, j >= 1
               PROVE  C[i + 1][j] * j = C[i + 1][j - 1] * ((i + 1) - j + 1)
    BY DEF Absorbs
  <2>1. C[i + 1][j] = C[i][j] + C[i][j - 1] /\ j - 1 \in Nat
    BY DEF Triangle
  <2>2. PICK a \in Nat, b \in Nat : a = C[i][j] /\ b = C[i][j - 1]
    BY <2>1 DEF Triangle
  <2>3. a * j = b * (i - j + 1)
    BY <1>2, <2>2 DEF Absorbs
  <2>4. C[i + 1][j] * j = b * (i + 1)
    <3>1. (a + b) * j = a * j + b * j
      OBVIOUS
    <3>2. b * (i - j + 1) + b * j = b * (i + 1)
      OBVIOUS
    <3> QED BY <2>1, <2>2, <2>3, <3>1, <3>2
  <2>5. CASE j = 1
    <3>1. b = 1 /\ C[i + 1][j - 1] = 1
      BY <2>2, <2>5, TriangleBegins
    <3> QED BY <2>4, <2>5, <3>1
  <2>6. CASE j # 1
    <3>1. PICK l \in Nat : l = j - 1 /\ l >= 1
      BY <2>6
    <3>2. PICK c \in Nat : c = C[i][l - 1]
      <4>1. l - 1 \in Nat
        BY <3>1
      <4> QED BY <4>1 DEF Triangle
    <3>3. C[i + 1][l] = b + c
      BY <2>2, <3>1, <3>2 DEF Triangle
    <3>4. b * l = c * (i - l + 1)
      BY <1>2, <2>2, <3>1, <3>2 DEF Absorbs
    <3>5. (b + c) * (i - l + 1) = b * (i + 1)
      <4>1. (b + c) * (i - l + 1) = b * (i - l + 1) + c * (i - l + 1)
        OBVIOUS
      <4>2. b * (i - l + 1) + b * l = b * (i + 1)
        OBVIOUS
      <4> QED BY <3>4, <4>1, <4>2
    <3>6. (i + 1) - j + 1 = i - l + 1
      BY <3>1
    <3> QED BY <2>4, <3>1, <3>3, <3>5, <3>6
  <2> QED BY <2>5, <2>6
<1>3. \A i \in Nat : i \in T
  <2> HIDE DEF T
  <2> QED BY <1>1, <1>2, SetOfAllNaturals
<1> QED BY <1>3

\* For a prime modulus, modular_inverses returns inverses.
LEMMA ReciprocalsAreInverses ==
  ASSUME NEW p \in Nat, IsPrime(p), NEW J \in Nat, J < p
  PROVE  \A i \in 1 .. J : Same(i * ModularInverses(J, p)[i], 1, p)
<1> DEFINE inv == ModularInverses(J, p)
           Bad == {i \in 1 .. J : ~Same(i * inv[i], 1, p)}
<1>0. p \in Nat \ {0} /\ p >= 2
  BY DEF IsPrime
<1>1. inv \in [0 .. J -> Int] /\ inv = ReciprocalStep(J, p, inv)
  BY <1>0, ReciprocalFacts
<1> HIDE DEF inv
<1> SUFFICES ASSUME Bad # {} PROVE FALSE
  BY DEF inv
<1>2. PICK i \in Bad : \A e \in Bad : i <= e
  <2>1. Bad \subseteq Nat
    OBVIOUS
  <2> HIDE DEF Bad
  <2> QED BY <2>1, LeastNatural
<1>3. inv[i] = IF i < 2 THEN i ELSE (0 - ((p \div i) * inv[p % i])) % p
  BY <1>1 DEF ReciprocalStep
<1>4. i >= 2
  <2>1. ASSUME i < 2 PROVE FALSE
    <3>1. i = 1 /\ inv[i] = 1
      BY <1>3, <2>1
    <3>2. Same(1, 1, p)
      BY SameIsReflexive
    <3>3. i * inv[i] = 1
      BY <3>1
    <3> QED BY <3>2, <3>3
  <2> QED BY <2>1
<1>5. PICK e \in Nat, q \in Int : e = p % i /\ e \in 1 .. i - 1 /\ p = e + q * i /\ q = p \div i
  <2>1. i \in Nat \ {0} /\ i \in 2 .. p - 1
    BY <1>4
  <2>2. p % i \in 0 .. i - 1 /\ Same(p, p % i, i)
    BY <2>1, SameAsRest
  <2>3. p % i # 0
    BY <2>1 DEF IsPrime
  <2>4. PICK q \in Int : p = (p % i) + q * i
    BY <2>2 DEF Same
  <2>5. PICK f \in 1 .. i - 1 : f = p % i
    BY <2>2, <2>3
  <2>6. i * q <= p /\ p < i * q + i
    <3>1. i * q = q * i
      BY <2>1
    <3> QED BY <2>1, <2>4, <2>5, <3>1
  <2>7. p \div i = q
    BY <2>1, <2>6, QuotientIs
  <2> QED BY <2>4, <2>5, <2>7
<1>6. Same(e * inv[e], 1, p)
  <2>1. e \in 1 .. J /\ ~(i <= e)
    BY <1>5
  <2> QED BY <1>2, <2>1
<1>7. PICK x \in Int : x = inv[e]
  BY <1>1, <1>5
<1>8. PICK y \in Int : y = 0 - (q * x)
  OBVIOUS
<1>9. inv[i] = y % p
  BY <1>3, <1>4, <1>5, <1>7, <1>8
<1>10. Same(y % p, y, p) /\ y % p \in 0 .. p - 1
  BY <1>0, SameAsRest
<1>11. PICK z \in Int : z = y % p
  BY <1>10
<1>12. Same(i * z, i * y, p)
  <2>1. Same(i, i, p)
    BY SameIsReflexive
  <2> QED BY <1>10, <1>11, <2>1, SameTimes
<1>13. Same(i * y, e * x, p)
  <2>1. i * y = 0 - ((q * i) * x)
    BY <1>8
  <2>2. q * i = p - e
    BY <1>5
  <2>3. PICK u \in Int : u = q * i
    OBVIOUS
  <2>4. i * y = 0 - ((p - e) * x)
    BY <2>1, <2>2, <2>3
  <2>5. 0 - ((p - e) * x) = e * x + (0 - x) * p
    OBVIOUS
  <2>6. 0 - x \in Int
    OBVIOUS
  <2> QED BY <2>4, <2>5, <2>6 DEF Same
<1>14. Same(i * z, 1, p)
  <2>1. i * z \in Int /\ i * y \in Int /\ e * x \in Int
    OBVIOUS
  <2>2. Same(i * z, e * x, p)
    BY <1>12, <1>13, <2>1, SameIsTransitive
  <2>3. Same(e * x, 1, p)
    BY <1>6, <1>7
  <2> QED BY <2>1, <2>2, <2>3, SameIsTransitive
<1> QED BY <1>2, <1>9, <1>11, <1>14

\* The rows of Pascal's triangle, as residues.
ExactRows(J, m) == [s \in Nat |-> [j \in 0 .. Smaller(s, J) |-> Pascal(s, j) % m]]

\* They are rows, and begin as they should.
LEMMA ExactRowsFacts ==
  ASSUME NEW J \in Nat, J >= 1, NEW m \in Nat, m >= 3
  PROVE  Rows(ExactRows(J, m), J) /\ Beginnings(ExactRows(J, m), m)
<1>1. PICK C : Triangle(C)
  BY TriangleExists
<1>2. ASSUME NEW s \in Nat, NEW j \in Nat PROVE Pascal(s, j) \in Nat /\ Pascal(s, j) = C[s][j]
  <2>1. Pascal(s, j) = C[s][j]
    BY <1>1, PascalIs
  <2> QED BY <1>1, <2>1 DEF Triangle
<1>3. ASSUME NEW s \in Nat PROVE IsRow(ExactRows(J, m)[s], s, J)
  <2>1. ASSUME NEW j \in 0 .. Smaller(s, J) PROVE Pascal(s, j) % m \in Int
    <3>1. j \in Nat
      OBVIOUS
    <3>2. PICK x \in Nat : x = Pascal(s, j)
      BY <1>2, <3>1
    <3> QED BY <3>2
  <2> QED BY <2>1 DEF ExactRows, IsRow
<1>4. ASSUME NEW s \in Nat, s >= 1 PROVE Begins(ExactRows(J, m)[s], s, m)
  <2>1. 0 \in 0 .. Smaller(s, J) /\ 1 \in 0 .. Smaller(s, J)
    BY <1>4 DEF Smaller
  <2>2. ExactRows(J, m)[s][0] = Pascal(s, 0) % m /\ ExactRows(J, m)[s][1] = Pascal(s, 1) % m
    BY <2>1 DEF ExactRows
  <2>3. C[s][0] = 1 /\ C[s][1] = s
    BY <1>1, TriangleBegins
  <2>4. Pascal(s, 0) = 1 /\ Pascal(s, 1) = s
    BY <1>2, <2>3
  <2>5. 1 % m = 1
    OBVIOUS
  <2>6. Same(s % m, s, m)
    BY SameAsRest
  <2> QED BY <2>2, <2>4, <2>5, <2>6 DEF Begins
<1> QED BY <1>3, <1>4 DEF Rows, Beginnings

\* Neighbours a and b of a row, v standing for the inverse of e.
Ratio(a, b, e, f, v, p) ==
  /\ p \in Nat \ {0} /\ a \in Int /\ b \in Int /\ e \in Int /\ f \in Int /\ v \in Int
  /\ b * e = a * f
  /\ Same(e * v, 1, p)

NextEntry(a, f, v, p) == ((((a % p) * (f % p)) % p) * v) % p

\* One step of truncated_binomial_row, where the inverse is one.
LEMMA RowStep ==
  ASSUME NEW a, NEW b, NEW e, NEW f, NEW v, NEW p, Ratio(a, b, e, f, v, p)
  PROVE  NextEntry(a, f, v, p) = b % p
<1> USE DEF Ratio
<1>1. PICK x \in Int, y \in Int : x = a % p /\ y = f % p
  <2>1. a % p \in 0 .. p - 1 /\ f % p \in 0 .. p - 1
    BY SameAsRest
  <2> QED BY <2>1
<1>2. Same(x, a, p) /\ Same(y, f, p)
  BY <1>1, SameAsRest
<1>3. Same(x * y, a * f, p)
  BY <1>2, SameTimes
<1>4. PICK z \in Int : z = (x * y) % p
  <2>1. x * y \in Int
    OBVIOUS
  <2>2. (x * y) % p \in 0 .. p - 1
    BY <2>1, SameAsRest
  <2> QED BY <2>2
<1>5. Same(z, x * y, p)
  <2>1. x * y \in Int
    OBVIOUS
  <2> QED BY <1>4, <2>1, SameAsRest
<1>6. Same(z, a * f, p)
  <2>1. x * y \in Int /\ a * f \in Int
    OBVIOUS
  <2> QED BY <1>3, <1>5, <2>1, SameIsTransitive
<1>7. PICK g \in Int : z = b * e + g * p
  <2>1. PICK g \in Int : z = a * f + g * p
    BY <1>6 DEF Same
  <2> QED BY <2>1
<1>8. PICK h \in Int : e * v = 1 + h * p
  BY DEF Same
<1>9. z * v = b + (b * h + g * v) * p
  <2>1. z * v = b * (e * v) + (g * v) * p
    BY <1>7
  <2>2. PICK u \in Int : u = e * v
    OBVIOUS
  <2>3. b * u = b + (b * h) * p
    BY <1>8, <2>2
  <2>4. z * v = (b + (b * h) * p) + (g * v) * p
    BY <2>1, <2>2, <2>3
  <2> QED BY <2>4
<1>10. Same(z * v, b, p)
  <2>1. b * h + g * v \in Int
    OBVIOUS
  <2> QED BY <1>9, <2>1 DEF Same
<1>11. (z * v) % p = b % p
  <2>1. z * v \in Int
    OBVIOUS
  <2> QED BY <1>10, <2>1, RestsOfSame
<1> QED BY <1>1, <1>4, <1>11 DEF NextEntry

\* For a prime modulus the rows of the program are Pascal's.
LEMMA RowsOfPrime ==
  ASSUME NEW p \in Nat, IsPrime(p), NEW J \in Nat, J < p
  PROVE  NativeRows(J, p) = ExactRows(J, p)
<1> DEFINE inv == ModularInverses(J, p)
<1>0. p \in Nat \ {0} /\ p >= 2
  BY DEF IsPrime
<1>1. inv \in [0 .. J -> Int] /\ \A i \in 1 .. J : Same(i * inv[i], 1, p)
  BY <1>0, ReciprocalFacts, ReciprocalsAreInverses
<1>2. NativeRows(J, p) = [s \in Nat |-> BinomialRow(s, J, p, inv)]
  BY DEF NativeRows
<1> HIDE DEF inv
<1>3. PICK C : Triangle(C)
  BY TriangleExists
<1>4. ASSUME NEW s \in Nat
      PROVE  BinomialRow(s, J, p, inv) = [j \in 0 .. Smaller(s, J) |-> Pascal(s, j) % p]
  <2>1. PICK r : r = BinomialRow(s, J, p, inv)
    OBVIOUS
  <2>2. IsRow(r, s, J) /\ r = BinomialStep(s, J, p, inv, r)
    BY <1>0, <1>1, <2>1, BinomialFacts
  <2>3. PICK N \in Nat : N = Smaller(s, J) /\ N <= J /\ N <= s
    BY DEF Smaller
  <2> DEFINE T == {j \in Nat : j <= N => r[j] = C[s][j] % p}
  <2>4. 0 \in T
    <3>1. BinomialStep(s, J, p, inv, r)[0] = 1
      BY <2>3 DEF BinomialStep
    <3>2. C[s][0] = 1 /\ 1 % p = 1
      BY <1>0, <1>3, TriangleBegins
    <3>3. r[0] = 1
      BY <2>2, <3>1
    <3> QED BY <3>2, <3>3
  <2>5. ASSUME NEW j \in Nat, j \in T PROVE j + 1 \in T
    <3> SUFFICES ASSUME j + 1 <= N PROVE r[j + 1] = C[s][j + 1] % p
      OBVIOUS
    <3>1. PICK e \in Nat : e = j + 1 /\ e >= 1 /\ e <= N /\ j <= N /\ e - 1 = j /\ e \in 0 .. N
      OBVIOUS
    <3>2. PICK a \in Nat, b \in Nat : a = C[s][j] /\ b = C[s][e]
      BY <1>3 DEF Triangle
    <3>3. b * e = a * (s - e + 1)
      <4>1. Absorbs(C, s)
        BY <1>3, Absorption
      <4> QED BY <3>1, <3>2, <4>1 DEF Absorbs
    <3>4. PICK v \in Int : v = inv[e] /\ Same(e * v, 1, p)
      <4>1. e \in 0 .. J /\ e \in 1 .. J
        BY <2>3, <3>1
      <4> QED BY <1>1, <4>1
    <3>5. BinomialStep(s, J, p, inv, r)[e] = (((r[e - 1] * ((s - e + 1) % p)) % p) * inv[e]) % p
      BY <2>3, <3>1 DEF BinomialStep
    <3>6. r[j] = a % p
      BY <2>5, <3>1, <3>2
    <3>7. r[e] = ((((a % p) * ((s - e + 1) % p)) % p) * v) % p
      BY <2>2, <3>1, <3>4, <3>5, <3>6
    <3>8. PICK f \in Int : f = s - e + 1
      OBVIOUS
    <3>9. r[e] = b % p
      <4>1. Ratio(a, b, e, f, v, p)
        BY <1>0, <3>3, <3>4, <3>8 DEF Ratio
      <4>2. r[e] = NextEntry(a, f, v, p)
        BY <3>7, <3>8 DEF NextEntry
      <4>3. NextEntry(a, f, v, p) = b % p
        BY <4>1, RowStep
      <4> QED BY <4>2, <4>3
    <3> QED BY <3>1, <3>2, <3>9
  <2>6. \A j \in Nat : j \in T
    <3> HIDE DEF T
    <3> QED BY <2>4, <2>5, SetOfAllNaturals
  <2>7. ASSUME NEW j \in 0 .. N PROVE r[j] = Pascal(s, j) % p
    <3>1. j \in Nat /\ j <= N
      OBVIOUS
    <3>2. r[j] = C[s][j] % p
      BY <2>6, <3>1
    <3>3. Pascal(s, j) = C[s][j]
      BY <1>3, <3>1, PascalIs
    <3> QED BY <3>2, <3>3
  <2>8. r = [j \in 0 .. N |-> r[j]]
    BY <2>2, <2>3 DEF IsRow
  <2>9. r = [j \in 0 .. N |-> Pascal(s, j) % p]
    BY <2>7, <2>8
  <2> QED BY <2>1, <2>3, <2>9
<1> QED BY <1>2, <1>4 DEF ExactRows

\* ExactPrefix is the last entry of its table.
LEMMA ExactPrefixIsTable ==
  ASSUME NEW N \in Nat
  PROVE  ExactPrefix(N) = GermTable(order, jet_order, modulus, ExactRows(jet_order, modulus), N)[N]
<1> DEFINE G(g) == [f \in 0 .. N |->
                      IF f = 0 THEN UnitTensor(order, jet_order)
                      ELSE ApplyFactor(g[f - 1], order, jet_order, modulus, PascalRow(f), f)]
<1>1. ExactPrefix(N) = (CHOOSE g : g = G(g))[N]
  BY DEF ExactPrefix, Evaluated
<1>2. ASSUME NEW g PROVE G(g) = GermStep(order, jet_order, modulus, ExactRows(jet_order, modulus), N, g)
  <2>1. \A f \in 0 .. N : ExactRows(jet_order, modulus)[f] = PascalRow(f)
    BY DEF ExactRows, PascalRow
  <2> QED BY <2>1 DEF GermStep
<1> HIDE DEF G
<1>3. (CHOOSE g : g = G(g)) = GermTable(order, jet_order, modulus, ExactRows(jet_order, modulus), N)
  BY <1>2 DEF GermTable
<1> QED BY <1>1, <1>3

(* ------------------------------ divisibility --------------------------- *)

\* A multiple leaves no remainder, and what leaves none is a multiple.
LEMMA ZeroRest ==
  ASSUME NEW d \in Nat \ {0}, NEW x \in Int
  PROVE  x % d = 0 <=> Same(x, 0, d)
<1>1. x % d = 0 => Same(x, 0, d)
  <2>1. Same(x, x % d, d)
    BY SameAsRest
  <2> QED BY <2>1
<1>2. Same(x, 0, d) => x % d = 0
  <2>1. 0 \in 0 .. d - 1
    OBVIOUS
  <2> QED BY <2>1, RestIsSmall
<1> QED BY <1>1, <1>2

\* Euclid: a prime that divides a product divides a factor.
LEMMA EuclidsLemma ==
  ASSUME NEW q \in Nat, IsPrime(q), NEW a \in Int, NEW b \in Int, Same(a * b, 0, q)
  PROVE  Same(a, 0, q) \/ Same(b, 0, q)
<1>0. q \in Nat \ {0}
  BY DEF IsPrime
<1> SUFFICES ASSUME ~Same(a, 0, q) PROVE Same(b, 0, q)
  OBVIOUS
<1>1. a % q \in 0 .. q - 1 /\ a % q # 0 /\ Same(a, a % q, q)
  BY <1>0, SameAsRest, ZeroRest
<1>2. PICK r \in 1 .. q - 1 : r = a % q
  BY <1>1
<1>3. PICK c \in 1 .. q - 1 : Same(r * c, 1, q)
  BY InverseExists DEF Cancel
<1>4. PICK x \in Int : a = r + x * q
  BY <1>1, <1>2 DEF Same
<1>5. PICK y \in Int : r * c = 1 + y * q
  BY <1>3 DEF Same
<1>6. PICK z \in Int : a * b = z * q
  <2>1. PICK z \in Int : a * b = 0 + z * q
    BY DEF Same
  <2> QED BY <2>1
<1>7. b = (z * c - x * b * c - y * b) * q
  <2>1. (a * b) * c = (r + x * q) * b * c
    BY <1>4
  <2>2. (r + x * q) * b * c = (r * c) * b + (x * b * c) * q
    OBVIOUS
  <2>3. PICK u \in Int : u = r * c
    OBVIOUS
  <2>4. u * b = b + (y * b) * q
    BY <1>5, <2>3
  <2>5. PICK v \in Int : v = a * b
    OBVIOUS
  <2>6. v * c = (z * c) * q
    BY <1>6, <2>5
  <2>7. (z * c) * q = (b + (y * b) * q) + (x * b * c) * q
    BY <2>1, <2>2, <2>3, <2>4, <2>5, <2>6
  <2>8. PICK f \in Int, g \in Int, h \in Int : f = z * c /\ g = y * b /\ h = x * b * c
    OBVIOUS
  <2>9. f * q = (b + g * q) + h * q
    BY <2>7, <2>8
  <2>10. b = (f - h - g) * q
    BY <2>9
  <2> QED BY <2>8, <2>10
<1>8. PICK w \in Int : w = z * c - x * b * c - y * b
  OBVIOUS
<1>9. b = 0 + w * q
  BY <1>7, <1>8
<1> QED BY <1>9 DEF Same

\* Every number from two on has a prime divisor.
LEMMA PrimeDivisorExists ==
  ASSUME NEW x \in Nat, x >= 2
  PROVE  \E q \in 2 .. x : IsPrime(q) /\ Same(x, 0, q)
<1> DEFINE D == {d \in Nat : d >= 2 /\ Same(x, 0, d)}
<1>1. x \in D
  <2>1. x = 0 + 1 * x
    OBVIOUS
  <2> QED BY <2>1 DEF Same
<1>2. PICK q \in D : \A d \in D : q <= d
  <2>1. D \subseteq Nat /\ D # {}
    BY <1>1
  <2> HIDE DEF D
  <2> QED BY <2>1, LeastNatural
<1>3. IsPrime(q)
  <2> SUFFICES ASSUME NEW d \in 2 .. q - 1, q % d = 0 PROVE FALSE
    BY DEF IsPrime
  <2>1. d \in Nat \ {0} /\ q \in Int
    OBVIOUS
  <2>2. Same(q, 0, d)
    BY <2>1, ZeroRest
  <2>3. PICK a \in Int : q = a * d
    <3>1. PICK a \in Int : q = 0 + a * d
      BY <2>2 DEF Same
    <3> QED BY <3>1
  <2>4. PICK b \in Int : x = b * q
    <3>1. PICK b \in Int : x = 0 + b * q
      BY DEF Same
    <3> QED BY <3>1
  <2>5. x = 0 + (b * a) * d /\ b * a \in Int
    BY <2>3, <2>4
  <2>6. d \in D
    BY <2>1, <2>5 DEF Same
  <2> QED BY <1>2, <2>6
<1>4. q \in 2 .. x
  BY <1>1, <1>2
<1> QED BY <1>3, <1>4

\* The primes that divide an order.
PrimesOf(n) == {q \in 2 .. n : IsPrime(q) /\ n % q = 0}

\* The order as a multiple of such a prime.
LEMMA PrimesOfFacts ==
  ASSUME NEW n \in Nat, NEW q \in PrimesOf(n)
  PROVE  /\ q \in Nat /\ q >= 2 /\ q <= n /\ IsPrime(q)
         /\ n \div q \in Nat /\ n \div q >= 1 /\ n = q * (n \div q)
<1>1. q \in Nat \ {0} /\ q >= 2 /\ q <= n /\ IsPrime(q) /\ n % q = 0
  BY DEF PrimesOf
<1>2. Same(n, 0, q)
  BY <1>1, ZeroRest
<1>3. PICK e \in Int : n = 0 + e * q
  BY <1>2 DEF Same
<1>4. n = q * e
  BY <1>1, <1>3
<1>5. q * e <= n /\ n < q * e + q
  BY <1>1, <1>4
<1>6. n \div q = e
  BY <1>1, <1>5, QuotientIs
<1>7. e >= 1
  <2>1. ASSUME e < 1 PROVE FALSE
    <3>1. e <= 0
      BY <2>1
    <3>2. q * e <= 0
      BY <1>1, <3>1
    <3> QED BY <1>1, <1>4, <3>2
  <2> QED BY <2>1
<1> QED BY <1>1, <1>4, <1>6, <1>7

\* Different primes do not divide each other.
LEMMA PrimesAreApart ==
  ASSUME NEW q \in Nat, IsPrime(q), NEW a \in Nat, IsPrime(a), q # a
  PROVE  ~Same(a, 0, q)
<1> SUFFICES ASSUME Same(a, 0, q) PROVE FALSE
  OBVIOUS
<1>1. q >= 2 /\ a >= 2 /\ q \in Nat \ {0}
  BY DEF IsPrime
<1>2. a % q = 0
  BY <1>1, ZeroRest
<1>3. q <= a
  <2>1. PICK c \in Int : a = 0 + c * q
    BY DEF Same
  <2>2. c >= 1
    <3>1. ASSUME c < 1 PROVE FALSE
      <4>1. c <= 0
        BY <3>1
      <4>2. c * q <= 0
        BY <1>1, <4>1
      <4> QED BY <1>1, <2>1, <4>2
    <3> QED BY <3>1
  <2>3. c * q >= q
    BY <1>1, <2>2
  <2> QED BY <2>1, <2>3
<1>4. q \in 2 .. a - 1
  BY <1>1, <1>3
<1> QED BY <1>2, <1>4 DEF IsPrime

(* ------------------------------- periods ------------------------------- *)

\* The distances at which a wave repeats modulo p.
Periods(h, p) == {d \in Int : \A i \in Int : Same(h[i + d], h[i], p)}

\* They can be added, subtracted and multiplied.
LEMMA PeriodsFacts ==
  ASSUME NEW h \in Wave, NEW p \in Int
  PROVE  /\ 0 \in Periods(h, p)
         /\ \A d, e \in Periods(h, p) : d + e \in Periods(h, p) /\ d - e \in Periods(h, p)
         /\ \A d \in Periods(h, p) : \A c \in Int : c * d \in Periods(h, p)
<1> DEFINE P == Periods(h, p)
<1>0. \A i \in Int : h[i] \in Int
  BY DEF Wave
<1>1. 0 \in P
  <2>1. ASSUME NEW i \in Int PROVE Same(h[i + 0], h[i], p)
    <3>1. i + 0 = i
      OBVIOUS
    <3> QED BY <1>0, <3>1, SameIsReflexive
  <2> QED BY <2>1 DEF Periods
<1>2. ASSUME NEW d \in P, NEW e \in P PROVE d + e \in P
  <2>0. d \in Int /\ e \in Int
    BY DEF Periods
  <2>1. ASSUME NEW i \in Int PROVE Same(h[i + (d + e)], h[i], p)
    <3>1. PICK u \in Int : u = i + d
      BY <2>0
    <3>2. i + (d + e) = u + e
      BY <2>0, <3>1
    <3>3. Same(h[u + e], h[u], p) /\ Same(h[u], h[i], p)
      BY <3>1 DEF Periods
    <3>4. h[u + e] \in Int /\ h[u] \in Int /\ h[i] \in Int
      BY <1>0, <2>0
    <3> QED BY <3>2, <3>3, <3>4, SameIsTransitive
  <2> QED BY <2>0, <2>1 DEF Periods
<1>3. ASSUME NEW e \in P PROVE 0 - e \in P
  <2>0. e \in Int
    BY DEF Periods
  <2>1. ASSUME NEW i \in Int PROVE Same(h[i + (0 - e)], h[i], p)
    <3>1. PICK u \in Int : u = i + (0 - e)
      BY <2>0
    <3>2. u + e = i
      BY <2>0, <3>1
    <3>3. Same(h[u + e], h[u], p)
      BY DEF Periods
    <3>4. h[u] \in Int /\ h[i] \in Int
      BY <1>0
    <3> QED BY <3>1, <3>2, <3>3, <3>4, SameIsSymmetric
  <2> QED BY <2>0, <2>1 DEF Periods
<1>4. ASSUME NEW d \in P, NEW e \in P PROVE d - e \in P
  <2>1. d \in Int /\ e \in Int /\ 0 - e \in P
    BY <1>3 DEF Periods
  <2>2. d + (0 - e) \in P
    BY <1>2, <2>1
  <2>3. d + (0 - e) = d - e
    BY <2>1
  <2> QED BY <2>2, <2>3
<1>5. ASSUME NEW d \in P PROVE \A c \in Int : c * d \in P
  <2>0. d \in Int
    BY DEF Periods
  <2> DEFINE T == {c \in Nat : c * d \in P}
  <2>1. 0 \in T
    <3>1. 0 * d = 0
      BY <2>0
    <3> QED BY <1>1, <3>1
  <2>2. ASSUME NEW c \in Nat, c \in T PROVE c + 1 \in T
    <3>1. c * d + d \in P
      BY <1>2, <2>2
    <3>2. (c + 1) * d = c * d + d
      BY <2>0
    <3> QED BY <3>1, <3>2
  <2>3. \A c \in Nat : c \in T
    <3> HIDE DEF T
    <3> QED BY <2>1, <2>2, SetOfAllNaturals
  <2>4. ASSUME NEW c \in Int PROVE c * d \in P
    <3>1. CASE c >= 0
      <4>1. c \in Nat
        BY <3>1
      <4>2. c \in T
        BY <2>3, <4>1
      <4> QED BY <4>2
    <3>2. CASE c < 0
      <4>1. PICK b \in Nat : b = 0 - c
        BY <3>2
      <4>2. b \in T
        BY <2>3
      <4>3. 0 - (b * d) \in P
        BY <1>3, <4>2
      <4>4. c * d = 0 - (b * d)
        BY <2>0, <4>1
      <4> QED BY <4>3, <4>4
    <3> QED BY <3>1, <3>2
  <2> QED BY <2>4
<1> QED BY <1>1, <1>2, <1>4, <1>5

\* A period that is no multiple of the order leaves a period that divides the
\* order by one of its primes.
LEMMA ShortPeriod ==
  ASSUME NEW n \in Nat \ {0}, NEW h \in Wave, NEW p \in Int, n \in Periods(h, p),
         NEW s \in Nat, s \in Periods(h, p), s % n # 0
  PROVE  \E q \in PrimesOf(n) : n \div q \in Periods(h, p)
<1> DEFINE P == Periods(h, p)
           D == {d \in Nat : d >= 1 /\ d \in P}
<1>1. PICK g \in D : \A d \in D : g <= d
  <2>1. D \subseteq Nat /\ n \in D
    OBVIOUS
  <2> HIDE DEF D
  <2> QED BY <2>1, LeastNatural
<1>2. g \in Nat \ {0} /\ g \in P
  OBVIOUS
<1>3. ASSUME NEW x \in Nat, x \in P PROVE \E c \in Int : x = c * g
  <2>0. x \in Int /\ g \in Nat \ {0}
    BY <1>2
  <2>1. x % g \in 0 .. g - 1 /\ Same(x, x % g, g)
    <3> HIDE DEF D
    <3> QED BY <2>0, SameAsRest
  <2>2. PICK r \in 0 .. g - 1 : r = x % g
    BY <2>1
  <2>3. PICK c \in Int : x = r + c * g
    BY <2>1, <2>2 DEF Same
  <2>4. c * g \in P
    BY <1>2, PeriodsFacts
  <2>5. x - c * g \in P
    BY <1>3, <2>4, PeriodsFacts
  <2>6. r = x - c * g
    BY <1>2, <2>3
  <2>7. r = 0
    <3>1. ASSUME r # 0 PROVE FALSE
      <4>1. r \in D
        BY <2>5, <2>6, <3>1
      <4>2. ~(g <= r)
        BY <1>2
      <4> QED BY <1>1, <4>1, <4>2
    <3> QED BY <3>1
  <2> QED BY <1>2, <2>3, <2>7
<1>4. PICK c \in Int : n = c * g
  BY <1>3
<1>5. PICK x \in Int : s = x * g
  BY <1>3
<1>6. g # n
  <2>1. ASSUME g = n PROVE FALSE
    <3>1. s = 0 + x * n
      BY <1>5, <2>1
    <3>2. Same(s, 0, n)
      BY <3>1 DEF Same
    <3> QED BY <3>2, ZeroRest
  <2> QED BY <2>1
<1>7. c \in Nat /\ c >= 2
  <2>1. ASSUME c <= 0 PROVE FALSE
    <3>1. c * g <= 0
      BY <1>2, <2>1
    <3> QED BY <1>4, <3>1
  <2>2. c # 1
    BY <1>2, <1>4, <1>6
  <2> QED BY <2>1, <2>2
<1>8. PICK q \in 2 .. c : IsPrime(q) /\ Same(c, 0, q)
  BY <1>7, PrimeDivisorExists
<1>9. PICK u \in Int : c = u * q
  <2>1. PICK u \in Int : c = 0 + u * q
    BY <1>8 DEF Same
  <2> QED BY <2>1
<1>10. n = (u * g) * q
  BY <1>2, <1>4, <1>9
<1>11. PICK v \in Int : v = u * g
  BY <1>2
<1>12. q \in PrimesOf(n)
  <2>1. n = 0 + v * q
    BY <1>10, <1>11
  <2>2. Same(n, 0, q) /\ q \in Nat \ {0}
    BY <2>1 DEF Same
  <2>3. n % q = 0
    BY <2>2, ZeroRest
  <2>4. q <= n
    <3>1. c <= c * g
      BY <1>2, <1>7
    <3> QED BY <1>4, <3>1
  <2> QED BY <1>8, <2>3, <2>4 DEF PrimesOf
<1>13. n \div q = v
  <2>1. q * v <= n /\ n < q * v + q
    <3>1. q * v = v * q
      OBVIOUS
    <3> QED BY <1>10, <1>11, <3>1
  <2>2. q \in Nat \ {0}
    OBVIOUS
  <2> QED BY <2>1, <2>2, QuotientIs
<1>14. v \in P
  BY <1>2, <1>11, PeriodsFacts
<1> QED BY <1>12, <1>13, <1>14

(* ------------------------- waves that do not die ------------------------ *)

\* A wave that is zero modulo p.
NullMod(h, p) == \A i \in Int : Same(h[i], 0, p)

\* A wave that is a difference at the distance of a proper divisor.
Potential(h, n, q) ==
  \E w : Periodic(w, n) /\ \A i \in Int : h[i] = w[i] - w[i - (n \div q)]

\* The waves that are one such difference for every prime of the order.
Balanced(h, n) == Periodic(h, n) /\ \A q \in PrimesOf(n) : Potential(h, n, q)

\* What a period modulo p makes of a potential.
LEMMA PotentialClimbs ==
  ASSUME NEW h \in Wave, NEW w \in Wave, NEW e \in Int, NEW p \in Int,
         e \in Periods(h, p), \A i \in Int : h[i] = w[i] - w[i - e]
  PROVE  \A j \in Nat : \A i \in Int : Same(w[i + j * e], w[i] + j * h[i], p)
<1> DEFINE T == {j \in Nat : \A i \in Int : Same(w[i + j * e], w[i] + j * h[i], p)}
<1>0. \A i \in Int : h[i] \in Int /\ w[i] \in Int
  BY DEF Wave
<1>1. 0 \in T
  <2>1. ASSUME NEW i \in Int PROVE Same(w[i + 0 * e], w[i] + 0 * h[i], p)
    <3>1. i + 0 * e = i /\ w[i] + 0 * h[i] = w[i] /\ w[i] \in Int
      BY <1>0
    <3> QED BY <3>1, SameIsReflexive
  <2> QED BY <2>1
<1>2. ASSUME NEW j \in Nat, j \in T PROVE j + 1 \in T
  <2>1. ASSUME NEW i \in Int PROVE Same(w[i + (j + 1) * e], w[i] + (j + 1) * h[i], p)
    <3>1. PICK u \in Int : u = i + (j + 1) * e
      OBVIOUS
    <3>2. PICK v \in Int : v = i + j * e
      OBVIOUS
    <3>3. u - e = v
      BY <3>1, <3>2
    <3>4. w[u] = w[v] + h[u]
      BY <1>0, <3>3
    <3>5. Same(w[v], w[i] + j * h[i], p)
      BY <1>2, <3>2
    <3>6. Same(h[u], h[i], p)
      <4>1. (j + 1) * e \in Periods(h, p)
        BY PeriodsFacts
      <4> QED BY <3>1, <4>1 DEF Periods
    <3>7. PICK x \in Int, y \in Int, z \in Int, b \in Int : x = w[v] /\ y = h[u] /\ z = h[i] /\ b = w[i]
      BY <1>0
    <3>8. PICK c \in Int : c = j * z
      OBVIOUS
    <3>9. Same(x + y, (b + c) + z, p)
      <4>1. Same(x, b + c, p) /\ Same(y, z, p) /\ b + c \in Int
        BY <3>5, <3>6, <3>7, <3>8
      <4> QED BY <4>1, SamePlus
    <3>10. (b + c) + z = b + (j + 1) * z
      BY <3>8
    <3> QED BY <3>1, <3>4, <3>7, <3>9, <3>10
  <2> QED BY <2>1
<1>3. \A j \in Nat : j \in T
  <2> HIDE DEF T
  <2> QED BY <1>1, <1>2, SetOfAllNaturals
<1> QED BY <1>3

\* A balanced wave that 1 - S^s kills, s no multiple of the order, is zero.
LEMMA DifferenceIsInjective ==
  ASSUME NEW n \in Nat \ {0}, NEW p \in Nat, IsPrime(p), ~Same(n, 0, p),
         NEW h, Balanced(h, n), NEW s \in Nat, s % n # 0,
         \A i \in Int : Same(h[i] - h[i - s], 0, p)
  PROVE  NullMod(h, p)
<1>0. h \in Wave /\ \A i \in Int : h[i] \in Int /\ h[i + n] = h[i]
  BY DEF Balanced, Periodic, Wave
<1>1. n \in Periods(h, p)
  <2>1. ASSUME NEW i \in Int PROVE Same(h[i + n], h[i], p)
    BY <1>0, SameIsReflexive
  <2> QED BY <2>1 DEF Periods
<1>2. s \in Periods(h, p)
  <2>1. ASSUME NEW i \in Int PROVE Same(h[i + s], h[i], p)
    <3>1. PICK u \in Int : u = i + s
      OBVIOUS
    <3>2. u - s = i
      BY <3>1
    <3>3. Same(h[u] - h[i], 0, p)
      BY <3>2
    <3>4. PICK x \in Int, y \in Int : x = h[u] /\ y = h[i]
      BY <1>0
    <3>5. PICK c \in Int : x - y = 0 + c * p
      BY <3>3, <3>4 DEF Same
    <3>6. x = y + c * p
      BY <3>5
    <3> QED BY <3>1, <3>4, <3>6 DEF Same
  <2> QED BY <2>1 DEF Periods
<1>3. PICK q \in PrimesOf(n) : n \div q \in Periods(h, p)
  BY <1>0, <1>1, <1>2, ShortPeriod
<1>4. PICK e \in Nat : e = n \div q
  BY PrimesOfFacts
<1>5. q \in Nat /\ n = q * e
  BY <1>4, PrimesOfFacts
<1>6. PICK w : Periodic(w, n) /\ \A i \in Int : h[i] = w[i] - w[i - (n \div q)]
  BY DEF Balanced, Potential
<1>7. \A j \in Nat : \A i \in Int : Same(w[i + j * e], w[i] + j * h[i], p)
  <2>1. w \in Wave /\ e \in Int /\ p \in Int /\ e \in Periods(h, p)
    BY <1>3, <1>4, <1>6 DEF Periodic
  <2>2. \A i \in Int : h[i] = w[i] - w[i - e]
    BY <1>4, <1>6
  <2> QED BY <1>0, <2>1, <2>2, PotentialClimbs
<1>8. ~Same(q, 0, p)
  <2>1. ASSUME Same(q, 0, p) PROVE FALSE
    <3>1. PICK c \in Int : q = 0 + c * p
      BY <2>1 DEF Same
    <3>2. n = 0 + (c * e) * p /\ c * e \in Int
      BY <1>5, <3>1
    <3> QED BY <3>2 DEF Same
  <2> QED BY <2>1
<1>9. ASSUME NEW i \in Int PROVE Same(h[i], 0, p)
  <2>1. Same(w[i + q * e], w[i] + q * h[i], p)
    BY <1>5, <1>7
  <2>2. w[i + q * e] = w[i]
    BY <1>5, <1>6 DEF Periodic
  <2>3. PICK x \in Int, y \in Int : x = w[i] /\ y = h[i]
    BY <1>0, <1>6 DEF Periodic, Wave
  <2>4. PICK z \in Int : z = q * y
    BY <1>5
  <2>5. PICK c \in Int : x = (x + z) + c * p
    BY <2>1, <2>2, <2>3, <2>4 DEF Same
  <2>6. z = 0 + (-c) * p /\ -c \in Int
    BY <2>5
  <2>7. Same(q * y, 0, p)
    BY <2>4, <2>6 DEF Same
  <2>8. q \in Int
    BY <1>5
  <2> QED BY <1>8, <2>3, <2>7, <2>8, EuclidsLemma
<1> QED BY <1>9 DEF NullMod

\* A factor keeps a wave balanced.
LEMMA LedKeepsBalance ==
  ASSUME NEW n \in Nat \ {0}, NEW h, Balanced(h, n), NEW s \in Nat, NEW v,
         Periodic(v, n), Led(v, h, n, s)
  PROVE  Balanced(v, n)
<1>1. ASSUME NEW q \in PrimesOf(n) PROVE Potential(v, n, q)
  <2>1. PICK w : Periodic(w, n) /\ \A i \in Int : h[i] = w[i] - w[i - (n \div q)]
    BY DEF Balanced, Potential
  <2>2. Periodic(LedWave(w, n, s), n) /\ Led(LedWave(w, n, s), w, n, s)
    BY <2>1, LedIsPeriodic
  <2>3. PICK x : x = LedWave(w, n, s)
    OBVIOUS
  <2>4. PICK e \in Nat : e = n \div q
    BY PrimesOfFacts
  <2>5. \A i \in Int : w[i] \in Int /\ h[i] = w[i] - w[i - e]
    BY <2>1, <2>4 DEF Periodic, Wave
  <2>6. ASSUME NEW i \in Int PROVE v[i] = x[i] - x[i - e]
    <3>1. i - e \in Int /\ i - s \in Int /\ (i - s) - e \in Int /\ (i - e) - s = (i - s) - e
      OBVIOUS
    <3>2. PICK a \in Int, b \in Int, c \in Int, d \in Int :
            a = w[i] /\ b = w[i - e] /\ c = w[i - s] /\ d = w[(i - s) - e]
      BY <2>5, <3>1
    <3>3. h[i] = a - b /\ h[i - s] = c - d
      BY <2>5, <3>1, <3>2
    <3>4. CASE s % n = 0
      <4>1. v[i] = (0 - s) * (a - b)
        BY <3>3, <3>4 DEF Led
      <4>2. x[i] = (0 - s) * a
        BY <2>2, <2>3, <3>2, <3>4 DEF Led
      <4>3. x[i - e] = (0 - s) * b
        BY <2>2, <2>3, <3>1, <3>2, <3>4 DEF Led
      <4>4. (0 - s) * (a - b) = (0 - s) * a - (0 - s) * b
        OBVIOUS
      <4> QED BY <4>1, <4>2, <4>3, <4>4
    <3>5. CASE s % n # 0
      <4>1. v[i] = (a - b) - (c - d)
        BY <3>3, <3>5 DEF Led
      <4>2. x[i] = a - c
        BY <2>2, <2>3, <3>2, <3>5 DEF Led
      <4>3. x[i - e] = b - d
        BY <2>2, <2>3, <3>1, <3>2, <3>5 DEF Led
      <4> QED BY <4>1, <4>2, <4>3
    <3> QED BY <3>4, <3>5
  <2> QED BY <2>2, <2>3, <2>4, <2>6 DEF Potential
<1> QED BY <1>1 DEF Balanced

\* A factor within a turn does not kill a balanced wave ...
LEMMA WithinLives ==
  ASSUME NEW n \in Nat \ {0}, NEW p \in Nat, IsPrime(p), ~Same(n, 0, p),
         NEW h, Balanced(h, n), NEW s \in Nat, s % n # 0, NEW v, Led(v, h, n, s),
         NullMod(v, p)
  PROVE  NullMod(h, p)
<1>1. ASSUME NEW i \in Int PROVE Same(h[i] - h[i - s], 0, p)
  BY DEF NullMod, Led
<1> QED BY <1>1, DifferenceIsInjective

\* ... and one at the end of a turn kills no wave before the p-th turn.
LEMMA TurnLives ==
  ASSUME NEW n \in Nat \ {0}, NEW p \in Nat, IsPrime(p), ~Same(n, 0, p),
         NEW h \in Wave, NEW s \in Nat, s % n = 0, s >= 1, s \div n < p, NEW v, Led(v, h, n, s),
         NullMod(v, p)
  PROVE  NullMod(h, p)
<1>0. p \in Int /\ p >= 2 /\ s \in Int /\ n \in Int
  BY DEF IsPrime
<1>1. PICK t \in Nat : t = s \div n
  BY Division
<1>2. PICK c \in Int : s = c * n
  <2>1. Same(s, 0, n)
    BY <1>0, ZeroRest
  <2>2. PICK c \in Int : s = 0 + c * n
    BY <2>1 DEF Same
  <2> QED BY <2>2
<1>3. t = c
  <2>1. n * c <= s /\ s < n * c + n
    <3>1. n * c = c * n
      OBVIOUS
    <3> QED BY <1>2, <3>1
  <2> QED BY <1>1, <2>1, QuotientIs
<1>4. t >= 1
  <2>1. ASSUME t = 0 PROVE FALSE
    BY <1>2, <1>3, <2>1
  <2> QED BY <2>1
<1>5. ~Same(t, 0, p)
  <2>1. t \in 0 .. p - 1 /\ 0 \in 0 .. p - 1 /\ p \in Nat \ {0}
    BY <1>0, <1>1
  <2> QED BY <1>4, <2>1, SameOfSmall
<1>6. ~Same(0 - s, 0, p)
  <2>1. ASSUME Same(0 - s, 0, p) PROVE FALSE
    <3>1. PICK d \in Int : 0 - s = 0 + d * p
      BY <2>1 DEF Same
    <3>2. PICK f \in Int : f = -d
      OBVIOUS
    <3>3. Same(t * n, 0, p)
      <4>1. t * n = 0 + f * p
        BY <1>0, <1>2, <1>3, <3>1, <3>2
      <4> QED BY <4>1 DEF Same
    <3>4. t \in Int
      OBVIOUS
    <3> QED BY <1>0, <1>5, <3>3, <3>4, EuclidsLemma
  <2> QED BY <2>1
<1>7. ASSUME NEW i \in Int PROVE Same(h[i], 0, p)
  <2>1. Same((0 - s) * h[i], 0, p)
    BY DEF NullMod, Led
  <2>2. h[i] \in Int /\ 0 - s \in Int
    BY <1>0 DEF Wave
  <2> QED BY <1>6, <2>1, <2>2, EuclidsLemma
<1> QED BY <1>7 DEF NullMod

\* The orbit of a balanced wave that is not zero modulo p is not zero before
\* the p-th turn.
LEMMA BalancedOrbitLives ==
  ASSUME NEW n \in Nat \ {0}, NEW p \in Nat, IsPrime(p), ~Same(n, 0, p),
         NEW Y, Orbit(Y, n), Balanced(Y[0], n), ~NullMod(Y[0], p)
  PROVE  \A s \in Nat : s \div n < p => ~NullMod(Y[s], p)
<1> DEFINE T == {s \in Nat : Balanced(Y[s], n) /\ (s \div n < p => ~NullMod(Y[s], p))}
<1>1. 0 \in T
  OBVIOUS
<1>2. ASSUME NEW s \in Nat, s \in T PROVE s + 1 \in T
  <2>1. Balanced(Y[s], n) /\ (s \div n < p => ~NullMod(Y[s], p))
    BY <1>2
  <2>2. PICK r \in Nat : r = s + 1 /\ r >= 1
    OBVIOUS
  <2>3. Periodic(Y[r], n) /\ Led(Y[r], Y[s], n, r) /\ Y[s] \in Wave
    BY <2>2 DEF Orbit
  <2>4. Balanced(Y[r], n)
    BY <2>1, <2>3, LedKeepsBalance
  <2>5. ASSUME r \div n < p PROVE ~NullMod(Y[r], p)
    <3>1. s \div n < p
      <4>1. /\ s \div n \in Nat
            /\ r \div n = IF r % n = 0 THEN s \div n + 1 ELSE s \div n
        BY <2>2, NextQuotient
      <4>2. PICK x \in Nat : x = s \div n
        BY <4>1
      <4>3. r \div n = x + 1 \/ r \div n = x
        BY <4>1, <4>2
      <4> QED BY <2>5, <4>2, <4>3
    <3>2. ~NullMod(Y[s], p)
      BY <2>1, <3>1
    <3>3. CASE r % n = 0
      BY <2>2, <2>3, <2>5, <3>2, <3>3, TurnLives
    <3>4. CASE r % n # 0
      BY <2>1, <2>2, <2>3, <3>2, <3>4, WithinLives
    <3> QED BY <3>3, <3>4
  <2> QED BY <2>2, <2>4, <2>5
<1>3. \A s \in Nat : s \in T
  <2> HIDE DEF T
  <2> QED BY <1>1, <1>2, SetOfAllNaturals
<1> QED BY <1>3

(* ------------------------ balancing an orbit --------------------------- *)

\* Where a wave is not zero, a multiplier prime to q brings it to the order.
Supported(h, n, q) ==
  \A i \in Int : h[i] # 0 => \E u \in Int : ~Same(u, 0, q) /\ Same(i * u, 0, n)

\* The difference of an orbit at a distance.
Stepped(Y, e) == [s \in Nat |-> [i \in Int |-> Y[s][i] - Y[s][i - e]]]

\* It is an orbit again, and zero wherever the first one is.
LEMMA SteppedIsOrbit ==
  ASSUME NEW n \in Nat \ {0}, NEW Y, Orbit(Y, n), NEW e \in Int
  PROVE  /\ Orbit(Stepped(Y, e), n)
         /\ \A p \in Int : \A s \in Nat : NullMod(Y[s], p) => NullMod(Stepped(Y, e)[s], p)
<1> DEFINE Z == Stepped(Y, e)
<1>0. \A s \in Nat : Y[s] \in Wave /\ \A i \in Int : Y[s][i] \in Int /\ Y[s][i + n] = Y[s][i]
  BY DEF Orbit, Periodic, Wave
<1>1. \A s \in Nat : \A i \in Int : Z[s][i] = Y[s][i] - Y[s][i - e]
  BY DEF Stepped
<1>2. Z \in [Nat -> Wave]
  <2>1. ASSUME NEW s \in Nat PROVE [i \in Int |-> Y[s][i] - Y[s][i - e]] \in Wave
    <3>1. ASSUME NEW i \in Int PROVE Y[s][i] - Y[s][i - e] \in Int
      <4>1. i - e \in Int
        OBVIOUS
      <4>2. PICK x \in Int, y \in Int : x = Y[s][i] /\ y = Y[s][i - e]
        BY <1>0, <4>1
      <4> QED BY <4>2
    <3> QED BY <3>1 DEF Wave
  <2> QED BY <2>1 DEF Stepped
<1> HIDE DEF Z
<1>3. ASSUME NEW s \in Nat PROVE Periodic(Z[s], n)
  <2>1. ASSUME NEW i \in Int PROVE Z[s][i + n] = Z[s][i]
    <3>1. i + n \in Int /\ i - e \in Int /\ (i + n) - e = (i - e) + n
      OBVIOUS
    <3>2. Y[s][i + n] = Y[s][i] /\ Y[s][(i - e) + n] = Y[s][i - e]
      BY <1>0, <3>1
    <3>3. Z[s][i + n] = Y[s][i + n] - Y[s][(i + n) - e]
      BY <1>1, <3>1
    <3> QED BY <1>1, <3>1, <3>2, <3>3
  <2> QED BY <1>2, <2>1 DEF Periodic
<1>4. ASSUME NEW s \in Nat PROVE Led(Z[s + 1], Z[s], n, s + 1)
  <2>0. PICK r \in Nat : r = s + 1
    OBVIOUS
  <2>1. Led(Y[r], Y[s], n, r)
    BY <2>0 DEF Orbit
  <2>2. ASSUME NEW i \in Int
        PROVE  Z[r][i] = IF r % n = 0 THEN (0 - r) * Z[s][i] ELSE Z[s][i] - Z[s][i - r]
    <3>1. i - e \in Int /\ i - r \in Int /\ (i - r) - e \in Int /\ (i - e) - r = (i - r) - e
      OBVIOUS
    <3>2. PICK a \in Int, b \in Int, c \in Int, d \in Int :
            a = Y[s][i] /\ b = Y[s][i - e] /\ c = Y[s][i - r] /\ d = Y[s][(i - r) - e]
      BY <1>0, <3>1
    <3>3. Z[r][i] = Y[r][i] - Y[r][i - e]
      BY <1>1
    <3>4. Z[s][i] = a - b /\ Z[s][i - r] = c - d
      BY <1>1, <3>1, <3>2
    <3>5. CASE r % n = 0
      <4>1. Y[r][i] = (0 - r) * a /\ Y[r][i - e] = (0 - r) * b
        BY <2>1, <3>1, <3>2, <3>5 DEF Led
      <4>2. (0 - r) * (a - b) = (0 - r) * a - (0 - r) * b
        OBVIOUS
      <4> QED BY <3>3, <3>4, <3>5, <4>1, <4>2
    <3>6. CASE r % n # 0
      <4>1. Y[r][i] = a - c /\ Y[r][i - e] = b - d
        BY <2>1, <3>1, <3>2, <3>6 DEF Led
      <4> QED BY <3>3, <3>4, <3>6, <4>1
    <3> QED BY <3>5, <3>6
  <2> QED BY <2>0, <2>2 DEF Led
<1>5. Orbit(Z, n)
  BY <1>2, <1>3, <1>4 DEF Orbit
<1>6. ASSUME NEW p \in Int, NEW s \in Nat, NullMod(Y[s], p) PROVE NullMod(Z[s], p)
  <2>1. ASSUME NEW i \in Int PROVE Same(Z[s][i], 0, p)
    <3>1. i - e \in Int
      OBVIOUS
    <3>2. PICK x \in Int, y \in Int : x = Y[s][i] /\ y = Y[s][i - e]
      BY <1>0, <3>1
    <3>3. PICK a \in Int : x = 0 + a * p
      BY <1>6, <3>2 DEF NullMod, Same
    <3>4. PICK b \in Int : y = 0 + b * p
      BY <1>6, <3>1, <3>2 DEF NullMod, Same
    <3>5. x - y = 0 + (a - b) * p /\ a - b \in Int
      BY <3>3, <3>4
    <3> QED BY <1>1, <3>2, <3>5 DEF Same
  <2> QED BY <2>1 DEF NullMod
<1> QED BY <1>5, <1>6 DEF Z

\* What is left of a support is the support for the other primes.
LEMMA SteppedIsSupported ==
  ASSUME NEW n \in Nat \ {0}, NEW a \in PrimesOf(n), NEW q \in PrimesOf(n), q # a,
         NEW h \in Wave, Supported(h, n, q), NEW v,
         \A i \in Int : v[i] = h[i] - h[i - (n \div a)]
  PROVE  Supported(v, n, q)
<1>0. a \in Nat /\ IsPrime(a) /\ q \in Nat /\ IsPrime(q)
  BY PrimesOfFacts
<1>1. PICK e \in Nat : e = n \div a
  BY PrimesOfFacts
<1>2. n = a * e
  BY <1>1, PrimesOfFacts
<1>3. ~Same(a, 0, q)
  BY <1>0, PrimesAreApart
<1> SUFFICES ASSUME NEW i \in Int, v[i] # 0
             PROVE  \E u \in Int : ~Same(u, 0, q) /\ Same(i * u, 0, n)
  BY DEF Supported
<1>4. CASE h[i] # 0
  BY <1>4 DEF Supported
<1>5. CASE h[i] = 0
  <2>1. PICK j \in Int : j = i - e
    OBVIOUS
  <2>2. PICK y \in Int : y = h[j]
    BY DEF Wave
  <2>3. v[i] = 0 - y
    BY <1>1, <1>5, <2>1, <2>2
  <2>4. h[j] # 0
    BY <2>2, <2>3
  <2>5. PICK u \in Int : ~Same(u, 0, q) /\ Same(j * u, 0, n)
    BY <2>4 DEF Supported
  <2>6. PICK c \in Int : j * u = 0 + c * n
    BY <2>5 DEF Same
  <2>7. ~Same(a * u, 0, q)
    <3>1. a \in Int
      BY <1>0
    <3> QED BY <1>0, <1>3, <2>5, <3>1, EuclidsLemma
  <2>8. i * (a * u) = 0 + (a * c + u) * n
    <3>1. i * (a * u) = a * (j * u) + (a * e) * u
      <4>1. i = j + e
        BY <2>1
      <4>2. PICK x \in Int : x = a * u
        BY <1>0
      <4>3. (j + e) * x = j * x + e * x
        OBVIOUS
      <4>4. j * (a * u) = a * (j * u) /\ e * (a * u) = (a * e) * u
        BY <1>0
      <4> QED BY <4>1, <4>2, <4>3, <4>4
    <3>2. PICK z \in Int : z = j * u
      OBVIOUS
    <3>3. z = c * n
      BY <2>6, <3>2
    <3>4. i * (a * u) = a * (c * n) + n * u
      BY <1>2, <3>1, <3>2, <3>3
    <3>5. a * (c * n) = (a * c) * n
      BY <1>0
    <3> QED BY <1>0, <3>4, <3>5
  <2>9. a * c + u \in Int /\ a * u \in Int
    BY <1>0
  <2>10. PICK w \in Int : w = a * c + u
    BY <2>9
  <2>11. i * (a * u) = 0 + w * n
    BY <2>8, <2>10
  <2>12. Same(i * (a * u), 0, n)
    BY <2>11 DEF Same
  <2> QED BY <2>7, <2>9, <2>12
<1> QED BY <1>4, <1>5

\* The step keeps the value at zero.
LEMMA SteppedAtZero ==
  ASSUME NEW n \in Nat \ {0}, NEW a \in PrimesOf(n), NEW h \in Wave, Supported(h, n, a)
  PROVE  h[0 - (n \div a)] = 0
<1>1. PICK e \in Nat : e = n \div a
  BY PrimesOfFacts
<1>2. n = a * e /\ a \in Nat /\ e >= 1
  BY <1>1, PrimesOfFacts
<1> SUFFICES ASSUME h[0 - (n \div a)] # 0 PROVE FALSE
  OBVIOUS
<1>3. PICK j \in Int : j = 0 - e
  OBVIOUS
<1>4. PICK u \in Int : ~Same(u, 0, a) /\ Same(j * u, 0, n)
  BY <1>1, <1>3 DEF Supported
<1>5. PICK c \in Int : j * u = 0 + c * n
  BY <1>4 DEF Same
<1>6. e * (u + c * a) = 0
  <2>1. 0 - e * u = c * (a * e)
    BY <1>2, <1>3, <1>5
  <2>2. c * (a * e) = e * (c * a)
    BY <1>2
  <2>3. e * (u + c * a) = e * u + e * (c * a)
    BY <1>2
  <2>4. PICK x \in Int, y \in Int : x = e * u /\ y = e * (c * a)
    BY <1>2
  <2> QED BY <2>1, <2>2, <2>3, <2>4
<1>7. PICK z \in Int : z = u + c * a
  BY <1>2
<1>8. z = 0
  BY <1>2, <1>6, <1>7
<1>9. u = 0 + (-c) * a
  BY <1>2, <1>7, <1>8
<1> QED BY <1>4, <1>9 DEF Same

\* An orbit that is balanced at the primes of A and supported at the others,
\* and that is zero wherever X is.
Tempered(Y, X, n, A) ==
  /\ Orbit(Y, n)
  /\ Y[0][0] = 1
  /\ \A q \in A : Potential(Y[0], n, q)
  /\ \A q \in PrimesOf(n) \ A : Supported(Y[0], n, q)
  /\ \A p \in Int : \A s \in Nat : NullMod(X[s], p) => NullMod(Y[s], p)

\* The orbit of the comb is supported at every prime.
LEMMA CombIsTempered ==
  ASSUME NEW n \in Nat \ {0}, NEW X, Orbit(X, n), X[0] = Comb(n)
  PROVE  Tempered(X, X, n, {})
<1>1. X[0][0] = 1
  <2>1. 0 \in Column(n)
    BY DEF Column
  <2> QED BY <2>1, CombFacts
<1>2. ASSUME NEW q \in PrimesOf(n) PROVE Supported(X[0], n, q)
  <2>0. q \in Nat \ {0} /\ q >= 2
    BY PrimesOfFacts
  <2>1. ~Same(1, 0, q)
    <3>1. 1 \in 0 .. q - 1 /\ 0 \in 0 .. q - 1
      BY <2>0
    <3> QED BY <2>0, <3>1, SameOfSmall
  <2>2. ASSUME NEW i \in Int, X[0][i] # 0
        PROVE  \E u \in Int : ~Same(u, 0, q) /\ Same(i * u, 0, n)
    <3>1. i % n = 0
      BY <2>2 DEF Comb
    <3>2. Same(i, 0, n)
      BY <3>1, ZeroRest
    <3>3. i * 1 = i
      OBVIOUS
    <3> QED BY <2>1, <3>2, <3>3
  <2> QED BY <2>2 DEF Supported
<1> QED BY <1>1, <1>2 DEF Tempered

\* One more prime is balanced by a step at its distance.
LEMMA TemperedStep ==
  ASSUME NEW n \in Nat \ {0}, NEW X, NEW A, NEW a \in PrimesOf(n) \ A, NEW Y,
         A \subseteq PrimesOf(n), Tempered(Y, X, n, A)
  PROVE  Tempered(Stepped(Y, n \div a), X, n, A \cup {a})
<1>0. PICK e \in Nat : e = n \div a
  BY PrimesOfFacts
<1>1. PICK Z : Z = Stepped(Y, e)
  OBVIOUS
<1>2. /\ Orbit(Z, n)
      /\ \A p \in Int : \A s \in Nat : NullMod(Y[s], p) => NullMod(Z[s], p)
  <2>1. Orbit(Y, n) /\ e \in Int
    BY DEF Tempered
  <2> QED BY <1>1, <2>1, SteppedIsOrbit
<1>3. \A i \in Int : Z[0][i] = Y[0][i] - Y[0][i - e]
  BY <1>1 DEF Stepped
<1>4. Y[0] \in Wave /\ Periodic(Y[0], n) /\ Periodic(Z[0], n) /\ Y[0][0] = 1
  BY <1>2 DEF Tempered, Orbit
<1>5. Z[0][0] = 1
  <2>1. Supported(Y[0], n, a)
    BY DEF Tempered
  <2>2. Y[0][0 - e] = 0
    BY <1>0, <1>4, <2>1, SteppedAtZero
  <2> QED BY <1>3, <1>4, <2>2
<1>6. Potential(Z[0], n, a)
  BY <1>0, <1>3, <1>4 DEF Potential
<1>7. ASSUME NEW q \in A PROVE Potential(Z[0], n, q)
  <2>0. PICK d \in Nat : d = n \div q
    BY PrimesOfFacts
  <2>1. PICK w : Periodic(w, n) /\ \A i \in Int : Y[0][i] = w[i] - w[i - d]
    BY <2>0 DEF Tempered, Potential
  <2>2. PICK v : v = [i \in Int |-> w[i] - w[i - e]]
    OBVIOUS
  <2>3. \A i \in Int : w[i] \in Int /\ w[i + n] = w[i] /\ v[i] = w[i] - w[i - e]
    BY <2>1, <2>2 DEF Periodic, Wave
  <2>4. Periodic(v, n)
    <3>1. ASSUME NEW i \in Int PROVE v[i] \in Int /\ v[i + n] = v[i]
      <4>1. i + n \in Int /\ i - e \in Int /\ (i + n) - e = (i - e) + n
        OBVIOUS
      <4>2. w[i + n] = w[i] /\ w[(i - e) + n] = w[i - e] /\ v[i + n] = w[i + n] - w[(i + n) - e]
        BY <2>3, <4>1
      <4>3. PICK x \in Int, y \in Int : x = w[i] /\ y = w[i - e]
        BY <2>3, <4>1
      <4>4. v[i] = x - y
        BY <2>3, <4>3
      <4> QED BY <4>1, <4>2, <4>3, <4>4
    <3>2. v \in Wave
      <4>1. v = [i \in Int |-> v[i]]
        BY <2>2
      <4> QED BY <3>1, <4>1 DEF Wave
    <3> QED BY <3>1, <3>2 DEF Periodic
  <2>5. ASSUME NEW i \in Int PROVE Z[0][i] = v[i] - v[i - d]
    <3>1. i - e \in Int /\ i - d \in Int /\ (i - d) - e \in Int /\ (i - e) - d = (i - d) - e
      OBVIOUS
    <3>2. PICK x \in Int, y \in Int, z \in Int, u \in Int :
            x = w[i] /\ y = w[i - e] /\ z = w[i - d] /\ u = w[(i - d) - e]
      BY <2>3, <3>1
    <3>3. Y[0][i] = x - z /\ Y[0][i - e] = y - u
      BY <2>1, <3>1, <3>2
    <3>4. v[i] = x - y /\ v[i - d] = z - u
      BY <2>3, <3>1, <3>2
    <3> QED BY <1>3, <3>3, <3>4
  <2> QED BY <2>0, <2>4, <2>5 DEF Potential
<1>8. ASSUME NEW q \in PrimesOf(n) \ (A \cup {a}) PROVE Supported(Z[0], n, q)
  <2>1. Supported(Y[0], n, q) /\ q # a /\ q \in PrimesOf(n) /\ a \in PrimesOf(n)
    BY DEF Tempered
  <2>2. \A i \in Int : Z[0][i] = Y[0][i] - Y[0][i - (n \div a)]
    BY <1>0, <1>3
  <2> QED BY <1>4, <2>1, <2>2, SteppedIsSupported
<1>9. ASSUME NEW p \in Int, NEW s \in Nat, NullMod(X[s], p) PROVE NullMod(Z[s], p)
  BY <1>2, <1>9 DEF Tempered
<1> QED BY <1>0, <1>1, <1>2, <1>5, <1>6, <1>7, <1>8, <1>9 DEF Tempered

\* So the primes can be balanced one after the other.
LEMMA TemperedExists ==
  ASSUME NEW n \in Nat \ {0}, NEW X, Orbit(X, n), X[0] = Comb(n)
  PROVE  \E Y : Tempered(Y, X, n, PrimesOf(n))
<1> DEFINE P == PrimesOf(n)
           F == {s \in SUBSET P : \E Y : Tempered(Y, X, n, s)}
<1>1. IsFiniteSet(P)
  <2>1. IsFiniteSet(2 .. n) /\ P \subseteq 2 .. n
    BY FS_Interval DEF PrimesOf
  <2> QED BY <2>1, FS_Subset
<1>2. \A s \in SUBSET P : (\A u \in SUBSET s : u # s => u \in F) => s \in F
  <2> SUFFICES ASSUME NEW s \in SUBSET P, \A u \in SUBSET s : u # s => u \in F
               PROVE  s \in F
    OBVIOUS
  <2>1. CASE s = {}
    <3>1. Tempered(X, X, n, {})
      BY CombIsTempered
    <3> QED BY <2>1, <3>1
  <2>2. CASE s # {}
    <3>1. PICK a \in s : TRUE
      BY <2>2
    <3>2. PICK u : u = s \ {a}
      OBVIOUS
    <3>3. u \in SUBSET s /\ u # s /\ u \subseteq P /\ a \in P \ u /\ s = u \cup {a}
      BY <3>1, <3>2
    <3>4. u \in F
      BY <3>3
    <3>5. PICK Y : Tempered(Y, X, n, u)
      BY <3>4
    <3>6. Tempered(Stepped(Y, n \div a), X, n, u \cup {a})
      BY <3>3, <3>5, TemperedStep
    <3> QED BY <3>3, <3>6
  <2> QED BY <2>1, <2>2
<1>3. \A s \in SUBSET P : s \in F
  <2> HIDE DEF P, F
  <2> QED BY <1>1, <1>2, SubsetInduction
<1>4. P \in F
  BY <1>3
<1> QED BY <1>4

\* The comb lives for p turns modulo a prime that does not divide the order,
LEMMA CombLives ==
  ASSUME NEW n \in Nat \ {0}, NEW p \in Nat, IsPrime(p), ~Same(n, 0, p),
         NEW X, Orbit(X, n), X[0] = Comb(n)
  PROVE  \A s \in Nat : s \div n < p => ~NullMod(X[s], p)
<1>1. PICK Y : Tempered(Y, X, n, PrimesOf(n))
  BY TemperedExists
<1>2. Orbit(Y, n) /\ Y[0][0] = 1 /\ Balanced(Y[0], n)
  BY <1>1 DEF Tempered, Balanced, Orbit
<1>3. ~NullMod(Y[0], p)
  <2>1. p \in Nat \ {0} /\ 1 \in 0 .. p - 1 /\ 0 \in 0 .. p - 1
    BY DEF IsPrime
  <2>2. ~Same(1, 0, p)
    BY <2>1, SameOfSmall
  <2> QED BY <1>2, <2>2 DEF NullMod
<1>4. \A s \in Nat : s \div n < p => ~NullMod(Y[s], p)
  BY <1>2, <1>3, BalancedOrbitLives
<1>5. ASSUME NEW s \in Nat, NullMod(X[s], p) PROVE NullMod(Y[s], p)
  BY <1>1, <1>5 DEF Tempered
<1> QED BY <1>4, <1>5

\* and dies in the first turn modulo a number that does.
LEMMA CombDies ==
  ASSUME NEW n \in Nat \ {0}, NEW p \in Nat \ {0}, Same(n, 0, p), NEW X, Orbit(X, n)
  PROVE  \A s \in Nat : s >= n => NullMod(X[s], p)
<1> DEFINE T == {j \in Nat : NullMod(X[n + j], p)}
<1>0. \A s \in Nat : X[s] \in Wave /\ \A i \in Int : X[s][i] \in Int
  BY DEF Orbit, Wave
<1>1. 0 \in T
  <2>1. PICK r \in Nat : n = r + 1
    <3>1. n - 1 \in Nat /\ n = (n - 1) + 1
      OBVIOUS
    <3> QED BY <3>1
  <2>2. Led(X[n], X[r], n, n)
    BY <2>1 DEF Orbit
  <2>3. n % n = 0
    <3>1. n = 0 + 1 * n /\ n \in Int
      OBVIOUS
    <3>2. Same(n, 0, n)
      BY <3>1 DEF Same
    <3> QED BY <3>1, <3>2, ZeroRest
  <2>4. ASSUME NEW i \in Int PROVE Same(X[n][i], 0, p)
    <3>1. PICK x \in Int : x = X[r][i]
      BY <1>0
    <3>2. X[n][i] = (0 - n) * x
      BY <2>2, <2>3, <3>1 DEF Led
    <3>3. PICK c \in Int : n = 0 + c * p
      BY DEF Same
    <3>4. (0 - n) * x = 0 + ((0 - c) * x) * p
      BY <3>3
    <3>5. PICK b \in Int : b = (0 - c) * x
      OBVIOUS
    <3>6. X[n][i] = 0 + b * p
      BY <3>2, <3>4, <3>5
    <3> QED BY <3>6 DEF Same
  <2>5. n + 0 = n
    OBVIOUS
  <2> QED BY <2>4, <2>5 DEF NullMod
<1>2. ASSUME NEW j \in Nat, j \in T PROVE j + 1 \in T
  <2>1. PICK s \in Nat : s = n + j
    OBVIOUS
  <2>2. PICK r \in Nat : r = s + 1 /\ n + (j + 1) = r
    BY <2>1
  <2>3. Led(X[r], X[s], n, r)
    BY <2>2 DEF Orbit
  <2>4. NullMod(X[s], p)
    BY <1>2, <2>1
  <2>5. ASSUME NEW i \in Int PROVE Same(X[r][i], 0, p)
    <3>1. i - r \in Int
      OBVIOUS
    <3>2. PICK x \in Int, y \in Int : x = X[s][i] /\ y = X[s][i - r]
      BY <1>0, <3>1
    <3>3. PICK a \in Int : x = 0 + a * p
      BY <2>4, <3>2 DEF NullMod, Same
    <3>4. PICK b \in Int : y = 0 + b * p
      BY <2>4, <3>1, <3>2 DEF NullMod, Same
    <3>5. PICK c \in Int, d \in Int : c = (0 - r) * a /\ d = a - b
      OBVIOUS
    <3>6. CASE r % n = 0
      <4>1. X[r][i] = (0 - r) * x
        BY <2>3, <3>2, <3>6 DEF Led
      <4>2. (0 - r) * (a * p) = ((0 - r) * a) * p
        OBVIOUS
      <4>3. X[r][i] = 0 + c * p
        BY <3>3, <3>5, <4>1, <4>2
      <4> QED BY <4>3 DEF Same
    <3>7. CASE r % n # 0
      <4>1. X[r][i] = x - y
        BY <2>3, <3>2, <3>7 DEF Led
      <4>2. X[r][i] = 0 + d * p
        BY <3>3, <3>4, <3>5, <4>1
      <4> QED BY <4>2 DEF Same
    <3> QED BY <3>6, <3>7
  <2> QED BY <2>2, <2>5 DEF NullMod
<1>3. \A j \in Nat : j \in T
  <2> HIDE DEF T
  <2> QED BY <1>1, <1>2, SetOfAllNaturals
<1>4. ASSUME NEW s \in Nat, s >= n PROVE NullMod(X[s], p)
  <2>1. PICK j \in Nat : s = n + j
    <3>1. s - n \in Nat /\ s = n + (s - n)
      BY <1>4
    <3> QED BY <3>1
  <2>2. j \in T
    BY <1>3
  <2> QED BY <2>1, <2>2
<1> QED BY <1>4

(* ------------------------------- the germ ------------------------------ *)

\* Their leading columns are the orbit of the comb.
LEMMA GermsLead ==
  ASSUME NEW n, NEW J, NEW m, Shape(n, J, m), NEW G, Germs(n, J, m, G),
         NEW X, Orbit(X, n), X[0] = Comb(n)
  PROVE  \A s \in Nat : s \div n \in Nat /\ Leading(G[s], X[s], n, J, m, s \div n)
<1>1. Rows(NativeRows(J, m), J) /\ Beginnings(NativeRows(J, m), m)
  BY NativeRowsFacts DEF Shape, Beginnings
<1> QED BY <1>1, LeadingColumns DEF Germs

\* The orbit of the comb.
LEMMA CombHasOrbit ==
  ASSUME NEW n \in Nat \ {0}
  PROVE  \E X : Orbit(X, n) /\ X[0] = Comb(n)
<1>1. Periodic(Comb(n), n)
  BY CombFacts
<1> QED BY <1>1, OrbitExists

\* The leading column vanishes exactly where its wave is zero.
LEMMA LeadingVanishes ==
  ASSUME NEW n, NEW J, NEW m, Shape(n, J, m), NEW g \in JetTensors(n, J, m), NEW q \in 0 .. J,
         NEW w, Periodic(w, n), Leading(g, w, n, J, m, q)
  PROVE  Vanishes(g[q]) <=> NullMod(w, m)
<1>0. n \in Nat \ {0} /\ m \in Nat \ {0} /\ m \in Int /\ 0 \in 0 .. m - 1
  BY DEF Shape
<1>1. \A i \in Column(n) : Same(g[q][i], w[i], m) /\ g[q][i] \in 0 .. m - 1 /\ w[i] \in Int /\ i \in Int
  <2>1. \A i \in Column(n) : g[q][i] \in 0 .. m - 1
    BY DEF JetTensors, Columns, Residues
  <2>2. \A i \in Column(n) : w[i] \in Int /\ i \in Int
    BY DEF Periodic, Wave, Column
  <2> QED BY <2>1, <2>2 DEF Leading
<1>2. DOMAIN g[q] = Column(n)
  BY DEF JetTensors, Columns
<1>3. ASSUME NullMod(w, m) PROVE Vanishes(g[q])
  <2>1. ASSUME NEW i \in Column(n) PROVE g[q][i] = 0
    <3>1. PICK x \in 0 .. m - 1, y \in Int : x = g[q][i] /\ y = w[i]
      BY <1>1
    <3>2. x \in Int /\ Same(x, y, m) /\ Same(y, 0, m)
      BY <1>1, <1>3, <3>1 DEF NullMod
    <3>3. Same(x, 0, m)
      BY <1>0, <3>2, SameIsTransitive
    <3>4. x = 0
      BY <1>0, <3>3, SameOfSmall
    <3> QED BY <3>1, <3>4
  <2> QED BY <1>2, <2>1 DEF Vanishes
<1>4. ASSUME Vanishes(g[q]) PROVE NullMod(w, m)
  <2>1. ASSUME NEW i \in Int PROVE Same(w[i], 0, m)
    <3>1. i % n \in Column(n) /\ w[i % n] = w[i]
      BY <1>0, SameAsRest, PeriodicRest DEF Column
    <3>2. PICK j \in Column(n) : j = i % n
      BY <3>1
    <3>3. g[q][j] = 0
      BY <1>2, <1>4 DEF Vanishes
    <3>4. Same(0, w[j], m) /\ w[j] \in Int
      BY <1>1, <3>3
    <3>5. Same(w[j], 0, m)
      BY <1>0, <3>4, SameIsSymmetric
    <3> QED BY <3>1, <3>2, <3>5
  <2> QED BY <2>1 DEF NullMod
<1> QED BY <1>3, <1>4

\* A degree below the number of complete turns vanishes.
LEMMA BelowVanishes ==
  ASSUME NEW n, NEW J, NEW m, NEW g \in JetTensors(n, J, m), NEW q \in Nat, Below(g, n, J, q)
  PROVE  \A d \in 0 .. J : d < q => Vanishes(g[d])
<1>1. ASSUME NEW d \in 0 .. J, d < q PROVE Vanishes(g[d])
  <2>1. DOMAIN g[d] = Column(n)
    BY DEF JetTensors, Columns
  <2> QED BY <1>1, <2>1 DEF Below, Vanishes
<1> QED BY <1>1

\* After any number of turns up to the jet order, the germ is visible exactly
\* there, unless the prime modulus divides the order.
LEMMA GermsAreVisible ==
  ASSUME NEW n, NEW J, NEW m, Shape(n, J, m), J < m, IsPrime(m), NEW G, Germs(n, J, m, G),
         NEW N \in Nat, NEW t \in Nat, t >= 1, t <= J, N = n * t
  PROVE  FirstVisibleAt(G[N], t) <=> ~Same(n, 0, m)
<1>0. n \in Nat \ {0} /\ m \in Nat \ {0} /\ J \in Nat
  BY DEF Shape
<1>1. N \div n = t
  <2>1. n * t <= N /\ N < n * t + n
    BY <1>0
  <2> QED BY <1>0, <2>1, QuotientIs
<1>2. PICK X : Orbit(X, n) /\ X[0] = Comb(n)
  BY <1>0, CombHasOrbit
<1>3. Leading(G[N], X[N], n, J, m, t)
  BY <1>1, <1>2, GermsLead
<1>4. PICK g \in JetTensors(n, J, m) : g = G[N]
  BY DEF Germs, Grown
<1>5. t \in 0 .. J /\ Below(g, n, J, t)
  BY <1>0, <1>3, <1>4 DEF Leading
<1>6. \A d \in 0 .. J : d < t => Vanishes(g[d])
  BY <1>5, BelowVanishes
<1>7. Vanishes(g[t]) <=> NullMod(X[N], m)
  BY <1>2, <1>3, <1>4, <1>5, LeadingVanishes DEF Orbit
<1>8. NullMod(X[N], m) <=> Same(n, 0, m)
  <2>1. N >= n
    <3>1. n * t >= n
      BY <1>0
    <3> QED BY <3>1
  <2>2. ASSUME Same(n, 0, m) PROVE NullMod(X[N], m)
    BY <1>0, <1>2, <2>1, <2>2, CombDies
  <2>3. ASSUME ~Same(n, 0, m) PROVE ~NullMod(X[N], m)
    <3>1. N \div n < m
      BY <1>0, <1>1
    <3> QED BY <1>0, <1>2, <2>3, <3>1, CombLives
  <2> QED BY <2>2, <2>3
<1>9. DOMAIN g = 0 .. J
  BY DEF JetTensors
<1> QED BY <1>4, <1>5, <1>6, <1>7, <1>8, <1>9 DEF FirstVisibleAt

\* Two families of rows that begin alike build the same columns up to the
\* number of complete turns.
LEMMA ColumnsAgree ==
  ASSUME NEW n, NEW J, NEW m, Shape(n, J, m), NEW w, NEW q \in Nat,
         NEW g \in JetTensors(n, J, m), Leading(g, w, n, J, m, q),
         NEW h \in JetTensors(n, J, m), Leading(h, w, n, J, m, q), Periodic(w, n)
  PROVE  \A d \in 0 .. J : d <= q => g[d] = h[d]
<1>0. m \in Nat \ {0} /\ m \in Int
  BY DEF Shape
<1>1. ASSUME NEW d \in 0 .. J, d <= q, NEW i \in Column(n) PROVE g[d][i] = h[d][i]
  <2>1. CASE d < q
    BY <2>1 DEF Leading, Below
  <2>2. CASE d = q
    <3>1. PICK x \in 0 .. m - 1, y \in 0 .. m - 1 : x = g[d][i] /\ y = h[d][i]
      BY DEF JetTensors, Columns, Residues
    <3>2. w[i] \in Int
      BY DEF Periodic, Wave, Column
    <3>3. Same(x, w[i], m) /\ Same(y, w[i], m)
      BY <2>2, <3>1 DEF Leading
    <3>4. Same(w[i], y, m)
      BY <1>0, <3>2, <3>3, SameIsSymmetric
    <3>5. Same(x, y, m)
      BY <1>0, <3>2, <3>3, <3>4, SameIsTransitive
    <3> QED BY <1>0, <3>1, <3>5, SameOfSmall
  <2> QED BY <1>1, <2>1, <2>2
<1>2. ASSUME NEW d \in 0 .. J, d <= q PROVE g[d] = h[d]
  <2>1. g[d] = [i \in Column(n) |-> g[d][i]] /\ h[d] = [i \in Column(n) |-> h[d][i]]
    BY DEF JetTensors, Columns
  <2> QED BY <1>1, <1>2, <2>1
<1> QED BY <1>2

(* ---------------------------- the witness ------------------------------ *)

\* The recursion of TerminalColumn.
ColumnStep(n, m, c) ==
  [s \in 0 .. n - 1 |->
     IF s = 0 THEN OneColumn(n)
     ELSE [i \in Column(n) |-> (c[s - 1][i] - c[s - 1][(i - s) % n]) % m]]

ColumnTable(n, m) == CHOOSE c : c = ColumnStep(n, m, c)

\* TerminalColumn is the last entry of its table.
LEMMA TerminalIsTable ==
  ASSUME NEW n, NEW m
  PROVE  TerminalColumn(n, m) = ColumnTable(n, m)[n - 1]
BY DEF TerminalColumn, ColumnTable, ColumnStep, Evaluated

\* At degree zero a factor multiplies by 1 - S^s alone.
LEMMA DegreeZero ==
  ASSUME NEW n, NEW J, NEW m, Shape(n, J, m), NEW G, Germs(n, J, m, G), NEW s \in Nat
  PROVE  G[s + 1][0] = [i \in Column(n) |-> (G[s][0][i] - G[s][0][(i - (s + 1)) % n]) % m]
<1>0. 0 \in 0 .. J /\ 0 \in Nat /\ 0 <= 0
  BY DEF Shape
<1>1. PICK e \in Nat : e = s + 1 /\ e >= 1
  OBVIOUS
<1>2. PICK g \in JetTensors(n, J, m) : g = G[s]
  BY DEF Germs, Grown
<1>3. PICK r : r = NativeRows(J, m)[e]
  OBVIOUS
<1>4. IsRow(r, e, J) /\ Begins(r, e, m)
  BY <1>1, <1>3, NativeRowsFacts DEF Shape, Rows
<1>5. G[e] = ApplyFactor(g, n, J, m, r, e)
  BY <1>1, <1>2, <1>3 DEF Germs, Grown
<1>6. PICK h \in JetTensors(n, J, m) : h = G[e]
  BY DEF Germs, Grown
<1>7. Below(g, n, J, 0)
  BY DEF Below
<1>8. ASSUME NEW i \in Column(n) PROVE h[0][i] = (g[0][i] - g[0][(i - e) % n]) % m
  <2>1. /\ (i - e) % n \in Column(n)
        /\ h[0][i] = (g[0][i] - SumOver(Lag(g, r, 0, (i - e) % n), Lags(r, 0))) % m
    BY <1>0, <1>4, <1>5, <1>6, FactorIs
  <2>2. PICK u \in Column(n) : u = (i - e) % n
    BY <2>1
  <2>3. SumOver(Lag(g, r, 0, u), Lags(r, 0)) = g[0][u]
    BY <1>0, <1>4, <1>7, ShortLag
  <2> QED BY <2>1, <2>2, <2>3
<1>9. h[0] = [i \in Column(n) |-> h[0][i]]
  BY <1>0 DEF JetTensors, Columns
<1>10. h[0] = [i \in Column(n) |-> (g[0][i] - g[0][(i - e) % n]) % m]
  BY <1>8, <1>9
<1> QED BY <1>1, <1>2, <1>6, <1>10

\* So the terminal column is the degree-zero column before the last factor.
LEMMA TerminalIsDegreeZero ==
  ASSUME NEW n, NEW J, NEW m, Shape(n, J, m), NEW G, Germs(n, J, m, G)
  PROVE  TerminalColumn(n, m) = G[n - 1][0]
<1>0. n \in Nat /\ n >= 2 /\ n - 1 \in Nat /\ 0 \in 0 .. J
  BY DEF Shape
<1> DEFINE h == [s \in 0 .. n - 1 |-> G[s][0]]
           t == ColumnTable(n, m)
<1>1. G[0][0] = OneColumn(n)
  <2>1. G[0] = UnitTensor(n, J)
    BY DEF Germs, Grown
  <2> QED BY <1>0, <2>1 DEF UnitTensor
<1>2. h = ColumnStep(n, m, h)
  <2> SUFFICES ASSUME NEW s \in 0 .. n - 1 PROVE h[s] = ColumnStep(n, m, h)[s]
    BY DEF ColumnStep
  <2>1. CASE s = 0
    BY <1>1, <2>1 DEF ColumnStep
  <2>2. CASE s # 0
    <3>1. PICK e \in Nat : e = s - 1 /\ e \in 0 .. n - 1 /\ e + 1 = s
      BY <1>0, <2>2
    <3>2. G[s][0] = [i \in Column(n) |-> (G[e][0][i] - G[e][0][(i - s) % n]) % m]
      BY <3>1, DegreeZero
    <3>3. h[s] = [i \in Column(n) |-> (h[e][i] - h[e][(i - s) % n]) % m]
      BY <3>1, <3>2
    <3>4. ColumnStep(n, m, h)[s] = [i \in Column(n) |-> (h[s - 1][i] - h[s - 1][(i - s) % n]) % m]
      BY <2>2 DEF ColumnStep
    <3> QED BY <3>1, <3>3, <3>4
  <2> QED BY <2>1, <2>2
<1> HIDE DEF h
<1>3. t = ColumnStep(n, m, t)
  BY <1>2 DEF ColumnTable
<1> HIDE DEF t
<1> DEFINE T == {s \in Nat : s <= n - 1 => t[s] = G[s][0]}
<1>4. 0 \in T
  <2>1. 0 \in 0 .. n - 1
    BY <1>0
  <2>2. ColumnStep(n, m, t)[0] = OneColumn(n)
    BY <2>1 DEF ColumnStep
  <2>3. PICK u : u = ColumnStep(n, m, t)
    OBVIOUS
  <2>4. t = u /\ u[0] = OneColumn(n)
    BY <1>3, <2>2, <2>3
  <2> QED BY <1>1, <2>4
<1>5. ASSUME NEW s \in Nat, s \in T PROVE s + 1 \in T
  <2> SUFFICES ASSUME s + 1 <= n - 1 PROVE t[s + 1] = G[s + 1][0]
    OBVIOUS
  <2>1. PICK e \in 0 .. n - 1 : e = s + 1 /\ e # 0 /\ e - 1 = s
    BY <1>0
  <2>2. t[s] = G[s][0]
    BY <1>0, <1>5
  <2>3. ColumnStep(n, m, t)[e] = [i \in Column(n) |-> (t[e - 1][i] - t[e - 1][(i - e) % n]) % m]
    BY <2>1 DEF ColumnStep
  <2>4. PICK u : u = ColumnStep(n, m, t)
    OBVIOUS
  <2>5. t = u /\ u[e] = [i \in Column(n) |-> (t[e - 1][i] - t[e - 1][(i - e) % n]) % m]
    BY <1>3, <2>3, <2>4
  <2>6. t[e] = [i \in Column(n) |-> (G[s][0][i] - G[s][0][(i - e) % n]) % m]
    BY <2>1, <2>2, <2>5
  <2>7. G[e][0] = [i \in Column(n) |-> (G[s][0][i] - G[s][0][(i - e) % n]) % m]
    BY <2>1, DegreeZero
  <2> QED BY <2>1, <2>6, <2>7
<1>6. \A s \in Nat : s \in T
  <2> HIDE DEF T
  <2> QED BY <1>4, <1>5, SetOfAllNaturals
<1>7. t[n - 1] = G[n - 1][0]
  BY <1>0, <1>6
<1> QED BY <1>7, TerminalIsTable DEF t

\* A quotient, and the number of its turns in the order.
Turns(n, t, h) == DividesInto(n, t) /\ h \in Nat /\ h >= 1 /\ n = t * h /\ n \div t = h

\* Every quotient has such a number.
LEMMA TurnsExist ==
  ASSUME NEW n, NEW t, DividesInto(n, t)
  PROVE  \E h : Turns(n, t, h)
<1>0. n \in Nat /\ n >= 2 /\ t \in Nat \ {0} /\ n % t = 0
  BY DEF DividesInto
<1>1. PICK h \in Int : n = h * t
  <2>1. Same(n, 0, t)
    BY <1>0, ZeroRest
  <2>2. PICK h \in Int : n = 0 + h * t
    BY <2>1 DEF Same
  <2> QED BY <1>0, <2>2
<1>2. n = t * h
  BY <1>0, <1>1
<1>3. h >= 1
  <2>1. ASSUME h <= 0 PROVE FALSE
    <3>1. t * h <= 0
      BY <1>0, <2>1
    <3> QED BY <1>0, <1>2, <3>1
  <2> QED BY <2>1
<1>4. n \div t = h
  <2>1. t * h <= n /\ n < t * h + t
    BY <1>0, <1>2
  <2> QED BY <1>0, <2>1, QuotientIs
<1> QED BY <1>2, <1>3, <1>4 DEF Turns

\* What the witness compares: the folded germ, the germ with repeated cycles
\* and the folded terminal column are tensors of the quotient's own family.
LEMMA WitnessIs ==
  ASSUME NEW n, NEW t, NEW h, Turns(n, t, h), NEW m, Shape(n, h, m), Shape(t, h, m),
         NEW H, Germs(t, h, m, H)
  PROVE  LET w == RamifiedWitness(n, t, m) IN
         /\ w.transport
         /\ w.collapses <=> Vanishes(H[n - 1][0])
         /\ w.visible <=> FirstVisibleAt(H[n], h)
         /\ w.accepted <=> (Vanishes(H[n - 1][0]) /\ FirstVisibleAt(H[n], h))
<1>0. /\ DividesInto(n, t) /\ n \div t = h /\ h \in Nat /\ h >= 1 /\ n \in Nat /\ n >= 2
      /\ t \in Nat /\ 1 * n = n /\ h * t = n /\ n - 1 \in Nat /\ 0 \in 0 .. h
  BY DEF Turns, DividesInto
<1>1. PICK G : Germs(n, h, m, G)
  BY GermsExist
<1>2. Germ(n, 1, h, m) = G[n]
  BY <1>0, <1>1, GermsAreReturned DEF Germ
<1>3. Germ(t, h, h, m) = H[n]
  BY <1>0, GermsAreReturned DEF Germ
<1>4. PushforwardGerm(G[n], n, t, m) = H[n]
  BY <1>0, <1>1, GermsFold
<1>5. PushforwardColumn(TerminalColumn(n, m), n, t, m) = H[n - 1][0]
  <2>1. TerminalColumn(n, m) = G[n - 1][0]
    BY <1>1, TerminalIsDegreeZero
  <2>2. PushforwardGerm(G[n - 1], n, t, m) = H[n - 1]
    BY <1>0, <1>1, GermsFold
  <2>3. DOMAIN G[n - 1] = 0 .. h
    BY <1>0, <1>1 DEF Germs, Grown, JetTensors
  <2>4. PushforwardGerm(G[n - 1], n, t, m)[0] = PushforwardColumn(G[n - 1][0], n, t, m)
    BY <1>0, <2>3 DEF PushforwardGerm
  <2> QED BY <2>1, <2>2, <2>4
<1> QED BY <1>0, <1>2, <1>3, <1>4, <1>5 DEF RamifiedWitness

\* The witness is accepted exactly at a proper quotient that the modulus sees.
LEMMA WitnessAccepts ==
  ASSUME NEW n, NEW t, DividesInto(n, t), NEW m \in Nat, m >= 3, IsPrime(m), n \div t < m
  PROVE  RamifiedWitness(n, t, m).accepted <=> t # n /\ ~Same(t, 0, m)
<1>1. PICK h : Turns(n, t, h)
  BY TurnsExist
<1>0. /\ h \in Nat /\ h >= 1 /\ n = t * h /\ n \div t = h /\ h < m
      /\ n \in Nat /\ n >= 2 /\ t \in Nat /\ t >= 2
  BY <1>1 DEF Turns, DividesInto
<1>2. Shape(n, h, m) /\ Shape(t, h, m)
  BY <1>0 DEF Shape
<1>3. PICK H : Germs(t, h, m, H)
  BY <1>2, GermsExist
<1>4. FirstVisibleAt(H[n], h) <=> ~Same(t, 0, m)
  BY <1>0, <1>2, <1>3, GermsAreVisible
<1>5. RamifiedWitness(n, t, m).accepted <=> (Vanishes(H[n - 1][0]) /\ FirstVisibleAt(H[n], h))
  BY <1>1, <1>2, <1>3, WitnessIs
<1>6. PICK X : Orbit(X, t) /\ X[0] = Comb(t)
  <2>1. t \in Nat \ {0}
    BY <1>0
  <2> QED BY <2>1, CombHasOrbit
<1>7. PICK e \in Nat : e = n - 1
  BY <1>0
<1>8. PICK g \in JetTensors(t, h, m) : g = H[e]
  BY <1>3 DEF Germs, Grown
<1>9. Leading(g, X[e], t, h, m, e \div t)
  BY <1>2, <1>3, <1>6, <1>8, GermsLead
<1>10. CASE t # n
  <2>1. h >= 2
    <3>1. h # 1
      BY <1>0, <1>10
    <3> QED BY <1>0, <3>1
  <2>2. PICK q \in Nat : q = h - 1 /\ q >= 1
    BY <1>0, <2>1
  <2>3. e \div t = q
    <3>1. t * q = t * h - t
      BY <1>0, <2>2
    <3>2. t * q <= e /\ e < t * q + t
      BY <1>0, <1>7, <3>1
    <3> QED BY <1>0, <3>2, QuotientIs
  <2>4. Vanishes(g[0])
    <3>1. Below(g, t, h, q) /\ 0 \in 0 .. h /\ 0 < q
      BY <1>0, <1>9, <2>2, <2>3 DEF Leading
    <3> QED BY <3>1, BelowVanishes
  <2> QED BY <1>4, <1>5, <1>7, <1>8, <1>10, <2>4
<1>11. CASE t = n
  <2>1. ASSUME ~Same(t, 0, m) PROVE ~Vanishes(g[0])
    <3>1. e \div t = 0
      <4>1. t * 0 <= e /\ e < t * 0 + t
        BY <1>0, <1>7, <1>11
      <4> QED BY <1>0, <4>1, QuotientIs
    <3>2. ~NullMod(X[e], m)
      <4>1. t \in Nat \ {0} /\ e \div t < m
        BY <1>0, <3>1
      <4> QED BY <1>6, <2>1, <4>1, CombLives
    <3>3. Periodic(X[e], t) /\ 0 \in 0 .. h /\ Leading(g, X[e], t, h, m, 0)
      BY <1>0, <1>6, <1>9, <3>1 DEF Orbit
    <3> QED BY <1>2, <3>2, <3>3, LeadingVanishes
  <2> QED BY <1>4, <1>5, <1>7, <1>8, <1>11, <2>1
<1> QED BY <1>10, <1>11

(* ------------------------------ the program ---------------------------- *)

\* The call is one the program accepts, and the live tensor is the germ of the
\* factors applied so far.
LoopInv ==
  /\ Shape(order, jet_order, modulus)
  /\ jet_order < modulus
  /\ cycles \in Nat
  /\ k \in Nat
  /\ current = GermPrefix(order, jet_order, modulus, k)

\* It holds before the first factor, where the tensor is the unit,
LEMMA LoopInvInit ==
  ASSUME Init
  PROVE  LoopInv
<1>1. Shape(order, jet_order, modulus) /\ jet_order < modulus /\ cycles \in Nat /\ k \in Nat
  <2>1. MaxFactors \in Nat /\ MaxJet \in Nat /\ Moduli \subseteq Nat
    BY FactorsAssumption, ModuliAssumption
  <2>2. order \in Nat /\ order >= 2 /\ cycles \in Nat /\ jet_order \in Nat /\ jet_order >= 1
    BY <2>1 DEF Init
  <2>3. modulus \in Nat /\ modulus >= 3 /\ jet_order < modulus /\ k = 0
    BY <2>1 DEF Init, GermDomain
  <2> QED BY <2>2, <2>3 DEF Shape
<1>2. current = GermPrefix(order, jet_order, modulus, k)
  <2>1. PICK G : Germs(order, jet_order, modulus, G)
    BY <1>1, GermsExist
  <2>2. GermPrefix(order, jet_order, modulus, 0) = G[0]
    BY <2>1, GermsAreReturned
  <2> QED BY <2>1, <2>2 DEF Germs, Grown, Init
<1> QED BY <1>1, <1>2 DEF LoopInv

\* One turn of the loop is one step of the family.
LEMMA LoopInvFactor ==
  ASSUME LoopInv, Factor
  PROVE  LoopInv'
<1>1. UNCHANGED <<order, cycles, jet_order, modulus>> /\ k' = k + 1 /\ k \in Nat
  BY DEF Factor, call, LoopInv
<1>2. PICK G : Germs(order, jet_order, modulus, G)
  BY GermsExist DEF LoopInv
<1>3. current = G[k] /\ GermPrefix(order, jet_order, modulus, k + 1) = G[k + 1]
  BY <1>1, <1>2, GermsAreReturned DEF LoopInv
<1>4. Row(k + 1) = NativeRows(jet_order, modulus)[k + 1]
  BY <1>1, EvaluatedIs DEF Row, NativeRows
<1>5. current' = ApplyFactor(current, order, jet_order, modulus, Row(k + 1), k + 1)
  <2>1. current' = ApplyFactor(current, order, jet_order, modulus, Row(k'), k')
    BY DEF Factor
  <2>2. Row(k') = Row(k + 1)
    BY <1>1
  <2> QED BY <1>1, <2>1, <2>2
<1>6. G[k + 1] = ApplyFactor(G[k], order, jet_order, modulus, NativeRows(jet_order, modulus)[k + 1], k + 1)
  BY <1>1, <1>2 DEF Germs, Grown
<1>7. current' = GermPrefix(order, jet_order, modulus, k + 1)
  BY <1>3, <1>4, <1>5, <1>6
<1>8. Shape(order, jet_order, modulus)' /\ (jet_order < modulus)' /\ (cycles \in Nat)' /\ k' \in Nat
  BY <1>1 DEF LoopInv, Shape
<1>9. (GermPrefix(order, jet_order, modulus, k))' = GermPrefix(order, jet_order, modulus, k + 1)
  BY <1>1
<1> QED BY <1>7, <1>8, <1>9 DEF LoopInv

\* So every step keeps it.
LEMMA LoopInvStep ==
  ASSUME LoopInv, [Next]_vars
  PROVE  LoopInv'
<1>1. CASE Factor
  BY <1>1, LoopInvFactor
<1>2. CASE Done \/ UNCHANGED vars
  <2>1. UNCHANGED <<order, cycles, jet_order, modulus, k, current>>
    BY <1>2 DEF Done, vars, call
  <2> QED BY <2>1 DEF LoopInv, Shape
<1> QED BY <1>1, <1>2 DEF Next

\* The loop holds the germ of the factors applied so far, in every state.
THEOREM LoopIsGerm == Spec => []LoopInv
<1>1. Init => LoopInv
  BY LoopInvInit
<1>2. LoopInv /\ [Next]_vars => LoopInv'
  BY LoopInvStep
<1> QED BY <1>1, <1>2, PTL DEF Spec

\* The primality test of the properties.
LEMMA PrimeIs ==
  ASSUME NEW p \in Nat, Prime(p)
  PROVE  IsPrime(p)
BY DEF Prime, IsPrime, Divides

\* Divisibility as the properties test it is congruence to zero.
LEMMA DividesIs ==
  ASSUME NEW d \in Nat \ {0}, NEW x \in Int
  PROVE  Divides(d, x) <=> Same(x, 0, d)
BY ZeroRest DEF Divides

\* The divisors the properties range over are quotients.
LEMMA DivisorIsQuotient ==
  ASSUME NEW n \in Nat, n >= 2, NEW t \in Divisors(n)
  PROVE  DividesInto(n, t)
BY DEF Divisors, Divides, DividesInto

\* Folding commutes with every factor.
LEMMA TransportHolds ==
  ASSUME LoopInv
  PROVE  TransportAtEveryFactor
<1>0. Shape(order, jet_order, modulus) /\ k \in Nat /\ order \in Nat /\ order >= 2
  BY DEF LoopInv, Shape
<1> SUFFICES ASSUME NEW t \in Divisors(order)
             PROVE  PushforwardGerm(current, order, t, modulus) = GermPrefix(t, jet_order, modulus, k)
  BY DEF TransportAtEveryFactor
<1>1. DividesInto(order, t)
  BY <1>0, DivisorIsQuotient
<1>2. Shape(t, jet_order, modulus)
  BY <1>0, <1>1 DEF Shape, DividesInto
<1>3. PICK G : Germs(order, jet_order, modulus, G)
  BY <1>0, GermsExist
<1>4. PICK H : Germs(t, jet_order, modulus, H)
  BY <1>2, GermsExist
<1>5. current = G[k]
  BY <1>0, <1>3, GermsAreReturned DEF LoopInv
<1>6. GermPrefix(t, jet_order, modulus, k) = H[k]
  BY <1>0, <1>4, GermsAreReturned
<1> QED BY <1>0, <1>1, <1>2, <1>3, <1>4, <1>5, <1>6, GermsFold

\* Up to the number of complete turns, and everywhere for a prime modulus, the
\* tensor is the one exact binomial coefficients build.
LEMMA ExactHolds ==
  ASSUME LoopInv
  PROVE  PrimitiveColumnExact
<1>0. /\ Shape(order, jet_order, modulus) /\ k \in Nat /\ order \in Nat \ {0}
      /\ jet_order \in Nat /\ jet_order >= 1 /\ modulus \in Nat /\ modulus >= 3 /\ jet_order < modulus
  BY DEF LoopInv, Shape
<1>1. PICK G : Germs(order, jet_order, modulus, G)
  BY <1>0, GermsExist
<1>2. Rows(ExactRows(jet_order, modulus), jet_order) /\ Beginnings(ExactRows(jet_order, modulus), modulus)
  BY <1>0, ExactRowsFacts
<1>3. PICK E : Grown(order, jet_order, modulus, ExactRows(jet_order, modulus), E)
  BY <1>0, <1>2, GrownExists
<1>4. current = G[k]
  BY <1>0, <1>1, GermsAreReturned DEF LoopInv
<1>5. ExactPrefix(k) = E[k]
  BY <1>0, <1>3, ExactPrefixIsTable, TableIsGrown
<1>6. ASSUME NEW d \in 0 .. jet_order, d <= k \div order PROVE current[d] = ExactPrefix(k)[d]
  <2>1. PICK X : Orbit(X, order) /\ X[0] = Comb(order)
    BY <1>0, CombHasOrbit
  <2>2. PICK q \in Nat : q = k \div order
    BY <1>0, Division
  <2>3. Leading(G[k], X[k], order, jet_order, modulus, q)
    BY <1>0, <1>1, <2>1, <2>2, GermsLead
  <2>4. Leading(E[k], X[k], order, jet_order, modulus, q)
    BY <1>0, <1>2, <1>3, <2>1, <2>2, LeadingColumns
  <2>5. PICK g \in JetTensors(order, jet_order, modulus), h \in JetTensors(order, jet_order, modulus) :
          g = G[k] /\ h = E[k]
    BY <1>0, <1>1, <1>3 DEF Germs, Grown
  <2>6. Periodic(X[k], order)
    BY <1>0, <2>1 DEF Orbit
  <2>7. g[d] = h[d]
    BY <1>0, <1>6, <2>2, <2>3, <2>4, <2>5, <2>6, ColumnsAgree
  <2> QED BY <1>4, <1>5, <2>5, <2>7
<1>7. ASSUME Prime(modulus) PROVE current = ExactPrefix(k)
  <2>1. NativeRows(jet_order, modulus) = ExactRows(jet_order, modulus)
    BY <1>0, <1>7, PrimeIs, RowsOfPrime
  <2>2. GermTable(order, jet_order, modulus, NativeRows(jet_order, modulus), k)[k] = G[k]
    BY <1>0, <1>1, TableIsGrown DEF Germs
  <2> QED BY <1>0, <1>4, <2>1, <2>2, ExactPrefixIsTable
<1> QED BY <1>6, <1>7 DEF PrimitiveColumnExact

\* The germ vanishes below the number of turns, and after whole turns it is
\* visible there unless the prime modulus divides the order.
LEMMA VisibleHolds ==
  ASSUME LoopInv
  PROVE  VisibleAtCycles
<1>0. /\ Shape(order, jet_order, modulus) /\ k \in Nat /\ order \in Nat \ {0} /\ order \in Int
      /\ jet_order \in Nat /\ modulus \in Nat \ {0} /\ jet_order < modulus
  BY DEF LoopInv, Shape
<1>1. PICK G : Germs(order, jet_order, modulus, G)
  BY <1>0, GermsExist
<1>2. PICK g \in JetTensors(order, jet_order, modulus) : g = G[k] /\ g = current
  <2>1. current = G[k]
    BY <1>0, <1>1, GermsAreReturned DEF LoopInv
  <2>2. G[k] \in JetTensors(order, jet_order, modulus)
    BY <1>0, <1>1 DEF Germs, Grown
  <2> QED BY <2>1, <2>2
<1>3. PICK t \in Nat : t = k \div order
  BY <1>0, Division
<1>4. \A d \in 0 .. jet_order : d < t => Vanishes(current[d])
  <2>1. PICK X : Orbit(X, order) /\ X[0] = Comb(order)
    BY <1>0, CombHasOrbit
  <2>2. Leading(g, X[k], order, jet_order, modulus, t)
    BY <1>0, <1>1, <1>2, <1>3, <2>1, GermsLead
  <2>3. Below(g, order, jet_order, t)
    BY <2>2 DEF Leading
  <2> QED BY <1>2, <2>3, BelowVanishes
<1>5. ASSUME k % order = 0, jet_order >= t, t > 0, Prime(modulus)
      PROVE  FirstVisibleAt(current, t) <=> ~Divides(modulus, order)
  <2>1. k = order * t
    <3>1. Same(k, 0, order)
      BY <1>0, <1>5, ZeroRest
    <3>2. PICK c \in Int : k = 0 + c * order
      BY <3>1 DEF Same
    <3>3. order * c = k
      BY <1>0, <3>2
    <3>4. order * c <= k /\ k < order * c + order
      BY <1>0, <3>3
    <3>5. t = c
      BY <1>0, <1>3, <3>4, QuotientIs
    <3> QED BY <3>3, <3>5
  <2>2. IsPrime(modulus)
    BY <1>0, <1>5, PrimeIs
  <2>3. t >= 1 /\ t <= jet_order
    BY <1>0, <1>5
  <2>4. FirstVisibleAt(G[k], t) <=> ~Same(order, 0, modulus)
    BY <1>0, <1>1, <2>1, <2>2, <2>3, GermsAreVisible
  <2>5. Divides(modulus, order) <=> Same(order, 0, modulus)
    BY <1>0, DividesIs
  <2> QED BY <1>2, <2>4, <2>5
<1> QED BY <1>3, <1>4, <1>5 DEF VisibleAtCycles

\* The witness of the boundary accepts the proper quotients the modulus sees.
LEMMA RamifiedHolds ==
  ASSUME LoopInv
  PROVE  RamifiedVerdict
<1>0. order \in Nat /\ order >= 2 /\ modulus \in Nat \ {0} /\ modulus >= 3
  BY DEF LoopInv, Shape
<1>1. ASSUME Prime(modulus), NEW t \in Divisors(order), order \div t < modulus
      PROVE  RamifiedWitness(order, t, modulus).accepted <=> t # order /\ ~Divides(modulus, t)
  <2>1. DividesInto(order, t) /\ t \in Int
    BY <1>0, DivisorIsQuotient DEF DividesInto
  <2>2. IsPrime(modulus)
    BY <1>0, <1>1, PrimeIs
  <2>3. RamifiedWitness(order, t, modulus).accepted <=> t # order /\ ~Same(t, 0, modulus)
    BY <1>0, <1>1, <2>1, <2>2, WitnessAccepts
  <2>4. Divides(modulus, t) <=> Same(t, 0, modulus)
    BY <1>0, <2>1, DividesIs
  <2> QED BY <2>3, <2>4
<1> QED BY <1>1 DEF RamifiedVerdict

\* Folding the germ onto a divisor of the order gives the germ of the divisor,
\* after every factor and for every modulus.
THEOREM TransportAlways == Spec => []TransportAtEveryFactor
<1>1. LoopInv => TransportAtEveryFactor
  BY TransportHolds
<1> QED BY <1>1, LoopIsGerm, PTL

\* The columns a primitive observation reads are exact for every modulus, and
\* the whole tensor is for a prime one.
THEOREM ExactAlways == Spec => []PrimitiveColumnExact
<1>1. LoopInv => PrimitiveColumnExact
  BY ExactHolds
<1> QED BY <1>1, LoopIsGerm, PTL

\* A turn adds one order of vanishing and no more, for every order, every
\* number of turns and every prime modulus that does not divide the order.
THEOREM VisibleAlways == Spec => []VisibleAtCycles
<1>1. LoopInv => VisibleAtCycles
  BY VisibleHolds
<1> QED BY <1>1, LoopIsGerm, PTL

\* The ramified witness decides what it is meant to decide.
THEOREM RamifiedAlways == Spec => []RamifiedVerdict
<1>1. LoopInv => RamifiedVerdict
  BY RamifiedHolds
<1> QED BY <1>1, LoopIsGerm, PTL
===============================================================================
