--------------------------- MODULE SharedTheorems ---------------------------
(***************************************************************************)
(* Facts the proofs about the components share.  The first half: induction *)
(* over naturals and finite sets, stated for sets instead of predicates,   *)
(* the solution of recursive definitions, sums over finite sets            *)
(* (MapThenSumSet), runs of a transition table over a word (FoldLeft),     *)
(* residues and products modulo a number, and Wilson's theorem.            *)
(* The second half: the arithmetic of polynomials modulo m that            *)
(* PolynomialRing and ProductTrees translate, proved for every modulus and *)
(* every length: what iteration, Product, Inverse and Remainder return,    *)
(* that a polynomial's value survives each of them, and that the trees     *)
(* built from them hold the vanishing polynomials and the remainders they  *)
(* are named after.                                                        *)
(* The last part: the tensors that the factors of CyclicJets grow, for     *)
(* every order, jet order and modulus.  They fold onto the tensors of a    *)
(* divisor of the order, and a jet begins with every shorter jet.          *)
(***************************************************************************)
EXTENDS ProductTrees, CyclicJets, Integers, FiniteSetsExt, SequencesExt, FiniteSetTheorems,
        WellFoundedInduction, SequenceTheorems, TLAPS

(* ------------------------------ induction ------------------------------ *)

\* Among the subsets of a finite set, a family that holds every set whose
\* proper subsets it holds, holds them all.
LEMMA SubsetInduction ==
  ASSUME NEW S, IsFiniteSet(S), NEW F,
         \A s \in SUBSET S : (\A u \in SUBSET s : u # s => u \in F) => s \in F
  PROVE  \A s \in SUBSET S : s \in F
<1> DEFINE Bad == {s \in SUBSET S : s \notin F}
<1> SUFFICES ASSUME Bad # {} PROVE FALSE
  OBVIOUS
<1>1. Bad \subseteq FiniteSubsetsOf(S)
  BY FS_Subset DEF FiniteSubsetsOf
<1>2. PICK m \in Bad : \A u \in Bad : ~ (<<u, m>> \in StrictSubsetOrdering(S))
  <2>1. IsWellFoundedOn(StrictSubsetOrdering(S), FiniteSubsetsOf(S))
    BY FS_StrictSubsetOrderingWellFounded
  <2> HIDE DEF Bad
  <2> QED BY <1>1, <2>1, WFMin
<1>3. \A u \in SUBSET m : u # m => u \in F
  BY <1>2 DEF StrictSubsetOrdering
<1> QED BY <1>3

\* Every set of naturals has a least element.
LEMMA LeastNatural ==
  ASSUME NEW T, T \subseteq Nat, T # {}
  PROVE  \E m \in T : \A t \in T : m <= t
<1>1. PICK m \in T : \A t \in T : ~ (<<t, m>> \in OpToRel(<, Nat))
  BY NatLessThanWellFounded, WFMin
<1>2. \A t \in T : ~ (t < m)
  BY <1>1 DEF OpToRel
<1> QED BY <1>2

\* Induction over the naturals.
LEMMA SetOfAllNaturals ==
  ASSUME NEW T, 0 \in T, \A n \in Nat : n \in T => n + 1 \in T
  PROVE  \A n \in Nat : n \in T
<1> DEFINE Bad == {n \in Nat : n \notin T}
<1> SUFFICES ASSUME Bad # {} PROVE FALSE
  OBVIOUS
<1>1. PICK m \in Bad : \A n \in Bad : m <= n
  BY LeastNatural
<1>2. m # 0 /\ m - 1 \in Nat
  OBVIOUS
<1>3. m - 1 \in T
  BY <1>1, <1>2
<1> QED BY <1>2, <1>3

(* ------------------------- recursive definitions ----------------------- *)

\* A recursive definition as a map of functions to functions; the value it
\* gives at s uses only values at arguments of smaller rank.
Recurses(D, V, N, rank, G) ==
  /\ V # {} /\ N \in Nat
  /\ rank \in [D -> 0..N]
  /\ G \in [[D -> V] -> [D -> V]]
  /\ \A g, h \in [D -> V] : \A s \in D :
       (\A t \in D : rank[t] < rank[s] => g[t] = h[t]) => G[g][s] = G[h][s]

\* Such a definition has a solution.
LEMMA RecursionHasSolution ==
  ASSUME NEW D, NEW V, NEW N, NEW rank, NEW G, Recurses(D, V, N, rank, G)
  PROVE  \E g \in [D -> V] : g = G[g]
<1> USE DEF Recurses
<1> DEFINE Solves(g, n) == \A s \in D : rank[s] < n => G[g][s] = g[s]
           T == {n \in Nat : \E g \in [D -> V] : Solves(g, n)}
<1>1. 0 \in T
  <2>1. PICK v \in V : TRUE
    OBVIOUS
  <2>2. [s \in D |-> v] \in [D -> V]
    OBVIOUS
  <2>3. Solves([s \in D |-> v], 0)
    OBVIOUS
  <2> QED BY <2>2, <2>3
<1>2. \A n \in Nat : n \in T => n + 1 \in T
  <2> SUFFICES ASSUME NEW n \in Nat, n \in T PROVE n + 1 \in T
    OBVIOUS
  <2>1. PICK g \in [D -> V] : Solves(g, n)
    OBVIOUS
  <2>2. G[g] \in [D -> V]
    OBVIOUS
  <2>3. ASSUME NEW s \in D, rank[s] < n + 1 PROVE G[G[g]][s] = G[g][s]
    <3>1. \A t \in D : rank[t] < rank[s] => G[g][t] = g[t]
      BY <2>1, <2>3
    <3> QED BY <2>2, <3>1
  <2>4. Solves(G[g], n + 1)
    BY <2>3
  <2> QED BY <2>2, <2>4
<1>3. N + 1 \in T
  <2> HIDE DEF T
  <2> QED BY <1>1, <1>2, SetOfAllNaturals
<1>4. PICK g \in [D -> V] : Solves(g, N + 1)
  BY <1>3
<1>5. \A s \in D : rank[s] < N + 1
  OBVIOUS
<1>6. G[g] \in [D -> V] /\ \A s \in D : G[g][s] = g[s]
  BY <1>4, <1>5
<1>7. g = G[g]
  BY <1>6
<1> QED BY <1>7

(* --------------------------------- sums -------------------------------- *)

\* The sum of the values of a function over a finite set of arguments.
SumOver(f, S) == MapThenSumSet(LAMBDA x : f[x], S)

\* The recursion of MapThenFoldSet, for a sum.
SumStep(f, S, g) ==
  [s \in SUBSET S |->
     IF s = {} THEN 0
     ELSE f[CHOOSE x \in s : TRUE] + g[s \ {CHOOSE x \in s : TRUE}]]

Partial(f, S) == CHOOSE g : g = SumStep(f, S, g)

\* A sum as the recursive function its fold unfolds to.
LEMMA SumIsPartial ==
  ASSUME NEW f, NEW S
  PROVE  SumOver(f, S) = Partial(f, S)[S]
BY DEF SumOver, MapThenSumSet, MapThenFoldSet, SumStep, Partial

\* Integers to add up.
Summable(f, S) == IsFiniteSet(S) /\ \A x \in S : f[x] \in Int

\* The solution of that recursion is a function, and solves it.
LEMMA PartialEquation ==
  ASSUME NEW f, NEW S, Summable(f, S)
  PROVE  /\ Partial(f, S) \in [SUBSET S -> Int]
         /\ Partial(f, S) = SumStep(f, S, Partial(f, S))
<1> DEFINE D == SUBSET S
           N == Cardinality(S)
           rank == [s \in D |-> Cardinality(s)]
           G == [g \in [D -> Int] |-> SumStep(f, S, g)]
<1>1. N \in Nat /\ rank \in [D -> 0..N]
  <2>1. ASSUME NEW s \in D PROVE Cardinality(s) \in 0..N
    BY FS_Subset, FS_CardinalityType DEF Summable
  <2> QED BY <2>1, FS_CardinalityType DEF Summable
<1>2. \A s \in D : s # {} =>
        LET c == CHOOSE x \in s : TRUE
        IN  c \in s /\ s \ {c} \in D /\ rank[s \ {c}] < rank[s]
  <2> SUFFICES ASSUME NEW s \in D, s # {}, NEW c, c = CHOOSE x \in s : TRUE
               PROVE  c \in s /\ s \ {c} \in D /\ rank[s \ {c}] < rank[s]
    OBVIOUS
  <2>1. c \in s
    OBVIOUS
  <2>2. IsFiniteSet(s)
    BY FS_Subset DEF Summable
  <2>3. Cardinality(s \ {c}) = Cardinality(s) - 1 /\ Cardinality(s) \in Nat
    BY <2>1, <2>2, FS_RemoveElement, FS_CardinalityType
  <2> QED BY <2>1, <2>3
<1>3. G \in [[D -> Int] -> [D -> Int]]
  <2>1. ASSUME NEW g \in [D -> Int] PROVE SumStep(f, S, g) \in [D -> Int]
    BY <1>2 DEF SumStep, Summable
  <2> QED BY <2>1
<1>4. \A g, h \in [D -> Int] : \A s \in D :
        (\A t \in D : rank[t] < rank[s] => g[t] = h[t]) => G[g][s] = G[h][s]
  <2> SUFFICES ASSUME NEW g \in [D -> Int], NEW h \in [D -> Int], NEW s \in D,
                      \A t \in D : rank[t] < rank[s] => g[t] = h[t]
               PROVE  G[g][s] = G[h][s]
    OBVIOUS
  <2> DEFINE c == CHOOSE x \in s : TRUE
  <2>1. s # {} => g[s \ {c}] = h[s \ {c}]
    <3> HIDE DEF rank
    <3> QED BY <1>2
  <2> QED BY <2>1 DEF SumStep
<1>5. \E g \in [D -> Int] : g = G[g]
  <2> HIDE DEF D, N, rank, G
  <2>1. Recurses(D, Int, N, rank, G)
    BY <1>1, <1>3, <1>4 DEF Recurses
  <2> QED BY <2>1, RecursionHasSolution
<1>6. \E g : g = SumStep(f, S, g)
  BY <1>5
<1>7. Partial(f, S) = SumStep(f, S, Partial(f, S))
  BY <1>6 DEF Partial
<1>8. \A s \in D : Partial(f, S)[s] \in Int
  <2> DEFINE p == Partial(f, S)
             F == {s \in D : p[s] \in Int}
  <2> SUFFICES \A s \in D : s \in F
    OBVIOUS
  <2>1. \A s \in SUBSET S : (\A u \in SUBSET s : u # s => u \in F) => s \in F
    <3> SUFFICES ASSUME NEW s \in D, \A u \in SUBSET s : u # s => p[u] \in Int
                 PROVE  p[s] \in Int
      OBVIOUS
    <3>1. CASE s = {}
      BY <1>7, <3>1 DEF SumStep
    <3>2. CASE s # {}
      <4> DEFINE c == CHOOSE x \in s : TRUE
      <4>1. c \in s /\ f[c] \in Int
        BY <3>2 DEF Summable
      <4>2. p[s] = f[c] + p[s \ {c}]
        BY <1>7, <3>2 DEF SumStep
      <4> QED BY <4>1, <4>2
    <3> QED BY <3>1, <3>2
  <2> HIDE DEF F
  <2> QED BY <2>1, SubsetInduction DEF Summable
<1>9. Partial(f, S) \in [SUBSET S -> Int]
  <2> DEFINE p == Partial(f, S)
  <2>1. p = [s \in D |-> p[s]]
    BY <1>7 DEF SumStep
  <2> QED BY <1>8, <2>1
<1> QED BY <1>7, <1>9

\* A sum over a subset is the value the larger sum's recursion has there.
LEMMA PartialOfSubset ==
  ASSUME NEW f, NEW S, Summable(f, S), NEW s \in SUBSET S
  PROVE  Partial(f, S)[s] = SumOver(f, s) /\ Summable(f, s)
<1> DEFINE p == Partial(f, S)
           q == Partial(f, s)
           F == {u \in SUBSET s : p[u] = q[u]}
<1>1. Summable(f, s)
  BY FS_Subset DEF Summable
<1>2. p = SumStep(f, S, p) /\ q = SumStep(f, s, q)
  BY <1>1, PartialEquation
<1>3. \A u \in SUBSET s : (\A w \in SUBSET u : w # u => w \in F) => u \in F
  <2> SUFFICES ASSUME NEW u \in SUBSET s, \A w \in SUBSET u : w # u => w \in F
               PROVE  p[u] = q[u]
    OBVIOUS
  <2>1. CASE u = {}
    BY <1>2, <2>1 DEF SumStep
  <2>2. CASE u # {}
    <3> DEFINE c == CHOOSE x \in u : TRUE
    <3>1. c \in u
      BY <2>2
    <3>2. p[u] = f[c] + p[u \ {c}] /\ q[u] = f[c] + q[u \ {c}]
      <4>1. u \in SUBSET S
        OBVIOUS
      <4> HIDE DEF p, q
      <4> QED BY <1>2, <2>2, <4>1 DEF SumStep
    <3>3. p[u \ {c}] = q[u \ {c}]
      <4>1. u \ {c} \in SUBSET u /\ u \ {c} # u
        BY <3>1
      <4> HIDE DEF p, q, c
      <4> QED BY <4>1
    <3> QED BY <3>2, <3>3
  <2> QED BY <2>1, <2>2
<1>4. \A u \in SUBSET s : u \in F
  <2> HIDE DEF F
  <2> QED BY <1>1, <1>3, SubsetInduction DEF Summable
<1>5. p[s] = q[s]
  BY <1>4
<1> QED BY <1>1, <1>5, SumIsPartial

\* The empty sum.
LEMMA SumOfNone ==
  ASSUME NEW f
  PROVE  SumOver(f, {}) = 0
<1>1. Summable(f, {})
  BY FS_EmptySet DEF Summable
<1> DEFINE p == Partial(f, {})
<1>2. p = SumStep(f, {}, p)
  BY <1>1, PartialEquation
<1> HIDE DEF p
<1>3. p[{}] = 0
  BY <1>2 DEF SumStep
<1> QED BY <1>3, SumIsPartial DEF p

\* A sum of integers is one.
LEMMA SumType ==
  ASSUME NEW f, NEW S, Summable(f, S)
  PROVE  SumOver(f, S) \in Int
BY PartialEquation, SumIsPartial

\* The fold takes one element off, whichever it is.
LEMMA SumOfChosen ==
  ASSUME NEW f, NEW S, Summable(f, S), S # {}
  PROVE  \E c \in S : SumOver(f, S) = f[c] + SumOver(f, S \ {c})
<1> DEFINE c == CHOOSE x \in S : TRUE
<1>1. c \in S
  OBVIOUS
<1>2. Partial(f, S)[S] = f[c] + Partial(f, S)[S \ {c}]
  <2> DEFINE p == Partial(f, S)
  <2>1. p = SumStep(f, S, p)
    BY PartialEquation
  <2> HIDE DEF p
  <2>2. p[S] = f[c] + p[S \ {c}]
    BY <2>1 DEF SumStep
  <2> QED BY <2>2 DEF p
<1>3. Partial(f, S)[S \ {c}] = SumOver(f, S \ {c})
  BY PartialOfSubset
<1> QED BY <1>1, <1>2, <1>3, SumIsPartial

\* Part of a sum is a sum.
LEMMA SummableSubset ==
  ASSUME NEW f, NEW S, Summable(f, S), NEW s \in SUBSET S
  PROVE  Summable(f, s)
BY PartialOfSubset

\* Any argument may be taken out of a sum.
LEMMA SumWithout ==
  ASSUME NEW f, NEW S, Summable(f, S), NEW a \in S
  PROVE  SumOver(f, S) = f[a] + SumOver(f, S \ {a})
<1> DEFINE F == {s \in SUBSET S :
                   \A x \in s : SumOver(f, s) = f[x] + SumOver(f, s \ {x})}
<1>1. \A s \in SUBSET S : (\A u \in SUBSET s : u # s => u \in F) => s \in F
  <2> SUFFICES ASSUME NEW s \in SUBSET S,
                      \A u \in SUBSET s : u # s => u \in F,
                      NEW x \in s
               PROVE  SumOver(f, s) = f[x] + SumOver(f, s \ {x})
    OBVIOUS
  <2>1. Summable(f, s) /\ Summable(f, s \ {x}) /\ f[x] \in Int
    BY SummableSubset DEF Summable
  <2>2. PICK c \in s : SumOver(f, s) = f[c] + SumOver(f, s \ {c})
    BY <2>1, SumOfChosen
  <2>3. CASE c = x
    BY <2>2, <2>3
  <2>4. CASE c # x
    <3> DEFINE r == s \ {c, x}
    <3>1. /\ (s \ {c}) \ {x} = r /\ (s \ {x}) \ {c} = r
          /\ x \in s \ {c} /\ c \in s \ {x}
      BY <2>4
    <3>2. s \ {c} \in F /\ s \ {x} \in F
      <4>1. /\ s \ {c} \in SUBSET s /\ s \ {c} # s
            /\ s \ {x} \in SUBSET s /\ s \ {x} # s
        OBVIOUS
      <4> HIDE DEF F
      <4> QED BY <4>1
    <3>3. SumOver(f, s \ {c}) = f[x] + SumOver(f, (s \ {c}) \ {x})
      BY <3>1, <3>2
    <3>4. SumOver(f, s \ {x}) = f[c] + SumOver(f, (s \ {x}) \ {c})
      BY <3>1, <3>2
    <3>5. SumOver(f, r) \in Int /\ f[c] \in Int
      <4>1. Summable(f, r)
        BY SummableSubset
      <4> QED BY <4>1, SumType DEF Summable
    <3> HIDE DEF r
    <3> QED BY <2>1, <2>2, <3>1, <3>3, <3>4, <3>5
  <2> QED BY <2>3, <2>4
<1>2. \A s \in SUBSET S : s \in F
  <2> HIDE DEF F
  <2> QED BY <1>1, SubsetInduction DEF Summable
<1> QED BY <1>2

\* A sum depends on the values over the set alone.
LEMMA SumEqual ==
  ASSUME NEW f, NEW g, NEW S, Summable(f, S), \A x \in S : g[x] = f[x]
  PROVE  SumOver(g, S) = SumOver(f, S) /\ Summable(g, S)
<1> DEFINE F == {s \in SUBSET S : SumOver(g, s) = SumOver(f, s)}
<1>1. Summable(g, S)
  BY DEF Summable
<1>2. \A s \in SUBSET S : (\A u \in SUBSET s : u # s => u \in F) => s \in F
  <2> SUFFICES ASSUME NEW s \in SUBSET S,
                      \A u \in SUBSET s : u # s => u \in F
               PROVE  SumOver(g, s) = SumOver(f, s)
    OBVIOUS
  <2>1. CASE s = {}
    BY <2>1, SumOfNone
  <2>2. CASE s # {}
    <3>1. PICK c \in s : TRUE
      BY <2>2
    <3>2. Summable(f, s) /\ Summable(g, s)
      BY <1>1, SummableSubset
    <3>3. /\ SumOver(f, s) = f[c] + SumOver(f, s \ {c})
          /\ SumOver(g, s) = g[c] + SumOver(g, s \ {c})
      BY <3>2, SumWithout
    <3>4. s \ {c} \in F
      <4>1. s \ {c} \in SUBSET s /\ s \ {c} # s
        OBVIOUS
      <4> HIDE DEF F
      <4> QED BY <4>1
    <3> QED BY <3>3, <3>4
  <2> QED BY <2>1, <2>2
<1>3. \A s \in SUBSET S : s \in F
  <2> HIDE DEF F
  <2> QED BY <1>2, SubsetInduction DEF Summable
<1> QED BY <1>1, <1>3

\* Changing one value changes the sum by the difference.
LEMMA SumExcept ==
  ASSUME NEW f, NEW S, Summable(f, S), NEW a \in S, NEW g, g[a] \in Int,
         \A x \in S : x # a => g[x] = f[x]
  PROVE  /\ SumOver(g, S) = SumOver(f, S) - f[a] + g[a]
         /\ Summable(g, S)
<1>1. Summable(g, S) /\ Summable(f, S \ {a})
  BY SummableSubset DEF Summable
<1>2. SumOver(g, S \ {a}) = SumOver(f, S \ {a})
  BY <1>1, SumEqual
<1>3. /\ SumOver(f, S) = f[a] + SumOver(f, S \ {a})
      /\ SumOver(g, S) = g[a] + SumOver(g, S \ {a})
  BY <1>1, SumWithout
<1>4. SumOver(f, S \ {a}) \in Int /\ f[a] \in Int
  BY <1>1, SumType DEF Summable
<1>5. SumOver(g, S) = SumOver(f, S) - f[a] + g[a]
  BY <1>2, <1>3, <1>4
<1> QED BY <1>1, <1>5

\* Terms that are all zero sum to zero.
LEMMA SumOfZeros ==
  ASSUME NEW f, NEW S, IsFiniteSet(S), \A x \in S : f[x] = 0
  PROVE  SumOver(f, S) = 0 /\ Summable(f, S)
<1> DEFINE F == {s \in SUBSET S : SumOver(f, s) = 0}
<1>1. Summable(f, S)
  BY DEF Summable
<1>2. \A s \in SUBSET S : (\A u \in SUBSET s : u # s => u \in F) => s \in F
  <2> SUFFICES ASSUME NEW s \in SUBSET S,
                      \A u \in SUBSET s : u # s => u \in F
               PROVE  SumOver(f, s) = 0
    OBVIOUS
  <2>1. CASE s = {}
    BY <2>1, SumOfNone
  <2>2. CASE s # {}
    <3>1. PICK c \in s : TRUE
      BY <2>2
    <3>2. Summable(f, s)
      BY <1>1, SummableSubset
    <3>3. SumOver(f, s) = f[c] + SumOver(f, s \ {c})
      BY <3>2, SumWithout
    <3>4. s \ {c} \in F
      <4>1. s \ {c} \in SUBSET s /\ s \ {c} # s
        OBVIOUS
      <4> HIDE DEF F
      <4> QED BY <4>1
    <3> QED BY <3>3, <3>4
  <2> QED BY <2>1, <2>2
<1>3. \A s \in SUBSET S : s \in F
  <2> HIDE DEF F
  <2> QED BY <1>2, SubsetInduction
<1> QED BY <1>1, <1>3

\* Whatever solves the recursion of a sum has the sum as its last value.
LEMMA SumIsSolved ==
  ASSUME NEW f, NEW S, Summable(f, S), NEW c, c = SumStep(f, S, c)
  PROVE  c[S] = SumOver(f, S)
<1> DEFINE P == Partial(f, S)
           F == {s \in SUBSET S : c[s] = P[s]}
<1>1. P = SumStep(f, S, P)
  BY PartialEquation
<1> HIDE DEF P
<1>2. \A s \in SUBSET S : (\A u \in SUBSET s : u # s => u \in F) => s \in F
  <2> SUFFICES ASSUME NEW s \in SUBSET S, \A u \in SUBSET s : u # s => u \in F
               PROVE  c[s] = P[s]
    OBVIOUS
  <2>1. CASE s = {}
    <3>1. c[s] = 0 /\ P[s] = 0
      BY <1>1, <2>1 DEF SumStep
    <3> QED BY <3>1
  <2>2. CASE s # {}
    <3> DEFINE x == CHOOSE y \in s : TRUE
               u == s \ {x}
    <3>1. x \in s
      BY <2>2
    <3>2. c[u] = P[u]
      <4>1. u \in SUBSET s /\ u # s
        BY <3>1
      <4> HIDE DEF x, u
      <4> QED BY <4>1
    <3>3. c[s] = f[x] + c[u]
      BY <2>2 DEF SumStep
    <3>4. P[s] = f[x] + P[u]
      BY <1>1, <2>2 DEF SumStep
    <3> QED BY <3>2, <3>3, <3>4
  <2> QED BY <2>1, <2>2
<1>3. \A s \in SUBSET S : s \in F
  <2> HIDE DEF F
  <2> QED BY <1>2, SubsetInduction DEF Summable
<1> QED BY <1>3, SumIsPartial DEF P

\* A sum of naturals is one.
LEMMA SumOfNaturals ==
  ASSUME NEW f, NEW S, IsFiniteSet(S), \A x \in S : f[x] \in Nat
  PROVE  SumOver(f, S) \in Nat /\ Summable(f, S)
<1> DEFINE F == {s \in SUBSET S : SumOver(f, s) \in Nat}
<1>1. Summable(f, S)
  BY DEF Summable
<1>2. \A s \in SUBSET S : (\A u \in SUBSET s : u # s => u \in F) => s \in F
  <2> SUFFICES ASSUME NEW s \in SUBSET S,
                      \A u \in SUBSET s : u # s => u \in F
               PROVE  SumOver(f, s) \in Nat
    OBVIOUS
  <2>1. CASE s = {}
    BY <2>1, SumOfNone
  <2>2. CASE s # {}
    <3>1. PICK c \in s : TRUE
      BY <2>2
    <3>2. Summable(f, s)
      BY <1>1, SummableSubset
    <3>3. SumOver(f, s) = f[c] + SumOver(f, s \ {c})
      BY <3>2, SumWithout
    <3>4. s \ {c} \in F
      <4>1. s \ {c} \in SUBSET s /\ s \ {c} # s
        OBVIOUS
      <4> HIDE DEF F
      <4> QED BY <4>1
    <3>5. f[c] \in Nat
      OBVIOUS
    <3> QED BY <3>3, <3>4, <3>5
  <2> QED BY <2>1, <2>2
<1>3. \A s \in SUBSET S : s \in F
  <2> HIDE DEF F
  <2> QED BY <1>2, SubsetInduction
<1> QED BY <1>1, <1>3

\* The sizes of disjoint sets add up to the size of their union.
Disjoint(P, S) ==
  /\ \A x \in S : IsFiniteSet(P[x])
  /\ \A x, y \in S : x # y => P[x] \cap P[y] = {}

Sizes(f, P, S) == \A x \in S : f[x] = Cardinality(P[x])
UnionOver(P, S) == UNION {P[x] : x \in S}

\* The sizes of disjoint sets add up to the size of their union.
LEMMA SumOfSizes ==
  ASSUME NEW S, IsFiniteSet(S), NEW P, Disjoint(P, S), NEW f, Sizes(f, P, S)
  PROVE  SumOver(f, S) = Cardinality(UnionOver(P, S)) /\ IsFiniteSet(UnionOver(P, S))
<1> DEFINE V(s) == UnionOver(P, s)
           F == {s \in SUBSET S : SumOver(f, s) = Cardinality(V(s)) /\ IsFiniteSet(V(s))}
<1>0. Summable(f, S)
  BY FS_CardinalityType DEF Summable, Disjoint, Sizes
<1>1. ASSUME NEW s \in SUBSET S, \A u \in SUBSET s : u # s => u \in F PROVE s \in F
  <2>1. CASE s = {}
    <3>1. V(s) = {}
      BY <2>1 DEF UnionOver
    <3> HIDE DEF V
    <3>2. SumOver(f, s) = Cardinality(V(s)) /\ IsFiniteSet(V(s))
      BY <2>1, <3>1, SumOfNone, FS_EmptySet
    <3> QED BY <3>2
  <2>2. CASE s # {}
    <3>1. PICK x \in s : TRUE
      BY <2>2
    <3> DEFINE t == s \ {x}
    <3>2. t \in SUBSET s /\ t # s
      BY <3>1
    <3>3. V(s) = V(t) \cup P[x]
      BY <3>1 DEF UnionOver
    <3>4. V(t) \cap P[x] = {}
      BY <3>1 DEF Disjoint, UnionOver
    <3>5. SumOver(f, t) = Cardinality(V(t)) /\ IsFiniteSet(V(t))
      BY <1>1, <3>2
    <3> HIDE DEF V
    <3>6. SumOver(f, s) = f[x] + SumOver(f, t)
      BY <1>0, <3>1, SummableSubset, SumWithout
    <3>7. IsFiniteSet(P[x]) /\ f[x] = Cardinality(P[x])
      BY <3>1 DEF Disjoint, Sizes
    <3> HIDE DEF t
    <3>8. /\ IsFiniteSet(V(s))
          /\ Cardinality(V(s)) = Cardinality(V(t)) + Cardinality(P[x]) - Cardinality({})
      BY <3>3, <3>4, <3>5, <3>7, FS_Union
    <3>9. Cardinality({}) = 0 /\ Cardinality(V(t)) \in Nat /\ Cardinality(P[x]) \in Nat
      BY <3>5, <3>7, FS_EmptySet, FS_CardinalityType
    <3>10. SumOver(f, s) = Cardinality(V(s))
      BY <3>5, <3>6, <3>7, <3>8, <3>9
    <3> QED BY <3>8, <3>10
  <2> QED BY <2>1, <2>2
<1> HIDE DEF F
<1>2. \A s \in SUBSET S : s \in F
  BY <1>1, SubsetInduction
<1>3. S \in F
  BY <1>2
<1> QED BY <1>3 DEF F

(* --------------------------------- runs -------------------------------- *)

\* Where a table leads from a state along a word.
RunOver(delta, s, w) == FoldLeft(LAMBDA q, a : delta[q][a], s, w)

\* The table stays within its states on these letters.
Moves(delta, Q, A) == \A q \in Q : \A a \in A : delta[q][a] \in Q

\* The words of n letters.
Letters(n, A) == [1 .. n -> A]

\* The states passed on the way.
Trace(delta, s, n, w, t) ==
  t[0] = s /\ \A k \in 1 .. n : t[k] = delta[t[k - 1]][w[k]]

\* The recursion of MapThenFoldSet, for a run.
RunStep(delta, s, w, g) ==
  [I \in SUBSET (DOMAIN w) |->
     IF I = {} THEN s ELSE delta[g[I \ {Max(I)}]][w[Max(I)]]]

RunFold(delta, s, w) == CHOOSE g : g = RunStep(delta, s, w, g)

RunSolved(delta, s, w, D, Q) ==
  /\ RunFold(delta, s, w) \in [D -> Q]
  /\ RunFold(delta, s, w) = RunStep(delta, s, w, RunFold(delta, s, w))

\* A run as the recursive function its fold unfolds to.
LEMMA RunIsFold ==
  ASSUME NEW delta, NEW s, NEW w
  PROVE  RunOver(delta, s, w) = RunFold(delta, s, w)[DOMAIN w]
BY DEF RunOver, FoldLeft, MapThenFoldSet, RunStep, RunFold

\* The last index of a set of indices.
LEMMA MaxIsLast ==
  ASSUME NEW n \in Nat, NEW I \in SUBSET (1 .. n), I # {}
  PROVE  Max(I) \in I /\ \A i \in I : i <= Max(I)
<1> DEFINE T == {n - i : i \in I}
<1>1. T \subseteq Nat /\ T # {}
  <2>1. ASSUME NEW i \in I PROVE n - i \in Nat
    <3>1. i \in 1 .. n
      OBVIOUS
    <3> QED BY <3>1
  <2> QED BY <2>1
<1>2. PICK m \in T : \A t \in T : m <= t
  <2> HIDE DEF T
  <2> QED BY <1>1, LeastNatural
<1>3. PICK x \in I : m = n - x
  OBVIOUS
<1>4. \A y \in I : x >= y
  <2> TAKE y \in I
  <2>1. n - y \in T
    OBVIOUS
  <2>2. m <= n - y
    BY <1>2, <2>1
  <2> QED BY <1>3, <2>2
<1> HIDE DEF T
<1>5. \E z \in I : \A y \in I : z >= y
  BY <1>4
<1>6. Max(I) \in I /\ \A y \in I : Max(I) >= y
  BY <1>5 DEF Max
<1> QED BY <1>6

\* The solution of that recursion runs the table a letter at a time.
LEMMA RunEquation ==
  ASSUME NEW Q, NEW A, NEW delta, Moves(delta, Q, A),
         NEW s \in Q, NEW n \in Nat, NEW w \in Letters(n, A)
  PROVE  RunSolved(delta, s, w, SUBSET (1 .. n), Q)
<1> USE DEF Letters
<1> DEFINE D == SUBSET (1 .. n)
           rank == [I \in D |-> Cardinality(I)]
           G == [g \in [D -> Q] |-> RunStep(delta, s, w, g)]
<1>0. IsFiniteSet(1 .. n) /\ Cardinality(1 .. n) = n /\ DOMAIN w = 1 .. n
  BY FS_Interval
<1>1. rank \in [D -> 0 .. n]
  <2>1. ASSUME NEW I \in D PROVE Cardinality(I) \in 0 .. n
    <3>1. IsFiniteSet(I) /\ Cardinality(I) <= Cardinality(1 .. n)
      BY <1>0, FS_Subset
    <3>2. Cardinality(I) \in Nat
      BY <3>1, FS_CardinalityType
    <3> QED BY <1>0, <3>1, <3>2
  <2> QED BY <2>1
<1>2. \A I \in D : I # {} =>
        /\ Max(I) \in I /\ I \ {Max(I)} \in D
        /\ rank[I \ {Max(I)}] < rank[I]
  <2> SUFFICES ASSUME NEW I \in D, I # {}, NEW c, c = Max(I)
               PROVE  c \in I /\ I \ {c} \in D /\ rank[I \ {c}] < rank[I]
    OBVIOUS
  <2>1. c \in I
    BY MaxIsLast
  <2>2. IsFiniteSet(I)
    BY <1>0, FS_Subset
  <2>3. Cardinality(I \ {c}) = Cardinality(I) - 1 /\ Cardinality(I) \in Nat
    BY <2>1, <2>2, FS_RemoveElement, FS_CardinalityType
  <2>4. I \ {c} \in D
    OBVIOUS
  <2>5. rank[I \ {c}] = Cardinality(I \ {c}) /\ rank[I] = Cardinality(I)
    BY <2>4
  <2> QED BY <2>1, <2>3, <2>4, <2>5
<1>3. G \in [[D -> Q] -> [D -> Q]]
  <2>1. ASSUME NEW g \in [D -> Q] PROVE RunStep(delta, s, w, g) \in [D -> Q]
    <3>1. ASSUME NEW I \in D, I # {} PROVE delta[g[I \ {Max(I)}]][w[Max(I)]] \in Q
      <4>1. Max(I) \in 1 .. n /\ I \ {Max(I)} \in D
        BY <1>2, <3>1
      <4>2. g[I \ {Max(I)}] \in Q /\ w[Max(I)] \in A
        BY <4>1
      <4> QED BY <4>2 DEF Moves
    <3> QED BY <3>1, <1>0 DEF RunStep
  <2> QED BY <2>1
<1>4. \A g, h \in [D -> Q] : \A I \in D :
        (\A J \in D : rank[J] < rank[I] => g[J] = h[J]) => G[g][I] = G[h][I]
  <2> SUFFICES ASSUME NEW g \in [D -> Q], NEW h \in [D -> Q], NEW I \in D,
                      \A J \in D : rank[J] < rank[I] => g[J] = h[J]
               PROVE  G[g][I] = G[h][I]
    OBVIOUS
  <2>1. I # {} => g[I \ {Max(I)}] = h[I \ {Max(I)}]
    <3> HIDE DEF rank
    <3> QED BY <1>2
  <2> QED BY <2>1, <1>0 DEF RunStep
<1>5. \E g \in [D -> Q] : g = G[g]
  <2> HIDE DEF D, rank, G
  <2>1. Recurses(D, Q, n, rank, G)
    BY <1>1, <1>3, <1>4 DEF Recurses
  <2> QED BY <2>1, RecursionHasSolution
<1>6. \E g : g = RunStep(delta, s, w, g)
  BY <1>5
<1>7. RunFold(delta, s, w) = RunStep(delta, s, w, RunFold(delta, s, w))
  BY <1>6 DEF RunFold
<1>8. \A I \in D : RunFold(delta, s, w)[I] \in Q
  <2> DEFINE r == RunFold(delta, s, w)
             F == {I \in D : r[I] \in Q}
  <2> SUFFICES \A I \in D : I \in F
    OBVIOUS
  <2>1. \A I \in D : (\A J \in SUBSET I : J # I => J \in F) => I \in F
    <3> SUFFICES ASSUME NEW I \in D, \A J \in SUBSET I : J # I => J \in F
                 PROVE  r[I] \in Q
      OBVIOUS
    <3>0. r = RunStep(delta, s, w, r)
      BY <1>7
    <3>1. CASE I = {}
      <4> HIDE DEF r
      <4> QED BY <3>0, <3>1, <1>0 DEF RunStep
    <3>2. CASE I # {}
      <4> DEFINE c == Max(I)
      <4>1. c \in I
        BY <1>2, <3>2
      <4>2. I \ {c} \in SUBSET I /\ I \ {c} # I
        BY <4>1
      <4>3. r[I \ {c}] \in Q
        <5> HIDE DEF r, c
        <5> QED BY <4>2
      <4>4. r[I] = delta[r[I \ {c}]][w[c]]
        <5> HIDE DEF r
        <5> QED BY <3>0, <3>2, <1>0 DEF RunStep
      <4> HIDE DEF r, c
      <4> QED BY <4>1, <4>3, <4>4 DEF Moves
    <3> QED BY <3>1, <3>2
  <2> HIDE DEF F
  <2> QED BY <2>1, <1>0, SubsetInduction
<1>9. RunFold(delta, s, w) \in [D -> Q]
  <2> DEFINE r == RunFold(delta, s, w)
  <2>1. r = [I \in D |-> r[I]]
    <3>1. r = RunStep(delta, s, w, r)
      BY <1>7
    <3> HIDE DEF r
    <3> QED BY <3>1, <1>0 DEF RunStep
  <2> QED BY <1>8, <2>1
<1> QED BY <1>7, <1>9 DEF RunSolved

HasTrace(delta, s, n, w, Q) ==
  \E t \in [0 .. n -> Q] : Trace(delta, s, n, w, t) /\ RunOver(delta, s, w) = t[n]

\* A run passes through a trace.
LEMMA RunHasTrace ==
  ASSUME NEW Q, NEW A, NEW delta, Moves(delta, Q, A),
         NEW s \in Q, NEW n \in Nat, NEW w \in Letters(n, A)
  PROVE  HasTrace(delta, s, n, w, Q)
<1> USE DEF HasTrace
<1> DEFINE r == RunFold(delta, s, w)
           t == [k \in 0 .. n |-> r[1 .. k]]
<1>1. /\ r \in [SUBSET (1 .. n) -> Q]
      /\ r = RunStep(delta, s, w, r)
      /\ RunOver(delta, s, w) = r[1 .. n]
  <2>1. DOMAIN w = 1 .. n
    BY DEF Letters
  <2>2. /\ RunFold(delta, s, w) \in [SUBSET (1 .. n) -> Q]
        /\ RunFold(delta, s, w) = RunStep(delta, s, w, RunFold(delta, s, w))
    <3>1. RunSolved(delta, s, w, SUBSET (1 .. n), Q)
      BY RunEquation
    <3> QED BY <3>1 DEF RunSolved
  <2>3. RunOver(delta, s, w) = r[DOMAIN w]
    BY RunIsFold
  <2> QED BY <2>1, <2>2, <2>3
<1> HIDE DEF r
<1>2. \A k \in 0 .. n : 1 .. k \in SUBSET (1 .. n)
  OBVIOUS
<1>3. t \in [0 .. n -> Q] /\ t[n] = r[1 .. n]
  BY <1>1, <1>2
<1>4. t[0] = s
  <2>1. 1 .. 0 = {}
    OBVIOUS
  <2>2. r[{}] = s
    BY <1>1 DEF RunStep
  <2> QED BY <2>1, <2>2
<1>5. ASSUME NEW k \in 1 .. n PROVE t[k] = delta[t[k - 1]][w[k]]
  <2>1. /\ 1 .. k \in SUBSET (1 .. n) /\ 1 .. k # {} /\ k \in 1 .. k
        /\ k - 1 \in 0 .. n /\ k \in 0 .. n
    OBVIOUS
  <2>2. Max(1 .. k) = k
    <3>1. Max(1 .. k) \in 1 .. k /\ k <= Max(1 .. k)
      BY <2>1, MaxIsLast
    <3> QED BY <3>1
  <2>3. (1 .. k) \ {k} = 1 .. k - 1
    OBVIOUS
  <2>4. r[1 .. k] = delta[r[(1 .. k) \ {Max(1 .. k)}]][w[Max(1 .. k)]]
    <3> DEFINE I == 1 .. k
    <3>1. I \in SUBSET (DOMAIN w) /\ I # {}
      BY <2>1 DEF Letters
    <3> HIDE DEF I
    <3>2. r[I] = delta[r[I \ {Max(I)}]][w[Max(I)]]
      BY <1>1, <3>1 DEF RunStep
    <3> QED BY <3>2 DEF I
  <2>5. r[1 .. k] = delta[r[1 .. k - 1]][w[k]]
    BY <2>2, <2>3, <2>4
  <2> QED BY <2>1, <2>5
<1> HIDE DEF t
<1> QED BY <1>1, <1>3, <1>4, <1>5 DEF Trace

\* Every trace ends where the run ends.
LEMMA TraceEnds ==
  ASSUME NEW Q, NEW A, NEW delta, Moves(delta, Q, A),
         NEW s \in Q, NEW n \in Nat, NEW w \in Letters(n, A),
         NEW u, Trace(delta, s, n, w, u)
  PROVE  RunOver(delta, s, w) = u[n] /\ u[n] \in Q
<1>1. PICK t \in [0 .. n -> Q] : Trace(delta, s, n, w, t) /\ RunOver(delta, s, w) = t[n]
  BY RunHasTrace DEF HasTrace
<1> DEFINE T == {k \in Nat : k <= n => u[k] = t[k]}
<1>2. 0 \in T
  BY <1>1 DEF Trace
<1>3. \A k \in Nat : k \in T => k + 1 \in T
  <2> SUFFICES ASSUME NEW k \in Nat, k \in T, k + 1 <= n PROVE u[k + 1] = t[k + 1]
    OBVIOUS
  <2>1. k + 1 \in 1 .. n /\ (k + 1) - 1 = k /\ u[k] = t[k]
    OBVIOUS
  <2>2. /\ u[k + 1] = delta[u[(k + 1) - 1]][w[k + 1]]
        /\ t[k + 1] = delta[t[(k + 1) - 1]][w[k + 1]]
    BY <1>1, <2>1 DEF Trace
  <2> QED BY <2>1, <2>2
<1>4. n \in T
  <2> HIDE DEF T
  <2> QED BY <1>2, <1>3, SetOfAllNaturals
<1> QED BY <1>1, <1>4

\* The empty word leads nowhere.
LEMMA RunOfNone ==
  ASSUME NEW Q, NEW A, NEW delta, Moves(delta, Q, A),
         NEW s \in Q, NEW n, n = 0, NEW w \in Letters(n, A)
  PROVE  RunOver(delta, s, w) = s
<1>1. n \in Nat
  OBVIOUS
<1>2. PICK t \in [0 .. n -> Q] : Trace(delta, s, n, w, t) /\ RunOver(delta, s, w) = t[n]
  <2>1. HasTrace(delta, s, n, w, Q)
    BY <1>1, RunHasTrace
  <2> QED BY <2>1 DEF HasTrace
<1> QED BY <1>2 DEF Trace

\* A run follows the last letter last ...
LEMMA RunLastLetter ==
  ASSUME NEW Q, NEW A, NEW delta, Moves(delta, Q, A),
         NEW s \in Q, NEW n \in Nat, NEW w \in Letters(n + 1, A),
         NEW v, v = [i \in 1 .. n |-> w[i]]
  PROVE  /\ v \in Letters(n, A)
         /\ RunOver(delta, s, v) \in Q
         /\ RunOver(delta, s, w) = delta[RunOver(delta, s, v)][w[n + 1]]
<1>1. n + 1 \in Nat /\ v \in Letters(n, A)
  BY DEF Letters
<1>2. PICK t \in [0 .. n + 1 -> Q] :
        Trace(delta, s, n + 1, w, t) /\ RunOver(delta, s, w) = t[n + 1]
  BY <1>1, RunHasTrace DEF HasTrace
<1>3. Trace(delta, s, n, v, t)
  BY <1>2 DEF Trace
<1>4. RunOver(delta, s, v) = t[n] /\ t[n] \in Q
  BY <1>1, <1>3, TraceEnds
<1>5. t[n + 1] = delta[t[n]][w[n + 1]]
  <2>1. n + 1 \in 1 .. n + 1 /\ (n + 1) - 1 = n
    OBVIOUS
  <2>2. t[n + 1] = delta[t[(n + 1) - 1]][w[n + 1]]
    BY <1>2, <2>1 DEF Trace
  <2> QED BY <2>1, <2>2
<1> QED BY <1>1, <1>2, <1>4, <1>5

\* ... and the first letter first.
LEMMA RunFirstLetter ==
  ASSUME NEW Q, NEW A, NEW delta, Moves(delta, Q, A),
         NEW s \in Q, NEW n \in Nat, NEW w \in Letters(n + 1, A),
         NEW v, v = [i \in 1 .. n |-> w[i + 1]]
  PROVE  /\ v \in Letters(n, A)
         /\ delta[s][w[1]] \in Q
         /\ RunOver(delta, s, w) = RunOver(delta, delta[s][w[1]], v)
<1>1. n + 1 \in Nat /\ v \in Letters(n, A) /\ w[1] \in A
  BY DEF Letters
<1>2. PICK t \in [0 .. n + 1 -> Q] :
        Trace(delta, s, n + 1, w, t) /\ RunOver(delta, s, w) = t[n + 1]
  BY <1>1, RunHasTrace DEF HasTrace
<1> DEFINE u == [k \in 0 .. n |-> t[k + 1]]
<1>3. t[1] = delta[s][w[1]]
  <2>1. 1 \in 1 .. n + 1 /\ 1 - 1 = 0
    OBVIOUS
  <2>2. t[1] = delta[t[1 - 1]][w[1]] /\ t[0] = s
    BY <1>2, <2>1 DEF Trace
  <2> QED BY <2>1, <2>2
<1>4. ASSUME NEW k \in 1 .. n
      PROVE  u[k] = delta[u[k - 1]][v[k]]
  <2>1. k + 1 \in 1 .. n + 1 /\ (k + 1) - 1 = k /\ k - 1 \in 0 .. n /\ (k - 1) + 1 = k
    OBVIOUS
  <2>2. t[k + 1] = delta[t[(k + 1) - 1]][w[k + 1]]
    BY <1>2, <2>1 DEF Trace
  <2>3. u[k] = t[k + 1] /\ u[k - 1] = t[k] /\ v[k] = w[k + 1]
    BY <2>1
  <2> QED BY <2>1, <2>2, <2>3
<1>5. u[0] = delta[s][w[1]] /\ u[n] = t[n + 1]
  BY <1>3
<1> HIDE DEF u
<1>6. Trace(delta, delta[s][w[1]], n, v, u)
  BY <1>4, <1>5 DEF Trace
<1>7. delta[s][w[1]] \in Q
  BY <1>1 DEF Moves
<1>8. RunOver(delta, delta[s][w[1]], v) = u[n]
  BY <1>1, <1>6, <1>7, TraceEnds
<1> QED BY <1>1, <1>2, <1>5, <1>7, <1>8

\* The run stays within the states of the table.
LEMMA RunType ==
  ASSUME NEW Q, NEW A, NEW delta, Moves(delta, Q, A),
         NEW s \in Q, NEW n \in Nat, NEW w \in Letters(n, A)
  PROVE  RunOver(delta, s, w) \in Q
BY RunHasTrace DEF HasTrace

-------------------------------------------------------------------------------
(* ------------------------------- residues ------------------------------ *)

\* Two numbers that differ by a multiple of m.
Same(a, b, m) == \E k \in Int : a = b + k * m

\* Congruence modulo m is an equivalence ...
LEMMA SameIsReflexive ==
  ASSUME NEW a \in Int, NEW m \in Int
  PROVE  Same(a, a, m)
<1>1. a = a + 0 * m
  OBVIOUS
<1> QED BY <1>1 DEF Same

\* ... in both directions ...
LEMMA SameIsSymmetric ==
  ASSUME NEW a \in Int, NEW b \in Int, NEW m \in Int, Same(a, b, m)
  PROVE  Same(b, a, m)
<1>1. PICK k \in Int : a = b + k * m
  BY DEF Same
<1>2. b = a + (-k) * m
  BY <1>1
<1> QED BY <1>2 DEF Same

\* ... and along chains,
LEMMA SameIsTransitive ==
  ASSUME NEW a \in Int, NEW b \in Int, NEW c \in Int, NEW m \in Int,
         Same(a, b, m), Same(b, c, m)
  PROVE  Same(a, c, m)
<1>1. PICK k \in Int : a = b + k * m
  BY DEF Same
<1>2. PICK l \in Int : b = c + l * m
  BY DEF Same
<1>3. PICK j \in Int : j = k + l
  OBVIOUS
<1>4. a = c + j * m
  BY <1>1, <1>2, <1>3
<1> QED BY <1>4 DEF Same

\* that sums ...
LEMMA SamePlus ==
  ASSUME NEW a \in Int, NEW b \in Int, NEW c \in Int, NEW d \in Int, NEW m \in Int,
         Same(a, b, m), Same(c, d, m)
  PROVE  Same(a + c, b + d, m)
<1>1. PICK k \in Int : a = b + k * m
  BY DEF Same
<1>2. PICK l \in Int : c = d + l * m
  BY DEF Same
<1>3. PICK j \in Int : j = k + l
  OBVIOUS
<1>4. a + c = (b + d) + j * m
  BY <1>1, <1>2, <1>3
<1> QED BY <1>4 DEF Same

\* ... and products keep.
LEMMA SameTimes ==
  ASSUME NEW a \in Int, NEW b \in Int, NEW c \in Int, NEW d \in Int, NEW m \in Int,
         Same(a, b, m), Same(c, d, m)
  PROVE  Same(a * c, b * d, m)
<1>1. PICK k \in Int : a = b + k * m
  BY DEF Same
<1>2. PICK l \in Int : c = d + l * m
  BY DEF Same
<1>3. a * c = (b * d) + (b * l + k * d + k * l * m) * m
  BY <1>1, <1>2
<1>4. b * l + k * d + k * l * m \in Int
  OBVIOUS
<1> QED BY <1>3, <1>4 DEF Same

\* The difference of two numbers below m is no multiple of m but zero.
LEMMA SameOfSmall ==
  ASSUME NEW m \in Nat \ {0}, NEW a \in 0 .. m - 1, NEW b \in 0 .. m - 1, Same(a, b, m)
  PROVE  a = b
<1>1. PICK k \in Int : a = b + k * m
  BY DEF Same
<1>2. CASE k >= 1
  <2>1. k * m >= m
    BY <1>2
  <2> QED BY <1>1, <2>1
<1>3. CASE k <= -1
  <2>1. k * m <= -m
    BY <1>3
  <2> QED BY <1>1, <2>1
<1>4. CASE k = 0
  BY <1>1, <1>4
<1> QED BY <1>2, <1>3, <1>4

\* A number is congruent to its remainder ...
LEMMA SameAsRest ==
  ASSUME NEW m \in Nat \ {0}, NEW a \in Int
  PROVE  a % m \in 0 .. m - 1 /\ Same(a % m, a, m) /\ Same(a, a % m, m)
<1>1. a = m * (a \div m) + (a % m) /\ a % m \in 0 .. m - 1 /\ a \div m \in Int
  OBVIOUS
<1> DEFINE q == a \div m
           r == a % m
<1> HIDE DEF q, r
<1>2. a = m * q + r /\ r \in 0 .. m - 1 /\ q \in Int
  BY <1>1 DEF q, r
<1>3. a = r + q * m
  BY <1>2
<1>4. r = a + (-q) * m
  BY <1>2
<1>5. Same(a, r, m)
  BY <1>2, <1>3 DEF Same
<1>6. Same(r, a, m)
  BY <1>2, <1>4 DEF Same
<1> QED BY <1>2, <1>5, <1>6 DEF r

\* Numbers that differ by a multiple of m have the same rest.
LEMMA RestsOfSame ==
  ASSUME NEW m \in Nat \ {0}, NEW a \in Int, NEW b \in Int, Same(a, b, m)
  PROVE  a % m = b % m
<1>1. /\ a % m \in 0 .. m - 1 /\ Same(a % m, a, m)
      /\ b % m \in 0 .. m - 1 /\ Same(b, b % m, m)
  BY SameAsRest
<1> DEFINE r == a % m
           s == b % m
<1> HIDE DEF r, s
<1>2. r \in 0 .. m - 1 /\ s \in 0 .. m - 1 /\ Same(r, a, m) /\ Same(b, s, m)
  BY <1>1 DEF r, s
<1>3. Same(a, s, m)
  BY <1>2, SameIsTransitive
<1>4. Same(r, s, m)
  BY <1>2, <1>3, SameIsTransitive
<1>5. r = s
  BY <1>2, <1>4, SameOfSmall
<1> QED BY <1>5 DEF r, s

\* ... and to no other number below m.
LEMMA RestIsSmall ==
  ASSUME NEW m \in Nat \ {0}, NEW a \in Int, NEW r \in 0 .. m - 1, Same(a, r, m)
  PROVE  a % m = r
<1>1. a % m \in 0 .. m - 1 /\ Same(a % m, a, m)
  BY SameAsRest
<1> DEFINE s == a % m
<1> HIDE DEF s
<1>2. s \in 0 .. m - 1 /\ Same(s, a, m)
  BY <1>1 DEF s
<1>3. Same(s, r, m)
  BY <1>2, SameIsTransitive
<1>4. s = r
  BY <1>2, <1>3, SameOfSmall
<1> QED BY <1>4 DEF s

(* ------------------------------- products ------------------------------ *)

\* P gives every subset of S the product of its numbers.
Multiplies(P, S) ==
  /\ P \in [SUBSET S -> Int]
  /\ P[{}] = 1
  /\ \A s \in SUBSET S : \A x \in s : P[s] = x * P[s \ {x}]

\* Numbers to multiply.
Numbers(S) == IsFiniteSet(S) /\ S \subseteq Int

\* Every finite set of integers has a table of products,
LEMMA ProductsExist ==
  ASSUME NEW S, Numbers(S)
  PROVE  \E P : Multiplies(P, S)
<1> DEFINE F == {s \in SUBSET S : \E P : Multiplies(P, s)}
<1>1. \A s \in SUBSET S : (\A u \in SUBSET s : u # s => u \in F) => s \in F
  <2> SUFFICES ASSUME NEW s \in SUBSET S, \A u \in SUBSET s : u # s => u \in F
               PROVE  \E P : Multiplies(P, s)
    OBVIOUS
  <2>1. CASE s = {}
    <3>1. Multiplies([u \in SUBSET s |-> 1], s)
      BY <2>1 DEF Multiplies
    <3> QED BY <3>1
  <2>2. CASE s # {}
    <3>1. PICK c \in s : TRUE
      BY <2>2
    <3>2. s \ {c} \in F
      <4>1. s \ {c} \in SUBSET s /\ s \ {c} # s
        OBVIOUS
      <4> HIDE DEF F
      <4> QED BY <4>1
    <3>3. PICK P : Multiplies(P, s \ {c})
      BY <3>2
    <3> DEFINE Q == [u \in SUBSET s |-> IF c \in u THEN c * P[u \ {c}] ELSE P[u]]
    <3>4. c \in Int
      BY DEF Numbers
    <3>5. \A u \in SUBSET s : u \ {c} \in SUBSET (s \ {c}) /\ P[u \ {c}] \in Int
      BY <3>3 DEF Multiplies
    <3>6. Q \in [SUBSET s -> Int]
      <4>1. ASSUME NEW u \in SUBSET s PROVE Q[u] \in Int
        <5>1. CASE c \in u
          <6>1. Q[u] = c * P[u \ {c}]
            BY <5>1
          <6>2. P[u \ {c}] \in Int
            BY <3>5
          <6> HIDE DEF Q
          <6> QED BY <3>4, <6>1, <6>2
        <5>2. CASE c \notin u
          <6>1. Q[u] = P[u]
            BY <5>2
          <6>2. u \ {c} = u
            BY <5>2
          <6>3. P[u] \in Int
            BY <3>5, <6>2
          <6> HIDE DEF Q
          <6> QED BY <6>1, <6>3
        <5> QED BY <5>1, <5>2
      <4>2. Q = [u \in SUBSET s |-> Q[u]]
        OBVIOUS
      <4> HIDE DEF Q
      <4> QED BY <4>1, <4>2
    <3>7. Q[{}] = 1
      BY <3>3 DEF Multiplies
    <3>8. ASSUME NEW u \in SUBSET s, NEW x \in u PROVE Q[u] = x * Q[u \ {x}]
      <4>1. CASE x = c
        <5>1. Q[u] = c * P[u \ {c}] /\ Q[u \ {c}] = P[u \ {c}]
          BY <4>1
        <5> QED BY <4>1, <5>1
      <4>2. CASE x # c /\ c \notin u
        <5>1. Q[u] = P[u] /\ Q[u \ {x}] = P[u \ {x}]
          BY <4>2
        <5>2. P[u] = x * P[u \ {x}]
          BY <3>3, <4>2 DEF Multiplies
        <5> QED BY <5>1, <5>2
      <4>3. CASE x # c /\ c \in u
        <5>1. /\ Q[u] = c * P[u \ {c}]
              /\ Q[u \ {x}] = c * P[(u \ {x}) \ {c}]
          BY <4>3
        <5>2. (u \ {x}) \ {c} = (u \ {c}) \ {x} /\ x \in u \ {c} /\ u \ {c} \in SUBSET (s \ {c})
          BY <4>3
        <5>3. P[u \ {c}] = x * P[(u \ {c}) \ {x}]
          BY <3>3, <5>2 DEF Multiplies
        <5>4. P[(u \ {c}) \ {x}] \in Int
          BY <3>3, <5>2 DEF Multiplies
        <5>5. x \in Int
          BY DEF Numbers
        <5> DEFINE p == P[(u \ {c}) \ {x}]
        <5> HIDE DEF p, Q
        <5>6. c * (x * p) = x * (c * p)
          BY <3>4, <5>4, <5>5 DEF p
        <5> QED BY <5>1, <5>2, <5>3, <5>6 DEF p
      <4> QED BY <4>1, <4>2, <4>3
    <3>9. Multiplies(Q, s)
      <4> HIDE DEF Q
      <4> QED BY <3>6, <3>7, <3>8 DEF Multiplies
    <3> QED BY <3>9
  <2> QED BY <2>1, <2>2
<1>2. \A s \in SUBSET S : s \in F
  <2> HIDE DEF F
  <2> QED BY <1>1, SubsetInduction DEF Numbers
<1> QED BY <1>2

\* and only one.
LEMMA ProductsAreUnique ==
  ASSUME NEW S, Numbers(S), NEW u \in SUBSET S, NEW P, NEW Q, Multiplies(P, S), Multiplies(Q, u)
  PROVE  P[u] = Q[u]
<1> DEFINE F == {s \in SUBSET u : P[s] = Q[s]}
<1>1. \A s \in SUBSET u : (\A t \in SUBSET s : t # s => t \in F) => s \in F
  <2> SUFFICES ASSUME NEW s \in SUBSET u, \A t \in SUBSET s : t # s => t \in F
               PROVE  P[s] = Q[s]
    OBVIOUS
  <2>1. CASE s = {}
    BY <2>1 DEF Multiplies
  <2>2. CASE s # {}
    <3>1. PICK c \in s : TRUE
      BY <2>2
    <3>2. s \ {c} \in F
      <4>1. s \ {c} \in SUBSET s /\ s \ {c} # s
        OBVIOUS
      <4> HIDE DEF F
      <4> QED BY <4>1
    <3>3. P[s] = c * P[s \ {c}] /\ Q[s] = c * Q[s \ {c}]
      BY DEF Multiplies
    <3> QED BY <3>2, <3>3
  <2> QED BY <2>1, <2>2
<1>2. IsFiniteSet(u)
  BY FS_Subset DEF Numbers
<1>3. \A s \in SUBSET u : s \in F
  <2> HIDE DEF F
  <2> QED BY <1>1, <1>2, SubsetInduction
<1> QED BY <1>3

\* The product of a finite set of numbers.
ProductOf(S) == (CHOOSE P : Multiplies(P, S))[S]

\* The table holds the products of the subsets.
LEMMA ProductOfValue ==
  ASSUME NEW S, Numbers(S), NEW P, Multiplies(P, S), NEW u \in SUBSET S
  PROVE  P[u] = ProductOf(u)
<1>1. Numbers(u)
  BY FS_Subset DEF Numbers
<1> DEFINE Q == CHOOSE Q : Multiplies(Q, u)
<1>2. Multiplies(Q, u)
  BY <1>1, ProductsExist
<1> HIDE DEF Q
<1>3. P[u] = Q[u]
  BY <1>2, ProductsAreUnique
<1> QED BY <1>3 DEF Q, ProductOf

\* The empty product.
LEMMA ProductOfNone == ProductOf({}) = 1
<1>1. Numbers({})
  BY FS_EmptySet DEF Numbers
<1>2. PICK P : Multiplies(P, {})
  BY <1>1, ProductsExist
<1>3. P[{}] = ProductOf({})
  BY <1>1, <1>2, ProductOfValue
<1> QED BY <1>2, <1>3 DEF Multiplies

\* A product of integers is one.
LEMMA ProductType ==
  ASSUME NEW S, Numbers(S)
  PROVE  ProductOf(S) \in Int
<1>1. PICK P : Multiplies(P, S)
  BY ProductsExist
<1>2. P[S] = ProductOf(S)
  BY <1>1, ProductOfValue
<1> QED BY <1>1, <1>2 DEF Multiplies

\* Any element can be taken out of a product first,
LEMMA ProductWithout ==
  ASSUME NEW S, Numbers(S), NEW x \in S
  PROVE  ProductOf(S) = x * ProductOf(S \ {x}) /\ Numbers(S \ {x})
<1>1. PICK P : Multiplies(P, S)
  BY ProductsExist
<1>2. P[S] = ProductOf(S) /\ P[S \ {x}] = ProductOf(S \ {x})
  BY <1>1, ProductOfValue
<1>3. Numbers(S \ {x})
  BY FS_Subset DEF Numbers
<1> QED BY <1>1, <1>2, <1>3 DEF Multiplies

\* and a new one put in.
LEMMA ProductWith ==
  ASSUME NEW S, Numbers(S), NEW x \in Int, x \notin S
  PROVE  ProductOf(S \cup {x}) = x * ProductOf(S) /\ Numbers(S \cup {x})
<1>1. Numbers(S \cup {x})
  BY FS_AddElement DEF Numbers
<1>2. (S \cup {x}) \ {x} = S
  OBVIOUS
<1> QED BY <1>1, <1>2, ProductWithout

\* The product of a disjoint union.
LEMMA ProductOfTwo ==
  ASSUME NEW S, NEW T, Numbers(S), Numbers(T), S \cap T = {}
  PROVE  ProductOf(S \cup T) = ProductOf(S) * ProductOf(T) /\ Numbers(S \cup T)
<1> DEFINE F == {u \in SUBSET T : ProductOf(S \cup u) = ProductOf(S) * ProductOf(u)}
<1>1. \A u \in SUBSET T : Numbers(S \cup u) /\ Numbers(u)
  BY FS_Subset, FS_Union DEF Numbers
<1>2. ProductOf(S) \in Int
  BY ProductType
<1>3. \A u \in SUBSET T : (\A t \in SUBSET u : t # u => t \in F) => u \in F
  <2> SUFFICES ASSUME NEW u \in SUBSET T, \A t \in SUBSET u : t # u => t \in F
               PROVE  ProductOf(S \cup u) = ProductOf(S) * ProductOf(u)
    OBVIOUS
  <2>1. CASE u = {}
    <3>1. S \cup u = S
      BY <2>1
    <3> QED BY <1>2, <2>1, <3>1, ProductOfNone
  <2>2. CASE u # {}
    <3>1. PICK c \in u : TRUE
      BY <2>2
    <3>2. u \ {c} \in F
      <4>1. u \ {c} \in SUBSET u /\ u \ {c} # u
        OBVIOUS
      <4> HIDE DEF F
      <4> QED BY <4>1
    <3>3. (S \cup u) \ {c} = S \cup (u \ {c}) /\ c \in S \cup u
      BY <3>1
    <3>4. /\ ProductOf(S \cup u) = c * ProductOf((S \cup u) \ {c})
          /\ ProductOf(u) = c * ProductOf(u \ {c})
      BY <1>1, <3>1, <3>3, ProductWithout
    <3>5. ProductOf(u \ {c}) \in Int /\ c \in Int
      BY <1>1, <3>1, ProductType DEF Numbers
    <3> DEFINE a == ProductOf(S)
               b == ProductOf(u \ {c})
    <3>6. ProductOf((S \cup u) \ {c}) = a * b
      BY <3>2, <3>3
    <3> HIDE DEF a, b
    <3>7. c * (a * b) = a * (c * b)
      BY <1>2, <3>5 DEF a, b
    <3> QED BY <3>4, <3>6, <3>7 DEF a, b
  <2> QED BY <2>1, <2>2
<1>4. \A u \in SUBSET T : u \in F
  <2> HIDE DEF F
  <2> QED BY <1>3, SubsetInduction DEF Numbers
<1> QED BY <1>1, <1>4

(* --------------------------- Wilson's theorem -------------------------- *)

IsPrime(p) == p >= 2 /\ \A d \in 2 .. p - 1 : p % d # 0

\* a and b are inverse to one another modulo p.
Cancel(a, b, p) == Same(a * b, 1, p)

\* What is below a prime has an inverse.
LEMMA InverseExists ==
  ASSUME NEW p \in Nat, IsPrime(p), NEW a \in 1 .. p - 1
  PROVE  \E b \in 1 .. p - 1 : Cancel(a, b, p)
<1> DEFINE T == {t \in Nat \ {0} : \E x, y \in Int : t = x * a + y * p}
<1>0. p \in Nat \ {0} /\ p >= 2
  BY DEF IsPrime
<1>1. a \in T
  <2>1. a = 1 * a + 0 * p
    OBVIOUS
  <2> QED BY <2>1
<1>2. PICK d \in T : \A t \in T : d <= t
  BY <1>1, LeastNatural
<1>3. PICK x \in Int, y \in Int : d = x * a + y * p
  BY <1>2
<1>4. d \in Nat \ {0} /\ d <= a
  BY <1>1, <1>2
<1>5. d = 1
  <2> DEFINE q == p \div d
             r == p % d
  <2>1. p = d * q + r /\ r \in 0 .. d - 1 /\ q \in Int
    BY <1>4
  <2> HIDE DEF q
  <2>2. r = (-(q * x)) * a + (1 - q * y) * p
    <3> HIDE DEF r
    <3>1. r = p - q * (x * a + y * p)
      BY <1>3, <1>4, <2>1
    <3>2. q * (x * a + y * p) = (q * x) * a + (q * y) * p
      BY <2>1
    <3> QED BY <2>1, <3>1, <3>2
  <2>3. r = 0
    <3> SUFFICES ASSUME r # 0 PROVE FALSE
      OBVIOUS
    <3>1. PICK u \in Int, v \in Int : u = -(q * x) /\ v = 1 - q * y
      BY <2>1
    <3>2. r \in T
      <4> HIDE DEF r
      <4>1. r = u * a + v * p /\ r \in Nat \ {0}
        BY <2>1, <2>2, <3>1
      <4> QED BY <4>1
    <3> HIDE DEF r, T
    <3> QED BY <1>2, <2>1, <3>2
  <2>4. d < p
    BY <1>4
  <2> QED BY <1>4, <2>3, <2>4 DEF IsPrime
<1> DEFINE b == x % p
<1>6. b \in 0 .. p - 1 /\ Same(b, x, p)
  BY <1>0, SameAsRest
<1> HIDE DEF b
<1>7. Same(a * b, a * x, p)
  <2>1. a \in Int /\ b \in Int /\ p \in Int /\ Same(a, a, p)
    BY <1>6, SameIsReflexive
  <2> QED BY <1>6, <2>1, SameTimes
<1>8. Same(a * x, 1, p)
  <2>1. a * x = 1 + (-y) * p
    BY <1>0, <1>3, <1>5
  <2>2. -y \in Int
    OBVIOUS
  <2> QED BY <2>1, <2>2 DEF Same
<1>9. Same(a * b, 1, p)
  <2>1. a * b \in Int /\ a * x \in Int /\ 1 \in Int /\ p \in Int
    BY <1>6
  <2> QED BY <1>7, <1>8, <2>1, SameIsTransitive
<1>10. b # 0
  <2> SUFFICES ASSUME b = 0 PROVE FALSE
    OBVIOUS
  <2>1. a * b = 0
    OBVIOUS
  <2>2. Same(0, 1, p)
    BY <1>9, <2>1
  <2>3. 0 \in 0 .. p - 1 /\ 1 \in 0 .. p - 1
    BY <1>0
  <2> QED BY <1>0, <2>2, <2>3, SameOfSmall
<1> QED BY <1>6, <1>9, <1>10 DEF Cancel

\* There is only one.
LEMMA InverseIsUnique ==
  ASSUME NEW p \in Nat \ {0}, NEW a \in Int, NEW b \in 0 .. p - 1, NEW c \in 0 .. p - 1,
         Cancel(a, b, p), Cancel(a, c, p)
  PROVE  b = c
<1>1. /\ Same(b, b, p) /\ Same(c, c, p)
      /\ a * b \in Int /\ a * c \in Int /\ b * (a * c) \in Int /\ (a * b) * c \in Int
  BY SameIsReflexive
<1>2. Same(b * (a * c), b * 1, p)
  BY <1>1, SameTimes DEF Cancel
<1>3. Same((a * b) * c, 1 * c, p)
  BY <1>1, SameTimes DEF Cancel
<1>4. b * (a * c) = (a * b) * c /\ b * 1 = b /\ 1 * c = c
  OBVIOUS
<1>5. Same(b, b * (a * c), p)
  BY <1>1, <1>2, <1>4, SameIsSymmetric
<1>6. Same(b * (a * c), c, p)
  BY <1>3, <1>4
<1>7. Same(b, c, p)
  BY <1>1, <1>5, <1>6, SameIsTransitive
<1> QED BY <1>7, SameOfSmall

\* 1 and p - 1 alone are their own inverses.
LEMMA SelfInverse ==
  ASSUME NEW p \in Nat, IsPrime(p), NEW a \in 1 .. p - 1, Cancel(a, a, p)
  PROVE  a = 1 \/ a = p - 1
<1> SUFFICES ASSUME a # 1 PROVE a = p - 1
  OBVIOUS
<1>0. p \in Nat \ {0} /\ p >= 2
  BY DEF IsPrime
<1>1. a - 1 \in 1 .. p - 1
  OBVIOUS
<1>2. PICK c \in 1 .. p - 1 : Cancel(a - 1, c, p)
  BY <1>1, InverseExists
<1>3. Same((a - 1) * (a + 1), 0, p)
  <2>1. PICK k \in Int : a * a = 1 + k * p
    BY DEF Cancel, Same
  <2>2. (a - 1) * (a + 1) = 0 + k * p
    BY <2>1
  <2> QED BY <2>2 DEF Same
<1> DEFINE e == (a - 1) * (a + 1)
           f == (a - 1) * c
<1>4. e \in Int /\ f \in Int /\ c * e = f * (a + 1)
  OBVIOUS
<1>5. Same(e, 0, p) /\ Same(f, 1, p)
  BY <1>2, <1>3 DEF Cancel
<1> HIDE DEF e, f
<1>6. Same(c * e, c * 0, p)
  <2>1. c \in Int /\ e \in Int /\ 0 \in Int /\ p \in Int /\ Same(c, c, p)
    BY <1>4, SameIsReflexive
  <2> QED BY <1>5, <2>1, SameTimes
<1>7. Same(f * (a + 1), 1 * (a + 1), p)
  BY <1>4, <1>5, SameIsReflexive, SameTimes
<1>8. c * 0 = 0 /\ 1 * (a + 1) = a + 1 /\ f * (a + 1) \in Int
  BY <1>4
<1>9. Same(f * (a + 1), 0, p)
  BY <1>4, <1>6, <1>8
<1>10. Same(a + 1, f * (a + 1), p)
  BY <1>7, <1>8, SameIsSymmetric
<1>11. Same(a + 1, 0, p)
  BY <1>8, <1>9, <1>10, SameIsTransitive
<1>12. CASE a + 1 <= p - 1
  <2>1. a + 1 \in 0 .. p - 1 /\ 0 \in 0 .. p - 1
    BY <1>0, <1>12
  <2>2. a + 1 = 0
    BY <1>0, <1>11, <2>1, SameOfSmall
  <2> QED BY <2>2
<1> QED BY <1>12

\* The numbers of a set that is closed under inverses cancel in pairs.
Paired(p, inv, T) ==
  \A a \in T : inv[a] \in T /\ inv[a] # a /\ inv[inv[a]] = a /\ Cancel(a, inv[a], p)

\* Numbers that come in pairs of inverses multiply to 1.
LEMMA PairsCancel ==
  ASSUME NEW p \in Nat \ {0}, NEW inv, NEW T, Numbers(T), Paired(p, inv, T)
  PROVE  Same(ProductOf(T), 1, p)
<1> DEFINE F == {s \in SUBSET T : (\A a \in s : inv[a] \in s) => Same(ProductOf(s), 1, p)}
<1>1. \A s \in SUBSET T : (\A u \in SUBSET s : u # s => u \in F) => s \in F
  <2> SUFFICES ASSUME NEW s \in SUBSET T, \A u \in SUBSET s : u # s => u \in F,
                      \A a \in s : inv[a] \in s
               PROVE  Same(ProductOf(s), 1, p)
    OBVIOUS
  <2>1. CASE s = {}
    BY <2>1, ProductOfNone, SameIsReflexive
  <2>2. CASE s # {}
    <3>1. PICK c \in s : TRUE
      BY <2>2
    <3>2. PICK d \in s : d = inv[c] /\ d # c /\ inv[d] = c /\ Cancel(c, d, p)
      BY DEF Paired
    <3> DEFINE u == (s \ {c}) \ {d}
    <3>3. \A a \in u : inv[a] \in u
      <4> SUFFICES ASSUME NEW a \in u PROVE inv[a] \in s /\ inv[a] # c /\ inv[a] # d
        OBVIOUS
      <4>1. inv[inv[a]] = a
        BY DEF Paired
      <4> QED BY <3>2, <4>1
    <3>4. u \in F
      <4>1. u \in SUBSET s /\ u # s
        BY <3>1
      <4> HIDE DEF F, u
      <4> QED BY <4>1
    <3>5. Same(ProductOf(u), 1, p)
      BY <3>3, <3>4
    <3>6. Numbers(s)
      BY FS_Subset DEF Numbers
    <3>7. ProductOf(s) = c * ProductOf(s \ {c}) /\ Numbers(s \ {c})
      BY <3>6, ProductWithout
    <3>8. d \in s \ {c}
      BY <3>2
    <3>9. ProductOf(s \ {c}) = d * ProductOf(u) /\ Numbers(u)
      BY <3>7, <3>8, ProductWithout
    <3>10. ProductOf(u) \in Int
      BY <3>9, ProductType
    <3>11. c \in Int /\ d \in Int
      BY <3>6 DEF Numbers
    <3> DEFINE r == ProductOf(u)
    <3> HIDE DEF u, r
    <3>12. ProductOf(s) = (c * d) * r
      <4>1. c * (d * r) = (c * d) * r
        BY <3>10, <3>11 DEF r
      <4> QED BY <3>7, <3>9, <4>1 DEF r
    <3>13. Same((c * d) * r, 1 * 1, p)
      <4>1. c * d \in Int /\ r \in Int /\ Same(r, 1, p)
        BY <3>5, <3>10, <3>11 DEF r
      <4> QED BY <3>2, <4>1, SameTimes DEF Cancel
    <3>14. 1 * 1 = 1
      OBVIOUS
    <3> QED BY <3>12, <3>13, <3>14
  <2> QED BY <2>1, <2>2
<1>2. T \in F
  <2>1. \A s \in SUBSET T : s \in F
    <3> HIDE DEF F
    <3> QED BY <1>1, SubsetInduction DEF Numbers
  <2> QED BY <2>1
<1> QED BY <1>2 DEF Paired

\* Intervals have products.
LEMMA IntervalsAreNumbers ==
  ASSUME NEW a \in Int, NEW b \in Int
  PROVE  Numbers(a .. b)
BY FS_Interval DEF Numbers

\* (p - 1)! leaves p - 1 if p is prime ...
LEMMA FactorialOfPrime ==
  ASSUME NEW p \in Nat, IsPrime(p)
  PROVE  ProductOf(1 .. p - 1) % p = p - 1
<1>0. p \in Nat \ {0} /\ p >= 2
  BY DEF IsPrime
<1> DEFINE T == 2 .. p - 2
           inv == [a \in 1 .. p - 1 |-> CHOOSE b \in 1 .. p - 1 : Cancel(a, b, p)]
<1>1. \A a \in 1 .. p - 1 : inv[a] \in 1 .. p - 1 /\ Cancel(a, inv[a], p)
  BY InverseExists
<1>2. \A a, b \in 1 .. p - 1 : Cancel(a, b, p) => Cancel(b, a, p)
  <2> SUFFICES ASSUME NEW a \in 1 .. p - 1, NEW b \in 1 .. p - 1, Cancel(a, b, p)
               PROVE  Cancel(b, a, p)
    OBVIOUS
  <2>1. a * b = b * a
    OBVIOUS
  <2> QED BY <2>1 DEF Cancel
<1>3. \A a, b, c \in 1 .. p - 1 : Cancel(a, b, p) /\ Cancel(a, c, p) => b = c
  <2> SUFFICES ASSUME NEW a \in 1 .. p - 1, NEW b \in 1 .. p - 1, NEW c \in 1 .. p - 1,
                      Cancel(a, b, p), Cancel(a, c, p)
               PROVE  b = c
    OBVIOUS
  <2>1. a \in Int /\ b \in 0 .. p - 1 /\ c \in 0 .. p - 1
    OBVIOUS
  <2> QED BY <1>0, <2>1, InverseIsUnique
<1>4. Cancel(1, 1, p) /\ Cancel(p - 1, p - 1, p)
  <2>1. 1 * 1 = 1 /\ (p - 1) * (p - 1) = 1 + (p - 2) * p /\ p - 2 \in Int
    OBVIOUS
  <2>2. Same(1, 1, p)
    BY SameIsReflexive
  <2> QED BY <2>1, <2>2 DEF Cancel, Same
<1>5. Paired(p, inv, T)
  <2> SUFFICES ASSUME NEW a \in T
               PROVE  inv[a] \in T /\ inv[a] # a /\ inv[inv[a]] = a /\ Cancel(a, inv[a], p)
    BY DEF Paired
  <2> HIDE DEF inv
  <2>1. a \in 1 .. p - 1 /\ 1 \in 1 .. p - 1 /\ p - 1 \in 1 .. p - 1 /\ a # 1 /\ a # p - 1
    BY <1>0
  <2>2. inv[a] \in 1 .. p - 1 /\ Cancel(a, inv[a], p) /\ Cancel(inv[a], a, p)
    BY <1>1, <1>2, <2>1
  <2>3. inv[a] # a
    BY <2>1, <2>2, SelfInverse
  <2>4. inv[inv[a]] = a
    BY <1>1, <1>3, <2>1, <2>2
  <2>5. inv[a] # 1 /\ inv[a] # p - 1
    BY <1>3, <1>4, <2>1, <2>2
  <2> QED BY <2>2, <2>3, <2>4, <2>5
<1>6. Numbers(T)
  BY IntervalsAreNumbers
<1>7. Same(ProductOf(T), 1, p)
  <2> HIDE DEF inv, T
  <2> QED BY <1>0, <1>5, <1>6, PairsCancel
<1>8. ProductOf(T) \in Int
  BY <1>6, ProductType
<1>9. CASE p = 2
  <2>1. 1 .. p - 1 = {} \cup {1}
    BY <1>9
  <2>2. ProductOf({} \cup {1}) = 1 * ProductOf({})
    BY FS_EmptySet, ProductWith DEF Numbers
  <2> QED BY <1>9, <2>1, <2>2, ProductOfNone
<1>10. CASE p # 2
  <2>1. 1 .. p - 1 = (T \cup {1}) \cup {p - 1}
    BY <1>0, <1>10
  <2>2. ProductOf(T \cup {1}) = 1 * ProductOf(T) /\ Numbers(T \cup {1})
    BY <1>6, ProductWith
  <2>3. p - 1 \notin T \cup {1}
    BY <1>0, <1>10
  <2>4. ProductOf((T \cup {1}) \cup {p - 1}) = (p - 1) * ProductOf(T \cup {1})
    BY <2>2, <2>3, ProductWith
  <2> DEFINE r == ProductOf(T)
  <2> HIDE DEF T, r
  <2>0. r \in Int /\ ProductOf(T \cup {1}) = 1 * r
    BY <1>8, <2>2 DEF r
  <2>5. ProductOf(1 .. p - 1) = (p - 1) * r
    <3>1. 1 * r = r
      BY <2>0
    <3> QED BY <2>0, <2>1, <2>4, <3>1
  <2>6. Same((p - 1) * r, (p - 1) * 1, p)
    <3>1. p - 1 \in Int /\ r \in Int /\ 1 \in Int /\ p \in Int /\ Same(r, 1, p)
      BY <1>7, <1>8 DEF r
    <3>2. Same(p - 1, p - 1, p)
      BY <3>1, SameIsReflexive
    <3> QED BY <3>1, <3>2, SameTimes
  <2>7. (p - 1) * 1 = p - 1 /\ (p - 1) * r \in Int /\ p - 1 \in 0 .. p - 1
    BY <1>0, <2>0
  <2>8. ((p - 1) * r) % p = p - 1
    BY <1>0, <2>6, <2>7, RestIsSmall
  <2> QED BY <2>5, <2>8
<1> QED BY <1>9, <1>10

\* ... and not otherwise.
LEMMA FactorialOfComposite ==
  ASSUME NEW n \in Nat \ {0, 1}, ~IsPrime(n)
  PROVE  ProductOf(1 .. n - 1) % n # n - 1
<1>1. PICK d \in 2 .. n - 1 : n % d = 0
  <2>1. n >= 2
    OBVIOUS
  <2> QED BY <2>1 DEF IsPrime
<1>2. PICK e \in Int : n = d * e
  <2>1. n = d * (n \div d) + (n % d) /\ n \div d \in Int
    BY <1>1
  <2> QED BY <1>1, <2>1
<1>3. d \in 1 .. n - 1 /\ Numbers(1 .. n - 1)
  BY IntervalsAreNumbers
<1> DEFINE S == 1 .. n - 1
           q == ProductOf(S \ {d})
           f == ProductOf(S)
<1>4. f = d * q /\ Numbers(S \ {d})
  <2> HIDE DEF S
  <2> QED BY <1>3, ProductWithout DEF S
<1>5. q \in Int
  BY <1>4, ProductType
<1> HIDE DEF S, q, f
<1> SUFFICES ASSUME f % n = n - 1 PROVE FALSE
  BY DEF f, S
<1>6. f \in Int
  BY <1>4, <1>5
<1>7. PICK k \in Int : n - 1 = f + k * n
  <2>1. Same(f % n, f, n)
    BY <1>6, SameAsRest
  <2> QED BY <2>1 DEF Same
<1>8. d * (e - q - k * e) = 1
  <2>1. d * e - 1 = d * q + k * (d * e)
    BY <1>2, <1>4, <1>7
  <2> QED BY <1>2, <1>5, <1>7, <2>1
<1>9. PICK j \in Int : j = e - q - k * e
  BY <1>2, <1>5, <1>7
<1>10. d * j = 1
  BY <1>8, <1>9
<1>11. CASE j >= 1
  <2>1. d * j >= d
    BY <1>11
  <2> QED BY <1>10, <2>1
<1>12. CASE j <= 0
  <2>1. d * j <= 0
    BY <1>12
  <2> QED BY <1>10, <2>1
<1> QED BY <1>11, <1>12

\* What the Wilson consumers read primality from.
THEOREM WilsonsTheorem ==
  ASSUME NEW n \in Nat \ {0, 1}
  PROVE  IsPrime(n) <=> ProductOf(1 .. n - 1) % n = n - 1
BY FactorialOfPrime, FactorialOfComposite

(* ------------------ products that are reduced on the way --------------- *)

\* The product of a set, reduced modulo m after every factor, from a base.
ReducedProduct(S, base, m) == FoldSet(LAMBDA f, value : (value * f) % m, base, S)

ReducedStep(S, base, m, g) ==
  [s \in SUBSET S |->
     IF s = {} THEN base
     ELSE (g[s \ {CHOOSE x \in s : TRUE}] * (CHOOSE x \in s : TRUE)) % m]

ReducedPartial(S, base, m) == CHOOSE g : g = ReducedStep(S, base, m, g)

\* A reduced product as the recursive function its fold unfolds to.
LEMMA ReducedIsPartial ==
  ASSUME NEW S, NEW base, NEW m
  PROVE  ReducedProduct(S, base, m) = ReducedPartial(S, base, m)[S]
BY DEF ReducedProduct, FoldSet, MapThenFoldSet, ReducedStep, ReducedPartial

\* One factor more, reduced.
LEMMA RestOfTimes ==
  ASSUME NEW m \in Nat \ {0}, NEW a \in Int, NEW b \in Int, NEW c \in Int, Same(a, b, m)
  PROVE  (a * c) % m = (c * b) % m
<1>1. a * c \in Int /\ b * c \in Int /\ b * c = c * b
  OBVIOUS
<1>2. Same(c, c, m)
  BY SameIsReflexive
<1>3. Same(a * c, b * c, m)
  BY <1>2, SameTimes
<1>4. (a * c) % m = (b * c) % m
  BY <1>1, <1>3, RestsOfSame
<1> QED BY <1>1, <1>4

\* It is the rest of the product.
LEMMA ReducedProductIsRest ==
  ASSUME NEW S, Numbers(S), NEW m \in Nat \ {0}, NEW base \in Int, Same(base, 1, m)
  PROVE  ReducedProduct(S, base, m) = IF S = {} THEN base ELSE ProductOf(S) % m
<1> DEFINE V(s) == IF s = {} THEN base ELSE ProductOf(s) % m
           W == [s \in SUBSET S |-> V(s)]
           C(s) == CHOOSE x \in s : TRUE
<1>1. ASSUME NEW s \in SUBSET S, s # {}
      PROVE  C(s) \in s /\ s \ {C(s)} \in SUBSET s /\ s \ {C(s)} # s
  BY <1>1
<1>2. ASSUME NEW s \in SUBSET S
      PROVE  Numbers(s) /\ ProductOf(s) \in Int /\ V(s) \in Int /\ Same(V(s), ProductOf(s), m)
  <2>1. Numbers(s)
    BY FS_Subset DEF Numbers
  <2>2. ProductOf(s) \in Int
    BY <2>1, ProductType
  <2>3. CASE s = {}
    BY <2>1, <2>2, <2>3, ProductOfNone
  <2>4. CASE s # {}
    BY <2>1, <2>2, <2>4, SameAsRest
  <2> QED BY <2>3, <2>4
<1>3. ASSUME NEW s \in SUBSET S, s # {}
      PROVE  V(s) = (V(s \ {C(s)}) * C(s)) % m
  <2> DEFINE c == C(s)
             r == s \ {c}
  <2>1. c \in s /\ Numbers(s) /\ c \in Int
    BY <1>1, <1>2, <1>3 DEF Numbers
  <2>2. ProductOf(s) = c * ProductOf(r)
    BY <2>1, ProductWithout
  <2>3. /\ ProductOf(r) \in Int /\ V(r) \in Int /\ Same(V(r), ProductOf(r), m)
    BY <1>2
  <2> DEFINE v == V(r)
             p == ProductOf(r)
  <2>4. V(s) = ProductOf(s) % m
    BY <1>3
  <2> HIDE DEF c, r, v, p, C, V
  <2>5. v \in Int /\ p \in Int /\ Same(v, p, m)
    BY <2>3 DEF v, p
  <2>6. (v * c) % m = (c * p) % m
    BY <2>1, <2>5, RestOfTimes
  <2> QED BY <2>2, <2>4, <2>6 DEF v, p, r, c
<1>4. W = ReducedStep(S, base, m, W)
  <2>1. ASSUME NEW s \in SUBSET S PROVE W[s] = ReducedStep(S, base, m, W)[s]
    <3>1. CASE s = {}
      BY <3>1 DEF ReducedStep
    <3>2. CASE s # {}
      <4>1. W[s] = V(s) /\ W[s \ {C(s)}] = V(s \ {C(s)})
        BY <1>1, <3>2
      <4>2. ReducedStep(S, base, m, W)[s] = (W[s \ {C(s)}] * C(s)) % m
        <5> HIDE DEF W
        <5> QED BY <3>2 DEF ReducedStep
      <4>3. V(s) = (V(s \ {C(s)}) * C(s)) % m
        BY <1>3, <3>2
      <4> HIDE DEF V, W, C
      <4> QED BY <4>1, <4>2, <4>3
    <3> QED BY <3>1, <3>2
  <2>2. W = [s \in SUBSET S |-> W[s]]
    OBVIOUS
  <2>3. ReducedStep(S, base, m, W) = [s \in SUBSET S |-> ReducedStep(S, base, m, W)[s]]
    BY DEF ReducedStep
  <2> HIDE DEF W
  <2> QED BY <2>1, <2>2, <2>3
<1> DEFINE g == ReducedPartial(S, base, m)
<1>5. g = ReducedStep(S, base, m, g)
  <2> HIDE DEF W
  <2> QED BY <1>4 DEF ReducedPartial
<1> DEFINE F == {s \in SUBSET S : g[s] = V(s)}
<1>6. \A s \in SUBSET S : (\A u \in SUBSET s : u # s => u \in F) => s \in F
  <2> SUFFICES ASSUME NEW s \in SUBSET S, \A u \in SUBSET s : u # s => u \in F
               PROVE  g[s] = V(s)
    OBVIOUS
  <2> HIDE DEF g
  <2>1. CASE s = {}
    BY <1>5, <2>1 DEF ReducedStep
  <2>2. CASE s # {}
    <3>1. g[s] = (g[s \ {C(s)}] * C(s)) % m
      BY <1>5, <2>2 DEF ReducedStep
    <3>2. s \ {C(s)} \in F
      <4>1. s \ {C(s)} \in SUBSET s /\ s \ {C(s)} # s
        BY <1>1, <2>2
      <4> HIDE DEF F, C
      <4> QED BY <4>1
    <3>3. V(s) = (V(s \ {C(s)}) * C(s)) % m
      BY <1>3, <2>2
    <3>4. g[s \ {C(s)}] = V(s \ {C(s)})
      BY <3>2
    <3> HIDE DEF V, C
    <3> QED BY <3>1, <3>3, <3>4
  <2> QED BY <2>1, <2>2
<1>7. S \in F
  <2>1. \A s \in SUBSET S : s \in F
    <3> HIDE DEF F
    <3> QED BY <1>6, SubsetInduction DEF Numbers
  <2> QED BY <2>1
<1>8. g[S] = V(S)
  BY <1>7
<1> HIDE DEF g
<1> QED BY <1>8, ReducedIsPartial DEF g

\* The product of an interval is that of two parts,
LEMMA IntervalSplit ==
  ASSUME NEW a \in Int, NEW b \in Int, NEW c \in Int, a <= b, b <= c
  PROVE  ProductOf(a + 1 .. c) = ProductOf(a + 1 .. b) * ProductOf(b + 1 .. c)
<1>1. a + 1 .. c = (a + 1 .. b) \cup (b + 1 .. c) /\ (a + 1 .. b) \cap (b + 1 .. c) = {}
  OBVIOUS
<1>2. Numbers(a + 1 .. b) /\ Numbers(b + 1 .. c)
  BY IntervalsAreNumbers
<1> QED BY <1>1, <1>2, ProductOfTwo

\* and of one number more.
LEMMA IntervalNext ==
  ASSUME NEW a \in Int, NEW b \in Int, a <= b + 1
  PROVE  ProductOf(a .. b + 1) = (b + 1) * ProductOf(a .. b)
<1>1. a .. b + 1 = (a .. b) \cup {b + 1} /\ b + 1 \notin a .. b /\ b + 1 \in Int
  OBVIOUS
<1>2. Numbers(a .. b)
  BY IntervalsAreNumbers
<1> QED BY <1>1, <1>2, ProductWith

\* A product of consecutive numbers computed by halves.
HalvingStep(n, m, g) ==
  [r \in (0 .. n) \X (0 .. n) |->
     IF r[2] = r[1] THEN 1 % m
     ELSE IF r[2] = r[1] + 1 THEN r[2] % m
     ELSE (g[<<r[1], (r[1] + r[2]) \div 2>>] * g[<<(r[1] + r[2]) \div 2, r[2]>>]) % m]

HalvingPartial(n, m) == CHOOSE g : g = HalvingStep(n, m, g)

\* The middle of a range lies inside it.
LEMMA MiddleOf ==
  ASSUME NEW a \in Int, NEW b \in Int
  PROVE  /\ (a + b) \div 2 \in Int
         /\ b < a => b <= (a + b) \div 2 /\ (a + b) \div 2 < a
         /\ a + 1 < b => a < (a + b) \div 2 /\ (a + b) \div 2 < b
OBVIOUS

\* Factors can be reduced before they are multiplied.
LEMMA RestOfProductOfRests ==
  ASSUME NEW m \in Nat \ {0}, NEW a \in Int, NEW b \in Int
  PROVE  ((a % m) * (b % m)) % m = (a * b) % m
<1> DEFINE r == a % m
           s == b % m
<1>0. a % m \in 0 .. m - 1 /\ b % m \in 0 .. m - 1 /\ m \in Int
  BY SameAsRest
<1>1. r \in Int /\ s \in Int /\ Same(r, a, m) /\ Same(s, b, m)
  BY <1>0, SameAsRest
<1> HIDE DEF r, s
<1>2. Same(r * s, a * b, m)
  BY <1>1, SameTimes
<1>3. r * s \in Int /\ a * b \in Int
  BY <1>1
<1>4. (r * s) % m = (a * b) % m
  BY <1>2, <1>3, RestsOfSame
<1> QED BY <1>4 DEF r, s

RangeRest(a, b, m) == IF b < a THEN 0 ELSE ProductOf(a + 1 .. b) % m

\* The rests of ranges satisfy the halving.
LEMMA RangeRestHalves ==
  ASSUME NEW m \in Nat \ {0}, NEW a \in Int, NEW b \in Int
  PROVE  /\ RangeRest(a, b, m) \in Int
         /\ RangeRest(a, b, m) =
              IF b = a THEN 1 % m
              ELSE IF b = a + 1 THEN b % m
              ELSE (RangeRest(a, (a + b) \div 2, m) * RangeRest((a + b) \div 2, b, m)) % m
<1>1. ASSUME NEW x \in Int, NEW y \in Int
      PROVE  RangeRest(x, y, m) \in Int /\ ProductOf(x + 1 .. y) \in Int
  <2>1. ProductOf(x + 1 .. y) \in Int
    BY IntervalsAreNumbers, ProductType
  <2> QED BY <2>1, SameAsRest DEF RangeRest
<1>2. CASE b = a
  <2>1. a + 1 .. b = {} /\ ~(b < a)
    BY <1>2
  <2> QED BY <1>1, <1>2, <2>1, ProductOfNone DEF RangeRest
<1>3. CASE b = a + 1
  <2>1. a + 1 .. a = {} /\ a <= a /\ ~(b < a) /\ b # a
    BY <1>3
  <2>2. ProductOf(a + 1 .. a + 1) = (a + 1) * ProductOf(a + 1 .. a)
    <3>1. a + 1 \in Int /\ a + 1 <= a + 1
      OBVIOUS
    <3> QED BY <3>1, IntervalNext
  <2>3. ProductOf(a + 1 .. b) = b
    BY <1>3, <2>1, <2>2, ProductOfNone
  <2> QED BY <1>1, <1>3, <2>1, <2>3 DEF RangeRest
<1> DEFINE c == (a + b) \div 2
<1>4. CASE b < a
  <2>1. c \in Int /\ b <= c /\ c < a
    BY <1>4, MiddleOf
  <2> HIDE DEF c
  <2>2. RangeRest(a, c, m) = 0 /\ RangeRest(a, b, m) = 0
    BY <1>4, <2>1 DEF RangeRest
  <2>3. RangeRest(c, b, m) \in Int
    BY <1>1, <2>1
  <2> DEFINE r == RangeRest(c, b, m)
  <2> HIDE DEF r
  <2>4. (0 * r) % m = 0
    <3>1. 0 * r = 0
      BY <2>3 DEF r
    <3> QED BY <3>1
  <2>5. b # a /\ b # a + 1
    BY <1>4
  <2> QED BY <2>2, <2>4, <2>5 DEF r, c
<1>5. CASE a + 1 < b
  <2>1. c \in Int /\ a <= c /\ c <= b
    BY <1>5, MiddleOf
  <2> HIDE DEF c
  <2>2. /\ RangeRest(a, c, m) = ProductOf(a + 1 .. c) % m
        /\ RangeRest(c, b, m) = ProductOf(c + 1 .. b) % m
        /\ RangeRest(a, b, m) = ProductOf(a + 1 .. b) % m
    BY <1>5, <2>1 DEF RangeRest
  <2>3. ProductOf(a + 1 .. b) = ProductOf(a + 1 .. c) * ProductOf(c + 1 .. b)
    BY <2>1, IntervalSplit
  <2> DEFINE p == ProductOf(a + 1 .. c)
             q == ProductOf(c + 1 .. b)
  <2>4. p \in Int /\ q \in Int
    BY <1>1, <2>1
  <2> HIDE DEF p, q
  <2>5. ((p % m) * (q % m)) % m = (p * q) % m
    BY <2>4, RestOfProductOfRests
  <2>6. b # a /\ b # a + 1
    BY <1>5
  <2> QED BY <1>1, <2>2, <2>3, <2>5, <2>6 DEF p, q, c
<1> QED BY <1>2, <1>3, <1>4, <1>5

\* Multiplying by halves, reduced at every node, reduces the factorial.
LEMMA HalvingIsRest ==
  ASSUME NEW n \in Nat, NEW m \in Nat \ {0}
  PROVE  HalvingPartial(n, m)[<<0, n>>] = ProductOf(1 .. n) % m
<1> DEFINE W == [r \in (0 .. n) \X (0 .. n) |-> RangeRest(r[1], r[2], m)]
<1>1. \A a, b \in 0 .. n : b # a /\ b # a + 1 => (a + b) \div 2 \in 0 .. n
  <2> SUFFICES ASSUME NEW a \in 0 .. n, NEW b \in 0 .. n PROVE (a + b) \div 2 \in 0 .. n
    OBVIOUS
  <2> QED OBVIOUS
<1>2. W = HalvingStep(n, m, W)
  <2>1. ASSUME NEW a \in 0 .. n, NEW b \in 0 .. n
        PROVE  RangeRest(a, b, m) =
                 IF b = a THEN 1 % m
                 ELSE IF b = a + 1 THEN b % m
                 ELSE (W[<<a, (a + b) \div 2>>] * W[<<(a + b) \div 2, b>>]) % m
    <3>1. /\ b # a /\ b # a + 1
          => /\ W[<<a, (a + b) \div 2>>] = RangeRest(a, (a + b) \div 2, m)
             /\ W[<<(a + b) \div 2, b>>] = RangeRest((a + b) \div 2, b, m)
      BY <1>1
    <3> HIDE DEF W
    <3> QED BY <3>1, RangeRestHalves
  <2> QED BY <2>1 DEF HalvingStep
<1> DEFINE g == HalvingPartial(n, m)
<1>3. g = HalvingStep(n, m, g)
  <2> HIDE DEF W
  <2> QED BY <1>2 DEF HalvingPartial
<1> HIDE DEF g, W
<1>4. ASSUME NEW a \in 0 .. n, NEW b \in 0 .. n
      PROVE  g[<<a, b>>] = IF b = a THEN 1 % m
                 ELSE IF b = a + 1 THEN b % m
                 ELSE (g[<<a, (a + b) \div 2>>] * g[<<(a + b) \div 2, b>>]) % m
  BY <1>3 DEF HalvingStep
<1>9. ASSUME NEW a \in 0 .. n, NEW b \in 0 .. n
      PROVE  RangeRest(a, b, m) =
               IF b = a THEN 1 % m
               ELSE IF b = a + 1 THEN b % m
               ELSE (RangeRest(a, (a + b) \div 2, m) * RangeRest((a + b) \div 2, b, m)) % m
  <2>1. a \in Int /\ b \in Int
    OBVIOUS
  <2> QED BY <2>1, RangeRestHalves
<1> DEFINE T == {k \in Nat : \A a, b \in 0 .. n :
                   a <= b /\ b - a <= k => g[<<a, b>>] = RangeRest(a, b, m)}
<1>5. 0 \in T
  <2> SUFFICES ASSUME NEW a \in 0 .. n, NEW b \in 0 .. n, a <= b, b - a <= 0
               PROVE  g[<<a, b>>] = RangeRest(a, b, m)
    OBVIOUS
  <2>1. b = a
    OBVIOUS
  <2> QED BY <1>4, <1>9, <2>1
<1>6. \A k \in Nat : k \in T => k + 1 \in T
  <2> SUFFICES ASSUME NEW k \in Nat, k \in T, NEW a \in 0 .. n, NEW b \in 0 .. n,
                      a <= b, b - a <= k + 1
               PROVE  g[<<a, b>>] = RangeRest(a, b, m)
    OBVIOUS
  <2>1. CASE b = a \/ b = a + 1
    BY <1>4, <1>9, <2>1
  <2>2. CASE a + 1 < b
    <3> DEFINE c == (a + b) \div 2
    <3>1. c \in 0 .. n /\ a < c /\ c < b
      BY <2>2, MiddleOf
    <3>2. b # a /\ b # a + 1
      BY <2>2
    <3>3. g[<<a, b>>] = (g[<<a, c>>] * g[<<c, b>>]) % m
      BY <1>4, <3>2
    <3>4. RangeRest(a, b, m) = (RangeRest(a, c, m) * RangeRest(c, b, m)) % m
      BY <1>9, <3>2
    <3> HIDE DEF c
    <3>5. g[<<a, c>>] = RangeRest(a, c, m) /\ g[<<c, b>>] = RangeRest(c, b, m)
      BY <3>1
    <3> QED BY <3>3, <3>4, <3>5
  <2> QED BY <2>1, <2>2
<1>7. n \in T
  <2> HIDE DEF T
  <2> QED BY <1>5, <1>6, SetOfAllNaturals
<1>8. g[<<0, n>>] = RangeRest(0, n, m)
  <2>1. 0 \in 0 .. n /\ n \in 0 .. n /\ n - 0 <= n
    OBVIOUS
  <2> QED BY <1>7, <2>1
<1> QED BY <1>8 DEF RangeRest, g

(* --------------------- quotients and factorials ------------------------ *)

\* A quotient and its bounds.
LEMMA Division ==
  ASSUME NEW a \in Nat, NEW b \in Nat \ {0}
  PROVE  /\ a \div b \in Nat
         /\ b * (a \div b) <= a
         /\ a < b * (a \div b) + b
<1>1. /\ a \div b \in Int
      /\ a = b * (a \div b) + (a % b)
      /\ a % b \in 0 .. b - 1
  OBVIOUS
<1> DEFINE q == a \div b
<1> HIDE DEF q
<1>2. q >= 0
  <2> SUFFICES ASSUME q <= -1 PROVE FALSE
    BY <1>1 DEF q
  <2>1. b * q <= -b
    BY <1>1 DEF q
  <2> QED BY <1>1, <2>1 DEF q
<1> QED BY <1>1, <1>2 DEF q

\* A quotient is the number its bounds name.
LEMMA QuotientIs ==
  ASSUME NEW a \in Nat, NEW b \in Nat \ {0}, NEW q \in Int, b * q <= a, a < b * q + b
  PROVE  a \div b = q
<1> DEFINE r == a \div b
<1>1. r \in Nat /\ b * r <= a /\ a < b * r + b
  BY Division
<1> HIDE DEF r
<1>2. CASE r >= q + 1
  <2>1. b * r >= b * (q + 1)
    BY <1>1, <1>2
  <2>2. b * (q + 1) = b * q + b
    OBVIOUS
  <2> QED BY <1>1, <2>1, <2>2
<1>3. CASE r <= q - 1
  <2>1. b * q >= b * (r + 1)
    BY <1>1, <1>3
  <2>2. b * (r + 1) = b * r + b
    BY <1>1
  <2> QED BY <1>1, <2>1, <2>2
<1> QED BY <1>1, <1>2, <1>3 DEF r

\* The product of consecutive numbers, reduced on the way.
RangeOf(first, last, m) == ReducedProduct(first .. last, 1, m)

\* What is left of n! modulo m.
FactorialRest(n, m) == ProductOf(1 .. n) % m

\* A range's product is that of its numbers modulo the candidate.
LEMMA RangeOfFacts ==
  ASSUME NEW m \in Nat \ {0, 1}, NEW a \in Int, NEW b \in Int
  PROVE  /\ RangeOf(a, b, m) \in 0 .. m - 1
         /\ Same(RangeOf(a, b, m), ProductOf(a .. b), m)
         /\ ProductOf(a .. b) \in Int
         /\ b < a => RangeOf(a, b, m) = 1
<1>1. Numbers(a .. b) /\ ProductOf(a .. b) \in Int
  BY IntervalsAreNumbers, ProductType
<1>2. Same(1, 1, m)
  BY SameIsReflexive
<1>3. RangeOf(a, b, m) = IF a .. b = {} THEN 1 ELSE ProductOf(a .. b) % m
  <2>1. m \in Nat \ {0} /\ 1 \in Int
    OBVIOUS
  <2> QED BY <1>1, <1>2, <2>1, ReducedProductIsRest DEF RangeOf
<1>4. CASE a .. b = {}
  <2>1. 1 \in 0 .. m - 1
    OBVIOUS
  <2> QED BY <1>1, <1>2, <1>3, <1>4, <2>1, ProductOfNone
<1>5. CASE a .. b # {}
  <2>1. ~(b < a)
    BY <1>5
  <2>2. m \in Nat \ {0}
    OBVIOUS
  <2> QED BY <1>1, <1>3, <1>5, <2>1, <2>2, SameAsRest
<1> QED BY <1>4, <1>5

\* One factor more.
LEMMA RangeGrows ==
  ASSUME NEW m \in Nat \ {0, 1}, NEW a \in Int, NEW b \in Int, a <= b + 1
  PROVE  (RangeOf(a, b, m) * (b + 1)) % m = RangeOf(a, b + 1, m)
<1> DEFINE r == RangeOf(a, b, m)
           p == ProductOf(a .. b)
<1>1. r \in Int /\ p \in Int /\ Same(r, p, m)
  BY RangeOfFacts
<1>2. ProductOf(a .. b + 1) = (b + 1) * p
  BY IntervalNext
<1> HIDE DEF r, p
<1>3. (r * (b + 1)) % m = ((b + 1) * p) % m
  <2>1. m \in Nat \ {0} /\ b + 1 \in Int
    OBVIOUS
  <2> QED BY <1>1, <2>1, RestOfTimes
<1>4. a .. b + 1 # {}
  <2>1. b + 1 \in a .. b + 1
    OBVIOUS
  <2> QED BY <2>1
<1>5. RangeOf(a, b + 1, m) = ProductOf(a .. b + 1) % m
  <2>1. Numbers(a .. b + 1) /\ Same(1, 1, m) /\ m \in Nat \ {0} /\ 1 \in Int
    BY IntervalsAreNumbers, SameIsReflexive
  <2> QED BY <1>4, <2>1, ReducedProductIsRest DEF RangeOf
<1> QED BY <1>2, <1>3, <1>5 DEF r

\* One factor more of the factorial.
LEMMA FactorialGrows ==
  ASSUME NEW m \in Nat \ {0}, NEW n \in Nat
  PROVE  (FactorialRest(n, m) * (n + 1)) % m = FactorialRest(n + 1, m)
<1> DEFINE p == ProductOf(1 .. n)
           r == p % m
<1>1. p \in Int
  BY IntervalsAreNumbers, ProductType
<1>2. ProductOf(1 .. n + 1) = (n + 1) * p
  BY IntervalNext
<1> HIDE DEF p
<1>3. r \in Int /\ Same(r, p, m)
  BY <1>1, SameAsRest
<1> HIDE DEF r
<1>4. (r * (n + 1)) % m = ((n + 1) * p) % m
  <2>1. n + 1 \in Int
    OBVIOUS
  <2> QED BY <1>1, <1>3, <2>1, RestOfTimes
<1> QED BY <1>2, <1>4 DEF r, p, FactorialRest

\* A whole range more: the next factors continue the earlier ones.
LEMMA FactorialJoins ==
  ASSUME NEW m \in Nat \ {0, 1}, NEW a \in Nat, NEW b \in Nat, a <= b, NEW v \in Int,
         Same(v, ProductOf(a + 1 .. b), m)
  PROVE  (FactorialRest(a, m) * v) % m = FactorialRest(b, m)
<1> DEFINE p == ProductOf(1 .. a)
           q == ProductOf(a + 1 .. b)
           r == p % m
<1>1. p \in Int /\ q \in Int
  BY IntervalsAreNumbers, ProductType
<1>2. ProductOf(1 .. b) = p * q
  <2>1. PICK z \in Int : z = 0
    OBVIOUS
  <2>2. z <= a /\ z + 1 = 1 /\ a \in Int /\ b \in Int /\ a <= b
    BY <2>1
  <2>3. ProductOf(z + 1 .. b) = ProductOf(z + 1 .. a) * ProductOf(a + 1 .. b)
    BY <2>2, IntervalSplit
  <2> QED BY <2>2, <2>3
<1>3. m \in Nat \ {0}
  OBVIOUS
<1> HIDE DEF p, q
<1>4. r \in Int /\ Same(r, p, m)
  <2>1. p % m \in 0 .. m - 1 /\ Same(p % m, p, m)
    BY <1>1, <1>3, SameAsRest
  <2>2. r = p % m
    OBVIOUS
  <2> HIDE DEF r
  <2> QED BY <1>3, <2>1, <2>2
<1> HIDE DEF r
<1>5. Same(r * v, p * q, m)
  BY <1>1, <1>4, SameTimes DEF q
<1>6. r * v \in Int /\ p * q \in Int
  BY <1>1, <1>4
<1>7. (r * v) % m = (p * q) % m
  BY <1>3, <1>5, <1>6, RestsOfSame
<1> QED BY <1>2, <1>7 DEF r, p, FactorialRest

\* 0! is 1.
LEMMA FactorialStarts ==
  ASSUME NEW m \in Nat \ {0, 1}
  PROVE  FactorialRest(0, m) = 1
<1>1. 1 .. 0 = {} /\ 1 % m = 1
  OBVIOUS
<1> QED BY <1>1, ProductOfNone DEF FactorialRest

\* Two items before the others, one after the other.
LEMMA TwoFirst ==
  ASSUME NEW T, NEW a \in T, NEW b \in T, NEW r \in Seq(T), NEW n, n = <<a, b>> \o r
  PROVE  n = <<a>> \o (<<b>> \o r)
<1>1. /\ n \in Seq(T) /\ Len(n) = Len(r) + 2 /\ n[1] = a /\ n[2] = b
      /\ \A i \in 1 .. Len(r) : n[i + 2] = r[i]
  OBVIOUS
<1> DEFINE h == <<b>> \o r
           g == <<a>> \o h
<1>2. /\ h \in Seq(T) /\ Len(h) = Len(r) + 1 /\ h[1] = b
      /\ \A i \in 1 .. Len(r) : h[i + 1] = r[i]
  OBVIOUS
<1> HIDE DEF h
<1>3. /\ g \in Seq(T) /\ Len(g) = Len(h) + 1 /\ g[1] = a
      /\ \A i \in 1 .. Len(h) : g[i + 1] = h[i]
  BY <1>2
<1> HIDE DEF g
<1>4. Len(n) = Len(g) /\ Len(n) \in Nat /\ Len(r) \in Nat
  BY <1>1, <1>2, <1>3
<1>5. ASSUME NEW i \in 1 .. Len(n) PROVE n[i] = g[i]
  <2>1. CASE i = 1
    BY <1>1, <1>3, <2>1
  <2>2. CASE i = 2
    <3>1. 1 \in 1 .. Len(h) /\ 1 + 1 = 2
      BY <1>2, <1>4
    <3>2. g[2] = h[1]
      BY <1>3, <3>1
    <3> QED BY <1>1, <1>2, <2>2, <3>2
  <2>3. CASE i > 2
    <3>1. PICK j \in 1 .. Len(r) : i = j + 2
      <4>1. i - 2 \in 1 .. Len(r) /\ i = (i - 2) + 2
        BY <1>1, <1>4, <2>3
      <4> QED BY <4>1
    <3>2. j + 1 \in 1 .. Len(h) /\ (j + 1) + 1 = i
      BY <1>2, <1>4, <3>1
    <3>3. g[(j + 1) + 1] = h[j + 1] /\ h[j + 1] = r[j] /\ n[j + 2] = r[j]
      BY <1>1, <1>2, <1>3, <3>1, <3>2
    <3> QED BY <3>1, <3>2, <3>3
  <2> QED BY <2>1, <2>2, <2>3
<1>6. n = g
  BY <1>1, <1>3, <1>4, <1>5
<1> QED BY <1>6 DEF g, h

(* ------------------------------ iteration ------------------------------ *)

\* The first values of an iteration.
Chain(V, base, step, N, h) ==
  /\ h \in [0 .. N -> V]
  /\ h[0] = base
  /\ \A n \in 0 .. N : n < N => h[n + 1] = step[h[n]]

\* Iterations of every length exist,
LEMMA ChainsExist ==
  ASSUME NEW V, NEW base \in V, NEW step \in [V -> V]
  PROVE  \A N \in Nat : \E h : Chain(V, base, step, N, h)
<1> DEFINE T == {N \in Nat : \E h : Chain(V, base, step, N, h)}
<1>1. 0 \in T
  <2>1. Chain(V, base, step, 0, [n \in 0 .. 0 |-> base])
    BY DEF Chain
  <2> QED BY <2>1
<1>2. ASSUME NEW N \in Nat, N \in T PROVE N + 1 \in T
  <2>1. PICK h : Chain(V, base, step, N, h)
    BY <1>2
  <2> DEFINE k == [n \in 0 .. N + 1 |-> IF n = N + 1 THEN step[h[N]] ELSE h[n]]
  <2>2. k \in [0 .. N + 1 -> V]
    <3> SUFFICES ASSUME NEW n \in 0 .. N + 1 PROVE k[n] \in V
      OBVIOUS
    <3>1. CASE n = N + 1
      BY <2>1, <3>1 DEF Chain
    <3>2. CASE n # N + 1
      <4>1. n \in 0 .. N
        BY <3>2
      <4> QED BY <2>1, <3>2, <4>1 DEF Chain
    <3> QED BY <3>1, <3>2
  <2>3. k[0] = base
    BY <2>1 DEF Chain
  <2>4. ASSUME NEW n \in 0 .. N + 1, n < N + 1 PROVE k[n + 1] = step[k[n]]
    <3>1. CASE n = N
      BY <3>1
    <3>2. CASE n # N
      <4>1. n \in 0 .. N /\ n < N /\ n + 1 \in 0 .. N + 1 /\ n + 1 # N + 1 /\ n # N + 1
        BY <2>4, <3>2
      <4>2. h[n + 1] = step[h[n]]
        BY <2>1, <4>1 DEF Chain
      <4> QED BY <4>1, <4>2
    <3> QED BY <3>1, <3>2
  <2> HIDE DEF k
  <2>5. Chain(V, base, step, N + 1, k)
    BY <2>2, <2>3, <2>4 DEF Chain
  <2> QED BY <2>5
<1>3. \A N \in Nat : N \in T
  <2> HIDE DEF T
  <2> QED BY <1>1, <1>2, SetOfAllNaturals
<1> QED BY <1>3

\* a longer one continues a shorter one,
LEMMA ChainsAgree ==
  ASSUME NEW V, NEW base \in V, NEW step \in [V -> V],
         NEW N \in Nat, NEW h, Chain(V, base, step, N, h),
         NEW M \in Nat, NEW k, Chain(V, base, step, M, k)
  PROVE  \A n \in Nat : n <= N /\ n <= M => h[n] = k[n]
<1> DEFINE T == {n \in Nat : n <= N /\ n <= M => h[n] = k[n]}
<1>1. 0 \in T
  BY DEF Chain
<1>2. ASSUME NEW n \in Nat, n \in T PROVE n + 1 \in T
  <2> SUFFICES ASSUME n + 1 <= N, n + 1 <= M PROVE h[n + 1] = k[n + 1]
    OBVIOUS
  <2>1. n \in 0 .. N /\ n < N /\ n \in 0 .. M /\ n < M /\ h[n] = k[n]
    BY <1>2
  <2> QED BY <2>1 DEF Chain
<1>3. \A n \in Nat : n \in T
  <2> HIDE DEF T
  <2> QED BY <1>1, <1>2, SetOfAllNaturals
<1> QED BY <1>3

Iterates(V, base, step, g) ==
  g \in [Nat -> V] /\ g[0] = base /\ \A n \in Nat : g[n + 1] = step[g[n]]

\* so there is one that never ends.
LEMMA IterationExists ==
  ASSUME NEW V, NEW base \in V, NEW step \in [V -> V]
  PROVE  \E g : Iterates(V, base, step, g)
<1> DEFINE c(N) == CHOOSE h : Chain(V, base, step, N, h)
           g == [n \in Nat |-> c(n)[n]]
<1>1. \A N \in Nat : Chain(V, base, step, N, c(N))
  BY ChainsExist
<1> HIDE DEF c
<1>2. g \in [Nat -> V]
  <2> SUFFICES ASSUME NEW n \in Nat PROVE c(n)[n] \in V
    OBVIOUS
  <2>1. n \in 0 .. n
    OBVIOUS
  <2> QED BY <1>1, <2>1 DEF Chain
<1>3. g[0] = base
  BY <1>1 DEF Chain
<1>4. ASSUME NEW n \in Nat PROVE g[n + 1] = step[g[n]]
  <2>1. Chain(V, base, step, n, c(n)) /\ Chain(V, base, step, n + 1, c(n + 1))
    BY <1>1
  <2>2. c(n + 1)[n + 1] = step[c(n + 1)[n]]
    <3>1. n \in 0 .. n + 1 /\ n < n + 1
      OBVIOUS
    <3> QED BY <2>1, <3>1 DEF Chain
  <2>3. c(n + 1)[n] = c(n)[n]
    <3>1. PICK N \in Nat : N = n + 1
      OBVIOUS
    <3>2. Chain(V, base, step, N, c(N)) /\ n <= N /\ n <= n
      BY <1>1, <3>1
    <3>3. \A i \in Nat : i <= n /\ i <= N => c(n)[i] = c(N)[i]
      BY <2>1, <3>2, ChainsAgree
    <3> QED BY <3>1, <3>2, <3>3
  <2> QED BY <2>2, <2>3
<1> HIDE DEF g
<1> QED BY <1>2, <1>3, <1>4 DEF Iterates

(* ---------------------------- powers of two ---------------------------- *)

\* PowerOfTwo doubles, and outgrows its exponent.
LEMMA PowersOfTwo ==
  /\ PowerOfTwo(0) = 1
  /\ \A k \in Nat : PowerOfTwo(k) \in Nat /\ PowerOfTwo(k) > k
  /\ \A k \in Nat : PowerOfTwo(k + 1) = 2 * PowerOfTwo(k)
<1> DEFINE step == [v \in Nat |-> 2 * v]
<1>1. PICK g : Iterates(Nat, 1, step, g)
  <2>1. 1 \in Nat /\ step \in [Nat -> Nat]
    OBVIOUS
  <2> HIDE DEF step
  <2> QED BY <2>1, IterationExists
<1>2. g \in [Nat -> Nat] /\ g[0] = 1 /\ \A n \in Nat : g[n + 1] = 2 * g[n]
  BY <1>1 DEF Iterates
<1>3. ASSUME NEW k \in Nat PROVE PowerOfTwo(k) = g[k]
  <2> DEFINE Step(p) == [i \in 0 .. k |-> IF i = 0 THEN 1 ELSE 2 * p[i - 1]]
             p == CHOOSE q : q = Step(q)
             q == [i \in 0 .. k |-> g[i]]
  <2>1. q = Step(q)
    <3> SUFFICES ASSUME NEW i \in 0 .. k, i # 0 PROVE g[i] = 2 * g[i - 1] /\ i - 1 \in 0 .. k
      BY <1>2
    <3>1. PICK n \in Nat : n = i - 1
      OBVIOUS
    <3>2. g[n + 1] = 2 * g[n] /\ n + 1 = i
      BY <1>2, <3>1
    <3> QED BY <3>1, <3>2
  <2>2. p = Step(p)
    BY <2>1
  <2>3. PowerOfTwo(k) = p[k]
    BY DEF PowerOfTwo
  <2> HIDE DEF p
  <2> DEFINE T == {n \in Nat : n <= k => p[n] = g[n]}
  <2>4. 0 \in T
    BY <1>2, <2>2
  <2>5. ASSUME NEW n \in Nat, n \in T PROVE n + 1 \in T
    <3> SUFFICES ASSUME n + 1 <= k PROVE p[n + 1] = g[n + 1]
      OBVIOUS
    <3>1. n + 1 \in 0 .. k /\ n + 1 # 0 /\ (n + 1) - 1 = n /\ p[n] = g[n]
      BY <2>5
    <3>2. p[n + 1] = 2 * p[n]
      BY <2>2, <3>1
    <3> QED BY <1>2, <3>1, <3>2
  <2>6. \A n \in Nat : n \in T
    <3> HIDE DEF T
    <3> QED BY <2>4, <2>5, SetOfAllNaturals
  <2> QED BY <2>3, <2>6
<1>4. \A k \in Nat : g[k] > k
  <2> DEFINE T == {k \in Nat : g[k] > k}
  <2>1. 0 \in T
    BY <1>2
  <2>2. \A n \in Nat : n \in T => n + 1 \in T
    BY <1>2
  <2>3. \A n \in Nat : n \in T
    <3> HIDE DEF T
    <3> QED BY <2>1, <2>2, SetOfAllNaturals
  <2> QED BY <2>3
<1> QED BY <1>2, <1>3, <1>4

\* The rounds of series_inverse reach the size asked for.
LEMMA RoundsReach ==
  ASSUME NEW size \in Nat
  PROVE  Rounds(size) \in 0 .. size /\ PowerOfTwo(Rounds(size)) >= size
<1> DEFINE T == {k \in Nat : PowerOfTwo(k) >= size}
<1>1. size \in T
  BY PowersOfTwo
<1>2. PICK k \in T : \A t \in T : k <= t
  BY <1>1, LeastNatural
<1>3. k \in 0 .. size
  BY <1>1, <1>2
<1>4. k = 0 \/ PowerOfTwo(k - 1) < size
  <2> SUFFICES ASSUME k # 0 PROVE PowerOfTwo(k - 1) < size
    OBVIOUS
  <2>1. k - 1 \in Nat
    BY <1>3
  <2>2. k - 1 \notin T /\ PowerOfTwo(k - 1) \in Nat
    BY <1>2, <2>1, PowersOfTwo
  <2> QED BY <2>1, <2>2
<1>5. \E r \in 0 .. size : PowerOfTwo(r) >= size /\ (r = 0 \/ PowerOfTwo(r - 1) < size)
  BY <1>3, <1>4
<1> QED BY <1>5 DEF Rounds

(* --------------------------------- sums -------------------------------- *)

\* The terms of two sums, one by one.
Matches(f, S, g, T, b) ==
  /\ b \in [S -> T]
  /\ \A x, y \in S : b[x] = b[y] => x = y
  /\ \A t \in T : \E x \in S : b[x] = t
  /\ \A x \in S : g[b[x]] = f[x]

Image(b, s) == {b[x] : x \in s}

\* Sums over two sets whose terms are matched one to one are equal.
LEMMA SumOfMatching ==
  ASSUME NEW f, NEW S, Summable(f, S), NEW g, NEW T, NEW b, Matches(f, S, g, T, b)
  PROVE  SumOver(g, T) = SumOver(f, S) /\ Summable(g, T)
<1> DEFINE F == {s \in SUBSET S : SumOver(g, Image(b, s)) = SumOver(f, s)}
<1>1. ASSUME NEW s \in SUBSET S PROVE Summable(g, Image(b, s)) /\ Summable(f, s)
  <2>1. IsFiniteSet(s)
    BY FS_Subset DEF Summable
  <2>2. IsFiniteSet(Image(b, s))
    <3> DEFINE c == [x \in s |-> b[x]]
    <3>1. c \in Surjection(s, Image(b, s))
      BY DEF Surjection, Image
    <3> HIDE DEF c
    <3> QED BY <2>1, <3>1, FS_Surjection
  <2>3. \A t \in Image(b, s) : g[t] \in Int
    BY DEF Image, Matches, Summable
  <2> QED BY <2>1, <2>2, <2>3 DEF Summable
<1>2. \A s \in SUBSET S : (\A u \in SUBSET s : u # s => u \in F) => s \in F
  <2> SUFFICES ASSUME NEW s \in SUBSET S, \A u \in SUBSET s : u # s => u \in F
               PROVE  SumOver(g, Image(b, s)) = SumOver(f, s)
    OBVIOUS
  <2>1. CASE s = {}
    <3>1. Image(b, s) = {}
      BY <2>1 DEF Image
    <3> QED BY <2>1, <3>1, SumOfNone
  <2>2. CASE s # {}
    <3>1. PICK a \in s : TRUE
      BY <2>2
    <3> DEFINE u == s \ {a}
    <3>2. u \in SUBSET s /\ u # s
      BY <3>1
    <3>3. SumOver(g, Image(b, u)) = SumOver(f, u)
      BY <3>2
    <3>4. SumOver(f, s) = f[a] + SumOver(f, u)
      BY <1>1, <3>1, SumWithout
    <3>5. b[a] \in Image(b, s) /\ Image(b, s) \ {b[a]} = Image(b, u) /\ g[b[a]] = f[a]
      BY <3>1 DEF Image, Matches
    <3>6. SumOver(g, Image(b, s)) = g[b[a]] + SumOver(g, Image(b, s) \ {b[a]})
      BY <1>1, <3>5, SumWithout
    <3> QED BY <3>3, <3>4, <3>5, <3>6
  <2> QED BY <2>1, <2>2
<1>3. \A s \in SUBSET S : s \in F
  <2> HIDE DEF F
  <2> QED BY <1>2, SubsetInduction DEF Summable
<1>4. Image(b, S) = T
  BY DEF Image, Matches
<1>5. S \in SUBSET S
  OBVIOUS
<1>6. SumOver(g, Image(b, S)) = SumOver(f, S) /\ Summable(g, Image(b, S))
  BY <1>1, <1>3, <1>5
<1> QED BY <1>4, <1>6

\* Terms that are zero can be left out.
VanishesOff(f, S, T) == \A x \in S : x \notin T => f[x] = 0

\* Terms that vanish can be left out of a sum.
LEMMA SumOfSupport ==
  ASSUME NEW f, NEW S, Summable(f, S), NEW T \in SUBSET S, VanishesOff(f, S, T)
  PROVE  SumOver(f, S) = SumOver(f, T)
<1> DEFINE F == {s \in SUBSET S : SumOver(f, s) = SumOver(f, s \cap T)}
<1>1. \A s \in SUBSET S : (\A u \in SUBSET s : u # s => u \in F) => s \in F
  <2> SUFFICES ASSUME NEW s \in SUBSET S, \A u \in SUBSET s : u # s => u \in F
               PROVE  SumOver(f, s) = SumOver(f, s \cap T)
    OBVIOUS
  <2>1. CASE s \subseteq T
    <3>1. s \cap T = s
      BY <2>1
    <3> QED BY <3>1
  <2>2. CASE ~(s \subseteq T)
    <3>1. PICK a \in s : a \notin T
      BY <2>2
    <3> DEFINE u == s \ {a}
    <3>2. u \in SUBSET s /\ u # s /\ u \cap T = s \cap T
      BY <3>1
    <3>3. SumOver(f, u) = SumOver(f, u \cap T)
      BY <3>2
    <3>4. Summable(f, s) /\ u \in SUBSET S
      BY SummableSubset
    <3>5. SumOver(f, s) = f[a] + SumOver(f, u) /\ f[a] = 0
      BY <3>1, <3>4, SumWithout DEF VanishesOff
    <3>6. SumOver(f, u) \in Int
      BY <3>4, SummableSubset, SumType
    <3> QED BY <3>2, <3>3, <3>5, <3>6
  <2> QED BY <2>1, <2>2
<1>2. \A s \in SUBSET S : s \in F
  <2> HIDE DEF F
  <2> QED BY <1>1, SubsetInduction DEF Summable
<1>3. SumOver(f, S) = SumOver(f, S \cap T)
  BY <1>2
<1>4. S \cap T = T
  OBVIOUS
<1> QED BY <1>3, <1>4

\* Terms that are the same modulo m.
SameTerms(f, g, S, m) == \A x \in S : Same(f[x], g[x], m)

\* Congruent terms have congruent sums.
LEMMA SumOfSame ==
  ASSUME NEW f, NEW S, Summable(f, S), NEW g, Summable(g, S), NEW m \in Int, SameTerms(f, g, S, m)
  PROVE  Same(SumOver(f, S), SumOver(g, S), m)
<1> DEFINE F == {s \in SUBSET S : Same(SumOver(f, s), SumOver(g, s), m)}
<1>1. \A s \in SUBSET S : (\A u \in SUBSET s : u # s => u \in F) => s \in F
  <2> SUFFICES ASSUME NEW s \in SUBSET S, \A u \in SUBSET s : u # s => u \in F
               PROVE  Same(SumOver(f, s), SumOver(g, s), m)
    OBVIOUS
  <2>1. CASE s = {}
    <3>1. SumOver(f, s) = 0 /\ SumOver(g, s) = 0
      BY <2>1, SumOfNone
    <3> QED BY <3>1, SameIsReflexive
  <2>2. CASE s # {}
    <3>1. PICK a \in s : TRUE
      BY <2>2
    <3> DEFINE u == s \ {a}
    <3>2. u \in SUBSET s /\ u # s /\ u \in SUBSET S
      BY <3>1
    <3>3. Same(SumOver(f, u), SumOver(g, u), m)
      BY <3>2
    <3>4. Summable(f, s) /\ Summable(g, s)
      BY SummableSubset
    <3>5. SumOver(f, s) = f[a] + SumOver(f, u) /\ SumOver(g, s) = g[a] + SumOver(g, u)
      BY <3>1, <3>4, SumWithout
    <3>6. SumOver(f, u) \in Int /\ SumOver(g, u) \in Int /\ f[a] \in Int /\ g[a] \in Int
      BY <3>1, <3>2, SummableSubset, SumType DEF Summable
    <3>7. Same(f[a], g[a], m)
      BY <3>1 DEF SameTerms
    <3> HIDE DEF u
    <3> QED BY <3>3, <3>5, <3>6, <3>7, SamePlus
  <2> QED BY <2>1, <2>2
<1>2. \A s \in SUBSET S : s \in F
  <2> HIDE DEF F
  <2> QED BY <1>1, SubsetInduction DEF Summable
<1> QED BY <1>2

(* -------------------------------- series ------------------------------- *)

Series == [Nat -> Int]

Shift(f) == [k \in Nat |-> f[k + 1]]

\* c * f + h
Combine(c, f, h) == [k \in Nat |-> c * f[k] + h[k]]

Constant(c) == [k \in Nat |-> IF k = 0 THEN c ELSE 0]

Terms(f, g, k) == [i \in 0 .. k |-> f[i] * g[k - i]]

\* The product of two series.
Conv(f, g) == [k \in Nat |-> SumOver(Terms(f, g, k), 0 .. k)]

\* Operations on series make series.
LEMMA SeriesTypes ==
  ASSUME NEW f \in Series
  PROVE  /\ Shift(f) \in Series /\ f[0] \in Int
         /\ \A c \in Int : Constant(c) \in Series
         /\ \A c \in Int : \A h \in Series : Combine(c, f, h) \in Series
BY DEF Series, Shift, Combine, Constant

\* A coefficient of a convolution is a finite sum.
LEMMA TermsAreSummable ==
  ASSUME NEW f \in Series, NEW g \in Series, NEW k \in Nat
  PROVE  Summable(Terms(f, g, k), 0 .. k)
<1>1. IsFiniteSet(0 .. k)
  BY IntervalsAreNumbers DEF Numbers
<1>2. ASSUME NEW i \in 0 .. k PROVE Terms(f, g, k)[i] \in Int
  <2>1. i \in Nat /\ k - i \in Nat
    OBVIOUS
  <2>2. f[i] \in Int /\ g[k - i] \in Int
    BY <2>1 DEF Series
  <2> QED BY <2>2 DEF Terms
<1> QED BY <1>1, <1>2 DEF Summable

\* The convolution of two series is one.
LEMMA ConvType ==
  ASSUME NEW f \in Series, NEW g \in Series
  PROVE  Conv(f, g) \in Series
<1>1. \A k \in Nat : SumOver(Terms(f, g, k), 0 .. k) \in Int
  BY TermsAreSummable, SumType
<1> QED BY <1>1 DEF Conv, Series

\* Constant terms multiply.
LEMMA ConvStarts ==
  ASSUME NEW f \in Series, NEW g \in Series
  PROVE  Conv(f, g)[0] = f[0] * g[0]
<1> DEFINE t == Terms(f, g, 0)
<1>1. Summable(t, 0 .. 0)
  BY TermsAreSummable
<1>2. 0 \in 0 .. 0 /\ (0 .. 0) \ {0} = {}
  OBVIOUS
<1>3. t[0] = f[0] * g[0] /\ t[0] \in Int
  <2>1. f[0] \in Int /\ g[0] \in Int
    BY SeriesTypes
  <2> QED BY <2>1 DEF Terms
<1> HIDE DEF t
<1>4. SumOver(t, 0 .. 0) = t[0] + SumOver(t, {})
  BY <1>1, <1>2, SumWithout
<1>5. SumOver(t, 0 .. 0) = t[0]
  BY <1>3, <1>4, SumOfNone
<1> QED BY <1>3, <1>5 DEF Conv, t

\* The first term apart.
LEMMA ConvContinues ==
  ASSUME NEW f \in Series, NEW g \in Series, NEW k \in Nat
  PROVE  Conv(f, g)[k + 1] = f[0] * g[k + 1] + Conv(Shift(f), g)[k]
<1> DEFINE t == Terms(f, g, k + 1)
           u == Terms(Shift(f), g, k)
           b == [i \in 0 .. k |-> i + 1]
<1>1. k + 1 \in Nat /\ Shift(f) \in Series
  BY SeriesTypes
<1>2. Summable(t, 0 .. k + 1) /\ Summable(u, 0 .. k)
  BY <1>1, TermsAreSummable
<1>3. 0 \in 0 .. k + 1 /\ (0 .. k + 1) \ {0} = 1 .. k + 1
  OBVIOUS
<1>4. t[0] = f[0] * g[k + 1]
  BY <1>3 DEF Terms
<1>5. Matches(u, 0 .. k, t, 1 .. k + 1, b)
  <2>1. b \in [0 .. k -> 1 .. k + 1]
    OBVIOUS
  <2>2. \A x, y \in 0 .. k : b[x] = b[y] => x = y
    OBVIOUS
  <2>3. ASSUME NEW i \in 1 .. k + 1 PROVE \E x \in 0 .. k : b[x] = i
    <3>1. i - 1 \in 0 .. k /\ b[i - 1] = i
      OBVIOUS
    <3> QED BY <3>1
  <2>4. ASSUME NEW x \in 0 .. k PROVE t[b[x]] = u[x]
    <3>1. b[x] = x + 1 /\ x + 1 \in 0 .. k + 1 /\ (k + 1) - (x + 1) = k - x /\ x \in Nat
      OBVIOUS
    <3>2. t[x + 1] = f[x + 1] * g[k - x]
      BY <3>1 DEF Terms
    <3>3. u[x] = f[x + 1] * g[k - x]
      BY <3>1 DEF Terms, Shift
    <3> QED BY <3>1, <3>2, <3>3
  <2> HIDE DEF b, t, u
  <2> QED BY <2>1, <2>2, <2>3, <2>4 DEF Matches
<1>6. Conv(f, g)[k + 1] = SumOver(t, 0 .. k + 1)
  BY <1>1 DEF Conv
<1>7. Conv(Shift(f), g)[k] = SumOver(u, 0 .. k)
  BY DEF Conv
<1> HIDE DEF b, t, u
<1>8. SumOver(t, 0 .. k + 1) = t[0] + SumOver(t, 1 .. k + 1)
  BY <1>2, <1>3, SumWithout
<1>9. SumOver(t, 1 .. k + 1) = SumOver(u, 0 .. k)
  BY <1>2, <1>5, SumOfMatching
<1> QED BY <1>4, <1>6, <1>7, <1>8, <1>9

\* Convolution commutes,
LEMMA ConvCommutes ==
  ASSUME NEW f \in Series, NEW g \in Series
  PROVE  Conv(f, g) = Conv(g, f)
<1>1. ASSUME NEW k \in Nat PROVE SumOver(Terms(f, g, k), 0 .. k) = SumOver(Terms(g, f, k), 0 .. k)
  <2> DEFINE t == Terms(f, g, k)
             u == Terms(g, f, k)
             b == [i \in 0 .. k |-> k - i]
  <2>1. Matches(u, 0 .. k, t, 0 .. k, b)
    <3>1. b \in [0 .. k -> 0 .. k]
      OBVIOUS
    <3>2. \A x, y \in 0 .. k : b[x] = b[y] => x = y
      OBVIOUS
    <3>3. ASSUME NEW i \in 0 .. k PROVE \E x \in 0 .. k : b[x] = i
      <4>1. k - i \in 0 .. k /\ b[k - i] = i
        OBVIOUS
      <4> QED BY <4>1
    <3>4. ASSUME NEW x \in 0 .. k PROVE t[b[x]] = u[x]
      <4>1. b[x] = k - x /\ k - x \in 0 .. k /\ k - (k - x) = x /\ x \in Nat /\ k - x \in Nat
        OBVIOUS
      <4>2. t[k - x] = f[k - x] * g[x] /\ u[x] = g[x] * f[k - x]
        BY <4>1 DEF Terms
      <4>3. f[k - x] \in Int /\ g[x] \in Int
        BY <4>1 DEF Series
      <4>4. f[k - x] * g[x] = g[x] * f[k - x]
        BY <4>3
      <4> QED BY <4>1, <4>2, <4>4
    <3> HIDE DEF b, t, u
    <3> QED BY <3>1, <3>2, <3>3, <3>4 DEF Matches
  <2>2. Summable(u, 0 .. k)
    BY TermsAreSummable
  <2> HIDE DEF t, u, b
  <2>3. SumOver(t, 0 .. k) = SumOver(u, 0 .. k)
    BY <2>1, <2>2, SumOfMatching
  <2> QED BY <2>3 DEF t, u
<1> QED BY <1>1 DEF Conv

\* is linear
LEMMA ConvIsLinear ==
  ASSUME NEW c \in Int, NEW f \in Series, NEW h \in Series, NEW g \in Series
  PROVE  Conv(Combine(c, f, h), g) = Combine(c, Conv(f, g), Conv(h, g))
<1> DEFINE Holds(k, u, v) == Conv(Combine(c, u, v), g)[k] = c * Conv(u, g)[k] + Conv(v, g)[k]
           T == {k \in Nat : \A u, v \in Series : Holds(k, u, v)}
<1>1. 0 \in T
  <2> SUFFICES ASSUME NEW u \in Series, NEW v \in Series PROVE Holds(0, u, v)
    OBVIOUS
  <2>1. Combine(c, u, v) \in Series /\ Combine(c, u, v)[0] = c * u[0] + v[0]
    BY SeriesTypes DEF Combine
  <2>2. u[0] \in Int /\ v[0] \in Int /\ g[0] \in Int
    BY SeriesTypes
  <2>3. (c * u[0] + v[0]) * g[0] = c * (u[0] * g[0]) + v[0] * g[0]
    BY <2>2
  <2> QED BY <2>1, <2>3, ConvStarts
<1>2. ASSUME NEW k \in Nat, k \in T PROVE k + 1 \in T
  <2> SUFFICES ASSUME NEW u \in Series, NEW v \in Series PROVE Holds(k + 1, u, v)
    OBVIOUS
  <2>1. Combine(c, u, v) \in Series /\ Combine(c, u, v)[0] = c * u[0] + v[0]
    BY SeriesTypes DEF Combine
  <2>2. Shift(u) \in Series /\ Shift(v) \in Series
    BY SeriesTypes
  <2>3. Shift(Combine(c, u, v)) = Combine(c, Shift(u), Shift(v))
    BY DEF Shift, Combine
  <2>4. Holds(k, Shift(u), Shift(v))
    BY <1>2, <2>2
  <2>5. Conv(Combine(c, u, v), g)[k + 1]
          = (c * u[0] + v[0]) * g[k + 1] + (c * Conv(Shift(u), g)[k] + Conv(Shift(v), g)[k])
    <3>1. Conv(Combine(c, u, v), g)[k + 1]
            = Combine(c, u, v)[0] * g[k + 1] + Conv(Shift(Combine(c, u, v)), g)[k]
      BY <2>1, ConvContinues
    <3> QED BY <2>1, <2>3, <2>4, <3>1
  <2>6. /\ Conv(u, g)[k + 1] = u[0] * g[k + 1] + Conv(Shift(u), g)[k]
        /\ Conv(v, g)[k + 1] = v[0] * g[k + 1] + Conv(Shift(v), g)[k]
    BY ConvContinues
  <2>7. u[0] \in Int /\ v[0] \in Int /\ g[k + 1] \in Int /\ Conv(Shift(u), g)[k] \in Int /\ Conv(Shift(v), g)[k] \in Int
    <3>1. k + 1 \in Nat /\ Conv(Shift(u), g) \in Series /\ Conv(Shift(v), g) \in Series
      BY <2>2, ConvType
    <3> QED BY <3>1, SeriesTypes DEF Series
  <2>8. ASSUME NEW a \in Int, NEW b \in Int, NEW d \in Int, NEW x \in Int, NEW y \in Int
        PROVE  (c * a + b) * d + (c * x + y) = c * (a * d + x) + (b * d + y)
    OBVIOUS
  <2>9. (c * u[0] + v[0]) * g[k + 1] + (c * Conv(Shift(u), g)[k] + Conv(Shift(v), g)[k])
          = c * (u[0] * g[k + 1] + Conv(Shift(u), g)[k]) + (v[0] * g[k + 1] + Conv(Shift(v), g)[k])
    BY <2>7, <2>8
  <2> QED BY <2>5, <2>6, <2>9
<1>3. \A k \in Nat : k \in T
  <2> HIDE DEF T
  <2> QED BY <1>1, <1>2, SetOfAllNaturals
<1>4. \A k \in Nat : Conv(Combine(c, f, h), g)[k] = Combine(c, Conv(f, g), Conv(h, g))[k]
  BY <1>3 DEF Combine
<1>5. Conv(Combine(c, f, h), g) \in Series /\ Combine(c, Conv(f, g), Conv(h, g)) \in Series
  BY SeriesTypes, ConvType
<1> QED BY <1>4, <1>5 DEF Series

\* and associates;
LEMMA ConvAssociates ==
  ASSUME NEW f \in Series, NEW g \in Series, NEW h \in Series
  PROVE  Conv(Conv(f, g), h) = Conv(f, Conv(g, h))
<1> DEFINE Holds(k, u) == Conv(Conv(u, g), h)[k] = Conv(u, Conv(g, h))[k]
           T == {k \in Nat : \A u \in Series : Holds(k, u)}
<1>0. Conv(g, h) \in Series
  BY ConvType
<1>1. 0 \in T
  <2> SUFFICES ASSUME NEW u \in Series PROVE Holds(0, u)
    OBVIOUS
  <2>1. Conv(u, g) \in Series
    BY ConvType
  <2>2. Conv(Conv(u, g), h)[0] = (u[0] * g[0]) * h[0]
    BY <2>1, ConvStarts
  <2>3. Conv(u, Conv(g, h))[0] = u[0] * (g[0] * h[0])
    BY <1>0, ConvStarts
  <2>4. u[0] \in Int /\ g[0] \in Int /\ h[0] \in Int
    BY SeriesTypes
  <2>5. (u[0] * g[0]) * h[0] = u[0] * (g[0] * h[0])
    BY <2>4
  <2> QED BY <2>2, <2>3, <2>5
<1>2. ASSUME NEW k \in Nat, k \in T PROVE k + 1 \in T
  <2> SUFFICES ASSUME NEW u \in Series PROVE Holds(k + 1, u)
    OBVIOUS
  <2> DEFINE s == Shift(u)
             t == Shift(g)
  <2>1. s \in Series /\ t \in Series /\ Conv(u, g) \in Series /\ Conv(s, g) \in Series /\ u[0] \in Int
    BY SeriesTypes, ConvType
  <2>2. Shift(Conv(u, g)) = Combine(u[0], t, Conv(s, g))
    <3>1. \A i \in Nat : Conv(u, g)[i + 1] = u[0] * g[i + 1] + Conv(s, g)[i]
      BY ConvContinues
    <3> QED BY <3>1 DEF Shift, Combine
  <2>3. Conv(Combine(u[0], t, Conv(s, g)), h) = Combine(u[0], Conv(t, h), Conv(Conv(s, g), h))
    BY <2>1, ConvIsLinear
  <2>4. Conv(Conv(u, g), h)[k + 1]
          = (u[0] * g[0]) * h[k + 1] + (u[0] * Conv(t, h)[k] + Conv(Conv(s, g), h)[k])
    <3>1. Conv(Conv(u, g), h)[k + 1] = Conv(u, g)[0] * h[k + 1] + Conv(Shift(Conv(u, g)), h)[k]
      BY <2>1, ConvContinues
    <3>2. Conv(Shift(Conv(u, g)), h)[k] = u[0] * Conv(t, h)[k] + Conv(Conv(s, g), h)[k]
      BY <2>2, <2>3 DEF Combine
    <3>3. Conv(u, g)[0] = u[0] * g[0]
      BY ConvStarts
    <3> QED BY <3>1, <3>2, <3>3
  <2>5. Conv(Conv(s, g), h)[k] = Conv(s, Conv(g, h))[k]
    BY <1>2, <2>1
  <2>6. Conv(u, Conv(g, h))[k + 1] = u[0] * (g[0] * h[k + 1] + Conv(t, h)[k]) + Conv(s, Conv(g, h))[k]
    <3>1. Conv(u, Conv(g, h))[k + 1] = u[0] * Conv(g, h)[k + 1] + Conv(s, Conv(g, h))[k]
      BY <1>0, ConvContinues
    <3>2. Conv(g, h)[k + 1] = g[0] * h[k + 1] + Conv(t, h)[k]
      BY ConvContinues
    <3> QED BY <3>1, <3>2
  <2>7. u[0] \in Int /\ g[0] \in Int /\ h[k + 1] \in Int /\ Conv(t, h)[k] \in Int /\ Conv(s, Conv(g, h))[k] \in Int
    <3>1. k + 1 \in Nat /\ Conv(t, h) \in Series /\ Conv(s, Conv(g, h)) \in Series
      BY <1>0, <2>1, ConvType
    <3> QED BY <2>1, <3>1, SeriesTypes DEF Series
  <2>8. ASSUME NEW a \in Int, NEW b \in Int, NEW d \in Int, NEW x \in Int, NEW y \in Int
        PROVE  (a * b) * d + (a * x + y) = a * (b * d + x) + y
    OBVIOUS
  <2> HIDE DEF s, t
  <2>9. (u[0] * g[0]) * h[k + 1] + (u[0] * Conv(t, h)[k] + Conv(s, Conv(g, h))[k])
          = u[0] * (g[0] * h[k + 1] + Conv(t, h)[k]) + Conv(s, Conv(g, h))[k]
    BY <2>7, <2>8
  <2> QED BY <2>4, <2>5, <2>6, <2>9
<1>3. \A k \in Nat : k \in T
  <2> HIDE DEF T
  <2> QED BY <1>1, <1>2, SetOfAllNaturals
<1>4. \A k \in Nat : Conv(Conv(f, g), h)[k] = Conv(f, Conv(g, h))[k]
  BY <1>3
<1>5. Conv(Conv(f, g), h) \in Series /\ Conv(f, Conv(g, h)) \in Series
  BY <1>0, ConvType
<1> QED BY <1>4, <1>5 DEF Series

\* A product with a constant.
LEMMA ConvOfConstant ==
  ASSUME NEW c \in Int, NEW f \in Series
  PROVE  \A k \in Nat : Conv(Constant(c), f)[k] = c * f[k]
<1> DEFINE T == {k \in Nat : \A d \in Int : Conv(Constant(d), f)[k] = d * f[k]}
<1>0. \A d \in Int : Constant(d) \in Series /\ Constant(d)[0] = d /\ Shift(Constant(d)) = Constant(0)
  <2> SUFFICES ASSUME NEW d \in Int
               PROVE  Constant(d) \in Series /\ Constant(d)[0] = d /\ Shift(Constant(d)) = Constant(0)
    OBVIOUS
  <2>1. Constant(d) \in Series /\ Constant(d)[0] = d
    BY DEF Constant, Series
  <2>2. \A k \in Nat : k + 1 \in Nat /\ k + 1 # 0 /\ (IF k = 0 THEN 0 ELSE 0) = 0
    OBVIOUS
  <2>3. Shift(Constant(d)) = Constant(0)
    BY <2>2 DEF Constant, Shift
  <2> QED BY <2>1, <2>3
<1>1. 0 \in T
  BY <1>0, ConvStarts
<1>2. ASSUME NEW k \in Nat, k \in T PROVE k + 1 \in T
  <2> SUFFICES ASSUME NEW d \in Int PROVE Conv(Constant(d), f)[k + 1] = d * f[k + 1]
    OBVIOUS
  <2>1. Conv(Constant(d), f)[k + 1] = d * f[k + 1] + Conv(Constant(0), f)[k]
    BY <1>0, ConvContinues
  <2>2. Conv(Constant(0), f)[k] = 0 * f[k]
    BY <1>2
  <2>3. f[k] \in Int /\ f[k + 1] \in Int
    BY DEF Series
  <2> QED BY <2>1, <2>2, <2>3
<1>3. \A k \in Nat : k \in T
  <2> HIDE DEF T
  <2> QED BY <1>1, <1>2, SetOfAllNaturals
<1> QED BY <1>3

\* Series that agree modulo m up to a degree.
AgreeBelow(f, g, n, m) == \A k \in Nat : k < n => Same(f[k], g[k], m)

\* and its first n coefficients need only the first n of each factor.
LEMMA ConvAgrees ==
  ASSUME NEW f \in Series, NEW g \in Series, NEW u \in Series, NEW v \in Series,
         NEW n \in Nat, NEW m \in Int, AgreeBelow(f, u, n, m), AgreeBelow(g, v, n, m)
  PROVE  AgreeBelow(Conv(f, g), Conv(u, v), n, m)
<1> SUFFICES ASSUME NEW k \in Nat, k < n PROVE Same(Conv(f, g)[k], Conv(u, v)[k], m)
  BY DEF AgreeBelow
<1> DEFINE s == Terms(f, g, k)
           t == Terms(u, v, k)
<1>1. Summable(s, 0 .. k) /\ Summable(t, 0 .. k)
  BY TermsAreSummable
<1>2. ASSUME NEW i \in 0 .. k PROVE Same(s[i], t[i], m)
  <2>1. i \in Nat /\ k - i \in Nat /\ i < n /\ k - i < n
    OBVIOUS
  <2>2. Same(f[i], u[i], m) /\ Same(g[k - i], v[k - i], m)
    BY <2>1 DEF AgreeBelow
  <2>3. f[i] \in Int /\ u[i] \in Int /\ g[k - i] \in Int /\ v[k - i] \in Int
    BY <2>1 DEF Series
  <2>4. Same(f[i] * g[k - i], u[i] * v[k - i], m)
    BY <2>2, <2>3, SameTimes
  <2> QED BY <2>4 DEF Terms
<1> HIDE DEF s, t
<1>3. Same(SumOver(s, 0 .. k), SumOver(t, 0 .. k), m)
  <2>1. SameTerms(s, t, 0 .. k, m)
    BY <1>2 DEF SameTerms
  <2> QED BY <1>1, <2>1, SumOfSame
<1> QED BY <1>3 DEF Conv, s, t

\* Agreement to n terms modulo m is an equivalence ...
LEMMA AgreeIsReflexive ==
  ASSUME NEW f \in Series, NEW n \in Nat, NEW m \in Int
  PROVE  AgreeBelow(f, f, n, m)
BY SameIsReflexive DEF AgreeBelow, Series

\* ... in both directions ...
LEMMA AgreeIsSymmetric ==
  ASSUME NEW f \in Series, NEW g \in Series, NEW n \in Nat, NEW m \in Int, AgreeBelow(f, g, n, m)
  PROVE  AgreeBelow(g, f, n, m)
BY SameIsSymmetric DEF AgreeBelow, Series

\* ... and along chains.
LEMMA AgreeIsTransitive ==
  ASSUME NEW f \in Series, NEW g \in Series, NEW h \in Series, NEW n \in Nat, NEW m \in Int,
         AgreeBelow(f, g, n, m), AgreeBelow(g, h, n, m)
  PROVE  AgreeBelow(f, h, n, m)
BY SameIsTransitive DEF AgreeBelow, Series

\* An error that starts at k squares to one that starts at 2 k.
LEMMA SquareVanishes ==
  ASSUME NEW e \in Series, NEW k \in Nat, NEW m \in Int, AgreeBelow(e, Constant(0), k, m)
  PROVE  \A j \in Nat : j < 2 * k => Same(Conv(e, e)[j], 0, m)
<1> SUFFICES ASSUME NEW j \in Nat, j < 2 * k PROVE Same(Conv(e, e)[j], 0, m)
  OBVIOUS
<1> DEFINE t == Terms(e, e, j)
           z == [i \in 0 .. j |-> 0]
<1>1. Summable(t, 0 .. j)
  BY TermsAreSummable
<1>2. SumOver(z, 0 .. j) = 0 /\ Summable(z, 0 .. j)
  <2>1. IsFiniteSet(0 .. j) /\ \A x \in 0 .. j : z[x] = 0
    BY IntervalsAreNumbers DEF Numbers
  <2> HIDE DEF z
  <2> QED BY <2>1, SumOfZeros
<1>3. \A i \in Nat : i < k => Same(e[i], 0, m)
  BY DEF AgreeBelow, Constant
<1>4. ASSUME NEW i \in 0 .. j PROVE Same(t[i], z[i], m)
  <2>1. i \in Nat /\ j - i \in Nat /\ (i < k \/ j - i < k)
    OBVIOUS
  <2>2. e[i] \in Int /\ e[j - i] \in Int
    BY <2>1 DEF Series
  <2>3. Same(e[i], e[i], m) /\ Same(e[j - i], e[j - i], m)
    BY <2>2, SameIsReflexive
  <2>4. PICK a \in Int, b \in Int : a = e[i] /\ b = e[j - i]
    BY <2>2
  <2>5. Same(a * b, 0, m)
    <3>1. CASE i < k
      <4>1. PICK z0 \in Int : z0 = 0
        OBVIOUS
      <4>2. Same(a, z0, m) /\ Same(b, b, m)
        BY <1>3, <2>1, <2>3, <2>4, <3>1, <4>1
      <4>3. Same(a * b, z0 * b, m)
        BY <4>2, SameTimes
      <4>4. z0 * b = 0
        BY <4>1
      <4> QED BY <4>3, <4>4
    <3>2. CASE j - i < k
      <4>1. PICK z0 \in Int : z0 = 0
        OBVIOUS
      <4>2. Same(a, a, m) /\ Same(b, z0, m)
        BY <1>3, <2>1, <2>3, <2>4, <3>2, <4>1
      <4>3. Same(a * b, a * z0, m)
        BY <4>2, SameTimes
      <4>4. a * z0 = 0
        BY <4>1
      <4> QED BY <4>3, <4>4
    <3> QED BY <2>1, <3>1, <3>2
  <2> QED BY <2>4, <2>5 DEF Terms
<1> HIDE DEF t, z
<1>5. Same(SumOver(t, 0 .. j), SumOver(z, 0 .. j), m)
  <2>1. SameTerms(t, z, 0 .. j, m)
    BY <1>4 DEF SameTerms
  <2> QED BY <1>1, <1>2, <2>1, SumOfSame
<1> QED BY <1>2, <1>5 DEF Conv, t

\* d * (2 - d) differs from 1 by a square.
LEMMA NewtonIdentity ==
  ASSUME NEW d \in Series, NEW e, e = Combine(-1, Constant(1), d)
  PROVE  /\ e \in Series
         /\ Combine(-1, d, Constant(2)) \in Series
         /\ \A j \in Nat : Conv(d, Combine(-1, d, Constant(2)))[j] = Constant(1)[j] - Conv(e, e)[j]
<1> DEFINE one == Constant(1)
           two == Constant(2)
           c   == Combine(-1, d, two)
           s   == Conv(d, d)
<1>1. one \in Series /\ two \in Series /\ s \in Series /\ -1 \in Int
  BY SeriesTypes, ConvType
<1>2. e \in Series /\ c \in Series
  BY <1>1, SeriesTypes
<1>3. \A j \in Nat : Conv(one, e)[j] = 1 * e[j] /\ Conv(one, d)[j] = 1 * d[j] /\ Conv(two, d)[j] = 2 * d[j]
  <2>1. 1 \in Int /\ 2 \in Int
    OBVIOUS
  <2> QED BY <1>2, <2>1, ConvOfConstant
<1>4. Conv(d, c) = Combine(-1, s, Conv(two, d))
  <2>1. Conv(d, c) = Conv(c, d)
    BY <1>2, ConvCommutes
  <2> QED BY <1>1, <2>1, ConvIsLinear
<1>5. Conv(e, e) = Combine(-1, Conv(one, e), Conv(d, e))
  BY <1>1, <1>2, ConvIsLinear
<1>6. Conv(d, e) = Combine(-1, Conv(one, d), s)
  <2>1. Conv(d, e) = Conv(e, d)
    BY <1>2, ConvCommutes
  <2>2. Conv(Combine(-1, one, d), d) = Combine(-1, Conv(one, d), s)
    BY <1>1, ConvIsLinear
  <2> QED BY <2>1, <2>2
<1>7. ASSUME NEW j \in Nat PROVE Conv(d, c)[j] = one[j] - Conv(e, e)[j]
  <2>1. d[j] \in Int /\ one[j] \in Int /\ s[j] \in Int /\ e[j] \in Int
    BY <1>1, <1>2 DEF Series
  <2>2. e[j] = (-1) * one[j] + d[j]
    BY DEF Combine
  <2>3. Conv(d, c)[j] = (-1) * s[j] + Conv(two, d)[j]
    BY <1>4 DEF Combine
  <2>4. Conv(e, e)[j] = (-1) * Conv(one, e)[j] + Conv(d, e)[j]
    BY <1>5 DEF Combine
  <2>5. Conv(d, e)[j] = (-1) * Conv(one, d)[j] + s[j]
    BY <1>6 DEF Combine
  <2> HIDE DEF one, two, c, s
  <2> QED BY <1>3, <2>1, <2>2, <2>3, <2>4, <2>5
<1> QED BY <1>2, <1>7

\* One round of Newton's iteration for the reciprocal of p.
LEMMA NewtonRound ==
  ASSUME NEW p \in Series, NEW old \in Series, NEW factor \in Series, NEW new \in Series,
         NEW k \in Nat, NEW n \in Nat, n <= 2 * k, NEW m \in Int,
         AgreeBelow(Conv(p, old), Constant(1), k, m),
         AgreeBelow(factor, Combine(-1, Conv(p, old), Constant(2)), n, m),
         AgreeBelow(new, Conv(old, factor), n, m)
  PROVE  AgreeBelow(Conv(p, new), Constant(1), n, m)
<1> DEFINE d == Conv(p, old)
           e == Combine(-1, Constant(1), d)
           c == Combine(-1, d, Constant(2))
<1>1. d \in Series /\ e \in Series /\ c \in Series /\ Constant(1) \in Series
  BY ConvType, NewtonIdentity, SeriesTypes
<1>2. AgreeBelow(Conv(p, new), Conv(p, Conv(old, factor)), n, m)
  BY ConvType, AgreeIsReflexive, ConvAgrees
<1>3. Conv(p, Conv(old, factor)) = Conv(d, factor)
  BY ConvAssociates
<1>4. AgreeBelow(Conv(d, factor), Conv(d, c), n, m)
  <2> HIDE DEF d
  <2> QED BY <1>1, AgreeIsReflexive, ConvAgrees DEF d
<1>5. AgreeBelow(e, Constant(0), k, m)
  <2> SUFFICES ASSUME NEW j \in Nat, j < k PROVE Same(e[j], Constant(0)[j], m)
    BY DEF AgreeBelow
  <2>1. Same(d[j], Constant(1)[j], m)
    BY DEF AgreeBelow
  <2>2. d[j] \in Int /\ Constant(1)[j] \in Int /\ Constant(0)[j] = 0
    BY <1>1 DEF Series, Constant
  <2>3. e[j] = (-1) * Constant(1)[j] + d[j]
    BY DEF Combine
  <2> HIDE DEF d, e
  <2>4. PICK q \in Int : d[j] = Constant(1)[j] + q * m
    BY <2>1 DEF Same
  <2>5. e[j] = 0 + q * m
    <3>1. q * m \in Int
      OBVIOUS
    <3> QED BY <2>2, <2>3, <2>4, <3>1
  <2> QED BY <2>2, <2>5 DEF Same
<1>6. AgreeBelow(Conv(d, c), Constant(1), n, m)
  <2> SUFFICES ASSUME NEW j \in Nat, j < n PROVE Same(Conv(d, c)[j], Constant(1)[j], m)
    BY DEF AgreeBelow
  <2>1. Conv(d, c)[j] = Constant(1)[j] - Conv(e, e)[j]
    BY <1>1, NewtonIdentity
  <2>2. Same(Conv(e, e)[j], 0, m)
    <3>1. j < 2 * k
      OBVIOUS
    <3> HIDE DEF e
    <3> QED BY <1>1, <1>5, <3>1, SquareVanishes
  <2>3. Constant(1)[j] \in Int /\ Conv(e, e)[j] \in Int
    <3>1. Conv(e, e) \in Series
      BY <1>1, ConvType
    <3> QED BY <1>1, <3>1 DEF Series
  <2> HIDE DEF d, e, c
  <2>4. PICK q \in Int : Conv(e, e)[j] = 0 + q * m
    BY <2>2 DEF Same
  <2>5. Conv(d, c)[j] = Constant(1)[j] + (-q) * m /\ -q \in Int
    <3>1. q * m \in Int /\ (-q) * m = -(q * m)
      OBVIOUS
    <3> QED BY <2>1, <2>3, <2>4, <3>1
  <2> QED BY <2>5 DEF Same
<1>7. Conv(p, new) \in Series /\ Conv(d, factor) \in Series /\ Conv(d, c) \in Series
  BY <1>1, ConvType
<1> HIDE DEF c, d
<1> QED BY <1>1, <1>2, <1>3, <1>4, <1>6, <1>7, AgreeIsTransitive

(* ----------------------------- polynomials ----------------------------- *)

\* Polynomials over the residues of m, and the series of their coefficients.
Poly(m) == Seq(0 .. m - 1)

Ser(p) == [k \in Nat |-> IF k < Len(p) THEN p[k + 1] ELSE 0]

\* A polynomial's coefficients, and its series, which vanishes beyond them.
LEMMA PolyFacts ==
  ASSUME NEW m \in Nat \ {0}, NEW p \in Poly(m)
  PROVE  /\ p \in Seq(Int) /\ Len(p) \in Nat /\ DOMAIN p = 1 .. Len(p)
         /\ \A i \in 1 .. Len(p) : p[i] \in 0 .. m - 1
         /\ Ser(p) \in Series
         /\ \A k \in Nat : Ser(p)[k] \in 0 .. m - 1
         /\ \A k \in Nat : k >= Len(p) => Ser(p)[k] = 0
<1>1. Len(p) \in Nat /\ DOMAIN p = 1 .. Len(p) /\ \A i \in 1 .. Len(p) : p[i] \in 0 .. m - 1
  BY DEF Poly
<1>2. p \in Seq(Int)
  BY DEF Poly
<1>3. ASSUME NEW k \in Nat PROVE Ser(p)[k] \in 0 .. m - 1
  <2>1. CASE k < Len(p)
    <3>1. k + 1 \in 1 .. Len(p)
      BY <1>1, <2>1
    <3> QED BY <1>1, <2>1, <3>1 DEF Ser
  <2>2. CASE ~(k < Len(p))
    BY <2>2 DEF Ser
  <2> QED BY <2>1, <2>2
<1>4. \A k \in Nat : k >= Len(p) => Ser(p)[k] = 0
  BY <1>1 DEF Ser
<1>5. Ser(p) \in Series
  <2>1. \A k \in Nat : Ser(p)[k] \in Int
    BY <1>3
  <2>2. Ser(p) = [k \in Nat |-> Ser(p)[k]]
    BY DEF Ser
  <2> QED BY <2>1, <2>2 DEF Series
<1> QED BY <1>1, <1>2, <1>3, <1>4, <1>5

\* Tuple makes a sequence of a function on positions.
LEMMA TupleIs ==
  ASSUME NEW S, NEW n \in Nat, NEW s \in [1 .. n -> S]
  PROVE  Tuple(s) = s /\ s \in Seq(S) /\ Len(s) = n
<1>1. s \in Seq(S)
  OBVIOUS
<1>2. s \o <<>> = s
  BY <1>1, ConcatEmptySeq
<1> QED BY <1>1, <1>2 DEF Tuple

\* The last of some positions, or zero when there is none.
LEMMA MaxOfPositions ==
  ASSUME NEW n \in Nat, NEW I \in SUBSET (1 .. n)
  PROVE  /\ Max({0} \cup I) \in 0 .. n
         /\ \A i \in I : i <= Max({0} \cup I)
         /\ Max({0} \cup I) = 0 \/ Max({0} \cup I) \in I
<1>1. \E x \in {0} \cup I : \A y \in {0} \cup I : x >= y
  <2>1. CASE I = {}
    BY <2>1
  <2>2. CASE I # {}
    <3>1. PICK x \in I : \A i \in I : i <= x
      <4>1. Max(I) \in I /\ \A i \in I : i <= Max(I)
        BY <2>2, MaxIsLast
      <4> QED BY <4>1
    <3>2. x \in {0} \cup I /\ \A y \in {0} \cup I : x >= y
      BY <3>1
    <3> QED BY <3>2
  <2> QED BY <2>1, <2>2
<1>2. Max({0} \cup I) \in {0} \cup I /\ \A y \in {0} \cup I : Max({0} \cup I) >= y
  BY <1>1 DEF Max
<1> DEFINE d == Max({0} \cup I)
<1>3. d \in {0} \cup I /\ \A y \in {0} \cup I : d >= y
  BY <1>2
<1> HIDE DEF d
<1>4. d \in 0 .. n /\ (\A i \in I : i <= d) /\ (d = 0 \/ d \in I)
  BY <1>3
<1> QED BY <1>4 DEF d

\* trim takes zeros off the end and changes no coefficient.
LEMMA TrimFacts ==
  ASSUME NEW m \in Nat \ {0}, NEW p \in Poly(m)
  PROVE  /\ Trim(p) \in Poly(m)
         /\ Ser(Trim(p)) = Ser(p)
         /\ Len(Trim(p)) <= Len(p)
         /\ p # <<>> /\ p[Len(p)] # 0 => Trim(p) = p
<1> DEFINE n == Len(p)
           I == {i \in 1 .. n : p[i] # 0}
           d == Max({0} \cup I)
<1>1. n \in Nat /\ DOMAIN p = 1 .. n /\ \A i \in 1 .. n : p[i] \in 0 .. m - 1
  BY PolyFacts
<1>2. Tuple(p) = p
  <2>1. p \in [1 .. n -> 0 .. m - 1]
    BY <1>1 DEF Poly
  <2> QED BY <1>1, <2>1, TupleIs
<1>3. d \in 0 .. n /\ (\A i \in I : i <= d) /\ (d = 0 \/ d \in I)
  <2>1. I \in SUBSET (1 .. n)
    OBVIOUS
  <2> HIDE DEF I
  <2> QED BY <1>1, <2>1, MaxOfPositions
<1>4. Trim(p) = SubSeq(p, 1, d)
  BY <1>1, <1>2 DEF Trim
<1> HIDE DEF d
<1>5. /\ SubSeq(p, 1, d) \in Seq(0 .. m - 1) /\ Len(SubSeq(p, 1, d)) = d
      /\ \A i \in 1 .. d : SubSeq(p, 1, d)[i] = p[i]
  BY <1>1, <1>3 DEF Poly
<1>6. Ser(Trim(p)) = Ser(p)
  <2> DEFINE t == Trim(p)
  <2>1. Len(t) = d /\ \A i \in 1 .. d : t[i] = p[i]
    BY <1>4, <1>5
  <2> HIDE DEF t
  <2>2. ASSUME NEW k \in Nat PROVE Ser(t)[k] = Ser(p)[k]
    <3>1. CASE k < d
      <4>1. k + 1 \in 1 .. d /\ k < n
        BY <1>1, <1>3, <3>1
      <4> QED BY <2>1, <3>1, <4>1 DEF Ser
    <3>2. CASE ~(k < d) /\ k < n
      <4>1. k + 1 \in 1 .. n /\ ~(k + 1 <= d)
        BY <1>1, <1>3, <3>2
      <4>2. p[k + 1] = 0
        BY <1>3, <4>1
      <4> QED BY <2>1, <3>2, <4>2 DEF Ser
    <3>3. CASE ~(k < d) /\ ~(k < n)
      BY <2>1, <3>3 DEF Ser
    <3> QED BY <3>1, <3>2, <3>3
  <2>3. Ser(t) = [k \in Nat |-> Ser(t)[k]] /\ Ser(p) = [k \in Nat |-> Ser(p)[k]]
    BY DEF Ser
  <2>4. Ser(t) = Ser(p)
    BY <2>2, <2>3
  <2> QED BY <2>4 DEF t
<1>7. ASSUME p # <<>>, p[n] # 0 PROVE Trim(p) = p
  <2>1. n \in 1 .. n
    BY <1>1, <1>7 DEF Poly
  <2>2. d = n
    <3>1. n \in I
      BY <1>7, <2>1
    <3>2. n <= d
      BY <1>3, <3>1
    <3>3. n \in Int /\ d \in 0 .. n
      BY <1>1, <1>3
    <3> HIDE DEF n
    <3> QED BY <3>2, <3>3
  <2> QED BY <1>1, <1>4, <1>5, <2>2 DEF Poly
<1>8. Trim(p) \in Poly(m) /\ Len(Trim(p)) <= Len(p)
  BY <1>1, <1>3, <1>4, <1>5 DEF Poly
<1> QED BY <1>6, <1>7, <1>8

\* resize cuts a polynomial, or fills it up with zeros.
LEMMA ResizeFacts ==
  ASSUME NEW m \in Nat \ {0}, NEW p \in Poly(m), NEW n \in Nat
  PROVE  /\ Resize(p, n) \in Poly(m)
         /\ Len(Resize(p, n)) = n
         /\ \A k \in Nat : k < n => Ser(Resize(p, n))[k] = Ser(p)[k]
         /\ \A i \in 1 .. n : Resize(p, n)[i] = Ser(p)[i - 1]
<1> DEFINE r == [i \in 1 .. n |-> IF i <= Len(p) THEN p[i] ELSE 0]
<1>1. r \in [1 .. n -> 0 .. m - 1]
  <2>1. \A i \in 1 .. n : i <= Len(p) => i \in 1 .. Len(p)
    BY PolyFacts
  <2> QED BY <2>1, PolyFacts
<1>2. Resize(p, n) = r /\ r \in Seq(0 .. m - 1) /\ Len(r) = n
  <2>1. Resize(p, n) = Tuple(r)
    BY DEF Resize
  <2> HIDE DEF r
  <2> QED BY <1>1, <2>1, TupleIs
<1>3. ASSUME NEW i \in 1 .. n PROVE r[i] = Ser(p)[i - 1]
  <2>1. i - 1 \in Nat /\ (i - 1) + 1 = i /\ (i - 1 < Len(p) <=> i <= Len(p))
    BY PolyFacts
  <2> QED BY <2>1 DEF Ser
<1> HIDE DEF r
<1>4. ASSUME NEW k \in Nat, k < n PROVE Ser(r)[k] = Ser(p)[k]
  <2>1. k + 1 \in 1 .. n /\ (k + 1) - 1 = k
    BY <1>4
  <2> QED BY <1>2, <1>3, <1>4, <2>1 DEF Ser
<1> QED BY <1>2, <1>3, <1>4 DEF Poly

(* -------------------------- product of polynomials --------------------- *)

\* The terms of coefficient k of a product, numbered as sequences are.
Support(p, q, k) == {i \in DOMAIN p : k + 1 - i \in DOMAIN q}

Pairing(p, q, k) == [i \in Support(p, q, k) |-> p[i] * q[k + 1 - i]]

Coefficient(p, q, k) ==
  MapThenSumSet(LAMBDA i : p[i] * q[k + 1 - i], {i \in DOMAIN p : k + 1 - i \in DOMAIN q})

\* The recursion of MapThenFoldSet for a coefficient.
CoefficientStep(p, q, k, g) ==
  [s \in SUBSET Support(p, q, k) |->
     IF s = {} THEN 0
     ELSE p[CHOOSE x \in s : TRUE] * q[k + 1 - (CHOOSE x \in s : TRUE)]
            + g[s \ {CHOOSE x \in s : TRUE}]]

CoefficientPartial(p, q, k) == CHOOSE g : g = CoefficientStep(p, q, k, g)

\* A coefficient as the recursive function its sum unfolds to.
LEMMA CoefficientIsPartial ==
  ASSUME NEW p, NEW q, NEW k
  PROVE  Coefficient(p, q, k) = CoefficientPartial(p, q, k)[Support(p, q, k)]
BY DEF Coefficient, MapThenSumSet, MapThenFoldSet, Support, CoefficientStep, CoefficientPartial

\* A coefficient is a sum over the positions it pairs,
LEMMA CoefficientIsSum ==
  ASSUME NEW p, NEW q, NEW k, Summable(Pairing(p, q, k), Support(p, q, k))
  PROVE  Coefficient(p, q, k) = SumOver(Pairing(p, q, k), Support(p, q, k))
<1> DEFINE f == Pairing(p, q, k)
           S == Support(p, q, k)
           P == Partial(f, S)
           c == CoefficientPartial(p, q, k)
<1>1. P \in [SUBSET S -> Int] /\ P = SumStep(f, S, P)
  BY PartialEquation
<1>2. ASSUME NEW s \in SUBSET S, s # {}
      PROVE  f[CHOOSE x \in s : TRUE] = p[CHOOSE x \in s : TRUE] * q[k + 1 - (CHOOSE x \in s : TRUE)]
  <2>1. (CHOOSE x \in s : TRUE) \in S
    BY <1>2
  <2> QED BY <2>1 DEF Pairing
<1> HIDE DEF f, P, S
<1>3. P = CoefficientStep(p, q, k, P)
  <2>1. SumStep(f, S, P) = CoefficientStep(p, q, k, P)
    BY <1>2 DEF SumStep, CoefficientStep, S
  <2> QED BY <1>1, <2>1
<1>4. c = CoefficientStep(p, q, k, c)
  BY <1>3 DEF CoefficientPartial
<1>5. c = SumStep(f, S, c)
  <2>1. SumStep(f, S, c) = CoefficientStep(p, q, k, c)
    BY <1>2 DEF SumStep, CoefficientStep, S
  <2> QED BY <1>4, <2>1
<1>6. c[S] = SumOver(f, S)
  <2>1. Summable(f, S)
    BY DEF f, S
  <2> HIDE DEF c
  <2> QED BY <1>5, <2>1, SumIsSolved
<1>7. Coefficient(p, q, k) = c[S]
  BY CoefficientIsPartial DEF c, S
<1> QED BY <1>6, <1>7 DEF f, S

\* which is that of the convolution, and zero beyond the last one.
LEMMA CoefficientIsConv ==
  ASSUME NEW m \in Nat \ {0}, NEW p \in Poly(m), NEW q \in Poly(m), NEW k \in Nat
  PROVE  /\ Coefficient(p, q, k + 1) = Conv(Ser(p), Ser(q))[k]
         /\ k + 1 >= Len(p) + Len(q) => Conv(Ser(p), Ser(q))[k] = 0
<1> DEFINE n == Len(p)
           d == Len(q)
           t == Terms(Ser(p), Ser(q), k)
           T == {i \in 0 .. k : i < n /\ k - i < d}
           g == Pairing(p, q, k + 1)
           S == Support(p, q, k + 1)
           b == [i \in T |-> i + 1]
<1>1. n \in Nat /\ DOMAIN p = 1 .. n /\ d \in Nat /\ DOMAIN q = 1 .. d /\ Ser(p) \in Series /\ Ser(q) \in Series
  BY PolyFacts
<1>2. Summable(t, 0 .. k)
  BY <1>1, TermsAreSummable
<1>3. VanishesOff(t, 0 .. k, T)
  <2> SUFFICES ASSUME NEW i \in 0 .. k, i \notin T PROVE t[i] = 0
    BY DEF VanishesOff
  <2>1. i \in Nat /\ k - i \in Nat /\ (i >= n \/ k - i >= d)
    BY <1>1
  <2>2. t[i] = Ser(p)[i] * Ser(q)[k - i]
    BY DEF Terms
  <2>3. Ser(p)[i] = 0 \/ Ser(q)[k - i] = 0
    BY <2>1, PolyFacts
  <2>4. Ser(p)[i] \in Int /\ Ser(q)[k - i] \in Int
    BY <1>1, <2>1 DEF Series
  <2>5. ASSUME NEW x \in Int PROVE x * 0 = 0 /\ 0 * x = 0
    OBVIOUS
  <2> QED BY <2>2, <2>3, <2>4, <2>5
<1>4. S = {i \in 1 .. n : (k + 1) + 1 - i \in 1 .. d}
  BY <1>1 DEF Support
<1>5. Matches(t, T, g, S, b)
  <2> HIDE DEF t, g, S
  <2>1. ASSUME NEW i \in T PROVE i + 1 \in S
    <3>1. i + 1 \in 1 .. n /\ (k + 1) + 1 - (i + 1) \in 1 .. d
      BY <1>1
    <3> QED BY <1>4, <3>1
  <2>2. b \in [T -> S]
    BY <2>1
  <2>3. \A x, y \in T : b[x] = b[y] => x = y
    OBVIOUS
  <2>4. ASSUME NEW j \in S PROVE \E x \in T : b[x] = j
    <3>1. j \in 1 .. n /\ (k + 1) + 1 - j \in 1 .. d
      BY <1>4
    <3>2. j - 1 \in T /\ (j - 1) + 1 = j
      BY <1>1, <3>1
    <3> QED BY <3>2
  <2>5. ASSUME NEW i \in T PROVE g[b[i]] = t[i]
    <3>1. b[i] = i + 1 /\ i + 1 \in S
      BY <2>1
    <3>2. g[i + 1] = p[i + 1] * q[(k + 1) + 1 - (i + 1)]
      BY <3>1 DEF g, S, Pairing
    <3>3. (k + 1) + 1 - (i + 1) = (k - i) + 1 /\ k - i \in Nat /\ i \in Nat
      OBVIOUS
    <3>4. Ser(p)[i] = p[i + 1] /\ Ser(q)[k - i] = q[(k - i) + 1]
      BY <3>3 DEF Ser
    <3>5. t[i] = Ser(p)[i] * Ser(q)[k - i]
      BY DEF t, Terms
    <3> QED BY <3>1, <3>2, <3>3, <3>4, <3>5
  <2> HIDE DEF b, T
  <2> QED BY <2>2, <2>3, <2>4, <2>5 DEF Matches
<1>6. Summable(t, T) /\ SumOver(t, 0 .. k) = SumOver(t, T)
  <2>1. T \in SUBSET (0 .. k)
    OBVIOUS
  <2> HIDE DEF t, T
  <2> QED BY <1>2, <1>3, <2>1, SummableSubset, SumOfSupport
<1>7. SumOver(g, S) = SumOver(t, T) /\ Summable(g, S)
  <2> HIDE DEF t, T, g, S, b
  <2> QED BY <1>5, <1>6, SumOfMatching
<1>8. Coefficient(p, q, k + 1) = SumOver(g, S)
  BY <1>7, CoefficientIsSum
<1>9. Conv(Ser(p), Ser(q))[k] = SumOver(t, 0 .. k)
  BY DEF Conv
<1>10. ASSUME k + 1 >= n + d PROVE SumOver(t, T) = 0
  <2>1. T = {}
    BY <1>1, <1>10
  <2> HIDE DEF t, T
  <2> QED BY <2>1, SumOfNone
<1> QED BY <1>6, <1>7, <1>8, <1>9, <1>10

\* The coefficients before trailing zeros are dropped.
RawProduct(p, q, m) == [k \in 1 .. Len(p) + Len(q) - 1 |-> Coefficient(p, q, k) % m]

\* What schoolbook_multiply holds before it trims.
LEMMA RawProductFacts ==
  ASSUME NEW m \in Nat \ {0}, NEW p \in Poly(m), NEW q \in Poly(m), p # <<>>, q # <<>>
  PROVE  /\ Product(p, q, m) = Trim(RawProduct(p, q, m))
         /\ RawProduct(p, q, m) \in Poly(m)
         /\ Len(RawProduct(p, q, m)) = Len(p) + Len(q) - 1
         /\ Len(p) >= 1 /\ Len(q) >= 1
         /\ \A k \in Nat : Same(Ser(RawProduct(p, q, m))[k], Conv(Ser(p), Ser(q))[k], m)
<1> DEFINE n == Len(p) + Len(q) - 1
           r == RawProduct(p, q, m)
           c == Conv(Ser(p), Ser(q))
<1>1. Len(p) \in Nat /\ Len(q) \in Nat /\ Len(p) >= 1 /\ Len(q) >= 1
  BY DEF Poly
<1>2. c \in Series
  BY PolyFacts, ConvType
<1>3. ASSUME NEW k \in 1 .. n PROVE Coefficient(p, q, k) = c[k - 1] /\ c[k - 1] \in Int /\ c[k - 1] % m \in 0 .. m - 1
  <2>1. PICK j \in Nat : j = k - 1
    BY <1>1
  <2>2. Coefficient(p, q, j + 1) = c[j]
    BY <1>1, CoefficientIsConv
  <2>5. j + 1 = k
    BY <1>1, <1>3, <2>1
  <2>3. c[j] \in Int
    BY <1>2 DEF Series
  <2>4. c[j] % m \in 0 .. m - 1
    BY <2>3, SameAsRest
  <2> QED BY <2>1, <2>2, <2>3, <2>4, <2>5
<1>4. r \in [1 .. n -> 0 .. m - 1] /\ n \in Nat
  BY <1>1, <1>3 DEF RawProduct
<1>5. r \in Poly(m) /\ Len(r) = n /\ \A k \in 1 .. n : r[k] = c[k - 1] % m
  <2>1. r \in Seq(0 .. m - 1) /\ Len(r) = n
    BY <1>4, TupleIs
  <2>2. \A k \in 1 .. n : r[k] = c[k - 1] % m
    BY <1>3 DEF RawProduct
  <2> QED BY <2>1, <2>2 DEF Poly
<1>6. Product(p, q, m) = Trim(r)
  BY DEF Product, RawProduct, Coefficient
<1> HIDE DEF r
<1>7. ASSUME NEW k \in Nat PROVE Same(Ser(r)[k], c[k], m)
  <2>1. c[k] \in Int
    BY <1>2 DEF Series
  <2>2. CASE k < n
    <3>1. k + 1 \in 1 .. n /\ (k + 1) - 1 = k
      BY <1>1, <2>2
    <3>2. Ser(r)[k] = c[k] % m
      BY <1>5, <2>2, <3>1 DEF Ser
    <3> QED BY <2>1, <3>2, SameAsRest
  <2>3. CASE ~(k < n)
    <3>1. k + 1 >= Len(p) + Len(q)
      BY <1>1, <2>3
    <3>2. c[k] = 0 /\ Ser(r)[k] = 0
      BY <1>5, <2>3, <3>1, CoefficientIsConv DEF Ser
    <3> QED BY <2>1, <3>2, SameIsReflexive
  <2> QED BY <2>2, <2>3
<1> QED BY <1>1, <1>5, <1>6, <1>7 DEF r

\* The zero polynomial.
LEMMA EmptyPoly ==
  ASSUME NEW m \in Nat \ {0}
  PROVE  <<>> \in Poly(m) /\ Ser(<<>>) = Constant(0)
<1>1. \A k \in Nat : Ser(<<>>)[k] = 0 /\ Constant(0)[k] = 0
  BY DEF Ser, Constant
<1>2. Ser(<<>>) = [k \in Nat |-> Ser(<<>>)[k]] /\ Constant(0) = [k \in Nat |-> Constant(0)[k]]
  BY DEF Ser, Constant
<1>3. Ser(<<>>) = Constant(0)
  BY <1>1, <1>2
<1> QED BY <1>3 DEF Poly

\* The product of polynomials is that of their series.
LEMMA ProductFacts ==
  ASSUME NEW m \in Nat \ {0}, NEW p \in Poly(m), NEW q \in Poly(m)
  PROVE  /\ Product(p, q, m) \in Poly(m)
         /\ \A n \in Nat : AgreeBelow(Ser(Product(p, q, m)), Conv(Ser(p), Ser(q)), n, m)
<1>1. CASE p # <<>> /\ q # <<>>
  <2> DEFINE r == RawProduct(p, q, m)
  <2>1. /\ Product(p, q, m) = Trim(r) /\ r \in Poly(m)
        /\ \A k \in Nat : Same(Ser(r)[k], Conv(Ser(p), Ser(q))[k], m)
    BY <1>1, RawProductFacts
  <2> HIDE DEF r
  <2>2. Trim(r) \in Poly(m) /\ Ser(Trim(r)) = Ser(r)
    BY <2>1, TrimFacts
  <2> QED BY <2>1, <2>2 DEF AgreeBelow
<1>2. CASE p = <<>> \/ q = <<>>
  <2>1. Product(p, q, m) = <<>>
    BY <1>2 DEF Product
  <2>2. ASSUME NEW k \in Nat PROVE Conv(Ser(p), Ser(q))[k] = 0
    <3>1. Ser(p) \in Series /\ Ser(q) \in Series /\ 0 \in Int
      BY PolyFacts
    <3>2. ASSUME NEW f \in Series PROVE Conv(Constant(0), f)[k] = 0 /\ Conv(f, Constant(0))[k] = 0
      <4>1. Conv(Constant(0), f)[k] = 0 * f[k]
        BY <3>1, ConvOfConstant
      <4>2. f[k] \in Int /\ Constant(0) \in Series
        BY <3>1, SeriesTypes DEF Series
      <4>3. Conv(f, Constant(0)) = Conv(Constant(0), f)
        BY <4>2, ConvCommutes
      <4> QED BY <4>1, <4>2, <4>3
    <3> QED BY <1>2, <3>1, <3>2, EmptyPoly
  <2>3. \A k \in Nat : Ser(<<>>)[k] = 0
    BY DEF Ser
  <2>4. Same(0, 0, m)
    BY SameIsReflexive
  <2> QED BY <2>1, <2>2, <2>3, <2>4, EmptyPoly DEF AgreeBelow
<1> QED BY <1>1, <1>2

\* The last coefficient of a product is that of its factors' last ones.
LEMMA ProductIsMonic ==
  ASSUME NEW m \in Nat \ {0, 1}, NEW p \in Poly(m), NEW q \in Poly(m), Monic(p), Monic(q)
  PROVE  /\ Monic(Product(p, q, m))
         /\ Len(Product(p, q, m)) = Len(p) + Len(q) - 1
<1> DEFINE n == Len(p)
           d == Len(q)
           k == n + d - 1
           r == RawProduct(p, q, m)
<1>1. m \in Nat \ {0} /\ p # <<>> /\ q # <<>> /\ p[n] = 1 /\ q[d] = 1
  BY DEF Monic
<1>2. /\ Product(p, q, m) = Trim(r) /\ r \in Poly(m) /\ Len(r) = k
      /\ n \in Nat /\ d \in Nat /\ n >= 1 /\ d >= 1
  BY <1>1, RawProductFacts, PolyFacts
<1>3. Support(p, q, k) = {n}
  <2>1. DOMAIN p = 1 .. n /\ DOMAIN q = 1 .. d
    BY <1>1, PolyFacts
  <2>2. ASSUME NEW i \in 1 .. n PROVE k + 1 - i \in 1 .. d <=> i = n
    BY <1>2
  <2>3. n \in 1 .. n
    BY <1>2
  <2> HIDE DEF k
  <2> QED BY <2>1, <2>2, <2>3 DEF Support
<1>4. Coefficient(p, q, k) = 1
  <2> DEFINE g == Pairing(p, q, k)
  <2>1. n \in {n} /\ k + 1 - n = d
    BY <1>2
  <2>2. g[n] = 1
    <3>1. g[n] = p[n] * q[k + 1 - n]
      BY <1>3, <2>1 DEF Pairing
    <3> QED BY <1>1, <2>1, <3>1
  <2> HIDE DEF g
  <2>3. Summable(g, {n})
    <3>1. IsFiniteSet({n})
      BY FS_Singleton
    <3> QED BY <2>2, <3>1 DEF Summable
  <2>4. SumOver(g, {n}) = 1 + SumOver(g, {n} \ {n})
    BY <2>1, <2>2, <2>3, SumWithout
  <2>7. SumOver(g, {n} \ {n}) = 0
    <3>1. {n} \ {n} = {}
      OBVIOUS
    <3>2. SumOver(g, {}) = 0
      BY SumOfNone
    <3> QED BY <3>1, <3>2, Zenon
  <2>5. SumOver(g, {n}) = 1
    BY <2>4, <2>7
  <2>6. Coefficient(p, q, k) = SumOver(g, Support(p, q, k))
    BY <1>3, <2>3, CoefficientIsSum DEF g
  <2> QED BY <1>3, <2>5, <2>6
<1>5. r[k] = 1
  <2>1. k \in 1 .. n + d - 1 /\ 1 % m = 1
    BY <1>2
  <2> QED BY <1>4, <2>1 DEF RawProduct
<1>6. r # <<>> /\ r[Len(r)] = 1
  <2>1. Len(r) >= 1
    BY <1>2
  <2> HIDE DEF r
  <2>2. r # <<>>
    BY <2>1
  <2> QED BY <1>2, <1>5, <2>2 DEF r
<1>7. Trim(r) = r
  <2> HIDE DEF r
  <2> QED BY <1>1, <1>2, <1>6, TrimFacts
<1> QED BY <1>2, <1>6, <1>7 DEF Monic

(* ------------------------------ evaluation ----------------------------- *)

\* The value at x of the first coefficients of a series, by Horner's rule.
Steps(x) == [e \in [Series -> Int] |-> [f \in Series |-> f[0] + x * e[Shift(f)]]]
Naught   == [f \in Series |-> 0]

Evaluations(x) == CHOOSE g : Iterates([Series -> Int], Naught, Steps(x), g)

Ev(x, n, f) == Evaluations(x)[n][f]

\* Horner's rule on series.
LEMMA EvEquations ==
  ASSUME NEW x \in Int
  PROVE  /\ \A n \in Nat : \A f \in Series : Ev(x, n, f) \in Int
         /\ \A f \in Series : Ev(x, 0, f) = 0
         /\ \A n \in Nat : \A f \in Series : Ev(x, n + 1, f) = f[0] + x * Ev(x, n, Shift(f))
<1> DEFINE V == [Series -> Int]
           g == Evaluations(x)
<1>1. Naught \in V
  BY DEF Naught
<1>2. Steps(x) \in [V -> V]
  <2>1. ASSUME NEW e \in V, NEW f \in Series PROVE f[0] + x * e[Shift(f)] \in Int
    <3>1. f[0] \in Int /\ Shift(f) \in Series
      BY SeriesTypes
    <3>2. e[Shift(f)] \in Int
      BY <3>1
    <3> QED BY <3>1, <3>2
  <2> QED BY <2>1 DEF Steps
<1>3. Iterates(V, Naught, Steps(x), g)
  <2>1. \E h : Iterates(V, Naught, Steps(x), h)
    <3> HIDE DEF V
    <3> QED BY <1>1, <1>2, IterationExists
  <2> QED BY <2>1 DEF Evaluations
<1> HIDE DEF g
<1>4. g \in [Nat -> V] /\ g[0] = Naught /\ \A n \in Nat : g[n + 1] = Steps(x)[g[n]]
  BY <1>3 DEF Iterates
<1>5. \A n \in Nat : \A f \in Series : g[n][f] \in Int
  BY <1>4
<1>6. \A f \in Series : g[0][f] = 0
  BY <1>4 DEF Naught
<1>7. ASSUME NEW n \in Nat, NEW f \in Series PROVE g[n + 1][f] = f[0] + x * g[n][Shift(f)]
  <2>1. g[n] \in V /\ g[n + 1] = Steps(x)[g[n]]
    BY <1>4
  <2> QED BY <2>1 DEF Steps
<1> QED BY <1>5, <1>6, <1>7 DEF g, Ev

\* The value at a point is linear,
LEMMA EvIsLinear ==
  ASSUME NEW x \in Int, NEW c \in Int, NEW n \in Nat, NEW f \in Series, NEW h \in Series
  PROVE  Ev(x, n, Combine(c, f, h)) = c * Ev(x, n, f) + Ev(x, n, h)
<1> DEFINE T == {k \in Nat : \A u, v \in Series : Ev(x, k, Combine(c, u, v)) = c * Ev(x, k, u) + Ev(x, k, v)}
<1>1. 0 \in T
  <2>1. \A u, v \in Series : Combine(c, u, v) \in Series
    BY SeriesTypes
  <2> QED BY <2>1, EvEquations
<1>2. ASSUME NEW k \in Nat, k \in T PROVE k + 1 \in T
  <2> SUFFICES ASSUME NEW u \in Series, NEW v \in Series
               PROVE  Ev(x, k + 1, Combine(c, u, v)) = c * Ev(x, k + 1, u) + Ev(x, k + 1, v)
    OBVIOUS
  <2> DEFINE w == Combine(c, u, v)
  <2>1. w \in Series /\ Shift(u) \in Series /\ Shift(v) \in Series /\ u[0] \in Int /\ v[0] \in Int
    BY SeriesTypes
  <2>2. Shift(w) = Combine(c, Shift(u), Shift(v)) /\ w[0] = c * u[0] + v[0]
    BY DEF Shift, Combine
  <2>3. Ev(x, k, Shift(w)) = c * Ev(x, k, Shift(u)) + Ev(x, k, Shift(v))
    BY <1>2, <2>1, <2>2
  <2> HIDE DEF w
  <2>4. /\ Ev(x, k + 1, w) = w[0] + x * Ev(x, k, Shift(w))
        /\ Ev(x, k + 1, u) = u[0] + x * Ev(x, k, Shift(u))
        /\ Ev(x, k + 1, v) = v[0] + x * Ev(x, k, Shift(v))
    BY <2>1, EvEquations
  <2>5. Ev(x, k, Shift(u)) \in Int /\ Ev(x, k, Shift(v)) \in Int
    BY <2>1, EvEquations
  <2>6. ASSUME NEW a \in Int, NEW b \in Int, NEW r \in Int, NEW s \in Int
        PROVE  (c * a + b) + x * (c * r + s) = c * (a + x * r) + (b + x * s)
    OBVIOUS
  <2>7. Ev(x, k + 1, w) = c * Ev(x, k + 1, u) + Ev(x, k + 1, v)
    BY <2>1, <2>2, <2>3, <2>4, <2>5, <2>6
  <2> QED BY <2>7 DEF w
<1>3. \A k \in Nat : k \in T
  <2> HIDE DEF T
  <2> QED BY <1>1, <1>2, SetOfAllNaturals
<1> QED BY <1>3

\* congruent coefficients have congruent values,
LEMMA EvAgrees ==
  ASSUME NEW x \in Int, NEW m \in Int, NEW n \in Nat, NEW f \in Series, NEW g \in Series,
         AgreeBelow(f, g, n, m)
  PROVE  Same(Ev(x, n, f), Ev(x, n, g), m)
<1> DEFINE T == {k \in Nat : \A u, v \in Series : AgreeBelow(u, v, k, m) => Same(Ev(x, k, u), Ev(x, k, v), m)}
<1>1. 0 \in T
  <2>1. Same(0, 0, m)
    BY SameIsReflexive
  <2> QED BY <2>1, EvEquations
<1>2. ASSUME NEW k \in Nat, k \in T PROVE k + 1 \in T
  <2> SUFFICES ASSUME NEW u \in Series, NEW v \in Series, AgreeBelow(u, v, k + 1, m)
               PROVE  Same(Ev(x, k + 1, u), Ev(x, k + 1, v), m)
    OBVIOUS
  <2>1. Shift(u) \in Series /\ Shift(v) \in Series /\ u[0] \in Int /\ v[0] \in Int
    BY SeriesTypes
  <2>2. AgreeBelow(Shift(u), Shift(v), k, m) /\ Same(u[0], v[0], m)
    BY DEF AgreeBelow, Shift
  <2> DEFINE a == Ev(x, k, Shift(u))
             b == Ev(x, k, Shift(v))
  <2>3. a \in Int /\ b \in Int /\ Same(a, b, m)
    BY <1>2, <2>1, <2>2, EvEquations
  <2>4. Ev(x, k + 1, u) = u[0] + x * a /\ Ev(x, k + 1, v) = v[0] + x * b
    BY EvEquations
  <2> HIDE DEF a, b
  <2>5. Same(x * a, x * b, m) /\ x * a \in Int /\ x * b \in Int
    <3>1. Same(x, x, m)
      BY SameIsReflexive
    <3>2. Same(x * a, x * b, m)
      BY <2>3, <3>1, SameTimes
    <3> QED BY <2>3, <3>2
  <2>6. Same(u[0] + x * a, v[0] + x * b, m)
    BY <2>1, <2>2, <2>5, SamePlus
  <2> QED BY <2>4, <2>6
<1>3. \A k \in Nat : k \in T
  <2> HIDE DEF T
  <2> QED BY <1>1, <1>2, SetOfAllNaturals
<1> QED BY <1>3

\* A series without coefficients from the d-th on.
Short(f, d) == \A k \in Nat : k >= d => f[k] = 0

\* and coefficients that vanish do not count.
LEMMA EvOfShort ==
  ASSUME NEW x \in Int, NEW d \in Nat, NEW n \in Nat, n >= d, NEW f \in Series, Short(f, d)
  PROVE  Ev(x, n, f) = Ev(x, d, f)
<1> DEFINE Z == {k \in Nat : \A u \in Series : Short(u, 0) => Ev(x, k, u) = 0}
<1>1. 0 \in Z
  BY EvEquations
<1>2. ASSUME NEW k \in Nat, k \in Z PROVE k + 1 \in Z
  <2> SUFFICES ASSUME NEW u \in Series, Short(u, 0) PROVE Ev(x, k + 1, u) = 0
    OBVIOUS
  <2>1. Shift(u) \in Series /\ Short(Shift(u), 0) /\ u[0] = 0
    BY SeriesTypes DEF Short, Shift
  <2>2. Ev(x, k, Shift(u)) = 0
    BY <1>2, <2>1
  <2>3. Ev(x, k + 1, u) = u[0] + x * Ev(x, k, Shift(u))
    BY EvEquations
  <2> QED BY <2>1, <2>2, <2>3
<1>3. \A k \in Nat : k \in Z
  <2> HIDE DEF Z
  <2> QED BY <1>1, <1>2, SetOfAllNaturals
<1> DEFINE T == {c \in Nat : \A u \in Series : \A j \in Nat :
                   Short(u, c) => Ev(x, c + j, u) = Ev(x, c, u)}
<1>4. 0 \in T
  <2>1. ASSUME NEW u \in Series, NEW j \in Nat, Short(u, 0) PROVE Ev(x, 0 + j, u) = Ev(x, 0, u)
    <3>1. 0 + j = j
      OBVIOUS
    <3> QED BY <1>3, <2>1, <3>1
  <2> QED BY <2>1
<1>5. ASSUME NEW c \in Nat, c \in T PROVE c + 1 \in T
  <2> SUFFICES ASSUME NEW u \in Series, NEW j \in Nat, Short(u, c + 1)
               PROVE  Ev(x, (c + 1) + j, u) = Ev(x, c + 1, u)
    OBVIOUS
  <2>1. Shift(u) \in Series
    BY SeriesTypes
  <2>2. Short(Shift(u), c)
    BY DEF Short, Shift
  <2>3. (c + 1) + j = (c + j) + 1 /\ c + j \in Nat
    OBVIOUS
  <2>4. Ev(x, (c + j) + 1, u) = u[0] + x * Ev(x, c + j, Shift(u))
    BY <2>3, EvEquations
  <2>5. Ev(x, c + 1, u) = u[0] + x * Ev(x, c, Shift(u))
    BY EvEquations
  <2>6. Ev(x, c + j, Shift(u)) = Ev(x, c, Shift(u))
    BY <1>5, <2>1, <2>2
  <2> QED BY <2>3, <2>4, <2>5, <2>6
<1>6. \A c \in Nat : c \in T
  <2> HIDE DEF T
  <2> QED BY <1>4, <1>5, SetOfAllNaturals
<1>7. PICK j \in Nat : j = n - d
  OBVIOUS
<1>8. d + j = n
  BY <1>7
<1> QED BY <1>6, <1>8

\* The value of a product is the product of the values.
LEMMA EvOfConv ==
  ASSUME NEW x \in Int, NEW d \in Nat, NEW e \in Nat, NEW n \in Nat, n >= d + e,
         NEW f \in Series, NEW g \in Series, Short(f, d), Short(g, e)
  PROVE  Ev(x, n, Conv(f, g)) = Ev(x, d, f) * Ev(x, e, g)
<1> DEFINE Holds(c, u, k) == Ev(x, k, Conv(u, g)) = Ev(x, c, u) * Ev(x, e, g)
           T == {c \in Nat : \A u \in Series : \A k \in Nat : Short(u, c) /\ k >= c + e => Holds(c, u, k)}
<1>0. Ev(x, e, g) \in Int
  BY EvEquations
<1>1. 0 \in T
  <2> SUFFICES ASSUME NEW u \in Series, NEW k \in Nat, Short(u, 0) PROVE Holds(0, u, k)
    OBVIOUS
  <2>1. Ev(x, 0, u) = 0
    BY EvEquations
  <2>2. u = Constant(0)
    <3>1. \A i \in Nat : u[i] = Constant(0)[i]
      BY DEF Short, Constant
    <3>2. u = [i \in Nat |-> u[i]] /\ Constant(0) = [i \in Nat |-> Constant(0)[i]]
      BY DEF Series, Constant
    <3> QED BY <3>1, <3>2
  <2>3. Conv(u, g) \in Series /\ Short(Conv(u, g), 0)
    <3>1. ASSUME NEW i \in Nat PROVE Conv(Constant(0), g)[i] = 0
      <4>1. 0 \in Int /\ g[i] \in Int
        BY DEF Series
      <4>2. Conv(Constant(0), g)[i] = 0 * g[i]
        BY <4>1, ConvOfConstant
      <4> QED BY <4>1, <4>2
    <3> QED BY <2>2, <3>1, ConvType DEF Short
  <2>4. Ev(x, k, Conv(u, g)) = Ev(x, 0, Conv(u, g))
    BY <2>3, EvOfShort
  <2>5. Ev(x, 0, Conv(u, g)) = 0
    BY <2>3, EvEquations
  <2> QED BY <1>0, <2>1, <2>4, <2>5
<1>2. ASSUME NEW c \in Nat, c \in T PROVE c + 1 \in T
  <2> SUFFICES ASSUME NEW u \in Series, NEW k \in Nat, Short(u, c + 1), k >= (c + 1) + e
               PROVE  Holds(c + 1, u, k)
    OBVIOUS
  <2>1. PICK j \in Nat : j = k - 1
    OBVIOUS
  <2>2. k = j + 1 /\ j >= c + e /\ j >= e /\ j + 1 >= e
    BY <2>1
  <2> DEFINE w == Conv(u, g)
             s == Conv(Shift(u), g)
  <2>3. /\ w \in Series /\ s \in Series /\ Shift(u) \in Series /\ Shift(g) \in Series
        /\ u[0] \in Int /\ g[0] \in Int
    BY SeriesTypes, ConvType
  <2>4. Short(Shift(u), c)
    BY DEF Short, Shift
  <2>5. w[0] = u[0] * g[0]
    BY ConvStarts
  <2>6. Shift(w) = Combine(u[0], Shift(g), s)
    <3>1. ASSUME NEW i \in Nat PROVE w[i + 1] = u[0] * g[i + 1] + s[i]
      BY ConvContinues
    <3> HIDE DEF w, s
    <3> QED BY <3>1 DEF Shift, Combine
  <2>7. Ev(x, j, s) = Ev(x, c, Shift(u)) * Ev(x, e, g)
    BY <1>2, <2>2, <2>3, <2>4
  <2> HIDE DEF w, s
  <2>8. Ev(x, j + 1, w) = w[0] + x * Ev(x, j, Shift(w))
    BY <2>3, EvEquations
  <2>9. Ev(x, j, Shift(w)) = u[0] * Ev(x, j, Shift(g)) + Ev(x, j, s)
    BY <2>3, <2>6, EvIsLinear
  <2>10. Ev(x, j + 1, g) = g[0] + x * Ev(x, j, Shift(g))
    BY EvEquations
  <2>11. Ev(x, j + 1, g) = Ev(x, e, g)
    BY <2>2, EvOfShort
  <2>12. Ev(x, c + 1, u) = u[0] + x * Ev(x, c, Shift(u))
    BY EvEquations
  <2>13. Ev(x, j, Shift(g)) \in Int /\ Ev(x, c, Shift(u)) \in Int
    BY <2>3, EvEquations
  <2>14. ASSUME NEW a \in Int, NEW b \in Int, NEW r \in Int, NEW t \in Int
         PROVE  a * b + x * (a * r + t * (b + x * r)) = (a + x * t) * (b + x * r)
    OBVIOUS
  <2>15. Ev(x, j + 1, w) = Ev(x, c + 1, u) * Ev(x, e, g)
    BY <2>3, <2>5, <2>7, <2>8, <2>9, <2>10, <2>11, <2>12, <2>13, <2>14
  <2> QED BY <2>2, <2>15 DEF w
<1>3. \A c \in Nat : c \in T
  <2> HIDE DEF T
  <2> QED BY <1>1, <1>2, SetOfAllNaturals
<1> QED BY <1>3

\* Zeros in front.
Delay(f, s) == [k \in Nat |-> IF k < s THEN 0 ELSE f[k - s]]

\* Multiplying by a power of the variable makes a series,
LEMMA DelayType ==
  ASSUME NEW f \in Series, NEW s \in Nat
  PROVE  Delay(f, s) \in Series
<1>1. ASSUME NEW k \in Nat PROVE (IF k < s THEN 0 ELSE f[k - s]) \in Int
  <2>1. CASE k < s
    BY <2>1
  <2>2. CASE ~(k < s)
    <3>1. k - s \in Nat
      BY <2>2
    <3> QED BY <2>2, <3>1 DEF Series
  <2> QED BY <2>1, <2>2
<1> QED BY <1>1 DEF Delay, Series

\* and keeps a zero of it.
LEMMA EvOfDelay ==
  ASSUME NEW x \in Int, NEW m \in Int, NEW n \in Nat, NEW f \in Series, Same(Ev(x, n, f), 0, m),
         NEW s \in Nat
  PROVE  Same(Ev(x, n + s, Delay(f, s)), 0, m)
<1> DEFINE T == {k \in Nat : Same(Ev(x, n + k, Delay(f, k)), 0, m)}
<1>1. 0 \in T
  <2>1. \A k \in Nat : ~(k < 0) /\ k - 0 = k
    OBVIOUS
  <2>2. Delay(f, 0) = [k \in Nat |-> f[k]]
    BY <2>1 DEF Delay
  <2>3. Delay(f, 0) = f /\ n + 0 = n
    BY <2>2 DEF Series
  <2> QED BY <2>3
<1>2. ASSUME NEW k \in Nat, k \in T PROVE k + 1 \in T
  <2> DEFINE g == Delay(f, k + 1)
             h == Delay(f, k)
  <2>1. g \in Series /\ h \in Series /\ n + k \in Nat
    BY DelayType
  <2>2. g[0] = 0
    BY DEF Delay
  <2>3. Shift(g) = h
    <3>1. ASSUME NEW i \in Nat PROVE g[i + 1] = h[i]
      <4>1. (i + 1 < k + 1 <=> i < k) /\ (i + 1) - (k + 1) = i - k /\ i + 1 \in Nat
        OBVIOUS
      <4> QED BY <4>1 DEF Delay
    <3>2. h = [i \in Nat |-> h[i]]
      BY DEF Delay
    <3> HIDE DEF g, h
    <3> QED BY <3>1, <3>2 DEF Shift
  <2>4. Same(Ev(x, n + k, h), 0, m)
    BY <1>2
  <2> HIDE DEF g, h
  <2>5. Ev(x, (n + k) + 1, g) = g[0] + x * Ev(x, n + k, Shift(g))
    BY <2>1, EvEquations
  <2>6. Ev(x, n + k, h) \in Int
    BY <2>1, EvEquations
  <2>7. Same(x * Ev(x, n + k, h), x * 0, m)
    BY <2>4, <2>6, SameIsReflexive, SameTimes
  <2>8. Ev(x, (n + k) + 1, g) = x * Ev(x, n + k, h) /\ x * 0 = 0 /\ n + (k + 1) = (n + k) + 1
    BY <2>2, <2>3, <2>5, <2>6
  <2>9. Same(Ev(x, n + (k + 1), g), 0, m)
    BY <2>7, <2>8
  <2> QED BY <2>9 DEF g
<1>3. \A k \in Nat : k \in T
  <2> HIDE DEF T
  <2> QED BY <1>1, <1>2, SetOfAllNaturals
<1> QED BY <1>3

(* ------------------------------- Value --------------------------------- *)

\* A series without its first coefficients.
Drop(f, s) == [k \in Nat |-> f[k + s]]

\* Dropping the first coefficients one after the other.
LEMMA DropFacts ==
  ASSUME NEW f \in Series, NEW s \in Nat
  PROVE  /\ Drop(f, s) \in Series /\ Drop(f, s)[0] = f[s]
         /\ Shift(Drop(f, s)) = Drop(f, s + 1)
         /\ Drop(f, 0) = f
<1>1. Drop(f, s) \in Series /\ Drop(f, s)[0] = f[s]
  <2>1. 0 + s = s /\ \A k \in Nat : k + s \in Nat
    OBVIOUS
  <2> QED BY <2>1 DEF Drop, Series
<1>2. Shift(Drop(f, s)) = Drop(f, s + 1)
  <2>1. \A k \in Nat : k + (s + 1) = (k + 1) + s /\ k + 1 \in Nat
    OBVIOUS
  <2> QED BY <2>1 DEF Drop, Shift
<1>3. Drop(f, 0) = f
  <2>1. \A k \in Nat : k + 0 = k
    OBVIOUS
  <2>2. Drop(f, 0) = [k \in Nat |-> f[k]]
    BY <2>1 DEF Drop
  <2> QED BY <2>2 DEF Series
<1> QED BY <1>1, <1>2, <1>3

\* The recursion of Value.
HornerStep(p, x, m, g) ==
  [i \in 1 .. Len(p) |-> IF i = Len(p) THEN p[i] ELSE (g[i + 1] * x + p[i]) % m]

Horner(p, x, m) == CHOOSE g : g = HornerStep(p, x, m, g)

\* The loop of evaluate stays in range and obeys its recursion.
LEMMA HornerEquation ==
  ASSUME NEW m \in Nat \ {0}, NEW p \in Poly(m), NEW x \in Int, p # <<>>
  PROVE  /\ Horner(p, x, m) \in [1 .. Len(p) -> 0 .. m - 1]
         /\ Horner(p, x, m) = HornerStep(p, x, m, Horner(p, x, m))
<1> DEFINE n == Len(p)
           D == 1 .. n
           V == 0 .. m - 1
           rank == [i \in D |-> n - i]
           G == [g \in [D -> V] |-> HornerStep(p, x, m, g)]
<1>1. n \in Nat /\ \A i \in D : p[i] \in V
  BY PolyFacts
<1>2. ASSUME NEW g \in [D -> V] PROVE HornerStep(p, x, m, g) \in [D -> V]
  <2>1. ASSUME NEW i \in D, i # n PROVE (g[i + 1] * x + p[i]) % m \in V
    <3>1. i + 1 \in D
      BY <1>1, <2>1
    <3>2. g[i + 1] \in Int /\ p[i] \in Int
      BY <1>1, <3>1
    <3>3. PICK a \in Int : a = g[i + 1] * x + p[i]
      BY <3>2
    <3> QED BY <3>3, SameAsRest
  <2> QED BY <1>1, <2>1 DEF HornerStep
<1>3. Recurses(D, V, n, rank, G)
  <2>1. V # {} /\ n \in Nat
    BY <1>1
  <2>2. rank \in [D -> 0 .. n]
    BY <1>1
  <2>3. G \in [[D -> V] -> [D -> V]]
    BY <1>2
  <2>4. ASSUME NEW g \in [D -> V], NEW h \in [D -> V], NEW i \in D,
               \A t \in D : rank[t] < rank[i] => g[t] = h[t]
        PROVE  G[g][i] = G[h][i]
    <3>1. CASE i = n
      BY <3>1 DEF HornerStep
    <3>2. CASE i # n
      <4>1. i + 1 \in D /\ rank[i + 1] < rank[i]
        BY <1>1, <3>2
      <4>2. g[i + 1] = h[i + 1]
        BY <2>4, <4>1
      <4> QED BY <3>2, <4>2 DEF HornerStep
    <3> QED BY <3>1, <3>2
  <2> HIDE DEF D, V, rank, G
  <2> QED BY <2>1, <2>2, <2>3, <2>4 DEF Recurses
<1>4. PICK g \in [D -> V] : g = HornerStep(p, x, m, g)
  <2>1. \E g \in [D -> V] : g = G[g]
    <3> HIDE DEF D, V, G
    <3> QED BY <1>3, RecursionHasSolution
  <2> QED BY <2>1
<1>5. Horner(p, x, m) = HornerStep(p, x, m, Horner(p, x, m))
  BY <1>4 DEF Horner
<1>6. PICK h : h = Horner(p, x, m)
  OBVIOUS
<1>7. h = HornerStep(p, x, m, h)
  BY <1>5, <1>6
<1>8. DOMAIN h = D /\ h = [i \in D |-> h[i]]
  BY <1>7 DEF HornerStep
<1> DEFINE T == {k \in Nat : k < n => h[n - k] \in V}
<1>9. 0 \in T
  <2> SUFFICES ASSUME 0 < n PROVE h[n - 0] \in V
    OBVIOUS
  <2>1. n - 0 = n /\ n \in D
    BY <1>1
  <2>2. h[n] = p[n]
    BY <1>7, <2>1 DEF HornerStep
  <2> QED BY <1>1, <2>1, <2>2
<1>10. ASSUME NEW k \in Nat, k \in T PROVE k + 1 \in T
  <2> SUFFICES ASSUME k + 1 < n PROVE h[n - (k + 1)] \in V
    OBVIOUS
  <2>6. n - (k + 1) \in Int
    BY <1>1
  <2>0. PICK i \in Int : i = n - (k + 1)
    BY <2>6
  <2>1. i \in D /\ i = n - (k + 1) /\ i + 1 = n - k /\ i # n /\ k < n
    BY <1>1, <2>0
  <2>2. h[i] = (h[i + 1] * x + p[i]) % m
    BY <1>7, <2>1 DEF HornerStep
  <2>3. h[i + 1] \in Int /\ p[i] \in Int
    BY <1>1, <1>10, <2>1
  <2>4. PICK a \in Int : a = h[i + 1] * x + p[i]
    BY <2>3
  <2>5. h[i] \in V
    BY <2>2, <2>4, SameAsRest
  <2> QED BY <2>1, <2>5
<1>11. \A k \in Nat : k \in T
  <2> HIDE DEF T
  <2> QED BY <1>9, <1>10, SetOfAllNaturals
<1>12. ASSUME NEW i \in D PROVE h[i] \in V
  <2>1. PICK k \in Nat : k = n - i
    BY <1>1
  <2>2. k < n /\ n - k = i
    BY <1>1, <2>1
  <2> QED BY <1>11, <2>2
<1> QED BY <1>5, <1>6, <1>8, <1>12

\* What evaluate_polynomial returns is the value modulo m.
LEMMA ValueIs ==
  ASSUME NEW m \in Nat \ {0}, NEW p \in Poly(m), NEW x \in Int
  PROVE  /\ Value(p, x, m) \in 0 .. m - 1
         /\ Same(Value(p, x, m), Ev(x, Len(p), Ser(p)), m)
<1>1. CASE p = <<>>
  <2>1. Value(p, x, m) = 0 /\ Len(p) = 0
    BY <1>1 DEF Value
  <2>2. Ev(x, 0, Ser(p)) = 0
    BY PolyFacts, EvEquations
  <2>3. Same(0, 0, m)
    BY SameIsReflexive
  <2> QED BY <2>1, <2>2, <2>3
<1>2. CASE p # <<>>
  <2> DEFINE n == Len(p)
             f == Ser(p)
             h == Horner(p, x, m)
  <2>1. n \in Nat /\ f \in Series /\ n >= 1 /\ \A i \in 1 .. n : p[i] \in 0 .. m - 1 /\ f[i - 1] = p[i]
    <3>1. n \in Nat /\ f \in Series /\ \A i \in 1 .. n : p[i] \in 0 .. m - 1
      BY PolyFacts
    <3>2. n >= 1
      BY <1>2, <3>1 DEF Poly
    <3>3. ASSUME NEW i \in 1 .. n PROVE f[i - 1] = p[i]
      <4>1. i - 1 \in Nat /\ i - 1 < n /\ (i - 1) + 1 = i
        BY <3>1
      <4> QED BY <4>1 DEF Ser
    <3> QED BY <3>1, <3>2, <3>3
  <2>2. h \in [1 .. n -> 0 .. m - 1] /\ h = HornerStep(p, x, m, h)
    BY <1>2, HornerEquation
  <2>3. Value(p, x, m) = h[1]
    BY <1>2 DEF Value, Horner, HornerStep
  <2> HIDE DEF h, n, f
  <2> DEFINE E(k) == Ev(x, k + 1, Drop(f, n - (k + 1)))
             T == {k \in Nat : k < n => Same(h[n - k], E(k), m)}
  <2>4. 0 \in T
    <3> SUFFICES ASSUME 0 < n PROVE Same(h[n - 0], E(0), m)
      OBVIOUS
    <3>1. PICK j \in Nat : j = n - 1
      BY <2>1
    <3>2. n - 0 = n /\ n \in 1 .. n /\ n - (0 + 1) = j /\ j + 1 \in Nat
      BY <2>1, <3>1
    <3>3. h[n] = f[j]
      BY <2>1, <2>2, <3>1, <3>2 DEF HornerStep, n
    <3>4. Ev(x, 0 + 1, Drop(f, j)) = Drop(f, j)[0] + x * Ev(x, 0, Shift(Drop(f, j)))
      BY <2>1, <3>2, DropFacts, EvEquations
    <3>5. Drop(f, j)[0] = f[j] /\ Ev(x, 0, Shift(Drop(f, j))) = 0 /\ f[j] \in Int
      BY <2>1, <3>2, DropFacts, SeriesTypes, EvEquations DEF Series
    <3>6. E(0) = f[j]
      BY <3>2, <3>4, <3>5
    <3> HIDE DEF E
    <3> QED BY <3>2, <3>3, <3>5, <3>6, SameIsReflexive
  <2>5. ASSUME NEW k \in Nat, k \in T PROVE k + 1 \in T
    <3> SUFFICES ASSUME k + 1 < n PROVE Same(h[n - (k + 1)], E(k + 1), m)
      OBVIOUS
    <3>1. PICK i \in 1 .. n : i = n - (k + 1)
      BY <2>1
    <3>2. i + 1 = n - k /\ i # n /\ k < n /\ i \in Nat /\ i + 1 \in 1 .. n
      BY <2>1, <3>1
    <3>3. PICK j \in Nat : j = n - ((k + 1) + 1)
      BY <2>1
    <3>4. j + 1 = i /\ j = i - 1
      BY <2>1, <3>1, <3>3
    <3> DEFINE a == h[i + 1]
               b == Ev(x, k + 1, Drop(f, i))
    <3>5. h[i] = (a * x + p[i]) % m
      BY <2>2, <3>2 DEF HornerStep, n
    <3>6. a \in Int /\ b \in Int /\ Same(a, b, m) /\ k + 1 \in Nat /\ f[j] \in Int /\ p[i] = f[j]
      <4>1. Same(h[n - k], E(k), m)
        BY <2>5, <3>2
      <4>2. Same(a, b, m)
        BY <3>1, <3>2, <4>1
      <4>3. a \in Int
        BY <2>2, <3>2
      <4>4. Drop(f, i) \in Series /\ k + 1 \in Nat
        BY <2>1, <3>2, DropFacts
      <4>5. b \in Int
        BY <4>4, EvEquations
      <4>6. f[j] \in Int
        BY <2>1 DEF Series
      <4>7. p[i] = f[j]
        BY <2>1, <3>4
      <4> QED BY <4>2, <4>3, <4>4, <4>5, <4>6, <4>7
    <3>7. E(k + 1) = f[j] + x * b
      <4>1. Drop(f, j) \in Series /\ Shift(Drop(f, j)) = Drop(f, i) /\ Drop(f, j)[0] = f[j]
        BY <2>1, <3>4, DropFacts
      <4>2. Ev(x, (k + 1) + 1, Drop(f, j)) = Drop(f, j)[0] + x * Ev(x, k + 1, Shift(Drop(f, j)))
        BY <3>6, <4>1, EvEquations
      <4> QED BY <3>3, <4>1, <4>2
    <3> HIDE DEF a, b, E
    <3>8. Same(a * x + p[i], f[j] + x * b, m) /\ a * x + p[i] \in Int /\ f[j] + x * b \in Int
      <4>1. Same(x, x, m) /\ Same(f[j], f[j], m)
        BY <3>6, SameIsReflexive
      <4>2. Same(a * x, b * x, m) /\ a * x \in Int /\ b * x \in Int /\ b * x = x * b
        <5>1. Same(a * x, b * x, m)
          BY <3>6, <4>1, SameTimes
        <5> QED BY <3>6, <5>1
      <4>3. Same(a * x + f[j], b * x + f[j], m)
        <5>1. PICK u \in Int, v \in Int, c \in Int : u = a * x /\ v = b * x /\ c = f[j]
          BY <3>6, <4>2
        <5>3. Same(u, v, m)
          BY <4>2, <5>1
        <5>4. Same(c, c, m) /\ m \in Int
          BY SameIsReflexive
        <5>2. Same(u + c, v + c, m)
          BY <5>3, <5>4, SamePlus
        <5> QED BY <5>1, <5>2
      <4> QED BY <3>6, <4>2, <4>3
    <3>9. Same(h[i], a * x + p[i], m) /\ h[i] \in Int
      <4>1. PICK y \in Int : y = a * x + p[i]
        BY <3>8
      <4>2. y % m \in 0 .. m - 1 /\ Same(y % m, y, m)
        BY SameAsRest
      <4> QED BY <3>5, <4>1, <4>2
    <3>10. Same(h[i], f[j] + x * b, m)
      BY <3>8, <3>9, SameIsTransitive
    <3> QED BY <3>1, <3>7, <3>10
  <2>6. \A k \in Nat : k \in T
    <3> HIDE DEF T
    <3> QED BY <2>4, <2>5, SetOfAllNaturals
  <2>7. PICK k \in Nat : k = n - 1
    BY <2>1
  <2>8. k < n /\ n - k = 1 /\ k + 1 = n /\ n - (k + 1) = 0 /\ 1 \in 1 .. n
    BY <2>1, <2>7
  <2>9. Same(h[1], Ev(x, n, Drop(f, 0)), m)
    BY <2>6, <2>8
  <2>10. Drop(f, 0) = f
    BY <2>1, DropFacts
  <2>11. h[1] \in 0 .. m - 1
    BY <2>2, <2>8
  <2> QED BY <2>3, <2>9, <2>10, <2>11 DEF n, f
<1> QED BY <1>1, <1>2

(* -------------------------- classical remainder ------------------------ *)

\* The value of a polynomial, not yet reduced.
At(x, p) == Ev(x, Len(p), Ser(p))

\* The value of a polynomial needs only its coefficients, trimmed or not.
LEMMA AtFacts ==
  ASSUME NEW m \in Nat \ {0}, NEW p \in Poly(m), NEW x \in Int
  PROVE  /\ At(x, p) \in Int
         /\ \A n \in Nat : n >= Len(p) => Ev(x, n, Ser(p)) = At(x, p)
         /\ Short(Ser(p), Len(p))
         /\ At(x, Trim(p)) = At(x, p)
<1>1. Len(p) \in Nat /\ Ser(p) \in Series /\ Short(Ser(p), Len(p))
  BY PolyFacts DEF Short
<1>2. \A n \in Nat : n >= Len(p) => Ev(x, n, Ser(p)) = At(x, p)
  BY <1>1, EvOfShort DEF At
<1>3. At(x, Trim(p)) = At(x, p)
  <2> DEFINE t == Trim(p)
  <2>1. t \in Poly(m) /\ Ser(t) = Ser(p) /\ Len(t) <= Len(p)
    BY TrimFacts
  <2> HIDE DEF t
  <2>2. Len(t) \in Nat /\ Short(Ser(t), Len(t)) /\ Ser(t) \in Series
    BY <2>1, PolyFacts DEF Short
  <2>3. Ev(x, Len(p), Ser(t)) = Ev(x, Len(t), Ser(t))
    BY <1>1, <2>1, <2>2, EvOfShort
  <2>4. At(x, t) = At(x, p)
    BY <2>1, <2>3 DEF At
  <2> QED BY <2>4 DEF t
<1> QED BY <1>1, <1>2, <1>3, EvEquations DEF At

\* One step of the division: the coefficient above is cleared.
Cleared(above, q, c, m) ==
  Tuple([i \in 1 .. c |->
           LET j == i - (c - (Len(q) - 1))
           IN  IF j \in 1 .. Len(q) - 1 THEN (above[i] - above[c + 1] * q[j]) % m
               ELSE above[i]])

\* One step of long division keeps the values where the divisor vanishes.
LEMMA ClearedFacts ==
  ASSUME NEW m \in Nat \ {0}, NEW above \in Poly(m), NEW q \in Poly(m), Monic(q),
         NEW c \in Nat, Len(above) = c + 1, Len(q) <= c + 1
  PROVE  /\ Cleared(above, q, c, m) \in Poly(m)
         /\ Len(Cleared(above, q, c, m)) = c
         /\ \A x \in Int : Same(At(x, q), 0, m) =>
              Same(At(x, Cleared(above, q, c, m)), At(x, above), m)
         /\ AgreeBelow(Ser(above),
                       Combine(above[c + 1], Delay(Ser(q), c - (Len(q) - 1)),
                               Ser(Cleared(above, q, c, m))), c + 1, m)
<1>1. PICK degree \in Nat : Len(q) = degree + 1
  <2>1. Len(q) \in Nat /\ Len(q) # 0
    BY PolyFacts DEF Monic, Poly
  <2>2. PICK d \in Nat : d = Len(q) - 1
    BY <2>1
  <2> QED BY <2>1, <2>2
<1>2. Len(q) - 1 = degree /\ degree <= c
  BY <1>1
<1>3. PICK s \in Nat : s = c - degree
  BY <1>2
<1> DEFINE lead == above[c + 1]
           b == [i \in 1 .. c |-> IF i - s \in 1 .. degree THEN (above[i] - lead * q[i - s]) % m
                                  ELSE above[i]]
           below == Cleared(above, q, c, m)
<1>4. /\ \A i \in 1 .. c + 1 : above[i] \in 0 .. m - 1
      /\ \A j \in 1 .. degree : q[j] \in 0 .. m - 1
      /\ q[degree + 1] = 1
      /\ Ser(above) \in Series /\ Ser(q) \in Series
  <2>1. \A j \in 1 .. degree : j \in 1 .. Len(q)
    BY <1>1
  <2> QED BY <1>1, <2>1, PolyFacts DEF Monic
<1>5. lead \in Int
  BY <1>4
<1>6. ASSUME NEW i \in 1 .. c, i - s \in 1 .. degree
      PROVE  /\ (above[i] - lead * q[i - s]) % m \in 0 .. m - 1
             /\ Same(above[i], lead * q[i - s] + ((above[i] - lead * q[i - s]) % m), m)
  <2>1. above[i] \in Int /\ q[i - s] \in Int
    BY <1>4, <1>6
  <2>7. lead * q[i - s] \in Int /\ above[i] - lead * q[i - s] \in Int
    BY <1>5, <2>1
  <2>2. PICK u \in Int, v \in Int, a \in Int : a = above[i] /\ u = lead * q[i - s] /\ v = a - u
    BY <2>1, <2>7
  <2>8. Same(u, u, m) /\ m \in Int
    BY SameIsReflexive
  <2>9. v % m \in 0 .. m - 1 /\ Same(v, v % m, m)
    BY SameAsRest
  <2>3. v % m \in 0 .. m - 1 /\ Same(v, v % m, m) /\ Same(u, u, m) /\ m \in Int
    BY <2>8, <2>9
  <2>4. PICK w \in Int : w = v % m
    BY <2>3
  <2>5. Same(u + v, u + w, m)
    BY <2>3, <2>4, SamePlus
  <2>6. u + v = a
    BY <2>2
  <2> QED BY <2>2, <2>3, <2>4, <2>5, <2>6
<1>7. b \in [1 .. c -> 0 .. m - 1]
  BY <1>4, <1>6
<1>8. below = b
  <2>1. below = Tuple(b)
    BY <1>1, <1>2, <1>3 DEF Cleared
  <2> HIDE DEF b, below
  <2> QED BY <1>7, <2>1, TupleIs
<1>9. below \in Poly(m) /\ Len(below) = c
  <2> HIDE DEF b, below
  <2> QED BY <1>7, <1>8, TupleIs DEF Poly
<1> DEFINE e == Delay(Ser(q), s)
           f == Combine(lead, e, Ser(below))
<1>10. e \in Series /\ Ser(below) \in Series /\ f \in Series
  <2> HIDE DEF below
  <2> QED BY <1>4, <1>5, <1>9, DelayType, PolyFacts, SeriesTypes
<1>11. ASSUME NEW k \in Nat, k < c + 1 PROVE Same(Ser(above)[k], f[k], m)
  <2>1. f[k] = lead * e[k] + Ser(below)[k] /\ f[k] \in Int
    BY <1>10 DEF Combine, Series
  <2>2. Ser(above)[k] = above[k + 1] /\ k + 1 \in 1 .. c + 1
    BY <1>11 DEF Ser
  <2>3. CASE k = c
    <3>1. ~(k < s) /\ k - s = degree
      BY <1>2, <1>3, <2>3
    <3>2. e[k] = Ser(q)[degree]
      BY <3>1 DEF Delay
    <3>3. Ser(q)[degree] = 1
      BY <1>1, <1>4 DEF Ser
    <3>4. Ser(below)[k] = 0
      BY <1>9, <2>3 DEF Ser
    <3>5. f[k] = above[k + 1]
      BY <1>5, <2>1, <2>3, <3>2, <3>3, <3>4
    <3> QED BY <2>1, <2>2, <3>5, SameIsReflexive
  <2>4. CASE k # c /\ k < s
    <3>1. e[k] = 0
      BY <2>4 DEF Delay
    <3>2. k + 1 \in 1 .. c /\ ~((k + 1) - s \in 1 .. degree) /\ k < c
      BY <1>11, <2>4
    <3>3. Ser(below)[k] = above[k + 1]
      BY <1>8, <1>9, <3>2 DEF Ser
    <3>4. above[k + 1] \in Int
      BY <1>4, <2>2
    <3>5. f[k] = above[k + 1]
      BY <1>5, <2>1, <3>1, <3>3, <3>4
    <3> QED BY <2>1, <2>2, <3>5, SameIsReflexive
  <2>5. CASE k # c /\ ~(k < s)
    <3>1. PICK j \in Int : j = (k + 1) - s
      OBVIOUS
    <3>2. k + 1 \in 1 .. c /\ j \in 1 .. degree /\ k < c /\ k - s \in Nat /\ k - s < degree + 1 /\ (k - s) + 1 = j
      BY <1>2, <1>3, <1>11, <2>5, <3>1
    <3>3. e[k] = q[j]
      BY <1>1, <2>5, <3>2 DEF Delay, Ser
    <3>4. Ser(below)[k] = (above[k + 1] - lead * q[j]) % m
      BY <1>8, <1>9, <3>1, <3>2 DEF Ser
    <3>5. Same(above[k + 1], lead * q[j] + ((above[k + 1] - lead * q[j]) % m), m)
      BY <1>6, <3>1, <3>2
    <3>6. f[k] = lead * q[j] + ((above[k + 1] - lead * q[j]) % m)
      BY <2>1, <3>3, <3>4
    <3> QED BY <2>2, <3>5, <3>6
  <2> QED BY <2>3, <2>4, <2>5
<1>12. AgreeBelow(Ser(above), f, c + 1, m)
  BY <1>11 DEF AgreeBelow
<1>14. AgreeBelow(Ser(above), Combine(above[c + 1], Delay(Ser(q), c - (Len(q) - 1)),
                                      Ser(Cleared(above, q, c, m))), c + 1, m)
  <2>1. c - (Len(q) - 1) = s
    BY <1>2, <1>3
  <2> HIDE DEF b
  <2> QED BY <1>12, <2>1
<1> HIDE DEF below, e, f, b
<1>13. ASSUME NEW x \in Int, Same(At(x, q), 0, m) PROVE Same(At(x, below), At(x, above), m)
  <2>0. c + 1 \in Nat /\ m \in Int
    OBVIOUS
  <2>1. Same(Ev(x, c + 1, Ser(above)), Ev(x, c + 1, f), m)
    BY <1>4, <1>10, <1>12, <2>0, EvAgrees
  <2>2. Ev(x, c + 1, f) = lead * Ev(x, c + 1, e) + Ev(x, c + 1, Ser(below))
    BY <1>5, <1>10, <2>0, EvIsLinear DEF f
  <2>3. Same(Ev(x, c + 1, e), 0, m)
    <3>1. Same(Ev(x, degree + 1, Ser(q)), 0, m)
      BY <1>1, <1>13 DEF At
    <3>2. degree + 1 \in Nat /\ (degree + 1) + s = c + 1
      BY <1>2, <1>3
    <3>3. Same(Ev(x, (degree + 1) + s, Delay(Ser(q), s)), 0, m)
      BY <1>4, <2>0, <3>1, <3>2, EvOfDelay
    <3> QED BY <3>2, <3>3 DEF e
  <2>4. Ev(x, c + 1, Ser(below)) = At(x, below)
    <3>1. c + 1 >= Len(below)
      BY <1>9
    <3> QED BY <1>9, <2>0, <3>1, AtFacts
  <2>5. Ev(x, c + 1, Ser(above)) = At(x, above)
    BY DEF At
  <2>6. PICK u \in Int, v \in Int, w \in Int : u = Ev(x, c + 1, e) /\ v = At(x, below) /\ w = At(x, above)
    BY <1>9, <1>10, <2>0, EvEquations, AtFacts
  <2>7. Same(w, lead * u + v, m) /\ Same(u, 0, m)
    BY <2>1, <2>2, <2>3, <2>4, <2>5, <2>6
  <2>8. PICK i \in Int, j \in Int : w = lead * u + v + i * m /\ u = 0 + j * m
    BY <2>7 DEF Same
  <2>9. PICK z \in Int : z = -(lead * j + i)
    <3>1. -(lead * j + i) \in Int
      BY <1>5
    <3> QED BY <3>1
  <2>11. ASSUME NEW a \in Int PROVE v = (a * (0 + j * m) + v + i * m) + (-(a * j + i)) * m
    OBVIOUS
  <2>10. v = w + z * m
    BY <1>5, <2>8, <2>9, <2>11
  <2> QED BY <2>6, <2>10 DEF Same
<1> QED BY <1>9, <1>13, <1>14 DEF below

\* The recursion of ClassicalRemainder.
RestStep(p, q, m, g) ==
  [c \in Len(q) - 1 .. Len(p) |-> IF c = Len(p) THEN p ELSE Cleared(g[c + 1], q, c, m)]

Rests(p, q, m) == CHOOSE g : g = RestStep(p, q, m, g)

\* classical_monic_remainder is the last of its rests,
LEMMA ClassicalIsRest ==
  ASSUME NEW p, NEW q, NEW m, ~(Len(p) < Len(q))
  PROVE  ClassicalRemainder(p, q, m) = Trim(Rests(p, q, m)[Len(q) - 1])
BY DEF ClassicalRemainder, Rests, RestStep, Cleared

\* each of which keeps the values where the divisor vanishes.
LEMMA RestsEquation ==
  ASSUME NEW m \in Nat \ {0}, NEW p \in Poly(m), NEW q \in Poly(m), Monic(q), ~(Len(p) < Len(q))
  PROVE  LET r == Rests(p, q, m)
         IN  /\ r = RestStep(p, q, m, r)
             /\ \A c \in Len(q) - 1 .. Len(p) :
                  /\ r[c] \in Poly(m) /\ Len(r[c]) = c
                  /\ \A x \in Int : Same(At(x, q), 0, m) => Same(At(x, r[c]), At(x, p), m)
<1> DEFINE n == Len(p)
           D == Len(q) - 1 .. n
           V == Poly(m)
           rank == [c \in D |-> n - c]
           H(g) == [c \in D |-> IF c = n THEN p
                                ELSE IF Len(g[c + 1]) = c + 1 THEN Cleared(g[c + 1], q, c, m)
                                ELSE <<>>]
           G == [g \in [D -> V] |-> H(g)]
<1>1. n \in Nat /\ Len(q) \in Nat /\ Len(q) >= 1 /\ Len(q) <= n
  <2>1. n \in Nat /\ Len(q) \in Nat
    BY PolyFacts
  <2>2. Len(q) # 0
    BY DEF Monic, Poly
  <2> QED BY <2>1, <2>2
<1>2. \A c \in D : c # n => c \in Nat /\ c + 1 \in D /\ Len(q) <= c + 1 /\ n - (c + 1) < n - c
  BY <1>1
<1>3. <<>> \in V /\ p \in V
  BY EmptyPoly
<1>4. ASSUME NEW g \in [D -> V] PROVE H(g) \in [D -> V]
  <2>1. ASSUME NEW c \in D, c # n, Len(g[c + 1]) = c + 1 PROVE Cleared(g[c + 1], q, c, m) \in V
    <3>1. g[c + 1] \in Poly(m)
      BY <1>2, <2>1
    <3> QED BY <1>2, <2>1, <3>1, ClearedFacts
  <2> HIDE DEF V, D
  <2> QED BY <1>3, <2>1
<1>5. Recurses(D, V, n, rank, G)
  <2>1. V # {} /\ n \in Nat
    BY <1>1, <1>3
  <2>2. rank \in [D -> 0 .. n]
    BY <1>1
  <2>3. G \in [[D -> V] -> [D -> V]]
    BY <1>4
  <2>4. ASSUME NEW g \in [D -> V], NEW h \in [D -> V], NEW c \in D,
               \A t \in D : rank[t] < rank[c] => g[t] = h[t]
        PROVE  G[g][c] = G[h][c]
    <3>1. CASE c = n
      BY <3>1
    <3>2. CASE c # n
      <4>1. c + 1 \in D /\ rank[c + 1] < rank[c]
        BY <1>2, <3>2
      <4>2. g[c + 1] = h[c + 1]
        BY <2>4, <4>1
      <4> QED BY <3>2, <4>2
    <3> QED BY <3>1, <3>2
  <2> HIDE DEF D, V, rank, G
  <2> QED BY <2>1, <2>2, <2>3, <2>4 DEF Recurses
<1>6. PICK g \in [D -> V] : g = H(g)
  <2>1. \E g \in [D -> V] : g = G[g]
    <3> HIDE DEF D, V, G
    <3> QED BY <1>5, RecursionHasSolution
  <2> QED BY <2>1
<1> HIDE DEF V, rank, G
<1>7. ASSUME NEW c \in D PROVE Len(g[c]) = c
  <2> DEFINE T == {k \in Nat : k <= n - (Len(q) - 1) => Len(g[n - k]) = n - k}
  <2>1. 0 \in T
    <3>1. n - 0 = n /\ n \in D
      BY <1>1
    <3>2. g[n] = p
      BY <1>6, <3>1
    <3> QED BY <3>1, <3>2
  <2>2. ASSUME NEW k \in Nat, k \in T PROVE k + 1 \in T
    <3> SUFFICES ASSUME k + 1 <= n - (Len(q) - 1) PROVE Len(g[n - (k + 1)]) = n - (k + 1)
      OBVIOUS
    <3>1. PICK d \in Nat : d = n - (k + 1)
      <4>1. n - (k + 1) \in Nat
        BY <1>1
      <4> QED BY <4>1
    <3>2. d \in D /\ d # n /\ d + 1 = n - k /\ k <= n - (Len(q) - 1)
      BY <1>1, <3>1
    <3>3. Len(g[d + 1]) = d + 1
      BY <2>2, <3>2
    <3>4. g[d] = Cleared(g[d + 1], q, d, m)
      BY <1>6, <3>2, <3>3
    <3>5. g[d + 1] \in Poly(m) /\ Len(q) <= d + 1
      BY <1>2, <1>6, <3>2 DEF V
    <3>6. Len(g[d]) = d
      BY <3>3, <3>4, <3>5, ClearedFacts
    <3> QED BY <3>1, <3>6
  <2>3. \A k \in Nat : k \in T
    <3> HIDE DEF T
    <3> QED BY <2>1, <2>2, SetOfAllNaturals
  <2>4. PICK k \in Nat : k = n - c
    <3>1. n - c \in Nat
      BY <1>1
    <3> QED BY <3>1
  <2>5. k <= n - (Len(q) - 1) /\ n - k = c
    BY <1>1, <2>4
  <2> QED BY <2>3, <2>5
<1>8. g = RestStep(p, q, m, g)
  <2>1. \A c \in D : c # n => Len(g[c + 1]) = c + 1
    BY <1>2, <1>7
  <2>2. H(g) = RestStep(p, q, m, g)
    BY <2>1 DEF RestStep
  <2> QED BY <1>6, <2>2
<1>9. PICK r : r = Rests(p, q, m)
  OBVIOUS
<1>10. r = RestStep(p, q, m, r)
  BY <1>8, <1>9 DEF Rests
<1> DEFINE Good(c) == /\ r[c] \in Poly(m) /\ Len(r[c]) = c
                      /\ \A x \in Int : Same(At(x, q), 0, m) => Same(At(x, r[c]), At(x, p), m)
           T == {k \in Nat : k <= n - (Len(q) - 1) => Good(n - k)}
<1>11. 0 \in T
  <2>1. n - 0 = n /\ n \in D
    BY <1>1
  <2>2. r[n] = p
    BY <1>10, <2>1 DEF RestStep
  <2>3. \A x \in Int : Same(At(x, p), At(x, p), m)
    BY AtFacts, SameIsReflexive
  <2> QED BY <2>1, <2>2, <2>3
<1>12. ASSUME NEW k \in Nat, k \in T PROVE k + 1 \in T
  <2> SUFFICES ASSUME k + 1 <= n - (Len(q) - 1) PROVE Good(n - (k + 1))
    OBVIOUS
  <2>1. PICK d \in Nat : d = n - (k + 1)
    <3>1. n - (k + 1) \in Nat
      BY <1>1
    <3> QED BY <3>1
  <2>2. d \in D /\ d # n /\ d + 1 = n - k /\ k <= n - (Len(q) - 1)
    BY <1>1, <2>1
  <2> DEFINE above == r[d + 1]
             below == r[d]
  <2>3. Good(d + 1)
    BY <1>12, <2>2
  <2>4. below = Cleared(above, q, d, m)
    BY <1>10, <2>2 DEF RestStep
  <2>5. above \in Poly(m) /\ Len(above) = d + 1 /\ Len(q) <= d + 1
    BY <1>2, <2>2, <2>3
  <2>6. ASSUME NEW x \in Int, Same(At(x, q), 0, m) PROVE Same(At(x, above), At(x, p), m)
    BY <2>3, <2>6
  <2> HIDE DEF above, below
  <2>7. /\ below \in Poly(m) /\ Len(below) = d
        /\ \A x \in Int : Same(At(x, q), 0, m) => Same(At(x, below), At(x, above), m)
    BY <2>4, <2>5, ClearedFacts
  <2>8. ASSUME NEW x \in Int, Same(At(x, q), 0, m) PROVE Same(At(x, below), At(x, p), m)
    <3>1. Same(At(x, below), At(x, above), m) /\ Same(At(x, above), At(x, p), m)
      BY <2>6, <2>7, <2>8
    <3>2. At(x, below) \in Int
      BY <2>7, AtFacts
    <3>3. At(x, above) \in Int
      BY <2>5, AtFacts
    <3>4. At(x, p) \in Int /\ m \in Int
      BY AtFacts
    <3> QED BY <3>1, <3>2, <3>3, <3>4, SameIsTransitive
  <2> QED BY <2>1, <2>7, <2>8 DEF below
<1>13. \A k \in Nat : k \in T
  <2> HIDE DEF T
  <2> QED BY <1>11, <1>12, SetOfAllNaturals
<1>14. ASSUME NEW c \in D PROVE Good(c)
  <2>1. PICK k \in Nat : k = n - c
    <3>1. n - c \in Nat
      BY <1>1
    <3> QED BY <3>1
  <2>2. k <= n - (Len(q) - 1) /\ n - k = c
    BY <1>1, <2>1
  <2>3. Good(n - k)
    BY <1>13, <2>2
  <2> QED BY <2>2, <2>3
<1>15. \A c \in Len(q) - 1 .. Len(p) : Good(c)
  BY <1>14
<1> HIDE DEF n, D
<1> QED BY <1>9, <1>10, <1>15

\* Schoolbook division keeps the value at the points where the divisor vanishes.
LEMMA ClassicalRemainderFacts ==
  ASSUME NEW m \in Nat \ {0}, NEW p \in Poly(m), NEW q \in Poly(m), Monic(q)
  PROVE  /\ ClassicalRemainder(p, q, m) \in Poly(m)
         /\ \A x \in Int : Same(At(x, q), 0, m) =>
              Same(At(x, ClassicalRemainder(p, q, m)), At(x, p), m)
<1>1. CASE Len(p) < Len(q)
  <2>1. ClassicalRemainder(p, q, m) = p
    BY <1>1 DEF ClassicalRemainder
  <2>2. \A x \in Int : Same(At(x, p), At(x, p), m)
    BY AtFacts, SameIsReflexive
  <2> QED BY <2>1, <2>2
<1>2. CASE ~(Len(p) < Len(q))
  <2> DEFINE r == Rests(p, q, m)[Len(q) - 1]
  <2>1. Len(q) - 1 \in Len(q) - 1 .. Len(p)
    BY <1>2, PolyFacts
  <2>2. /\ r \in Poly(m)
        /\ \A x \in Int : Same(At(x, q), 0, m) => Same(At(x, r), At(x, p), m)
    BY <1>2, <2>1, RestsEquation
  <2>3. ClassicalRemainder(p, q, m) = Trim(r)
    BY <1>2, ClassicalIsRest
  <2> HIDE DEF r
  <2>4. Trim(r) \in Poly(m) /\ \A x \in Int : At(x, Trim(r)) = At(x, r)
    BY <2>2, TrimFacts, AtFacts
  <2> QED BY <2>2, <2>3, <2>4
<1> QED BY <1>1, <1>2

(* ------------------------ prefixes and reversals ----------------------- *)

\* The first coefficients of a polynomial.
LEMMA PrefixFacts ==
  ASSUME NEW m \in Nat \ {0}, NEW p \in Poly(m), NEW n \in Nat
  PROVE  LET t == SubSeq(p, 1, Lesser(Len(p), n))
         IN  /\ t \in Poly(m) /\ Len(t) = Lesser(Len(p), n)
             /\ \A k \in Nat : k < n => Ser(t)[k] = Ser(p)[k]
<1> DEFINE d == Lesser(Len(p), n)
           t == SubSeq(p, 1, d)
<1>1. Len(p) \in Nat /\ d \in Nat /\ d <= Len(p) /\ (d = n \/ (d = Len(p) /\ d < n))
  BY PolyFacts DEF Lesser
<1> HIDE DEF d
<1>2. /\ t \in Seq(0 .. m - 1) /\ Len(t) = d
      /\ \A i \in 1 .. d : t[i] = p[i]
  BY <1>1 DEF Poly
<1> HIDE DEF t
<1>3. ASSUME NEW k \in Nat, k < n PROVE Ser(t)[k] = Ser(p)[k]
  <2>1. CASE k < d
    <3>1. k + 1 \in 1 .. d /\ k < Len(p)
      BY <1>1, <2>1
    <3> QED BY <1>2, <2>1, <3>1 DEF Ser
  <2>2. CASE ~(k < d)
    <3>1. ~(k < Len(p))
      BY <1>1, <1>3, <2>2
    <3> QED BY <1>2, <2>2, <3>1 DEF Ser
  <2> QED BY <2>1, <2>2
<1> QED BY <1>2, <1>3 DEF d, t, Poly

\* Two polynomials of one length with their coefficients in opposite order.
Mirrors(a, b) == Len(b) = Len(a) /\ \A i \in 1 .. Len(a) : b[Len(a) + 1 - i] = a[i]

\* Reversing twice changes nothing.
LEMMA ReversedFacts ==
  ASSUME NEW m \in Nat \ {0}, NEW p \in Poly(m)
  PROVE  /\ Reversed(p) \in Poly(m) /\ Len(Reversed(p)) = Len(p)
         /\ Mirrors(p, Reversed(p)) /\ Mirrors(Reversed(p), p)
         /\ \A k \in Nat : k < Len(p) => Ser(Reversed(p))[k] = Ser(p)[Len(p) - 1 - k]
<1> DEFINE n == Len(p)
           r == [i \in 1 .. n |-> p[n + 1 - i]]
<1>1. n \in Nat /\ DOMAIN p = 1 .. n /\ \A i \in 1 .. n : p[i] \in 0 .. m - 1
  BY PolyFacts
<1>2. ASSUME NEW i \in 1 .. n PROVE n + 1 - i \in 1 .. n /\ n + 1 - (n + 1 - i) = i
  BY <1>1
<1>3. r \in [1 .. n -> 0 .. m - 1]
  BY <1>1, <1>2
<1>4. Reversed(p) = r /\ r \in Seq(0 .. m - 1) /\ Len(r) = n
  <2>1. Reversed(p) = Tuple(r)
    BY <1>1 DEF Reversed
  <2> HIDE DEF r
  <2> QED BY <1>1, <1>3, <2>1, TupleIs
<1>5. \A i \in 1 .. n : r[i] = p[n + 1 - i] /\ r[n + 1 - i] = p[i]
  BY <1>2
<1> HIDE DEF r
<1>6. Mirrors(p, r) /\ Mirrors(r, p)
  BY <1>4, <1>5 DEF Mirrors
<1>7. ASSUME NEW k \in Nat, k < n PROVE Ser(r)[k] = Ser(p)[n - 1 - k]
  <2>1. k + 1 \in 1 .. n /\ n - 1 - k \in Nat /\ n - 1 - k < n /\ (n - 1 - k) + 1 = n + 1 - (k + 1)
    <3>1. n \in Nat /\ k < n
      BY <1>1, <1>7
    <3> HIDE DEF n
    <3> QED BY <3>1
  <2>2. Ser(r)[k] = r[k + 1]
    BY <1>4, <1>7 DEF Ser
  <2>3. Ser(p)[n - 1 - k] = p[n + 1 - (k + 1)]
    BY <2>1 DEF Ser
  <2> QED BY <1>5, <2>1, <2>2, <2>3
<1> QED BY <1>4, <1>6, <1>7 DEF Poly

\* The positions a coefficient pairs are finite in number.
LEMMA PairingIsSummable ==
  ASSUME NEW m \in Nat \ {0}, NEW p \in Poly(m), NEW q \in Poly(m), NEW k \in Int
  PROVE  Summable(Pairing(p, q, k), Support(p, q, k))
<1>1. Support(p, q, k) \in SUBSET (1 .. Len(p)) /\ IsFiniteSet(1 .. Len(p))
  <2>1. Len(p) \in Nat /\ DOMAIN p = 1 .. Len(p)
    BY PolyFacts
  <2>2. IsFiniteSet(1 .. Len(p))
    BY <2>1, FS_Interval
  <2> QED BY <2>1, <2>2 DEF Support
<1>2. IsFiniteSet(Support(p, q, k))
  BY <1>1, FS_Subset
<1>3. ASSUME NEW i \in Support(p, q, k) PROVE Pairing(p, q, k)[i] \in Int
  <2>1. i \in 1 .. Len(p) /\ k + 1 - i \in 1 .. Len(q)
    BY PolyFacts DEF Support
  <2>2. p[i] \in Int /\ q[k + 1 - i] \in Int
    BY <2>1, PolyFacts
  <2> QED BY <2>2 DEF Pairing
<1> QED BY <1>2, <1>3 DEF Summable

\* The product of reversed polynomials is the reversed product.
LEMMA ConvOfMirrors ==
  ASSUME NEW m \in Nat \ {0},
         NEW a \in Poly(m), NEW c \in Poly(m), Mirrors(a, c),
         NEW b \in Poly(m), NEW d \in Poly(m), Mirrors(b, d),
         NEW j \in Nat, NEW k \in Nat, j + k + 2 = Len(a) + Len(b)
  PROVE  Conv(Ser(c), Ser(d))[j] = Conv(Ser(a), Ser(b))[k]
<1> DEFINE n == Len(a)
           e == Len(b)
           S == Support(a, b, k + 1)
           T == Support(c, d, j + 1)
           f == Pairing(a, b, k + 1)
           g == Pairing(c, d, j + 1)
           t == [i \in S |-> n + 1 - i]
<1>1. /\ n \in Nat /\ e \in Nat /\ Len(c) = n /\ Len(d) = e
      /\ DOMAIN a = 1 .. n /\ DOMAIN c = 1 .. n /\ DOMAIN b = 1 .. e /\ DOMAIN d = 1 .. e
  BY PolyFacts DEF Mirrors
<1>2. j + k + 2 = n + e
  OBVIOUS
<1> HIDE DEF n, e
<1>3. \A i : i \in S <=> i \in 1 .. n /\ (k + 1) + 1 - i \in 1 .. e
  BY <1>1 DEF Support
<1>4. \A i : i \in T <=> i \in 1 .. n /\ (j + 1) + 1 - i \in 1 .. e
  BY <1>1 DEF Support
<1>5. ASSUME NEW i \in S
      PROVE  /\ t[i] \in T /\ g[t[i]] = f[i]
  <2>1. i \in 1 .. n /\ (k + 1) + 1 - i \in 1 .. e
    BY <1>3
  <2>2. n + 1 - i \in 1 .. n /\ (j + 1) + 1 - (n + 1 - i) = e + 1 - ((k + 1) + 1 - i)
    BY <1>1, <1>2, <2>1
  <2>3. e + 1 - ((k + 1) + 1 - i) \in 1 .. e
    BY <1>1, <2>1
  <2>4. n + 1 - i \in T
    BY <1>4, <2>2, <2>3
  <2>5. c[n + 1 - i] = a[i]
    BY <2>1 DEF Mirrors, n
  <2>6. d[e + 1 - ((k + 1) + 1 - i)] = b[(k + 1) + 1 - i]
    BY <2>1 DEF Mirrors, e
  <2>7. g[n + 1 - i] = c[n + 1 - i] * d[(j + 1) + 1 - (n + 1 - i)]
    BY <2>4 DEF Pairing
  <2>8. f[i] = a[i] * b[(k + 1) + 1 - i]
    BY DEF Pairing
  <2> QED BY <2>2, <2>4, <2>5, <2>6, <2>7, <2>8
<1>6. ASSUME NEW i \in T PROVE \E x \in S : t[x] = i
  <2>1. i \in 1 .. n /\ (j + 1) + 1 - i \in 1 .. e
    BY <1>4
  <2>2. n + 1 - i \in 1 .. n /\ (k + 1) + 1 - (n + 1 - i) \in 1 .. e /\ n + 1 - (n + 1 - i) = i
    BY <1>1, <1>2, <2>1
  <2>3. n + 1 - i \in S
    BY <1>3, <2>2
  <2> QED BY <2>2, <2>3
<1>7. \A x, y \in S : t[x] = t[y] => x = y
  BY <1>1, <1>3
<1>8. Summable(f, S)
  BY PairingIsSummable
<1>9. Matches(f, S, g, T, t)
  <2>1. t \in [S -> T]
    BY <1>5
  <2> HIDE DEF S, T, f, g, t
  <2> QED BY <1>5, <1>6, <1>7, <2>1 DEF Matches
<1>10. SumOver(g, T) = SumOver(f, S)
  <2> HIDE DEF S, T, f, g, t
  <2> QED BY <1>8, <1>9, SumOfMatching
<1>11. Coefficient(a, b, k + 1) = SumOver(f, S)
  BY <1>8, CoefficientIsSum
<1>12. Coefficient(c, d, j + 1) = SumOver(g, T)
  BY PairingIsSummable, CoefficientIsSum
<1>13. Coefficient(a, b, k + 1) = Conv(Ser(a), Ser(b))[k]
  BY CoefficientIsConv
<1>14. Coefficient(c, d, j + 1) = Conv(Ser(c), Ser(d))[j]
  BY CoefficientIsConv
<1> HIDE DEF S, T, f, g
<1> QED BY <1>10, <1>11, <1>12, <1>13, <1>14

(* ---------------------------- series inverse --------------------------- *)

\* The recursion of SeriesInverse, and one round of it.
Refined(p, old, n, m) ==
  LET prefix  == SubSeq(p, 1, Lesser(Len(p), n))
      product == Resize(Product(prefix, old, m), n)
  IN  Resize(Product(old, Correction(product, m), m), n)

InverseStep(p, size, m, g) ==
  [k \in 0 .. Rounds(size) |->
     IF k = 0 THEN <<1>> ELSE Refined(p, g[k - 1], Lesser(size, PowerOfTwo(k)), m)]

Inverses(p, size, m) == CHOOSE g : g = InverseStep(p, size, m, g)

\* series_inverse is the last of its rounds.
LEMMA SeriesInverseIs ==
  ASSUME NEW p, NEW size, NEW m
  PROVE  SeriesInverse(p, size, m) = Inverses(p, size, m)[Rounds(size)]
BY DEF SeriesInverse, Inverses, InverseStep, Refined

\* The correction of a round is 2 minus the product it has.
LEMMA CorrectionFacts ==
  ASSUME NEW m \in Nat \ {0}, NEW p \in Poly(m)
  PROVE  /\ Correction(p, m) \in Poly(m)
         /\ AgreeBelow(Ser(Correction(p, m)), Combine(-1, Ser(p), Constant(2)), Len(p), m)
<1> DEFINE n == Len(p)
           c == [i \in 1 .. n |-> ((IF i = 1 THEN 2 ELSE 0) - p[i]) % m]
<1>1. n \in Nat /\ DOMAIN p = 1 .. n /\ \A i \in 1 .. n : p[i] \in 0 .. m - 1
  BY PolyFacts
<1>2. ASSUME NEW i \in 1 .. n
      PROVE  c[i] \in 0 .. m - 1 /\ Same(c[i], (IF i = 1 THEN 2 ELSE 0) - p[i], m)
  <2>1. (IF i = 1 THEN 2 ELSE 0) - p[i] \in Int
    BY <1>1
  <2>2. PICK u \in Int : u = (IF i = 1 THEN 2 ELSE 0) - p[i]
    BY <2>1
  <2>3. u % m \in 0 .. m - 1 /\ Same(u % m, u, m)
    BY SameAsRest
  <2> QED BY <2>2, <2>3
<1>3. c \in [1 .. n -> 0 .. m - 1]
  BY <1>2
<1>4. Correction(p, m) = c /\ c \in Seq(0 .. m - 1) /\ Len(c) = n
  <2>1. Correction(p, m) = Tuple(c)
    BY <1>1 DEF Correction
  <2> HIDE DEF c, n
  <2>2. n \in Nat /\ c \in [1 .. n -> 0 .. m - 1]
    BY <1>1, <1>3
  <2>3. Tuple(c) = c /\ c \in Seq(0 .. m - 1) /\ Len(c) = n
    BY <2>2, TupleIs
  <2> QED BY <2>1, <2>3
<1> HIDE DEF c
<1>5. ASSUME NEW k \in Nat, k < n PROVE Same(Ser(c)[k], Combine(-1, Ser(p), Constant(2))[k], m)
  <2>1. k + 1 \in 1 .. n /\ (k + 1 = 1 <=> k = 0)
    BY <1>1, <1>5
  <2>2. Ser(c)[k] = c[k + 1] /\ Ser(p)[k] = p[k + 1] /\ p[k + 1] \in Int
    BY <1>1, <1>4, <1>5, <2>1 DEF Ser
  <2>3. Combine(-1, Ser(p), Constant(2))[k] = (IF k + 1 = 1 THEN 2 ELSE 0) - p[k + 1]
    BY <2>1, <2>2 DEF Combine, Constant
  <2> QED BY <1>2, <2>1, <2>2, <2>3
<1> QED BY <1>4, <1>5 DEF AgreeBelow, Poly

\* Series are equal when their coefficients are,
LEMMA SeriesAreEqual ==
  ASSUME NEW f \in Series, NEW g \in Series, \A k \in Nat : f[k] = g[k]
  PROVE  f = g
BY DEF Series

\* and agree as far as they are equal.
LEMMA AgreeOfEqual ==
  ASSUME NEW f \in Series, NEW g \in Series, NEW n \in Nat, NEW m \in Int,
         \A k \in Nat : k < n => f[k] = g[k]
  PROVE  AgreeBelow(f, g, n, m)
<1> SUFFICES ASSUME NEW k \in Nat, k < n PROVE Same(f[k], g[k], m)
  BY DEF AgreeBelow
<1>1. f[k] = g[k] /\ g[k] \in Int
  BY DEF Series
<1> QED BY <1>1, SameIsReflexive

\* A round makes a polynomial.
LEMMA RefinedType ==
  ASSUME NEW m \in Nat \ {0}, NEW p \in Poly(m), NEW old \in Poly(m), NEW n \in Nat
  PROVE  Refined(p, old, n, m) \in Poly(m)
<1> DEFINE prefix  == SubSeq(p, 1, Lesser(Len(p), n))
           product == Resize(Product(prefix, old, m), n)
<1>1. prefix \in Poly(m)
  BY PrefixFacts
<1> HIDE DEF prefix
<1>2. product \in Poly(m)
  BY <1>1, ProductFacts, ResizeFacts
<1> HIDE DEF product
<1>3. Product(old, Correction(product, m), m) \in Poly(m)
  BY <1>2, CorrectionFacts, ProductFacts
<1>4. Resize(Product(old, Correction(product, m), m), n) \in Poly(m)
  BY <1>3, ResizeFacts
<1> QED BY <1>4 DEF Refined, prefix, product

\* A product cut off at n, as a series.
LEMMA CutProduct ==
  ASSUME NEW m \in Nat \ {0}, NEW p \in Poly(m), NEW q \in Poly(m), NEW n \in Nat
  PROVE  LET r == Resize(Product(p, q, m), n)
         IN  /\ r \in Poly(m) /\ Len(r) = n
             /\ AgreeBelow(Ser(r), Conv(Ser(p), Ser(q)), n, m)
<1> DEFINE c == Product(p, q, m)
           r == Resize(c, n)
<1>1. c \in Poly(m) /\ AgreeBelow(Ser(c), Conv(Ser(p), Ser(q)), n, m)
  BY ProductFacts
<1> HIDE DEF c
<1>2. r \in Poly(m) /\ Len(r) = n /\ \A k \in Nat : k < n => Ser(r)[k] = Ser(c)[k]
  BY <1>1, ResizeFacts
<1> HIDE DEF r
<1>3. AgreeBelow(Ser(r), Conv(Ser(p), Ser(q)), n, m)
  BY <1>1, <1>2 DEF AgreeBelow
<1> QED BY <1>2, <1>3 DEF r, c

\* A round doubles the number of coefficients that are right.
LEMMA RefinedFacts ==
  ASSUME NEW m \in Nat \ {0}, NEW p \in Poly(m), NEW old \in Poly(m),
         NEW k \in Nat, NEW n \in Nat, n <= 2 * k,
         AgreeBelow(Conv(Ser(p), Ser(old)), Constant(1), k, m)
  PROVE  AgreeBelow(Conv(Ser(p), Ser(Refined(p, old, n, m))), Constant(1), n, m)
<1> DEFINE prefix  == SubSeq(p, 1, Lesser(Len(p), n))
           product == Resize(Product(prefix, old, m), n)
           factor  == Correction(product, m)
           new     == Resize(Product(old, factor, m), n)
           d       == Conv(Ser(p), Ser(old))
           two     == Combine(-1, d, Constant(2))
<1>0. m \in Int /\ -1 \in Int /\ 2 \in Int
  OBVIOUS
<1>1. prefix \in Poly(m) /\ \A i \in Nat : i < n => Ser(prefix)[i] = Ser(p)[i]
  BY PrefixFacts
<1>2. Ser(p) \in Series /\ Ser(old) \in Series /\ d \in Series /\ two \in Series
  <2>1. Ser(p) \in Series /\ Ser(old) \in Series
    BY PolyFacts
  <2>2. d \in Series
    BY <2>1, ConvType
  <2> HIDE DEF d
  <2> QED BY <1>0, <2>1, <2>2, SeriesTypes
<1> HIDE DEF prefix
<1>3. product \in Poly(m) /\ Len(product) = n /\ AgreeBelow(Ser(product), Conv(Ser(prefix), Ser(old)), n, m)
  BY <1>1, CutProduct
<1> HIDE DEF product
<1>4. factor \in Poly(m) /\ AgreeBelow(Ser(factor), Combine(-1, Ser(product), Constant(2)), n, m)
  BY <1>3, CorrectionFacts
<1> HIDE DEF factor
<1>5. new \in Poly(m) /\ AgreeBelow(Ser(new), Conv(Ser(old), Ser(factor)), n, m)
  BY <1>4, CutProduct
<1> HIDE DEF new
<1>6. Ser(prefix) \in Series /\ Ser(product) \in Series /\ Ser(factor) \in Series /\ Ser(new) \in Series
  BY <1>1, <1>3, <1>4, <1>5, PolyFacts
<1>7. AgreeBelow(Ser(product), d, n, m)
  <2>1. AgreeBelow(Ser(prefix), Ser(p), n, m)
    BY <1>0, <1>1, <1>2, <1>6, AgreeOfEqual
  <2>2. AgreeBelow(Ser(old), Ser(old), n, m)
    BY <1>0, <1>2, AgreeIsReflexive
  <2>3. AgreeBelow(Conv(Ser(prefix), Ser(old)), d, n, m)
    BY <1>0, <1>2, <1>6, <2>1, <2>2, ConvAgrees
  <2>4. Conv(Ser(prefix), Ser(old)) \in Series
    BY <1>2, <1>6, ConvType
  <2> HIDE DEF d
  <2> QED BY <1>0, <1>2, <1>3, <1>6, <2>3, <2>4, AgreeIsTransitive
<1>8. AgreeBelow(Combine(-1, Ser(product), Constant(2)), two, n, m)
  <2> SUFFICES ASSUME NEW i \in Nat, i < n
               PROVE  Same(Combine(-1, Ser(product), Constant(2))[i], two[i], m)
    BY DEF AgreeBelow
  <2>1. PICK u \in Int, v \in Int, w \in Int : u = Ser(product)[i] /\ v = d[i] /\ w = Constant(2)[i]
    <3>1. Ser(product)[i] \in Int /\ d[i] \in Int /\ Constant(2)[i] \in Int
      BY <1>2, <1>6 DEF Series, Constant
    <3> QED BY <3>1
  <2>2. Same(u, v, m)
    BY <1>7, <2>1 DEF AgreeBelow
  <2>3. PICK z \in Int : u = v + z * m
    BY <2>2 DEF Same
  <2>4. (-1) * u + w = ((-1) * v + w) + (-z) * m /\ -z \in Int
    BY <2>3
  <2>5. Same((-1) * u + w, (-1) * v + w, m)
    BY <2>4 DEF Same
  <2> HIDE DEF d
  <2> QED BY <2>1, <2>5 DEF Combine
<1>9. AgreeBelow(Ser(factor), two, n, m)
  <2>1. Combine(-1, Ser(product), Constant(2)) \in Series
    BY <1>0, <1>6, SeriesTypes
  <2> HIDE DEF two
  <2> QED BY <1>0, <1>2, <1>4, <1>6, <1>8, <2>1, AgreeIsTransitive
<1>10. AgreeBelow(Conv(Ser(p), Ser(new)), Constant(1), n, m)
  BY <1>0, <1>2, <1>5, <1>6, <1>9, NewtonRound
<1> QED BY <1>10 DEF Refined, prefix, product, factor, new

\* The rounds obey their recursion and make polynomials.
LEMMA InversesEquation ==
  ASSUME NEW m \in Nat \ {0, 1}, NEW p \in Poly(m), NEW size \in Nat
  PROVE  LET g == Inverses(p, size, m)
         IN  g = InverseStep(p, size, m, g) /\ \A k \in 0 .. Rounds(size) : g[k] \in Poly(m)
<1> DEFINE R == Rounds(size)
           D == 0 .. R
           V == Poly(m)
           rank == [k \in D |-> k]
           G == [g \in [D -> V] |-> InverseStep(p, size, m, g)]
<1>1. R \in Nat
  BY RoundsReach
<1>2. <<1>> \in V
  <2>1. 1 \in 0 .. m - 1
    OBVIOUS
  <2> QED BY <2>1 DEF Poly
<1>3. ASSUME NEW k \in D, k # 0 PROVE k - 1 \in D /\ k - 1 < k /\ Lesser(size, PowerOfTwo(k)) \in Nat
  BY <1>1, <1>3, PowersOfTwo DEF Lesser
<1> HIDE DEF R
<1>4. ASSUME NEW g \in [D -> V] PROVE InverseStep(p, size, m, g) \in [D -> V]
  <2>1. ASSUME NEW k \in D, k # 0 PROVE Refined(p, g[k - 1], Lesser(size, PowerOfTwo(k)), m) \in V
    <3>1. PICK old \in V, n \in Nat : old = g[k - 1] /\ n = Lesser(size, PowerOfTwo(k))
      BY <1>3, <2>1
    <3>2. m \in Nat \ {0} /\ old \in Poly(m)
      OBVIOUS
    <3>3. Refined(p, old, n, m) \in V
      BY <3>2, RefinedType
    <3> QED BY <3>1, <3>3
  <2> HIDE DEF V
  <2> QED BY <1>2, <2>1 DEF InverseStep, R
<1>5. Recurses(D, V, R, rank, G)
  <2>1. V # {} /\ R \in Nat
    BY <1>1, <1>2
  <2>2. rank \in [D -> 0 .. R]
    OBVIOUS
  <2>3. G \in [[D -> V] -> [D -> V]]
    BY <1>4
  <2>4. ASSUME NEW g \in [D -> V], NEW h \in [D -> V], NEW k \in D,
               \A t \in D : rank[t] < rank[k] => g[t] = h[t]
        PROVE  G[g][k] = G[h][k]
    <3>1. CASE k = 0
      BY <3>1 DEF InverseStep, R
    <3>2. CASE k # 0
      <4>1. k - 1 \in D /\ rank[k - 1] < rank[k]
        BY <1>3, <3>2
      <4>2. g[k - 1] = h[k - 1]
        BY <2>4, <4>1
      <4> QED BY <3>2, <4>2 DEF InverseStep, R
    <3> QED BY <3>1, <3>2
  <2> HIDE DEF D, V, rank, G
  <2> QED BY <2>1, <2>2, <2>3, <2>4 DEF Recurses
<1>6. PICK g \in [D -> V] : g = InverseStep(p, size, m, g)
  <2>1. \E g \in [D -> V] : g = G[g]
    <3> HIDE DEF D, V, G
    <3> QED BY <1>5, RecursionHasSolution
  <2> QED BY <2>1
<1>7. PICK h : h = Inverses(p, size, m)
  OBVIOUS
<1>8. h = InverseStep(p, size, m, h)
  BY <1>6, <1>7 DEF Inverses
<1> DEFINE T == {k \in Nat : k \in D => h[k] \in Poly(m)}
<1>9. 0 \in T
  <2> SUFFICES ASSUME 0 \in D PROVE h[0] \in Poly(m)
    OBVIOUS
  <2>1. h[0] = <<1>>
    BY <1>8 DEF InverseStep, R
  <2> QED BY <1>2, <2>1
<1>10. ASSUME NEW k \in Nat, k \in T PROVE k + 1 \in T
  <2> SUFFICES ASSUME k + 1 \in D PROVE h[k + 1] \in Poly(m)
    OBVIOUS
  <2>1. k \in D /\ k + 1 # 0 /\ (k + 1) - 1 = k
    BY <1>1
  <2>2. PICK n \in Nat : n = Lesser(size, PowerOfTwo(k + 1))
    BY <1>3, <2>1
  <2>3. h[k + 1] = Refined(p, h[k], n, m)
    BY <1>8, <2>1, <2>2 DEF InverseStep, R
  <2>4. m \in Nat \ {0} /\ h[k] \in Poly(m)
    BY <1>10, <2>1
  <2> QED BY <2>3, <2>4, RefinedType
<1>11. \A k \in Nat : k \in T
  <2> HIDE DEF T
  <2> QED BY <1>9, <1>10, SetOfAllNaturals
<1>12. \A k \in D : h[k] \in Poly(m)
  BY <1>11
<1> QED BY <1>7, <1>8, <1>12 DEF R

\* series_inverse returns the reciprocal, up to the size.
LEMMA SeriesInverseFacts ==
  ASSUME NEW m \in Nat \ {0, 1}, NEW p \in Poly(m), Ser(p)[0] = 1, NEW size \in Nat, size >= 1
  PROVE  /\ SeriesInverse(p, size, m) \in Poly(m)
         /\ AgreeBelow(Conv(Ser(p), Ser(SeriesInverse(p, size, m))), Constant(1), size, m)
<1> DEFINE R == Rounds(size)
           h == Inverses(p, size, m)
           Reached(k) == Lesser(size, PowerOfTwo(k))
<1>1. R \in Nat /\ PowerOfTwo(R) >= size
  BY RoundsReach
<1>2. h = InverseStep(p, size, m, h) /\ \A k \in 0 .. R : h[k] \in Poly(m)
  BY InversesEquation
<1>3. m \in Nat \ {0} /\ Ser(p) \in Series
  BY PolyFacts
<1>4. /\ Reached(0) = 1 /\ \A k \in Nat : Reached(k) \in Nat
      /\ \A k \in Nat : Reached(k + 1) <= 2 * Reached(k)
  BY PowersOfTwo DEF Lesser
<1>5. Reached(R) = size
  <2>1. PowerOfTwo(R) \in Nat
    BY <1>1, PowersOfTwo
  <2> QED BY <1>1, <2>1 DEF Lesser
<1> HIDE DEF h, R, Reached
<1> DEFINE T == {k \in Nat : k <= R => AgreeBelow(Conv(Ser(p), Ser(h[k])), Constant(1), Reached(k), m)}
<1>6. 0 \in T
  <2>1. h[0] = <<1>>
    BY <1>1, <1>2 DEF InverseStep, R
  <2>2. Ser(<<1>>)[0] = 1 /\ <<1>> \in Poly(m)
    <3>1. 1 \in 0 .. m - 1 /\ Len(<<1>>) = 1
      OBVIOUS
    <3> QED BY <3>1 DEF Ser, Poly
  <2>3. Ser(<<1>>) \in Series
    BY <1>3, <2>2, PolyFacts
  <2>4. Conv(Ser(p), Ser(<<1>>))[0] = 1 * 1
    BY <1>3, <2>2, <2>3, ConvStarts
  <2>5. Constant(1)[0] = 1
    BY DEF Constant
  <2>6. Same(1, 1, m)
    BY SameIsReflexive
  <2>7. ASSUME NEW k \in Nat, k < 1 PROVE k = 0
    BY <2>7
  <2> QED BY <1>4, <2>1, <2>4, <2>5, <2>6, <2>7 DEF AgreeBelow
<1>7. ASSUME NEW k \in Nat, k \in T PROVE k + 1 \in T
  <2> SUFFICES ASSUME k + 1 <= R
               PROVE  AgreeBelow(Conv(Ser(p), Ser(h[k + 1])), Constant(1), Reached(k + 1), m)
    OBVIOUS
  <2>1. k \in 0 .. R /\ k + 1 \in 0 .. R /\ k + 1 # 0 /\ (k + 1) - 1 = k
    BY <1>1
  <2>2. PICK old \in Poly(m), n \in Nat, i \in Nat : old = h[k] /\ n = Reached(k + 1) /\ i = Reached(k)
    <3>1. k + 1 \in Nat
      OBVIOUS
    <3>2. h[k] \in Poly(m) /\ Reached(k + 1) \in Nat /\ Reached(k) \in Nat
      BY <1>2, <1>4, <2>1, <3>1
    <3> QED BY <3>2
  <2>3. h[k + 1] = Refined(p, old, n, m)
    BY <1>2, <2>1, <2>2 DEF InverseStep, R, Reached
  <2>4. n <= 2 * i /\ AgreeBelow(Conv(Ser(p), Ser(old)), Constant(1), i, m)
    BY <1>4, <1>7, <2>1, <2>2
  <2>5. AgreeBelow(Conv(Ser(p), Ser(Refined(p, old, n, m))), Constant(1), n, m)
    BY <1>3, <2>4, RefinedFacts
  <2> QED BY <2>2, <2>3, <2>5
<1>8. \A k \in Nat : k \in T
  <2> HIDE DEF T
  <2> QED BY <1>6, <1>7, SetOfAllNaturals
<1>9. AgreeBelow(Conv(Ser(p), Ser(h[R])), Constant(1), size, m)
  BY <1>1, <1>5, <1>8
<1>10. SeriesInverse(p, size, m) = h[R]
  BY SeriesInverseIs DEF h, R
<1>11. h[R] \in Poly(m)
  BY <1>1, <1>2
<1> QED BY <1>9, <1>10, <1>11

(* --------------------------- Newton remainder -------------------------- *)

\* The quotient by Newton's reciprocal has the right leading coefficients.
LEMMA QuotientFacts ==
  ASSUME NEW m \in Nat \ {0, 1}, NEW p \in Poly(m), NEW q \in Poly(m), Monic(q),
         NEW size \in Nat, size = Len(p) - Len(q) + 1, size >= 1,
         NEW inverse,
         inverse = SeriesInverse(SubSeq(Reversed(q), 1, Lesser(Len(q), size)), size, m),
         NEW top, top = Resize(Product(SubSeq(Reversed(p), 1, size), inverse, m), size)
  PROVE  /\ top \in Poly(m) /\ Len(top) = size
         /\ AgreeBelow(Conv(Ser(top), Ser(Reversed(q))), Ser(Reversed(p)), size, m)
<1> DEFINE n  == Len(p)
           d  == Len(q)
           rq == Reversed(q)
           rp == Reversed(p)
           Q  == SubSeq(rq, 1, Lesser(d, size))
           P  == SubSeq(rp, 1, size)
<1>0. m \in Nat \ {0} /\ m \in Int
  OBVIOUS
<1>1. /\ n \in Nat /\ d \in Nat /\ d >= 1 /\ q[d] = 1 /\ size <= n /\ Lesser(n, size) = size
  <2>1. n \in Nat /\ d \in Nat
    BY <1>0, PolyFacts
  <2>2. d # 0 /\ q[d] = 1
    BY DEF Monic, Poly
  <2> QED BY <2>1, <2>2 DEF Lesser
<1>2. /\ rq \in Poly(m) /\ Len(rq) = d /\ Mirrors(rq, q)
      /\ rp \in Poly(m) /\ Len(rp) = n
  BY <1>0, ReversedFacts
<1>3. Ser(rq)[0] = 1
  <2>1. 1 \in 1 .. d /\ d + 1 - 1 = d
    BY <1>1
  <2>2. q[d] = rq[1]
    BY <1>2, <2>1 DEF Mirrors
  <2>3. 0 < Len(rq) /\ 0 + 1 = 1
    BY <1>1, <1>2
  <2> HIDE DEF rq
  <2> QED BY <1>1, <2>2, <2>3 DEF Ser
<1> HIDE DEF rq, rp, n, d
<1>4. Q \in Poly(m) /\ \A k \in Nat : k < size => Ser(Q)[k] = Ser(rq)[k]
  <2>1. Q = SubSeq(rq, 1, Lesser(Len(rq), size))
    BY <1>2
  <2> HIDE DEF Q
  <2> QED BY <1>0, <1>2, <2>1, PrefixFacts
<1>5. P \in Poly(m) /\ \A k \in Nat : k < size => Ser(P)[k] = Ser(rp)[k]
  <2>1. P = SubSeq(rp, 1, Lesser(Len(rp), size))
    BY <1>1, <1>2
  <2> HIDE DEF P
  <2> QED BY <1>0, <1>2, <2>1, PrefixFacts
<1>6. inverse = SeriesInverse(Q, size, m)
  BY DEF Q, rq, d
<1>7. top = Resize(Product(P, inverse, m), size)
  BY DEF P, rp
<1> HIDE DEF Q, P
<1>8. inverse \in Poly(m) /\ AgreeBelow(Conv(Ser(Q), Ser(inverse)), Constant(1), size, m)
  <2>1. Ser(Q)[0] = 1
    BY <1>3, <1>4
  <2> QED BY <1>4, <1>6, <2>1, SeriesInverseFacts
<1>9. top \in Poly(m) /\ Len(top) = size /\ AgreeBelow(Ser(top), Conv(Ser(P), Ser(inverse)), size, m)
  <2>1. /\ Resize(Product(P, inverse, m), size) \in Poly(m)
        /\ Len(Resize(Product(P, inverse, m), size)) = size
        /\ AgreeBelow(Ser(Resize(Product(P, inverse, m), size)), Conv(Ser(P), Ser(inverse)), size, m)
    BY <1>0, <1>5, <1>8, CutProduct
  <2> QED BY <1>7, <2>1
<1> DEFINE f == Ser(P)
           g == Ser(inverse)
           h == Ser(Q)
           one == Constant(1)
<1>10. /\ f \in Series /\ g \in Series /\ h \in Series /\ Ser(rq) \in Series /\ Ser(rp) \in Series
       /\ Ser(top) \in Series /\ one \in Series
  <2>1. 1 \in Int
    OBVIOUS
  <2>2. f \in Series /\ g \in Series /\ h \in Series
    BY <1>0, <1>4, <1>5, <1>8, PolyFacts
  <2>3. Ser(rq) \in Series /\ Ser(rp) \in Series /\ Ser(top) \in Series
    BY <1>0, <1>2, <1>9, PolyFacts
  <2>4. one \in Series
    <3>1. \A k \in Nat : one[k] \in Int
      BY DEF Constant
    <3> QED BY <3>1 DEF Series, Constant
  <2> QED BY <2>2, <2>3, <2>4
<1>11. AgreeBelow(h, Ser(rq), size, m) /\ AgreeBelow(f, Ser(rp), size, m)
  BY <1>0, <1>4, <1>5, <1>10, AgreeOfEqual
<1> HIDE DEF f, g, h, one
<1>12. AgreeBelow(Conv(Ser(top), Ser(rq)), Conv(Conv(f, g), h), size, m)
  <2>1. AgreeBelow(Ser(top), Conv(f, g), size, m)
    BY <1>9 DEF f, g
  <2>2. AgreeBelow(Ser(rq), h, size, m)
    BY <1>0, <1>10, <1>11, AgreeIsSymmetric
  <2>3. Conv(f, g) \in Series
    BY <1>10, ConvType
  <2> QED BY <1>0, <1>10, <2>1, <2>2, <2>3, ConvAgrees
<1>13. Conv(Conv(f, g), h) = Conv(f, Conv(h, g))
  <2>1. Conv(g, h) = Conv(h, g)
    BY <1>10, ConvCommutes
  <2>2. Conv(f, Conv(g, h)) = Conv(Conv(f, g), h)
    BY <1>10, ConvAssociates
  <2> QED BY <2>1, <2>2
<1>14. AgreeBelow(Conv(f, Conv(h, g)), Conv(f, one), size, m)
  <2>1. Conv(h, g) \in Series
    BY <1>10, ConvType
  <2>2. AgreeBelow(f, f, size, m)
    BY <1>0, <1>10, AgreeIsReflexive
  <2>3. AgreeBelow(Conv(h, g), one, size, m)
    BY <1>8 DEF h, g, one
  <2> QED BY <1>0, <1>10, <2>1, <2>2, <2>3, ConvAgrees
<1>15. Conv(f, one) = f
  <2>1. Conv(f, one) = Conv(one, f)
    BY <1>10, ConvCommutes
  <2>2. ASSUME NEW k \in Nat PROVE Conv(one, f)[k] = f[k]
    <3>1. 1 \in Int /\ f[k] \in Int
      BY <1>10 DEF Series
    <3>2. Conv(Constant(1), f)[k] = 1 * f[k]
      BY <1>10, <3>1, ConvOfConstant
    <3> QED BY <3>1, <3>2 DEF one
  <2>3. Conv(one, f) \in Series
    BY <1>10, ConvType
  <2> HIDE DEF one
  <2>4. Conv(one, f) = f
    BY <1>10, <2>2, <2>3, SeriesAreEqual
  <2> QED BY <2>1, <2>4
<1>16. AgreeBelow(Conv(Ser(top), Ser(rq)), Ser(rp), size, m)
  <2>1. Conv(Ser(top), Ser(rq)) \in Series
    BY <1>10, ConvType
  <2>2. AgreeBelow(Conv(Ser(top), Ser(rq)), Conv(f, Conv(h, g)), size, m)
    BY <1>12, <1>13
  <2>3. AgreeBelow(Conv(f, Conv(h, g)), f, size, m)
    BY <1>14, <1>15
  <2>4. Conv(f, Conv(h, g)) \in Series
    BY <1>10, ConvType
  <2>5. AgreeBelow(Conv(Ser(top), Ser(rq)), f, size, m)
    BY <1>0, <1>10, <2>1, <2>2, <2>3, <2>4, AgreeIsTransitive
  <2> QED BY <1>0, <1>10, <1>11, <2>1, <2>5, AgreeIsTransitive
<1> QED BY <1>9, <1>16 DEF rq, rp

\* What is left of p when the multiple of q is taken away.
Leftover(p, q, product, m) == [i \in 1 .. Len(q) - 1 |-> (p[i] - product[i]) % m]

\* p is a multiple of q and a rest.
SplitBy(p, q, m, h, r) == AgreeBelow(Ser(p), Combine(1, Conv(h, Ser(q)), Ser(r)), Len(p), m)

\* Such a division, whose quotient and rest have their sizes.
Remains(p, q, m, quotient, r) ==
  /\ Len(r) = Len(q) - 1 /\ quotient \in Poly(m) /\ Len(quotient) = Len(p) - Len(q) + 1
  /\ SplitBy(p, q, m, Ser(quotient), r)

\* What monic_remainder subtracts leaves nothing above the divisor's degree.
LEMMA LeftoverFacts ==
  ASSUME NEW m \in Nat \ {0, 1}, NEW p \in Poly(m), NEW q \in Poly(m), Monic(q),
         NEW size \in Nat, size = Len(p) - Len(q) + 1, size >= 1,
         NEW top \in Poly(m), Len(top) = size,
         AgreeBelow(Conv(Ser(top), Ser(Reversed(q))), Ser(Reversed(p)), size, m),
         NEW quotient, quotient = Reversed(top),
         NEW product, product = Resize(Product(quotient, q, m), Len(p))
  PROVE  /\ Leftover(p, q, product, m) \in Poly(m)
         /\ \A x \in Int : Same(At(x, q), 0, m) =>
              Same(At(x, Leftover(p, q, product, m)), At(x, p), m)
         /\ Remains(p, q, m, quotient, Leftover(p, q, product, m))
<1> DEFINE n == Len(p)
           d == Len(q)
           r == Leftover(p, q, product, m)
           c == Conv(Ser(quotient), Ser(q))
<1>0. m \in Nat \ {0} /\ m \in Int
  OBVIOUS
<1>1. /\ n \in Nat /\ d \in Nat /\ d >= 1 /\ size = n - d + 1
      /\ \A i \in 1 .. n : p[i] \in 0 .. m - 1
      /\ Ser(p) \in Series /\ Ser(q) \in Series
  <2>1. n \in Nat /\ d \in Nat /\ (\A i \in 1 .. n : p[i] \in 0 .. m - 1) /\ Ser(p) \in Series /\ Ser(q) \in Series
    BY <1>0, PolyFacts
  <2>2. d # 0
    BY DEF Monic, Poly
  <2> QED BY <2>1, <2>2
<1>2. quotient \in Poly(m) /\ Len(quotient) = size /\ Mirrors(top, quotient)
  BY <1>0, ReversedFacts
<1>3. c \in Series /\ Ser(quotient) \in Series
  <2>1. Ser(quotient) \in Series
    BY <1>0, <1>2, PolyFacts
  <2> QED BY <1>1, <2>1, ConvType
<1>4. product \in Poly(m) /\ Len(product) = n /\ AgreeBelow(Ser(product), c, n, m)
  <2>1. /\ Resize(Product(quotient, q, m), n) \in Poly(m)
        /\ Len(Resize(Product(quotient, q, m), n)) = n
        /\ AgreeBelow(Ser(Resize(Product(quotient, q, m), n)), c, n, m)
    BY <1>0, <1>1, <1>2, CutProduct
  <2> QED BY <2>1
<1> HIDE DEF n, d, c
<1>5. ASSUME NEW i \in 1 .. d - 1
      PROVE  /\ (p[i] - product[i]) % m \in 0 .. m - 1
             /\ Same(p[i], product[i] + ((p[i] - product[i]) % m), m)
             /\ product[i] \in Int
  <2>1. i \in 1 .. n
    BY <1>1
  <2>2. p[i] \in Int /\ product[i] \in Int
    <3>1. \A j \in 1 .. Len(product) : product[j] \in 0 .. m - 1
      BY <1>0, <1>4, PolyFacts
    <3>2. product[i] \in 0 .. m - 1 /\ p[i] \in 0 .. m - 1
      BY <1>1, <1>4, <2>1, <3>1
    <3> QED BY <3>2
  <2>3. p[i] - product[i] \in Int
    BY <2>2
  <2>4. PICK a \in Int, u \in Int, v \in Int : a = p[i] /\ u = product[i] /\ v = p[i] - product[i]
    BY <2>2, <2>3
  <2>5. v % m \in 0 .. m - 1 /\ Same(v, v % m, m)
    BY <1>0, SameAsRest
  <2>6. PICK w \in Int : w = v % m
    BY <2>5
  <2>7. Same(u, u, m)
    BY <1>0, SameIsReflexive
  <2>8. Same(u + v, u + w, m)
    BY <1>0, <2>5, <2>6, <2>7, SamePlus
  <2>9. u + v = a
    BY <2>4
  <2> QED BY <2>2, <2>4, <2>5, <2>6, <2>8, <2>9
<1>6. r \in Poly(m) /\ Len(r) = d - 1 /\ \A i \in 1 .. d - 1 : r[i] = (p[i] - product[i]) % m
  <2>1. r = [i \in 1 .. d - 1 |-> (p[i] - product[i]) % m]
    BY DEF Leftover, d
  <2> HIDE DEF r
  <2>2. r \in [1 .. d - 1 -> 0 .. m - 1] /\ \A i \in 1 .. d - 1 : r[i] = (p[i] - product[i]) % m
    BY <1>5, <2>1
  <2>3. PICK e \in Nat : e = d - 1
    <3>1. d - 1 \in Nat
      BY <1>1
    <3> QED BY <3>1
  <2>4. r \in Seq(0 .. m - 1) /\ Len(r) = e
    BY <2>2, <2>3, TupleIs
  <2> QED BY <2>2, <2>3, <2>4 DEF Poly
<1> HIDE DEF r
<1>7. Ser(r) \in Series /\ Combine(1, c, Ser(r)) \in Series
  <2>1. Ser(r) \in Series /\ 1 \in Int
    BY <1>0, <1>6, PolyFacts
  <2> QED BY <1>3, <2>1, SeriesTypes
<1>8. ASSUME NEW k \in Nat, k < n, ~(k < d - 1) PROVE Same(Ser(p)[k], c[k], m)
  <2>1. PICK j \in Nat : j = n - 1 - k
    <3>1. n - 1 - k \in Nat
      BY <1>1, <1>8
    <3> QED BY <3>1
  <2>2. j < size /\ j < n /\ k + j + 2 = size + d /\ n - 1 - j = k
    BY <1>1, <1>8, <2>1
  <2>3. Same(Conv(Ser(top), Ser(Reversed(q)))[j], Ser(Reversed(p))[j], m)
    BY <2>2 DEF AgreeBelow
  <2>4. Ser(Reversed(p))[j] = Ser(p)[k]
    BY <1>0, <2>2, ReversedFacts DEF n
  <2>5. /\ Reversed(q) \in Poly(m) /\ Len(Reversed(q)) = d /\ Mirrors(Reversed(q), q)
    BY <1>0, ReversedFacts DEF d
  <2>6. k + j + 2 = Len(top) + Len(Reversed(q))
    BY <2>2, <2>5
  <2>7. c[k] = Conv(Ser(top), Ser(Reversed(q)))[j]
    <3>1. PICK rq \in Poly(m) : rq = Reversed(q) /\ Mirrors(rq, q) /\ k + j + 2 = Len(top) + Len(rq)
      BY <2>5, <2>6
    <3>2. Conv(Ser(quotient), Ser(q))[k] = Conv(Ser(top), Ser(rq))[j]
      <4>1. /\ m \in Nat \ {0} /\ top \in Poly(m) /\ quotient \in Poly(m) /\ q \in Poly(m)
            /\ Mirrors(top, quotient) /\ Mirrors(rq, q) /\ k + j + 2 = Len(top) + Len(rq)
        BY <1>0, <1>2, <3>1
      <4>2. PICK f \in Poly(m), g \in Poly(m), h \in Poly(m) : f = top /\ g = quotient /\ h = q
        BY <4>1
      <4>3. Mirrors(f, g) /\ Mirrors(rq, h) /\ k + j + 2 = Len(f) + Len(rq)
        BY <4>1, <4>2
      <4>4. Conv(Ser(g), Ser(h))[k] = Conv(Ser(f), Ser(rq))[j]
        BY <4>1, <4>3, ConvOfMirrors
      <4> QED BY <4>2, <4>4
    <3> QED BY <3>1, <3>2 DEF c
  <2>8. Same(c[k], Ser(p)[k], m) /\ c[k] \in Int /\ Ser(p)[k] \in Int
    BY <1>1, <1>3, <2>3, <2>4, <2>7 DEF Series
  <2> QED BY <1>0, <2>8, SameIsSymmetric
<1>9. AgreeBelow(Ser(p), Combine(1, c, Ser(r)), n + 1, m)
  <2> SUFFICES ASSUME NEW k \in Nat, k < n + 1 PROVE Same(Ser(p)[k], Combine(1, c, Ser(r))[k], m)
    BY DEF AgreeBelow
  <2>1. Combine(1, c, Ser(r))[k] = c[k] + Ser(r)[k] /\ c[k] \in Int /\ Ser(r)[k] \in Int /\ Ser(p)[k] \in Int
    <3>1. c[k] \in Int /\ Ser(r)[k] \in Int /\ Ser(p)[k] \in Int
      BY <1>1, <1>3, <1>7 DEF Series
    <3> QED BY <3>1 DEF Combine
  <2>2. CASE k < d - 1
    <3>1. k + 1 \in 1 .. d - 1 /\ k < n
      BY <1>1, <2>2
    <3>2. Ser(p)[k] = p[k + 1] /\ Ser(product)[k] = product[k + 1]
      BY <1>4, <3>1 DEF Ser, n
    <3>3. Ser(r)[k] = (p[k + 1] - product[k + 1]) % m
      BY <1>6, <2>2, <3>1 DEF Ser
    <3>4. Same(p[k + 1], product[k + 1] + ((p[k + 1] - product[k + 1]) % m), m)
      BY <1>5, <3>1
    <3>5. Same(Ser(product)[k], c[k], m)
      BY <1>4, <3>1 DEF AgreeBelow
    <3>6. PICK u \in Int, v \in Int, w \in Int, a \in Int :
            u = product[k + 1] /\ v = c[k] /\ w = Ser(r)[k] /\ a = p[k + 1]
      <4>1. product[k + 1] \in Int /\ p[k + 1] \in Int
        BY <1>5, <2>1, <3>1, <3>2
      <4> QED BY <2>1, <4>1
    <3>7. Same(a, u + w, m) /\ Same(u, v, m) /\ Same(w, w, m)
      BY <1>0, <3>2, <3>3, <3>4, <3>5, <3>6, SameIsReflexive
    <3>8. Same(u + w, v + w, m)
      BY <1>0, <3>7, SamePlus
    <3>9. u + w \in Int /\ v + w \in Int
      OBVIOUS
    <3>10. Same(a, v + w, m)
      BY <1>0, <3>7, <3>8, <3>9, SameIsTransitive
    <3> QED BY <2>1, <3>2, <3>6, <3>10
  <2>3. CASE ~(k < d - 1)
    <3>1. Ser(r)[k] = 0
      BY <1>6, <2>3 DEF Ser
    <3>2. CASE k < n
      BY <1>8, <2>1, <2>3, <3>1, <3>2
    <3>3. CASE ~(k < n)
      <4>1. Ser(p)[k] = 0
        BY <3>3 DEF Ser, n
      <4>2. k + 1 >= Len(quotient) + Len(q)
        BY <1>1, <1>2, <3>3 DEF d
      <4>3. c[k] = 0
        BY <1>0, <1>2, <4>2, CoefficientIsConv DEF c
      <4>4. Same(0, 0, m)
        BY <1>0, SameIsReflexive
      <4> QED BY <2>1, <3>1, <4>1, <4>3, <4>4
    <3> QED BY <3>2, <3>3
  <2> QED BY <2>2, <2>3
<1>10. ASSUME NEW x \in Int, Same(At(x, q), 0, m) PROVE Same(At(x, r), At(x, p), m)
  <2>0. n + 1 \in Nat /\ 1 \in Int /\ n + 1 >= n /\ n + 1 >= d - 1 /\ n + 1 >= size + d
    BY <1>1
  <2>1. Same(Ev(x, n + 1, Ser(p)), Ev(x, n + 1, Combine(1, c, Ser(r))), m)
    BY <1>0, <1>1, <1>7, <1>9, <2>0, EvAgrees
  <2>2. Ev(x, n + 1, Combine(1, c, Ser(r))) = 1 * Ev(x, n + 1, c) + Ev(x, n + 1, Ser(r))
    BY <1>3, <1>7, <2>0, EvIsLinear
  <2>3. Ev(x, n + 1, c) = At(x, quotient) * At(x, q)
    <3>1. Short(Ser(quotient), size) /\ Short(Ser(q), d)
      BY <1>0, <1>2, AtFacts DEF d
    <3>2. Ev(x, n + 1, Conv(Ser(quotient), Ser(q))) = Ev(x, size, Ser(quotient)) * Ev(x, d, Ser(q))
      BY <1>1, <1>3, <2>0, <3>1, EvOfConv
    <3> QED BY <1>2, <3>2 DEF c, d, At
  <2>4. Ev(x, n + 1, Ser(p)) = At(x, p)
    BY <1>0, <2>0, AtFacts DEF n
  <2>5. Ev(x, n + 1, Ser(r)) = At(x, r)
    BY <1>0, <1>6, <2>0, AtFacts
  <2>6. At(x, p) \in Int /\ At(x, q) \in Int
    BY <1>0, AtFacts
  <2>7. At(x, quotient) \in Int
    BY <1>0, <1>2, AtFacts
  <2>8. At(x, r) \in Int
    BY <1>0, <1>6, AtFacts
  <2>9. PICK a \in Int, b \in Int, u \in Int, v \in Int :
          a = At(x, p) /\ b = At(x, r) /\ u = At(x, quotient) /\ v = At(x, q)
    BY <2>6, <2>7, <2>8
  <2>10. Same(a, 1 * (u * v) + b, m) /\ Same(v, 0, m)
    BY <1>10, <2>1, <2>2, <2>3, <2>4, <2>5, <2>9
  <2>11. PICK i \in Int, j \in Int : a = 1 * (u * v) + b + i * m /\ v = 0 + j * m
    BY <2>10 DEF Same
  <2>12. b = a + (-(u * j + i)) * m /\ -(u * j + i) \in Int
    <3>1. b = (1 * (u * (0 + j * m)) + b + i * m) + (-(u * j + i)) * m /\ -(u * j + i) \in Int
      OBVIOUS
    <3> QED BY <2>11, <3>1
  <2> QED BY <2>9, <2>12 DEF Same
<1>11. SplitBy(p, q, m, Ser(quotient), r)
  <2>1. \A k \in Nat : k < n => k < n + 1
    BY <1>1
  <2> QED BY <1>9, <2>1 DEF SplitBy, AgreeBelow, c, n
<1> QED BY <1>2, <1>6, <1>10, <1>11 DEF r, d, Remains

\* Division by Newton's reciprocal keeps those values too.
LEMMA NewtonRemainderFacts ==
  ASSUME NEW m \in Nat \ {0, 1}, NEW p \in Poly(m), NEW q \in Poly(m), Monic(q), Len(p) >= Len(q)
  PROVE  /\ NewtonRemainder(p, q, m) \in Poly(m)
         /\ \A x \in Int : Same(At(x, q), 0, m) =>
              Same(At(x, NewtonRemainder(p, q, m)), At(x, p), m)
         /\ \E r \in Poly(m), quotient \in Poly(m) :
              NewtonRemainder(p, q, m) = Trim(r) /\ Remains(p, q, m, quotient, r)
<1>0. m \in Nat \ {0}
  OBVIOUS
<1>1. PICK size \in Nat : size = Len(p) - Len(q) + 1 /\ size >= 1
  <2>1. Len(p) \in Nat /\ Len(q) \in Nat
    BY <1>0, PolyFacts
  <2>2. Len(p) - Len(q) + 1 \in Nat /\ Len(p) - Len(q) + 1 >= 1
    BY <2>1
  <2> QED BY <2>2
<1>2. PICK inverse : inverse = SeriesInverse(SubSeq(Reversed(q), 1, Lesser(Len(q), size)), size, m)
  OBVIOUS
<1>3. PICK top : top = Resize(Product(SubSeq(Reversed(p), 1, size), inverse, m), size)
  OBVIOUS
<1>4. PICK quotient : quotient = Reversed(top)
  OBVIOUS
<1>5. PICK product : product = Resize(Product(quotient, q, m), Len(p))
  OBVIOUS
<1>6. NewtonRemainder(p, q, m) = Trim(Leftover(p, q, product, m))
  BY <1>1, <1>2, <1>3, <1>4, <1>5 DEF NewtonRemainder, Leftover
<1>7. /\ top \in Poly(m) /\ Len(top) = size
      /\ AgreeBelow(Conv(Ser(top), Ser(Reversed(q))), Ser(Reversed(p)), size, m)
  BY <1>1, <1>2, <1>3, QuotientFacts
<1> DEFINE r == Leftover(p, q, product, m)
<1>8. /\ r \in Poly(m)
      /\ \A x \in Int : Same(At(x, q), 0, m) => Same(At(x, r), At(x, p), m)
      /\ Remains(p, q, m, quotient, r)
  BY <1>1, <1>4, <1>5, <1>7, LeftoverFacts
<1>9. NewtonRemainder(p, q, m) = Trim(r)
  BY <1>6
<1> HIDE DEF r
<1>10. Trim(r) \in Poly(m) /\ \A x \in Int : At(x, Trim(r)) = At(x, r)
  BY <1>0, <1>8, TrimFacts, AtFacts
<1>11. quotient \in Poly(m)
  BY <1>8 DEF Remains
<1> QED BY <1>8, <1>9, <1>10, <1>11

\* monic_remainder, whichever way it divides, keeps the value at every point
\* where the divisor vanishes, although the modulus may be composite.
THEOREM RemainderKeepsValues ==
  ASSUME NEW m \in Nat \ {0, 1}, NEW p \in Poly(m), NEW q \in Poly(m), Monic(q),
         NEW policy, NEW x \in Int, Value(q, x, m) = 0
  PROVE  /\ Remainder(p, q, m, policy) \in Poly(m)
         /\ Value(Remainder(p, q, m, policy), x, m) = Value(p, x, m)
<1> DEFINE r == Remainder(p, q, m, policy)
<1>0. m \in Nat \ {0} /\ m \in Int
  OBVIOUS
<1>1. Same(At(x, q), 0, m)
  <2>1. Same(Value(q, x, m), At(x, q), m) /\ At(x, q) \in Int
    BY <1>0, ValueIs, AtFacts DEF At
  <2>2. Same(0, At(x, q), m)
    BY <2>1
  <2> QED BY <1>0, <2>1, <2>2, SameIsSymmetric
<1>2. r \in Poly(m) /\ Same(At(x, r), At(x, p), m)
  <2>1. CASE Classical(Len(p), Len(q), policy)
    <3>1. r = ClassicalRemainder(p, q, m)
      BY <2>1 DEF Remainder
    <3> QED BY <1>0, <1>1, <3>1, ClassicalRemainderFacts
  <2>2. CASE ~Classical(Len(p), Len(q), policy)
    <3>1. r = NewtonRemainder(p, q, m)
      BY <2>2 DEF Remainder
    <3>2. Len(p) >= Len(q)
      <4>1. Len(p) \in Nat /\ Len(q) \in Nat
        BY <1>0, PolyFacts
      <4> QED BY <2>2, <4>1 DEF Classical
    <3> QED BY <1>1, <3>1, <3>2, NewtonRemainderFacts
  <2> QED BY <2>1, <2>2
<1> HIDE DEF r
<1>3. Value(r, x, m) = Value(p, x, m)
  <2>1. Value(r, x, m) \in 0 .. m - 1 /\ Same(Value(r, x, m), At(x, r), m)
    BY <1>0, <1>2, ValueIs DEF At
  <2>2. Value(p, x, m) \in 0 .. m - 1 /\ Same(Value(p, x, m), At(x, p), m)
    BY <1>0, ValueIs DEF At
  <2>3. At(x, r) \in Int /\ At(x, p) \in Int
    BY <1>0, <1>2, AtFacts
  <2>4. PICK a \in 0 .. m - 1, b \in 0 .. m - 1, u \in Int, v \in Int :
          a = Value(r, x, m) /\ b = Value(p, x, m) /\ u = At(x, r) /\ v = At(x, p)
    BY <2>1, <2>2, <2>3
  <2>5. Same(a, u, m) /\ Same(u, v, m) /\ Same(b, v, m) /\ a \in Int /\ b \in Int
    BY <1>2, <2>1, <2>2, <2>4
  <2>6. Same(a, v, m)
    BY <1>0, <2>5, SameIsTransitive
  <2>7. Same(v, b, m)
    BY <1>0, <2>5, SameIsSymmetric
  <2>8. Same(a, b, m)
    BY <1>0, <2>5, <2>6, <2>7, SameIsTransitive
  <2>9. a = b
    BY <1>0, <2>8, SameOfSmall
  <2> QED BY <2>4, <2>9
<1> QED BY <1>2, <1>3 DEF r

(* ------------------------------ product trees -------------------------- *)

\* A range of numbers.
Span(root) == root \in Nat \X Nat /\ root[1] < root[2]

Leaves(leaf, root, m) == \A i \in root[1] .. root[2] - 1 : leaf[i] \in Poly(m)

\* The middle of a range is inside it.
LEMMA MiddleFacts ==
  ASSUME NEW b \in Nat, NEW e \in Nat, b < e, e - b # 1
  PROVE  Middle(b, e) \in Nat /\ b < Middle(b, e) /\ Middle(b, e) < e
<1>1. PICK n \in Nat : n = e - b /\ n >= 2
  <2>1. e - b \in Nat /\ e - b >= 2
    OBVIOUS
  <2> QED BY <2>1
<1>2. n \div 2 \in Nat /\ 1 <= n \div 2 /\ n \div 2 < n
  BY <1>1
<1> QED BY <1>1, <1>2 DEF Middle

\* Both halves of a range within the root are ranges within it.
LEMMA HalvesFacts ==
  ASSUME NEW root, Span(root), NEW v \in Within(root)
  PROVE  /\ v[1] \in Nat /\ v[2] \in Nat /\ v[1] < v[2] /\ root[1] <= v[1] /\ v[2] <= root[2]
         /\ v = <<v[1], v[2]>> /\ Span(v)
         /\ IsLeaf(v) => v[2] = v[1] + 1
         /\ ~IsLeaf(v) => /\ Left(v) \in Within(root) /\ Right(v) \in Within(root)
                          /\ Left(v)[1] = v[1] /\ Left(v)[2] = Right(v)[1] /\ Right(v)[2] = v[2]
                          /\ v[1] < Left(v)[2] /\ Left(v)[2] < v[2]
                          /\ Left(v) = <<v[1], Middle(v[1], v[2])>>
<1>1. root[1] \in Nat /\ root[2] \in Nat
  BY DEF Span
<1>2. v \in (root[1] .. root[2]) \X (root[1] .. root[2]) /\ v[1] < v[2]
  BY DEF Within
<1>3. v[1] \in root[1] .. root[2] /\ v[2] \in root[1] .. root[2] /\ v = <<v[1], v[2]>>
  BY <1>2
<1>4. v[1] \in Nat /\ v[2] \in Nat /\ root[1] <= v[1] /\ v[2] <= root[2]
  BY <1>1, <1>3
<1>5. Span(v)
  BY <1>2, <1>3, <1>4 DEF Span
<1>6. IsLeaf(v) => v[2] = v[1] + 1
  BY <1>4 DEF IsLeaf
<1>7. ASSUME ~IsLeaf(v)
      PROVE  /\ Left(v) \in Within(root) /\ Right(v) \in Within(root)
             /\ Left(v)[1] = v[1] /\ Left(v)[2] = Right(v)[1] /\ Right(v)[2] = v[2]
             /\ v[1] < Left(v)[2] /\ Left(v)[2] < v[2]
             /\ Left(v) = <<v[1], Middle(v[1], v[2])>>
  <2> DEFINE c == Middle(v[1], v[2])
  <2>1. c \in Nat /\ v[1] < c /\ c < v[2]
    BY <1>2, <1>4, <1>7, MiddleFacts DEF IsLeaf
  <2>2. Left(v) = <<v[1], c>> /\ Right(v) = <<c, v[2]>>
    BY DEF Left, Right
  <2> HIDE DEF c
  <2>3. c \in root[1] .. root[2]
    BY <1>1, <1>3, <1>4, <2>1
  <2> QED BY <1>3, <2>1, <2>2, <2>3 DEF Within, c
<1> QED BY <1>2, <1>3, <1>4, <1>5, <1>6, <1>7

\* The root is within itself.
LEMMA RootIsWithin ==
  ASSUME NEW root, Span(root)
  PROVE  root \in Within(root)
<1>1. root[1] \in root[1] .. root[2] /\ root[2] \in root[1] .. root[2] /\ root = <<root[1], root[2]>>
  BY DEF Span
<1> QED BY <1>1 DEF Within, Span

\* The recursion of ProductTree.
TreeStep(leaf, root, m, g) ==
  [v \in Within(root) |->
     IF IsLeaf(v) THEN leaf[v[1]] ELSE Product(g[Left(v)], g[Right(v)], m)]

Trees(leaf, root, m) == CHOOSE g : g = TreeStep(leaf, root, m, g)

\* A product tree is the recursive function over its ranges, at the root.
LEMMA ProductTreeIs ==
  ASSUME NEW leaf, NEW root, NEW m
  PROVE  ProductTree(leaf, root, m) = Trees(leaf, root, m)[root]
BY DEF ProductTree, Trees, TreeStep

\* What the leaves have and products pass on, the polynomial of the root has.
Inherited(K, leaf, root, m) ==
  /\ \A v \in Within(root) : IsLeaf(v) => <<v, leaf[v[1]]>> \in K
  /\ \A v \in Within(root) : \A p, q \in Poly(m) :
       ~IsLeaf(v) /\ <<Left(v), p>> \in K /\ <<Right(v), q>> \in K => <<v, Product(p, q, m)>> \in K

\* What leaves have and products keep, a product tree has.
LEMMA TreeInduction ==
  ASSUME NEW m \in Nat \ {0}, NEW root, Span(root), NEW leaf, Leaves(leaf, root, m),
         NEW K, Inherited(K, leaf, root, m)
  PROVE  /\ ProductTree(leaf, root, m) \in Poly(m)
         /\ <<root, ProductTree(leaf, root, m)>> \in K
<1> DEFINE D == Within(root)
           V == Poly(m)
           N == root[2] - root[1]
           rank == [v \in D |-> v[2] - v[1]]
           G == [g \in [D -> V] |-> TreeStep(leaf, root, m, g)]
<1>1. N \in Nat
  BY DEF Span
<1>2. ASSUME NEW v \in D PROVE rank[v] \in 1 .. N /\ (IsLeaf(v) => leaf[v[1]] \in V)
  <2>1. v[1] \in Nat /\ v[2] \in Nat /\ v[1] < v[2] /\ root[1] <= v[1] /\ v[2] <= root[2]
        /\ root[1] \in Nat /\ root[2] \in Nat /\ (IsLeaf(v) => v[2] = v[1] + 1)
    BY HalvesFacts DEF Span
  <2>2. rank[v] \in 1 .. N
    BY <2>1
  <2>3. IsLeaf(v) => v[1] \in root[1] .. root[2] - 1
    BY <2>1
  <2> QED BY <2>2, <2>3 DEF Leaves
<1>3. ASSUME NEW v \in D, ~IsLeaf(v)
      PROVE  /\ Left(v) \in D /\ Right(v) \in D
             /\ rank[Left(v)] < rank[v] /\ rank[Right(v)] < rank[v]
  <2>1. /\ v[1] \in Nat /\ v[2] \in Nat /\ Left(v) \in D /\ Right(v) \in D
        /\ Left(v)[1] = v[1] /\ Left(v)[2] = Right(v)[1] /\ Right(v)[2] = v[2]
        /\ v[1] < Left(v)[2] /\ Left(v)[2] < v[2]
    BY <1>3, HalvesFacts
  <2>2. Left(v)[2] \in Nat
    BY <2>1, HalvesFacts
  <2> QED BY <2>1, <2>2
<1> HIDE DEF D, N, rank
<1>4. ASSUME NEW g \in [D -> V] PROVE TreeStep(leaf, root, m, g) \in [D -> V]
  <2>1. ASSUME NEW v \in D, ~IsLeaf(v) PROVE Product(g[Left(v)], g[Right(v)], m) \in V
    <3>1. PICK p \in Poly(m), q \in Poly(m) : p = g[Left(v)] /\ q = g[Right(v)]
      BY <1>3, <2>1
    <3>2. Product(p, q, m) \in V
      BY ProductFacts
    <3> QED BY <3>1, <3>2
  <2> HIDE DEF V
  <2> QED BY <1>2, <2>1 DEF TreeStep, D
<1>5. Recurses(D, V, N, rank, G)
  <2>1. V # {} /\ N \in Nat
    BY <1>1, EmptyPoly
  <2>2. rank \in [D -> 0 .. N]
    <3>1. \A v \in D : rank[v] \in 0 .. N
      BY <1>1, <1>2
    <3> QED BY <3>1 DEF rank
  <2>3. G \in [[D -> V] -> [D -> V]]
    BY <1>4
  <2>4. ASSUME NEW g \in [D -> V], NEW h \in [D -> V], NEW v \in D,
               \A t \in D : rank[t] < rank[v] => g[t] = h[t]
        PROVE  G[g][v] = G[h][v]
    <3>1. CASE IsLeaf(v)
      BY <3>1 DEF TreeStep, D
    <3>2. CASE ~IsLeaf(v)
      <4>1. g[Left(v)] = h[Left(v)] /\ g[Right(v)] = h[Right(v)]
        BY <1>3, <2>4, <3>2
      <4> QED BY <3>2, <4>1 DEF TreeStep, D
    <3> QED BY <3>1, <3>2
  <2> HIDE DEF V, G
  <2> QED BY <2>1, <2>2, <2>3, <2>4 DEF Recurses
<1>6. PICK g \in [D -> V] : g = TreeStep(leaf, root, m, g)
  <2>1. \E g \in [D -> V] : g = G[g]
    <3> HIDE DEF V, G
    <3> QED BY <1>5, RecursionHasSolution
  <2> QED BY <2>1
<1>7. PICK h : h = Trees(leaf, root, m)
  OBVIOUS
<1>8. h = TreeStep(leaf, root, m, h)
  BY <1>6, <1>7 DEF Trees
<1> DEFINE Good(v) == h[v] \in Poly(m) /\ <<v, h[v]>> \in K
           T == {k \in Nat : \A v \in D : rank[v] <= k => Good(v)}
<1>9. 0 \in T
  <2>1. \A v \in D : ~(rank[v] <= 0)
    BY <1>1, <1>2
  <2> QED BY <2>1
<1>10. ASSUME NEW k \in Nat, k \in T PROVE k + 1 \in T
  <2> SUFFICES ASSUME NEW v \in D, rank[v] <= k + 1 PROVE Good(v)
    OBVIOUS
  <2>1. CASE IsLeaf(v)
    <3>1. h[v] = leaf[v[1]]
      BY <1>8, <2>1 DEF TreeStep, D
    <3> QED BY <1>2, <2>1, <3>1 DEF Inherited, D
  <2>2. CASE ~IsLeaf(v)
    <3>1. h[v] = Product(h[Left(v)], h[Right(v)], m)
      BY <1>8, <2>2 DEF TreeStep, D
    <3>2. rank[Left(v)] <= k /\ rank[Right(v)] <= k
      <4>1. rank[v] \in 1 .. N /\ rank[Left(v)] \in 1 .. N /\ rank[Right(v)] \in 1 .. N
        BY <1>2, <1>3, <2>2
      <4>2. rank[Left(v)] < rank[v] /\ rank[Right(v)] < rank[v]
        BY <1>3, <2>2
      <4> QED BY <1>1, <4>1, <4>2
    <3>3. Good(Left(v)) /\ Good(Right(v))
      BY <1>3, <1>10, <2>2, <3>2
    <3>4. PICK p \in Poly(m), q \in Poly(m) : p = h[Left(v)] /\ q = h[Right(v)]
      BY <3>3
    <3>5. Product(p, q, m) \in Poly(m)
      BY ProductFacts
    <3>6. <<v, Product(p, q, m)>> \in K
      BY <2>2, <3>3, <3>4 DEF Inherited, D
    <3> QED BY <3>1, <3>4, <3>5, <3>6
  <2> QED BY <2>1, <2>2
<1>11. \A k \in Nat : k \in T
  <2> HIDE DEF T
  <2> QED BY <1>9, <1>10, SetOfAllNaturals
<1>12. Good(root)
  <2>1. root \in D
    BY RootIsWithin DEF D
  <2>2. rank[root] <= N
    BY <1>1, <1>2, <2>1
  <2> QED BY <1>1, <1>11, <2>1, <2>2
<1> QED BY <1>7, <1>12, ProductTreeIs

(* -------------------------------- nodes -------------------------------- *)

NodesStep(root, g) ==
  [v \in Within(root) |-> {v} \cup IF IsLeaf(v) THEN {} ELSE g[Left(v)] \cup g[Right(v)]]

NodesBelow(root) == CHOOSE g : g = NodesStep(root, g)

\* The nodes of a tree are the recursive function over its ranges, at the root.
LEMMA NodesIs ==
  ASSUME NEW root
  PROVE  Nodes(root) = NodesBelow(root)[root]
BY DEF Nodes, NodesBelow, NodesStep

\* The nodes of a tree: its root, and with a node that is no leaf its halves.
LEMMA NodesFacts ==
  ASSUME NEW root, Span(root)
  PROVE  /\ root \in Nodes(root) /\ Nodes(root) \subseteq Within(root)
         /\ \A v \in Nodes(root) : ~IsLeaf(v) => Left(v) \in Nodes(root) /\ Right(v) \in Nodes(root)
<1> DEFINE D == Within(root)
           V == SUBSET D
           N == root[2] - root[1]
           rank == [v \in D |-> v[2] - v[1]]
           G == [g \in [D -> V] |-> NodesStep(root, g)]
<1>1. N \in Nat
  BY DEF Span
<1>2. ASSUME NEW v \in D PROVE rank[v] \in 1 .. N
  <2>1. v[1] \in Nat /\ v[2] \in Nat /\ v[1] < v[2] /\ root[1] <= v[1] /\ v[2] <= root[2]
        /\ root[1] \in Nat /\ root[2] \in Nat
    BY HalvesFacts DEF Span
  <2> QED BY <2>1
<1>3. ASSUME NEW v \in D, ~IsLeaf(v)
      PROVE  /\ Left(v) \in D /\ Right(v) \in D
             /\ rank[Left(v)] < rank[v] /\ rank[Right(v)] < rank[v]
  <2>1. /\ v[1] \in Nat /\ v[2] \in Nat /\ Left(v) \in D /\ Right(v) \in D
        /\ Left(v)[1] = v[1] /\ Left(v)[2] = Right(v)[1] /\ Right(v)[2] = v[2]
        /\ v[1] < Left(v)[2] /\ Left(v)[2] < v[2]
    BY <1>3, HalvesFacts
  <2>2. Left(v)[2] \in Nat
    BY <2>1, HalvesFacts
  <2> QED BY <2>1, <2>2
<1> HIDE DEF D, N, rank
<1>4. ASSUME NEW g \in [D -> V] PROVE NodesStep(root, g) \in [D -> V]
  <2>1. ASSUME NEW v \in D
        PROVE  ({v} \cup IF IsLeaf(v) THEN {} ELSE g[Left(v)] \cup g[Right(v)]) \in V
    <3>1. CASE IsLeaf(v)
      BY <3>1
    <3>2. CASE ~IsLeaf(v)
      <4>1. g[Left(v)] \in V /\ g[Right(v)] \in V
        BY <1>3, <3>2
      <4> QED BY <3>2, <4>1
    <3> QED BY <3>1, <3>2
  <2> HIDE DEF V
  <2> QED BY <2>1 DEF NodesStep, D
<1>5. Recurses(D, V, N, rank, G)
  <2>1. V # {} /\ N \in Nat
    BY <1>1
  <2>2. rank \in [D -> 0 .. N]
    <3>1. \A v \in D : rank[v] \in 0 .. N
      BY <1>1, <1>2
    <3> QED BY <3>1 DEF rank
  <2>3. G \in [[D -> V] -> [D -> V]]
    BY <1>4
  <2>4. ASSUME NEW g \in [D -> V], NEW h \in [D -> V], NEW v \in D,
               \A t \in D : rank[t] < rank[v] => g[t] = h[t]
        PROVE  G[g][v] = G[h][v]
    <3>1. CASE IsLeaf(v)
      BY <3>1 DEF NodesStep, D
    <3>2. CASE ~IsLeaf(v)
      <4>1. g[Left(v)] = h[Left(v)] /\ g[Right(v)] = h[Right(v)]
        BY <1>3, <2>4, <3>2
      <4> QED BY <3>2, <4>1 DEF NodesStep, D
    <3> QED BY <3>1, <3>2
  <2> HIDE DEF V, G
  <2> QED BY <2>1, <2>2, <2>3, <2>4 DEF Recurses
<1>6. PICK g \in [D -> V] : g = NodesStep(root, g)
  <2>1. \E g \in [D -> V] : g = G[g]
    <3> HIDE DEF V, G
    <3> QED BY <1>5, RecursionHasSolution
  <2> QED BY <2>1
<1>7. PICK h : h = NodesBelow(root)
  OBVIOUS
<1>8. h = NodesStep(root, h)
  BY <1>6, <1>7 DEF NodesBelow
<1> DEFINE Good(v) == /\ v \in h[v] /\ h[v] \subseteq D
                      /\ \A u \in h[v] : ~IsLeaf(u) => Left(u) \in h[v] /\ Right(u) \in h[v]
           T == {k \in Nat : \A v \in D : rank[v] <= k => Good(v)}
<1>9. 0 \in T
  <2>1. \A v \in D : ~(rank[v] <= 0)
    BY <1>1, <1>2
  <2> QED BY <2>1
<1>10. ASSUME NEW k \in Nat, k \in T PROVE k + 1 \in T
  <2> SUFFICES ASSUME NEW v \in D, rank[v] <= k + 1 PROVE Good(v)
    OBVIOUS
  <2>1. CASE IsLeaf(v)
    <3>1. h[v] = {v}
      BY <1>8, <2>1 DEF NodesStep, D
    <3> QED BY <2>1, <3>1
  <2>2. CASE ~IsLeaf(v)
    <3> DEFINE l == Left(v)
               r == Right(v)
    <3>1. h[v] = {v} \cup (h[l] \cup h[r])
      BY <1>8, <2>2 DEF NodesStep, D
    <3>2. rank[l] <= k /\ rank[r] <= k /\ l \in D /\ r \in D
      <4>1. rank[v] \in 1 .. N /\ rank[l] \in 1 .. N /\ rank[r] \in 1 .. N
        BY <1>2, <1>3, <2>2
      <4>2. rank[l] < rank[v] /\ rank[r] < rank[v]
        BY <1>3, <2>2
      <4> QED BY <1>1, <1>3, <2>2, <4>1, <4>2
    <3> HIDE DEF l, r
    <3>3. Good(l) /\ Good(r)
      BY <1>10, <3>2
    <3>4. v \in h[v] /\ h[v] \subseteq D
      BY <3>1, <3>3
    <3>5. ASSUME NEW u \in h[v], ~IsLeaf(u) PROVE Left(u) \in h[v] /\ Right(u) \in h[v]
      <4>1. CASE u = v
        <5>1. l \in h[v] /\ r \in h[v]
          BY <3>1, <3>3
        <5> QED BY <4>1, <5>1 DEF l, r
      <4>2. CASE u \in h[l]
        BY <3>1, <3>3, <3>5, <4>2
      <4>3. CASE u \in h[r]
        BY <3>1, <3>3, <3>5, <4>3
      <4> QED BY <3>1, <4>1, <4>2, <4>3
    <3> QED BY <3>4, <3>5
  <2> QED BY <2>1, <2>2
<1>11. \A k \in Nat : k \in T
  <2> HIDE DEF T
  <2> QED BY <1>9, <1>10, SetOfAllNaturals
<1>12. Good(root)
  <2>1. root \in D
    BY RootIsWithin DEF D
  <2>2. rank[root] <= N
    BY <1>1, <1>2, <2>1
  <2> QED BY <1>1, <1>11, <2>1, <2>2
<1>13. Nodes(root) = h[root]
  BY <1>7, NodesIs
<1> QED BY <1>12, <1>13 DEF D

(* ------------------------- the trees of Wilson ------------------------- *)

\* The value of a product is the product of the values.
LEMMA AtProduct ==
  ASSUME NEW m \in Nat \ {0}, NEW p \in Poly(m), NEW q \in Poly(m), NEW x \in Int
  PROVE  Same(At(x, Product(p, q, m)), At(x, p) * At(x, q), m)
<1> DEFINE r == Product(p, q, m)
           c == Conv(Ser(p), Ser(q))
           n == Len(p)
           d == Len(q)
<1>1. r \in Poly(m)
  BY ProductFacts
<1>2. n \in Nat /\ d \in Nat /\ Ser(p) \in Series /\ Ser(q) \in Series
  BY PolyFacts
<1>3. Ser(r) \in Series /\ Len(r) \in Nat
  BY <1>1, PolyFacts
<1>4. c \in Series
  BY <1>2, ConvType
<1>5. PICK k \in Nat : k = n + d + Len(r)
  <2>1. n + d + Len(r) \in Nat
    BY <1>2, <1>3
  <2> QED BY <2>1
<1>6. k >= n + d /\ k >= Len(r)
  BY <1>2, <1>3, <1>5
<1>7. AgreeBelow(Ser(r), c, k, m)
  BY ProductFacts
<1> HIDE DEF r, c
<1>8. Same(Ev(x, k, Ser(r)), Ev(x, k, c), m)
  <2>1. m \in Int
    OBVIOUS
  <2> QED BY <1>3, <1>4, <1>7, <2>1, EvAgrees
<1>9. Ev(x, k, Ser(r)) = At(x, r)
  BY <1>1, <1>6, AtFacts
<1>10. Ev(x, k, c) = At(x, p) * At(x, q)
  <2>1. Short(Ser(p), n) /\ Short(Ser(q), d)
    BY AtFacts
  <2>2. Ev(x, k, Conv(Ser(p), Ser(q))) = Ev(x, n, Ser(p)) * Ev(x, d, Ser(q))
    <3> HIDE DEF n, d
    <3> QED BY <1>2, <1>6, <2>1, EvOfConv
  <2> QED BY <2>2 DEF c, At
<1> QED BY <1>8, <1>9, <1>10 DEF r

\* The polynomial of a leaf, and its value.
LEMMA AtLeaf ==
  ASSUME NEW m \in Nat \ {0, 1}, NEW c \in 0 .. m - 1, NEW x \in Int
  PROVE  <<c, 1>> \in Poly(m) /\ Monic(<<c, 1>>) /\ At(x, <<c, 1>>) = c + x
<1> DEFINE p == <<c, 1>>
           f == Ser(p)
<1>1. p \in Poly(m) /\ Len(p) = 2 /\ p[1] = c /\ p[2] = 1 /\ p # <<>>
  <2>1. 1 \in 0 .. m - 1
    OBVIOUS
  <2> QED BY <2>1 DEF Poly
<1> HIDE DEF p
<1>2. f \in Series /\ f[0] = c /\ f[1] = 1
  <2>1. f \in Series
    <3>1. m \in Nat \ {0}
      OBVIOUS
    <3> QED BY <1>1, <3>1, PolyFacts
  <2> QED BY <1>1, <2>1 DEF Ser
<1> HIDE DEF f
<1>3. Shift(f) \in Series /\ Shift(f)[0] = 1 /\ Shift(Shift(f)) \in Series
  <2>1. Shift(f) \in Series
    BY <1>2, SeriesTypes
  <2>2. Shift(f)[0] = f[0 + 1]
    BY DEF Shift
  <2> QED BY <1>2, <2>1, <2>2, SeriesTypes
<1>4. Ev(x, 0, Shift(Shift(f))) = 0
  BY <1>3, EvEquations
<1>5. Ev(x, 0 + 1, Shift(f)) = Shift(f)[0] + x * Ev(x, 0, Shift(Shift(f)))
  BY <1>3, EvEquations
<1>6. Ev(x, 1, Shift(f)) = 1
  BY <1>3, <1>4, <1>5
<1>7. Ev(x, 1 + 1, f) = f[0] + x * Ev(x, 1, Shift(f))
  BY <1>2, EvEquations
<1>8. Ev(x, 2, f) = c + x
  BY <1>2, <1>6, <1>7
<1>9. At(x, p) = c + x /\ Monic(p)
  BY <1>1, <1>8 DEF At, f, Monic
<1> QED BY <1>1, <1>9 DEF p

\* The polynomial of a range of factors has at x the product of the numbers
\* behind x.
PartOf(p, v, x, m) == p \in Poly(m) /\ Same(At(x, p), ProductOf(x + v[1] + 1 .. x + v[2]), m)

\* What two halves multiply, their product multiplies over the whole.
LEMMA PartsMultiply ==
  ASSUME NEW m \in Nat \ {0, 1}, NEW root, Span(root), NEW x \in Int,
         NEW v \in Within(root), ~IsLeaf(v), NEW p, NEW q,
         PartOf(p, Left(v), x, m), PartOf(q, Right(v), x, m)
  PROVE  PartOf(Product(p, q, m), v, x, m)
<1>0. m \in Nat \ {0} /\ m \in Int /\ p \in Poly(m) /\ q \in Poly(m)
  BY DEF PartOf
<1>1. PICK a \in Nat, b \in Nat, c \in Nat :
        a = v[1] /\ b = Left(v)[2] /\ c = v[2] /\ a < b /\ b < c
  <2>1. /\ v[1] \in Nat /\ v[2] \in Nat /\ Left(v) \in Within(root)
        /\ v[1] < Left(v)[2] /\ Left(v)[2] < v[2]
    BY HalvesFacts
  <2>2. Left(v)[2] \in Nat
    BY <2>1, HalvesFacts
  <2> QED BY <2>1, <2>2
<1>2. Left(v)[1] = a /\ Left(v)[2] = b /\ Right(v)[1] = b /\ Right(v)[2] = c
  BY <1>1, HalvesFacts
<1>3. Same(At(x, p), ProductOf(x + a + 1 .. x + b), m) /\ Same(At(x, q), ProductOf(x + b + 1 .. x + c), m)
  <2>1. Same(At(x, p), ProductOf(x + Left(v)[1] + 1 .. x + Left(v)[2]), m)
    BY DEF PartOf
  <2>2. Same(At(x, q), ProductOf(x + Right(v)[1] + 1 .. x + Right(v)[2]), m)
    BY DEF PartOf
  <2> QED BY <1>2, <2>1, <2>2
<1>4. PICK i \in Int, j \in Int, k \in Int : i = x + a /\ j = x + b /\ k = x + c /\ i <= j /\ j <= k
  <2>1. x + a \in Int /\ x + b \in Int /\ x + c \in Int /\ x + a <= x + b /\ x + b <= x + c
    BY <1>1
  <2> QED BY <2>1
<1>5. ProductOf(i + 1 .. k) = ProductOf(i + 1 .. j) * ProductOf(j + 1 .. k)
  BY <1>4, IntervalSplit
<1>6. PICK y \in Int, z \in Int, u \in Int, w \in Int :
        y = ProductOf(i + 1 .. j) /\ z = ProductOf(j + 1 .. k) /\ u = At(x, p) /\ w = At(x, q)
  <2>1. At(x, p) \in Int /\ At(x, q) \in Int
    BY <1>0, AtFacts
  <2>2. i + 1 \in Int /\ j + 1 \in Int
    OBVIOUS
  <2>3. ProductOf(i + 1 .. j) \in Int /\ ProductOf(j + 1 .. k) \in Int
    BY <2>2, IntervalsAreNumbers, ProductType
  <2> QED BY <2>1, <2>3
<1>7. Same(u, y, m) /\ Same(w, z, m)
  BY <1>3, <1>4, <1>6
<1>8. Same(u * w, y * z, m)
  BY <1>0, <1>7, SameTimes
<1>9. Same(At(x, Product(p, q, m)), u * w, m)
  BY <1>0, <1>6, AtProduct
<1>10. Product(p, q, m) \in Poly(m)
  BY <1>0, ProductFacts
<1>11. At(x, Product(p, q, m)) \in Int
  BY <1>0, <1>10, AtFacts
<1>12. Same(At(x, Product(p, q, m)), y * z, m)
  <2>1. u * w \in Int /\ y * z \in Int
    OBVIOUS
  <2> QED BY <1>0, <1>8, <1>9, <1>11, <2>1, SameIsTransitive
<1>13. y * z = ProductOf(x + v[1] + 1 .. x + v[2])
  BY <1>1, <1>4, <1>5, <1>6
<1> QED BY <1>10, <1>12, <1>13 DEF PartOf

\* A factor tree's value is the product of the factors at the point.
LEMMA FactorTreeFacts ==
  ASSUME NEW m \in Nat \ {0, 1}, NEW root, Span(root), NEW x \in Int
  PROVE  LET p == ProductTree(FactorLeaves(root, m), root, m)
         IN  /\ p \in Poly(m)
             /\ Same(At(x, p), ProductOf(x + root[1] + 1 .. x + root[2]), m)
<1> DEFINE leaf == FactorLeaves(root, m)
           K == {w \in Within(root) \X Poly(m) :
                   Same(At(x, w[2]), ProductOf(x + w[1][1] + 1 .. x + w[1][2]), m)}
<1>0. m \in Nat \ {0} /\ m \in Int
  OBVIOUS
<1>1. root[1] \in Nat /\ root[2] \in Nat
  BY DEF Span
<1>2. ASSUME NEW i \in root[1] .. root[2] - 1
      PROVE  /\ leaf[i] \in Poly(m)
             /\ Same(At(x, leaf[i]), ProductOf(x + i + 1 .. x + (i + 1)), m)
  <2>1. i + 1 \in Int /\ i \in Int
    BY <1>1
  <2>2. PICK c \in 0 .. m - 1 : c = (i + 1) % m
    BY <1>0, <2>1, SameAsRest
  <2>3. leaf[i] = <<c, 1>>
    BY <2>2 DEF FactorLeaves
  <2>4. <<c, 1>> \in Poly(m) /\ At(x, <<c, 1>>) = c + x
    BY AtLeaf
  <2>5. Same(c, i + 1, m)
    BY <1>0, <2>1, <2>2, SameAsRest
  <2>6. Same(c + x, (i + 1) + x, m)
    <3>1. Same(x, x, m) /\ c \in Int
      BY <1>0, SameIsReflexive
    <3> QED BY <1>0, <2>1, <2>5, <3>1, SamePlus
  <2>7. ProductOf(x + i + 1 .. x + (i + 1)) = (i + 1) + x
    <3>1. PICK a \in Int : a = x + i
      BY <2>1
    <3>2. ProductOf(a + 1 .. a + 1) = (a + 1) * ProductOf(a + 1 .. a)
      <4>1. a + 1 \in Int /\ a + 1 <= a + 1
        OBVIOUS
      <4> QED BY <4>1, IntervalNext
    <3>3. a + 1 .. a = {}
      OBVIOUS
    <3>4. ProductOf(a + 1 .. a) = 1
      BY <3>3, ProductOfNone
    <3>5. x + (i + 1) = a + 1 /\ (i + 1) + x = a + 1 /\ x + i + 1 = a + 1
      BY <2>1, <3>1
    <3>6. ProductOf(a + 1 .. a + 1) = a + 1
      BY <3>2, <3>4
    <3> QED BY <3>5, <3>6
  <2> QED BY <2>3, <2>4, <2>6, <2>7
<1> HIDE DEF leaf
<1>3. Leaves(leaf, root, m)
  BY <1>2 DEF Leaves
<1>4. ASSUME NEW v \in Within(root), IsLeaf(v) PROVE <<v, leaf[v[1]]>> \in K
  <2>1. v[1] \in Nat /\ v[1] \in root[1] .. root[2] - 1 /\ v[2] = v[1] + 1
    <3>1. v[1] \in Nat /\ v[2] \in Nat /\ root[1] <= v[1] /\ v[2] <= root[2] /\ v[2] = v[1] + 1
      BY <1>4, HalvesFacts
    <3> QED BY <1>1, <3>1
  <2>2. leaf[v[1]] \in Poly(m) /\ Same(At(x, leaf[v[1]]), ProductOf(x + v[1] + 1 .. x + v[2]), m)
    BY <1>2, <2>1
  <2> QED BY <2>2
<1>5. ASSUME NEW v \in Within(root), NEW p \in Poly(m), NEW q \in Poly(m), ~IsLeaf(v),
             <<Left(v), p>> \in K, <<Right(v), q>> \in K
      PROVE  <<v, Product(p, q, m)>> \in K
  <2>1. PartOf(p, Left(v), x, m) /\ PartOf(q, Right(v), x, m)
    BY <1>5 DEF PartOf
  <2> QED BY <1>5, <2>1, PartsMultiply DEF PartOf
<1>6. Inherited(K, leaf, root, m)
  <2> HIDE DEF K
  <2> QED BY <1>4, <1>5 DEF Inherited
<1>7. ProductTree(leaf, root, m) \in Poly(m) /\ <<root, ProductTree(leaf, root, m)>> \in K
  <2> HIDE DEF K
  <2> QED BY <1>0, <1>3, <1>6, TreeInduction
<1> QED BY <1>7 DEF leaf

\* The polynomial of a range of blocks is monic and vanishes at the points of
\* its blocks.
RootsAt(p, v, width, m) ==
  /\ p \in Poly(m) /\ Monic(p)
  /\ \A b \in v[1] .. v[2] - 1 : Value(p, PointOf(b, width, m), m) = 0

\* evaluate returns zero where the value is a multiple of the modulus.
LEMMA ValueIsZero ==
  ASSUME NEW m \in Nat \ {0}, NEW p \in Poly(m), NEW x \in Int
  PROVE  Value(p, x, m) = 0 <=> Same(At(x, p), 0, m)
<1>1. /\ Value(p, x, m) \in 0 .. m - 1
      /\ Same(Value(p, x, m), At(x, p), m)
      /\ At(x, p) \in Int /\ m \in Int
  <2>1. Value(p, x, m) \in 0 .. m - 1 /\ Same(Value(p, x, m), At(x, p), m)
    BY ValueIs DEF At
  <2>2. At(x, p) \in Int
    BY AtFacts
  <2>3. m \in Int
    OBVIOUS
  <2> QED BY <2>1, <2>2, <2>3
<1>2. PICK a \in 0 .. m - 1, b \in Int : a = Value(p, x, m) /\ b = At(x, p)
  BY <1>1
<1>3. a \in Int /\ 0 \in 0 .. m - 1 /\ Same(a, b, m) /\ Same(b, a, m)
  BY <1>1, <1>2, SameIsSymmetric
<1>4. ASSUME a = 0 PROVE Same(b, 0, m)
  BY <1>3, <1>4
<1>5. ASSUME Same(b, 0, m) PROVE a = 0
  <2>1. Same(a, 0, m)
    BY <1>1, <1>3, <1>5, SameIsTransitive
  <2> QED BY <1>3, <2>1, SameOfSmall
<1> QED BY <1>2, <1>4, <1>5

\* Two halves that vanish at their points vanish at all, multiplied.
LEMMA VanishingProduct ==
  ASSUME NEW m \in Nat \ {0, 1}, NEW width \in Nat, NEW root, Span(root),
         NEW v \in Within(root), ~IsLeaf(v), NEW p, NEW q,
         RootsAt(p, Left(v), width, m), RootsAt(q, Right(v), width, m)
  PROVE  RootsAt(Product(p, q, m), v, width, m)
<1> DEFINE r == Product(p, q, m)
<1>0. m \in Nat \ {0} /\ m \in Int /\ p \in Poly(m) /\ q \in Poly(m) /\ Monic(p) /\ Monic(q)
  BY DEF RootsAt
<1>1. r \in Poly(m) /\ Monic(r)
  BY <1>0, ProductFacts, ProductIsMonic
<1>2. ASSUME NEW b \in v[1] .. v[2] - 1 PROVE Value(r, PointOf(b, width, m), m) = 0
  <2>1. PICK a \in Nat, c \in Nat, e \in Nat : a = v[1] /\ c = Left(v)[2] /\ e = v[2] /\ a < c /\ c < e
    <3>1. /\ v[1] \in Nat /\ v[2] \in Nat /\ Left(v) \in Within(root)
          /\ v[1] < Left(v)[2] /\ Left(v)[2] < v[2]
      BY HalvesFacts
    <3>2. Left(v)[2] \in Nat
      BY <3>1, HalvesFacts
    <3> QED BY <3>1, <3>2
  <2>2. Left(v)[1] = a /\ Right(v)[1] = c /\ Right(v)[2] = e
    BY <2>1, HalvesFacts
  <2>3. PICK x \in Int : x = PointOf(b, width, m)
    <3>1. b \in Int
      BY <2>1
    <3>2. b * width \in Int
      BY <3>1
    <3>3. PICK w \in Int : w = b * width
      BY <3>2
    <3>4. w % m \in Int
      <4>1. w % m \in 0 .. m - 1
        BY <1>0, SameAsRest
      <4> QED BY <4>1
    <3> QED BY <3>3, <3>4 DEF PointOf
  <2>4. PICK u \in Int, w \in Int : u = At(x, p) /\ w = At(x, q)
    BY <1>0, AtFacts
  <2>5. Same(u, 0, m) \/ Same(w, 0, m)
    <3>1. CASE b \in a .. c - 1
      <4>1. Value(p, x, m) = 0
        BY <2>1, <2>2, <2>3, <3>1 DEF RootsAt
      <4> QED BY <1>0, <2>4, <4>1, ValueIsZero
    <3>2. CASE b \in c .. e - 1
      <4>1. Value(q, x, m) = 0
        BY <2>1, <2>2, <2>3, <3>2 DEF RootsAt
      <4> QED BY <1>0, <2>4, <4>1, ValueIsZero
    <3> QED BY <2>1, <3>1, <3>2
  <2>6. Same(u * w, 0, m)
    <3>1. CASE Same(u, 0, m)
      <4>1. PICK i \in Int : u = 0 + i * m
        BY <3>1 DEF Same
      <4>2. u * w = 0 + (i * w) * m /\ i * w \in Int
        <5>1. (0 + i * m) * w = 0 + (i * w) * m /\ i * w \in Int
          OBVIOUS
        <5> QED BY <4>1, <5>1
      <4> QED BY <4>2 DEF Same
    <3>2. CASE Same(w, 0, m)
      <4>1. PICK i \in Int : w = 0 + i * m
        BY <3>2 DEF Same
      <4>2. u * w = 0 + (u * i) * m /\ u * i \in Int
        <5>1. u * (0 + i * m) = 0 + (u * i) * m /\ u * i \in Int
          OBVIOUS
        <5> QED BY <4>1, <5>1
      <4> QED BY <4>2 DEF Same
    <3> QED BY <2>5, <3>1, <3>2
  <2>7. Same(At(x, r), u * w, m)
    BY <1>0, <2>4, AtProduct
  <2>8. Same(At(x, r), 0, m)
    <3>1. At(x, r) \in Int /\ u * w \in Int /\ 0 \in Int
      BY <1>0, <1>1, AtFacts
    <3> HIDE DEF r
    <3> QED BY <1>0, <2>6, <2>7, <3>1, SameIsTransitive
  <2> QED BY <1>0, <1>1, <2>3, <2>8, ValueIsZero
<1> QED BY <1>1, <1>2 DEF RootsAt

\* A tree of points vanishes at every one of them.
LEMMA VanishingTreeFacts ==
  ASSUME NEW m \in Nat \ {0, 1}, NEW width \in Nat, NEW root, Span(root)
  PROVE  RootsAt(ProductTree(VanishingLeaves(root, width, m), root, m), root, width, m)
<1> DEFINE leaf == VanishingLeaves(root, width, m)
           K == {w \in Within(root) \X Poly(m) : RootsAt(w[2], w[1], width, m)}
<1>0. m \in Nat \ {0} /\ m \in Int
  OBVIOUS
<1>1. root[1] \in Nat /\ root[2] \in Nat
  BY DEF Span
<1>2. ASSUME NEW i \in root[1] .. root[2] - 1
      PROVE  /\ leaf[i] \in Poly(m) /\ Monic(leaf[i])
             /\ Value(leaf[i], PointOf(i, width, m), m) = 0
  <2>1. PICK x \in 0 .. m - 1 : x = PointOf(i, width, m)
    <3>1. i \in Int
      BY <1>1
    <3>2. i * width \in Int
      BY <3>1
    <3> QED BY <1>0, <3>2, SameAsRest DEF PointOf
  <2>2. PICK y \in Int : y = m - x
    OBVIOUS
  <2>3. PICK c \in 0 .. m - 1 : c = y % m
    BY <1>0, SameAsRest
  <2>4. leaf[i] = <<c, 1>>
    BY <2>1, <2>2, <2>3 DEF VanishingLeaves
  <2>5. x \in Int
    OBVIOUS
  <2>6. <<c, 1>> \in Poly(m) /\ Monic(<<c, 1>>) /\ At(x, <<c, 1>>) = c + x
    BY <2>5, AtLeaf
  <2>7. Same(c, y, m)
    BY <1>0, <2>3, SameAsRest
  <2>8. PICK k \in Int : c = y + k * m
    BY <2>7 DEF Same
  <2>9. c + x = 0 + (k + 1) * m /\ k + 1 \in Int
    <3>1. (m - x) + k * m + x = 0 + (k + 1) * m
      BY <2>5
    <3> QED BY <2>2, <2>8, <3>1
  <2>10. Same(c + x, 0, m)
    BY <2>9 DEF Same
  <2>11. Value(<<c, 1>>, x, m) = 0
    BY <1>0, <2>5, <2>6, <2>10, ValueIsZero
  <2> QED BY <2>1, <2>4, <2>6, <2>11
<1> HIDE DEF leaf
<1>3. Leaves(leaf, root, m)
  BY <1>2 DEF Leaves
<1>4. ASSUME NEW v \in Within(root), IsLeaf(v) PROVE <<v, leaf[v[1]]>> \in K
  <2>1. v[1] \in Nat /\ v[1] \in root[1] .. root[2] - 1 /\ v[2] = v[1] + 1
    <3>1. v[1] \in Nat /\ v[2] \in Nat /\ root[1] <= v[1] /\ v[2] <= root[2] /\ v[2] = v[1] + 1
      BY <1>4, HalvesFacts
    <3> QED BY <1>1, <3>1
  <2>2. \A b \in v[1] .. v[2] - 1 : b = v[1]
    BY <2>1
  <2>3. RootsAt(leaf[v[1]], v, width, m)
    BY <1>2, <2>1, <2>2 DEF RootsAt
  <2> QED BY <1>2, <2>1, <2>3
<1>5. ASSUME NEW v \in Within(root), NEW p \in Poly(m), NEW q \in Poly(m), ~IsLeaf(v),
             <<Left(v), p>> \in K, <<Right(v), q>> \in K
      PROVE  <<v, Product(p, q, m)>> \in K
  <2>1. RootsAt(p, Left(v), width, m) /\ RootsAt(q, Right(v), width, m)
    BY <1>5
  <2>2. RootsAt(Product(p, q, m), v, width, m)
    BY <1>5, <2>1, VanishingProduct
  <2>3. Product(p, q, m) \in Poly(m)
    BY <1>0, ProductFacts
  <2> QED BY <2>2, <2>3
<1>6. Inherited(K, leaf, root, m)
  <2> HIDE DEF K
  <2> QED BY <1>4, <1>5 DEF Inherited
<1>7. <<root, ProductTree(leaf, root, m)>> \in K
  <2> HIDE DEF K
  <2> QED BY <1>0, <1>3, <1>6, TreeInduction
<1> QED BY <1>7 DEF leaf

(* ------------------------------- blocks -------------------------------- *)

\* Products of consecutive numbers behind numbers that are the same modulo m.
LEMMA ShiftedProducts ==
  ASSUME NEW m \in Nat \ {0}, NEW x \in Int, NEW y \in Int, Same(x, y, m), NEW n \in Nat
  PROVE  Same(ProductOf(x + 1 .. x + n), ProductOf(y + 1 .. y + n), m)
<1> DEFINE T == {k \in Nat : Same(ProductOf(x + 1 .. x + k), ProductOf(y + 1 .. y + k), m)}
<1>1. 0 \in T
  <2>1. x + 1 .. x + 0 = {} /\ y + 1 .. y + 0 = {}
    OBVIOUS
  <2>2. Same(1, 1, m)
    BY SameIsReflexive
  <2> QED BY <2>1, <2>2, ProductOfNone
<1>2. ASSUME NEW k \in Nat, k \in T PROVE k + 1 \in T
  <2>1. PICK a \in Int, b \in Int : a = x + k /\ b = y + k
    OBVIOUS
  <2>2. /\ ProductOf(x + 1 .. a + 1) = (a + 1) * ProductOf(x + 1 .. a)
        /\ ProductOf(y + 1 .. b + 1) = (b + 1) * ProductOf(y + 1 .. b)
    <3>1. x + 1 \in Int /\ x + 1 <= a + 1 /\ y + 1 \in Int /\ y + 1 <= b + 1
      BY <2>1
    <3> QED BY <3>1, IntervalNext
  <2>3. PICK u \in Int, w \in Int : u = ProductOf(x + 1 .. a) /\ w = ProductOf(y + 1 .. b)
    <3>1. x + 1 \in Int /\ y + 1 \in Int
      OBVIOUS
    <3> QED BY <3>1, IntervalsAreNumbers, ProductType
  <2>4. Same(u, w, m)
    BY <1>2, <2>1, <2>3
  <2>5. PICK c \in Int, d \in Int : c = a + 1 /\ d = b + 1
    OBVIOUS
  <2>6. Same(c, d, m)
    <3>1. PICK e \in Int : x = y + e * m
      BY DEF Same
    <3>2. c = d + e * m
      <4>1. e * m \in Int
        OBVIOUS
      <4> QED BY <2>1, <2>5, <3>1, <4>1
    <3> QED BY <3>2 DEF Same
  <2>7. Same(c * u, d * w, m)
    <3> m \in Int
      OBVIOUS
    <3> QED BY <2>4, <2>6, SameTimes
  <2>8. x + (k + 1) = a + 1 /\ y + (k + 1) = b + 1
    BY <2>1
  <2>9. Same(ProductOf(x + 1 .. x + (k + 1)), ProductOf(y + 1 .. y + (k + 1)), m)
    BY <2>2, <2>3, <2>5, <2>7, <2>8
  <2> QED BY <2>9
<1>3. \A k \in Nat : k \in T
  <2> HIDE DEF T
  <2> QED BY <1>1, <1>2, SetOfAllNaturals
<1> QED BY <1>3

\* A polynomial whose value is the product of the numbers of a range behind
\* its point.
FactorsOf(p, v, m) == \A x \in Int : PartOf(p, v, x, m)

\* The factors of a block.
BlockProduct(b, width) == ProductOf(b * width + 1 .. b * width + width)

\* The factor polynomial at the point of a block is the block's product.
LEMMA BlockValue ==
  ASSUME NEW m \in Nat \ {0, 1}, NEW width \in Nat, NEW b \in Nat, NEW p,
         FactorsOf(p, <<0, width>>, m)
  PROVE  /\ Value(p, PointOf(b, width, m), m) = BlockProduct(b, width) % m
         /\ BlockProduct(b, width) % m \in 0 .. m - 1
         /\ BlockProduct(b, width) \in Int
<1>0. m \in Nat \ {0} /\ m \in Int
  OBVIOUS
<1>1. PICK y \in Int : y = b * width
  OBVIOUS
<1>2. PICK x \in Int : x = PointOf(b, width, m) /\ Same(x, y, m)
  <2>1. y % m \in 0 .. m - 1 /\ Same(y % m, y, m)
    BY <1>0, SameAsRest
  <2> QED BY <1>0, <1>1, <2>1 DEF PointOf
<1>3. p \in Poly(m) /\ Same(At(x, p), ProductOf(x + 0 + 1 .. x + width), m)
  BY DEF FactorsOf, PartOf
<1>4. x + 0 + 1 = x + 1
  OBVIOUS
<1>5. PICK s \in Int, t \in Int : s = ProductOf(x + 1 .. x + width) /\ t = ProductOf(y + 1 .. y + width)
  <2>1. x + 1 \in Int /\ y + 1 \in Int /\ x + width \in Int /\ y + width \in Int
    OBVIOUS
  <2> QED BY <2>1, IntervalsAreNumbers, ProductType
<1>6. Same(s, t, m)
  BY <1>0, <1>2, <1>5, ShiftedProducts
<1>7. PICK v \in 0 .. m - 1 : v = Value(p, x, m)
  BY <1>0, <1>3, ValueIs
<1>8. PICK w \in Int : w = At(x, p)
  BY <1>0, <1>3, AtFacts
<1>9. Same(v, w, m)
  BY <1>0, <1>3, <1>7, <1>8, ValueIs DEF At
<1>10. Same(w, s, m)
  BY <1>3, <1>4, <1>5, <1>8
<1>11. v \in Int
  BY <1>0
<1>12. Same(v, t, m)
  <2>1. Same(v, s, m)
    BY <1>0, <1>9, <1>10, <1>11, SameIsTransitive
  <2> QED BY <1>0, <1>6, <1>11, <2>1, SameIsTransitive
<1>13. v % m = t % m
  BY <1>0, <1>11, <1>12, RestsOfSame
<1>14. v % m = v
  BY <1>0
<1>15. t % m \in 0 .. m - 1
  BY <1>0, SameAsRest
<1> QED BY <1>1, <1>2, <1>5, <1>7, <1>13, <1>14, <1>15 DEF BlockProduct

\* build_factor_polynomial, as the consumers need it,
LEMMA FactorTreeIsRight ==
  ASSUME NEW m \in Nat \ {0, 1}, NEW root, Span(root)
  PROVE  FactorsOf(ProductTree(FactorLeaves(root, m), root, m), root, m)
BY FactorTreeFacts DEF FactorsOf, PartOf

\* also when its two halves are made by two branches.
LEMMA FactorsMultiply ==
  ASSUME NEW m \in Nat \ {0, 1}, NEW root, Span(root), ~IsLeaf(root), NEW p, NEW q,
         FactorsOf(p, Left(root), m), FactorsOf(q, Right(root), m)
  PROVE  FactorsOf(Product(p, q, m), root, m)
BY RootIsWithin, PartsMultiply DEF FactorsOf

\* ceil_square_root of a number lies between one and it.
LEMMA CeilRootFacts ==
  ASSUME NEW n \in Nat \ {0}
  PROVE  /\ CeilRoot(n) \in 1 .. n
         /\ CeilRoot(n) * CeilRoot(n) >= n
         /\ (CeilRoot(n) - 1) * (CeilRoot(n) - 1) < n
<1> DEFINE T == {r \in Nat : r * r >= n}
<1>1. n \in T
  <2>1. n * n >= n
    <3>1. n >= 1
      OBVIOUS
    <3> QED BY <3>1
  <2> QED BY <2>1
<1>2. PICK r \in T : \A t \in T : r <= t
  <2> T \subseteq Nat /\ T # {}
    BY <1>1
  <2> HIDE DEF T
  <2> QED BY LeastNatural
<1>3. r \in 0 .. n /\ r * r >= n
  BY <1>1, <1>2
<1>4. r = 0 \/ (r - 1) * (r - 1) < n
  <2> SUFFICES ASSUME r # 0 PROVE (r - 1) * (r - 1) < n
    OBVIOUS
  <2>1. PICK s \in Nat : s = r - 1
    BY <1>3
  <2>2. s \notin T
    BY <1>2, <2>1
  <2>3. s * s \in Nat
    OBVIOUS
  <2> QED BY <2>1, <2>2, <2>3
<1>5. /\ CeilRoot(n) \in 0 .. n /\ CeilRoot(n) * CeilRoot(n) >= n
      /\ CeilRoot(n) = 0 \/ (CeilRoot(n) - 1) * (CeilRoot(n) - 1) < n
  BY <1>3, <1>4 DEF CeilRoot
<1>6. CeilRoot(n) # 0
  BY <1>5
<1> QED BY <1>5, <1>6

\* The tree of the points: with a node that is no leaf it has the halves, and
\* every polynomial vanishes at the points below it.
GoodTree(t, root, width, m) ==
  /\ root \in DOMAIN t /\ DOMAIN t \subseteq Within(root)
  /\ \A v \in DOMAIN t : RootsAt(t[v], v, width, m)
  /\ \A v \in DOMAIN t : ~IsLeaf(v) => Left(v) \in DOMAIN t /\ Right(v) \in DOMAIN t

\* build_evaluation_tree makes a tree that vanishes below every node,
LEMMA BuiltTree ==
  ASSUME NEW m \in Nat \ {0, 1}, NEW width \in Nat, NEW root, Span(root)
  PROVE  GoodTree([v \in Nodes(root) |-> ProductTree(VanishingLeaves(v, width, m), v, m)],
                  root, width, m)
<1> DEFINE t == [v \in Nodes(root) |-> ProductTree(VanishingLeaves(v, width, m), v, m)]
<1>1. root \in DOMAIN t /\ DOMAIN t \subseteq Within(root)
  BY NodesFacts
<1>2. \A v \in DOMAIN t : ~IsLeaf(v) => Left(v) \in DOMAIN t /\ Right(v) \in DOMAIN t
  BY NodesFacts
<1>3. ASSUME NEW v \in DOMAIN t PROVE RootsAt(t[v], v, width, m)
  <2>1. Span(v)
    BY <1>1, HalvesFacts
  <2> QED BY <2>1, VanishingTreeFacts
<1> QED BY <1>1, <1>2, <1>3 DEF GoodTree

\* Two trees and the product of their roots.
JoinedTree(l, r, root, m) ==
  [v \in DOMAIN l \cup DOMAIN r \cup {root} |->
     IF v \in DOMAIN l THEN l[v] ELSE IF v \in DOMAIN r THEN r[v]
     ELSE Product(l[Left(root)], r[Right(root)], m)]

\* also when its two subtrees are made by two branches.
LEMMA JoinedTreeIsGood ==
  ASSUME NEW m \in Nat \ {0, 1}, NEW width \in Nat, NEW root, Span(root), ~IsLeaf(root),
         NEW l, NEW r, GoodTree(l, Left(root), width, m), GoodTree(r, Right(root), width, m)
  PROVE  GoodTree(JoinedTree(l, r, root, m), root, width, m)
<1> DEFINE t == JoinedTree(l, r, root, m)
<1>1. DOMAIN t = DOMAIN l \cup DOMAIN r \cup {root}
  BY DEF JoinedTree
<1>2. root \in Within(root)
  BY RootIsWithin
<1>3. /\ Left(root) \in Within(root) /\ Right(root) \in Within(root)
      /\ Left(root)[1] = root[1] /\ Left(root)[2] = Right(root)[1] /\ Right(root)[2] = root[2]
      /\ root[1] < Left(root)[2] /\ Left(root)[2] < root[2]
      /\ root[1] \in Nat /\ root[2] \in Nat
  BY <1>2, HalvesFacts
<1>4. Left(root)[2] \in Nat
  BY <1>3, HalvesFacts
<1>5. Within(Left(root)) \subseteq Within(root) /\ Within(Right(root)) \subseteq Within(root)
  BY <1>3, <1>4 DEF Within
<1>6. DOMAIN t \subseteq Within(root)
  BY <1>1, <1>2, <1>5 DEF GoodTree
<1>7. Left(root) \in DOMAIN l /\ Right(root) \in DOMAIN r
  BY DEF GoodTree
<1>8. root \notin DOMAIN l /\ root \notin DOMAIN r
  BY <1>3, <1>4 DEF GoodTree, Within
<1>9. ASSUME NEW v \in DOMAIN t PROVE RootsAt(t[v], v, width, m)
  <2>1. CASE v \in DOMAIN l
    <3>1. t[v] = l[v]
      BY <2>1 DEF JoinedTree
    <3> QED BY <2>1, <3>1 DEF GoodTree
  <2>2. CASE v \notin DOMAIN l /\ v \in DOMAIN r
    <3>1. t[v] = r[v]
      BY <2>2 DEF JoinedTree
    <3> QED BY <2>2, <3>1 DEF GoodTree
  <2>3. CASE v = root
    <3>1. t[v] = Product(l[Left(root)], r[Right(root)], m)
      BY <1>8, <2>3 DEF JoinedTree
    <3>2. RootsAt(l[Left(root)], Left(root), width, m) /\ RootsAt(r[Right(root)], Right(root), width, m)
      BY <1>7 DEF GoodTree
    <3> QED BY <1>2, <2>3, <3>1, <3>2, VanishingProduct
  <2> QED BY <1>1, <1>9, <2>1, <2>2, <2>3
<1>10. ASSUME NEW v \in DOMAIN t, ~IsLeaf(v) PROVE Left(v) \in DOMAIN t /\ Right(v) \in DOMAIN t
  <2>1. CASE v = root
    BY <1>1, <1>7, <2>1
  <2>2. CASE v \in DOMAIN l
    BY <1>1, <1>10, <2>2 DEF GoodTree
  <2>3. CASE v \in DOMAIN r
    BY <1>1, <1>10, <2>3 DEF GoodTree
  <2> QED BY <1>1, <1>10, <2>1, <2>2, <2>3
<1> QED BY <1>1, <1>6, <1>9, <1>10 DEF GoodTree

\* A polynomial whose values at the points of a range of blocks are the
\* products of the blocks, and what a remainder of it keeps.
RightBelow(p, v, width, m) ==
  /\ p \in Poly(m)
  /\ \A b \in v[1] .. v[2] - 1 :
       Value(p, PointOf(b, width, m), m) = BlockProduct(b, width) % m

\* A polynomial of the factors of a block is right at every point.
LEMMA BlockPolynomialIsRight ==
  ASSUME NEW m \in Nat \ {0, 1}, NEW width \in Nat, NEW p, FactorsOf(p, <<0, width>>, m),
         NEW v, v[1] \in Nat, v[2] \in Nat
  PROVE  RightBelow(p, v, width, m)
<1>1. p \in Poly(m)
  <2>1. 0 \in Int
    OBVIOUS
  <2> QED BY <2>1 DEF FactorsOf, PartOf
<1>2. ASSUME NEW b \in v[1] .. v[2] - 1
      PROVE  Value(p, PointOf(b, width, m), m) = BlockProduct(b, width) % m
  <2>1. b \in Nat
    OBVIOUS
  <2> QED BY <2>1, BlockValue
<1> QED BY <1>1, <1>2 DEF RightBelow

\* A remainder at a child keeps the values at the points below it.
LEMMA RemainderIsRight ==
  ASSUME NEW m \in Nat \ {0, 1}, NEW width \in Nat, NEW limits, NEW v, NEW w, Span(w),
         w[1] .. w[2] - 1 \subseteq v[1] .. v[2] - 1,
         NEW p, RightBelow(p, v, width, m), NEW q, RootsAt(q, w, width, m)
  PROVE  RightBelow(Remainder(p, q, m, limits), w, width, m)
<1>1. p \in Poly(m) /\ q \in Poly(m) /\ Monic(q) /\ w[1] \in Nat /\ w[2] \in Nat
  BY DEF RightBelow, RootsAt, Span
<1>2. ASSUME NEW b \in w[1] .. w[2] - 1
      PROVE  /\ Remainder(p, q, m, limits) \in Poly(m)
             /\ Value(Remainder(p, q, m, limits), PointOf(b, width, m), m) = BlockProduct(b, width) % m
  <2>1. Value(q, PointOf(b, width, m), m) = 0
    BY DEF RootsAt
  <2>2. Value(p, PointOf(b, width, m), m) = BlockProduct(b, width) % m
    BY DEF RightBelow
  <2>3. PICK y \in Int : y = b * width
    <3>1. b \in Nat
      BY <1>1
    <3> QED BY <3>1
  <2>4. PICK x \in Int : x = PointOf(b, width, m)
    <3>1. y % m \in 0 .. m - 1
      <4> m \in Nat \ {0}
        OBVIOUS
      <4> QED BY SameAsRest
    <3>2. y % m \in Int
      BY <3>1
    <3> QED BY <2>3, <3>2 DEF PointOf
  <2> QED BY <1>1, <2>1, <2>2, <2>4, RemainderKeepsValues
<1>3. w[1] \in w[1] .. w[2] - 1
  BY <1>1 DEF Span
<1> QED BY <1>2, <1>3 DEF RightBelow

(* ------------------------------ the factors ---------------------------- *)

Residues(m) == 0 .. m - 1

Columns(n, m) == [Column(n) -> Residues(m)]

\* The tensors of an order n and a jet order J.
JetTensors(n, J, m) == [0 .. J -> Columns(n, m)]

\* The calls these facts are about: what GermDomain leaves of the parameters
\* that the tensor depends on.
Shape(n, J, m) == n \in Nat /\ n >= 2 /\ J \in Nat /\ J >= 1 /\ m \in Nat /\ m >= 3

\* A row of coefficients for factor s.
IsRow(r, s, J) == r \in [0 .. Smaller(s, J) -> Int]

\* The lags a degree has, and the terms they contribute at an index.
Lags(r, d) == {j \in DOMAIN r : j <= d}

Lag(g, r, d, i) == [j \in Lags(r, d) |-> g[d - j][i] * r[j]]

LagSum(g, r, d, i) ==
  MapThenSumSet(LAMBDA j : g[d - j][i] * r[j], {j \in DOMAIN r : j <= d})

\* The recursion of MapThenFoldSet for the terms of a degree.
LagStep(g, r, d, i, c) ==
  [s \in SUBSET Lags(r, d) |->
     IF s = {} THEN 0
     ELSE g[d - (CHOOSE x \in s : TRUE)][i] * r[CHOOSE x \in s : TRUE]
            + c[s \ {CHOOSE x \in s : TRUE}]]

LagPartial(g, r, d, i) == CHOOSE c : c = LagStep(g, r, d, i, c)

\* The sum over the lags as the recursive function its fold unfolds to.
LEMMA LagSumIsPartial ==
  ASSUME NEW g, NEW r, NEW d, NEW i
  PROVE  LagSum(g, r, d, i) = LagPartial(g, r, d, i)[Lags(r, d)]
BY DEF LagSum, MapThenSumSet, MapThenFoldSet, Lags, LagStep, LagPartial

\* The sum over the lags is the sum of the terms they contribute.
LEMMA LagSumIsSum ==
  ASSUME NEW g, NEW r, NEW d, NEW i, Summable(Lag(g, r, d, i), Lags(r, d))
  PROVE  LagSum(g, r, d, i) = SumOver(Lag(g, r, d, i), Lags(r, d))
<1> DEFINE f == Lag(g, r, d, i)
           S == Lags(r, d)
           P == Partial(f, S)
           c == LagPartial(g, r, d, i)
<1>1. P \in [SUBSET S -> Int] /\ P = SumStep(f, S, P)
  BY PartialEquation
<1>2. ASSUME NEW s \in SUBSET S, s # {}
      PROVE  f[CHOOSE x \in s : TRUE] = g[d - (CHOOSE x \in s : TRUE)][i] * r[CHOOSE x \in s : TRUE]
  <2>1. (CHOOSE x \in s : TRUE) \in S
    BY <1>2
  <2> QED BY <2>1 DEF Lag
<1> HIDE DEF f, P, S
<1>3. P = LagStep(g, r, d, i, P)
  <2>1. SumStep(f, S, P) = LagStep(g, r, d, i, P)
    BY <1>2 DEF SumStep, LagStep, S
  <2> QED BY <1>1, <2>1
<1>4. c = LagStep(g, r, d, i, c)
  BY <1>3 DEF LagPartial
<1>5. c = SumStep(f, S, c)
  <2>1. SumStep(f, S, c) = LagStep(g, r, d, i, c)
    BY <1>2 DEF SumStep, LagStep, S
  <2> QED BY <1>4, <2>1
<1>6. c[S] = SumOver(f, S)
  <2>1. Summable(f, S)
    BY DEF f, S
  <2> HIDE DEF c
  <2> QED BY <1>5, <2>1, SumIsSolved
<1>7. LagSum(g, r, d, i) = c[S]
  BY LagSumIsPartial DEF c, S
<1> QED BY <1>6, <1>7 DEF f, S

\* An index stays within the column when a shift wraps around.
LEMMA IndexWraps ==
  ASSUME NEW n \in Nat \ {0}, NEW i \in Int
  PROVE  i % n \in Column(n)
BY SameAsRest DEF Column

\* The lags of a degree are finitely many degrees, zero among them.
LEMMA LagsFacts ==
  ASSUME NEW s \in Nat, NEW J \in Nat, NEW r, IsRow(r, s, J), NEW d \in 0 .. J
  PROVE  /\ IsFiniteSet(Lags(r, d))
         /\ 0 \in Lags(r, d)
         /\ \A j \in Lags(r, d) : j \in Nat /\ j <= d /\ d - j \in 0 .. J /\ r[j] \in Int
<1>1. Smaller(s, J) \in Nat /\ DOMAIN r = 0 .. Smaller(s, J)
  BY DEF Smaller, IsRow
<1>2. Lags(r, d) \in SUBSET (0 .. J)
  BY <1>1 DEF Lags, Smaller
<1>3. IsFiniteSet(Lags(r, d))
  <2>1. IsFiniteSet(0 .. J)
    BY FS_Interval
  <2> QED BY <1>2, <2>1, FS_Subset
<1>4. 0 \in Lags(r, d)
  BY <1>1 DEF Lags
<1>5. ASSUME NEW j \in Lags(r, d) PROVE j \in Nat /\ j <= d /\ d - j \in 0 .. J /\ r[j] \in Int
  BY <1>1 DEF Lags, IsRow
<1> QED BY <1>3, <1>4, <1>5

\* The terms of a degree can be added.
LEMMA LagIsSummable ==
  ASSUME NEW n \in Nat, NEW J \in Nat, NEW m \in Nat, NEW g \in JetTensors(n, J, m),
         NEW s \in Nat, NEW r, IsRow(r, s, J), NEW d \in 0 .. J, NEW i \in Column(n)
  PROVE  Summable(Lag(g, r, d, i), Lags(r, d))
<1>1. ASSUME NEW j \in Lags(r, d) PROVE Lag(g, r, d, i)[j] \in Int
  <2>1. d - j \in 0 .. J /\ r[j] \in Int
    BY LagsFacts
  <2>2. g[d - j][i] \in Int
    BY <2>1 DEF JetTensors, Columns, Residues
  <2> QED BY <2>1, <2>2 DEF Lag
<1> QED BY <1>1, LagsFacts DEF Summable

\* What a factor leaves at an index of a degree, and that it is a residue.
LEMMA FactorIs ==
  ASSUME NEW n, NEW J, NEW m, Shape(n, J, m), NEW g \in JetTensors(n, J, m),
         NEW s \in Nat, NEW r, IsRow(r, s, J)
  PROVE  /\ ApplyFactor(g, n, J, m, r, s) \in JetTensors(n, J, m)
         /\ \A d \in 0 .. J : \A i \in Column(n) :
              /\ (i - s) % n \in Column(n)
              /\ g[d][i] \in Residues(m)
              /\ SumOver(Lag(g, r, d, (i - s) % n), Lags(r, d)) \in Int
              /\ ApplyFactor(g, n, J, m, r, s)[d][i]
                   = (g[d][i] - SumOver(Lag(g, r, d, (i - s) % n), Lags(r, d))) % m
<1> USE DEF Shape
<1>1. ApplyFactor(g, n, J, m, r, s)
        = [d \in 0 .. J |-> [i \in Column(n) |-> (g[d][i] - LagSum(g, r, d, (i - s) % n)) % m]]
  BY DEF ApplyFactor, LagSum
<1>2. ASSUME NEW d \in 0 .. J, NEW i \in Column(n)
      PROVE  /\ (i - s) % n \in Column(n)
             /\ g[d][i] \in Residues(m)
             /\ SumOver(Lag(g, r, d, (i - s) % n), Lags(r, d)) \in Int
             /\ LagSum(g, r, d, (i - s) % n) = SumOver(Lag(g, r, d, (i - s) % n), Lags(r, d))
  <2>1. (i - s) % n \in Column(n)
    <3>1. i - s \in Int /\ n \in Nat \ {0}
      BY DEF Column
    <3> QED BY <3>1, IndexWraps
  <2>2. PICK h \in Column(n) : h = (i - s) % n
    BY <2>1
  <2>3. Summable(Lag(g, r, d, h), Lags(r, d))
    BY LagIsSummable
  <2>4. LagSum(g, r, d, h) = SumOver(Lag(g, r, d, h), Lags(r, d))
    BY <2>3, LagSumIsSum
  <2>5. SumOver(Lag(g, r, d, h), Lags(r, d)) \in Int
    BY <2>3, SumType
  <2>6. g[d][i] \in Residues(m)
    BY DEF JetTensors, Columns
  <2> QED BY <2>1, <2>2, <2>4, <2>5, <2>6
<1>3. ASSUME NEW d \in 0 .. J, NEW i \in Column(n)
      PROVE  (g[d][i] - LagSum(g, r, d, (i - s) % n)) % m \in Residues(m)
  <2>1. PICK u \in Int : u = LagSum(g, r, d, (i - s) % n)
    BY <1>2
  <2>2. PICK v \in Int : v = g[d][i]
    BY <1>2 DEF Residues
  <2>3. (v - u) % m \in Residues(m)
    BY SameAsRest DEF Residues
  <2> QED BY <2>1, <2>2, <2>3
<1>4. ApplyFactor(g, n, J, m, r, s) \in JetTensors(n, J, m)
  <2>1. ASSUME NEW d \in 0 .. J
        PROVE  [i \in Column(n) |-> (g[d][i] - LagSum(g, r, d, (i - s) % n)) % m] \in Columns(n, m)
    BY <1>3 DEF Columns
  <2> QED BY <1>1, <2>1 DEF JetTensors
<1>5. ASSUME NEW d \in 0 .. J, NEW i \in Column(n)
      PROVE  ApplyFactor(g, n, J, m, r, s)[d][i] = (g[d][i] - LagSum(g, r, d, (i - s) % n)) % m
  BY <1>1
<1> QED BY <1>2, <1>4, <1>5

(* ----------------------- the tensors of every prefix ------------------- *)

\* An iteration whose steps know their number,
Ladder(V, base, step, g) ==
  g \in [Nat -> V] /\ g[0] = base /\ \A s \in Nat : g[s + 1] = step[<<s + 1, g[s]>>]

\* What such a step takes.
Numbered(V) == Nat \X V

\* never ends.
LEMMA LadderExists ==
  ASSUME NEW V, NEW base \in V, NEW step \in [Numbered(V) -> V]
  PROVE  \E g : Ladder(V, base, step, g)
<1> USE DEF Numbered
<1> DEFINE W == Nat \X V
           move == [w \in W |-> <<w[1] + 1, step[<<w[1] + 1, w[2]>>]>>]
           start == <<0, base>>
<1>1. start \in W
  OBVIOUS
<1>2. move \in [W -> W]
  <2> SUFFICES ASSUME NEW w \in W PROVE <<w[1] + 1, step[<<w[1] + 1, w[2]>>]>> \in W
    OBVIOUS
  <2>1. w[1] + 1 \in Nat /\ w[2] \in V
    OBVIOUS
  <2>2. <<w[1] + 1, w[2]>> \in Nat \X V
    BY <2>1
  <2>3. step[<<w[1] + 1, w[2]>>] \in V
    BY <2>2
  <2> QED BY <2>1, <2>3
<1>3. \A w \in W : move[w] = <<w[1] + 1, step[<<w[1] + 1, w[2]>>]>>
  OBVIOUS
<1>4. start[1] = 0 /\ start[2] = base
  OBVIOUS
<1> HIDE DEF move, start
<1>5. PICK h : Iterates(W, start, move, h)
  <2> HIDE DEF W
  <2> QED BY <1>1, <1>2, IterationExists
<1>6. h \in [Nat -> W] /\ h[0] = start /\ \A s \in Nat : h[s + 1] = move[h[s]]
  BY <1>5 DEF Iterates
<1>7. ASSUME NEW s \in Nat
      PROVE  h[s][1] \in Nat /\ h[s][2] \in V /\ h[s + 1][1] = h[s][1] + 1
             /\ h[s + 1][2] = step[<<h[s][1] + 1, h[s][2]>>]
  <2>1. PICK w \in W : w = h[s]
    BY <1>6
  <2>2. h[s + 1] = <<w[1] + 1, step[<<w[1] + 1, w[2]>>]>>
    BY <1>3, <1>6, <2>1
  <2> QED BY <2>1, <2>2
<1> DEFINE T == {s \in Nat : h[s][1] = s}
<1>8. \A s \in Nat : s \in T
  <2>1. 0 \in T
    BY <1>4, <1>6
  <2>2. ASSUME NEW s \in Nat, s \in T PROVE s + 1 \in T
    <3>1. h[s][1] = s /\ h[s + 1][1] = h[s][1] + 1
      BY <1>7, <2>2
    <3> QED BY <3>1
  <2> HIDE DEF T
  <2> QED BY <2>1, <2>2, SetOfAllNaturals
<1> DEFINE g == [s \in Nat |-> h[s][2]]
<1>9. g \in [Nat -> V]
  BY <1>7
<1>10. g[0] = base
  BY <1>4, <1>6
<1>11. ASSUME NEW s \in Nat PROVE g[s + 1] = step[<<s + 1, g[s]>>]
  <2>1. h[s][1] = s
    BY <1>8
  <2> QED BY <1>7, <2>1
<1> HIDE DEF g
<1> QED BY <1>9, <1>10, <1>11 DEF Ladder

\* The rows of the factors.
Rows(R, J) == \A s \in Nat : s >= 1 => IsRow(R[s], s, J)

\* The tensors the factors build with these rows.
Grown(n, J, m, R, G) ==
  /\ G \in [Nat -> JetTensors(n, J, m)]
  /\ G[0] = UnitTensor(n, J)
  /\ \A s \in Nat : G[s + 1] = ApplyFactor(G[s], n, J, m, R[s + 1], s + 1)

\* The tensor before the first factor is one of residues.
LEMMA UnitTensorFacts ==
  ASSUME NEW n, NEW J, NEW m, Shape(n, J, m)
  PROVE  /\ UnitTensor(n, J) \in JetTensors(n, J, m)
         /\ \A d \in 0 .. J : \A i \in Column(n) :
              UnitTensor(n, J)[d][i] = (IF d = 0 /\ i = 0 THEN 1 ELSE 0)
<1>1. OneColumn(n) \in Columns(n, m) /\ ZeroColumn(n) \in Columns(n, m)
  BY DEF OneColumn, ZeroColumn, Columns, Residues, Shape
<1> QED BY <1>1 DEF UnitTensor, JetTensors, OneColumn, ZeroColumn

\* Every family of rows grows a sequence of tensors,
LEMMA GrownExists ==
  ASSUME NEW n, NEW J, NEW m, Shape(n, J, m), NEW R, Rows(R, J)
  PROVE  \E G : Grown(n, J, m, R, G)
<1> DEFINE V == JetTensors(n, J, m)
           step == [w \in Numbered(V) |->
                      IF w[1] = 0 THEN w[2] ELSE ApplyFactor(w[2], n, J, m, R[w[1]], w[1])]
<1>1. step \in [Numbered(V) -> V]
  <2> SUFFICES ASSUME NEW s \in Nat, NEW g \in V, s # 0
               PROVE  ApplyFactor(g, n, J, m, R[s], s) \in V
    BY DEF Numbered
  <2>1. IsRow(R[s], s, J)
    BY DEF Rows
  <2> QED BY <2>1, FactorIs
<1>2. ASSUME NEW s \in Nat, NEW g \in V
      PROVE  step[<<s + 1, g>>] = ApplyFactor(g, n, J, m, R[s + 1], s + 1)
  <2>1. <<s + 1, g>> \in Numbered(V) /\ <<s + 1, g>>[1] = s + 1 /\ <<s + 1, g>>[2] = g /\ s + 1 # 0
    BY DEF Numbered
  <2> QED BY <2>1
<1> HIDE DEF step
<1>3. UnitTensor(n, J) \in V
  BY UnitTensorFacts
<1>4. PICK G \in [Nat -> V] : G[0] = UnitTensor(n, J) /\ \A s \in Nat : G[s + 1] = step[<<s + 1, G[s]>>]
  <2>1. PICK u \in V : u = UnitTensor(n, J)
    BY <1>3
  <2>2. \E G : Ladder(V, u, step, G)
    <3> HIDE DEF V
    <3> QED BY <1>1, <2>1, LadderExists
  <2> QED BY <2>1, <2>2 DEF Ladder
<1>5. ASSUME NEW s \in Nat PROVE G[s + 1] = ApplyFactor(G[s], n, J, m, R[s + 1], s + 1)
  <2>1. G[s] \in V
    BY <1>4
  <2> QED BY <1>2, <1>4, <2>1
<1> QED BY <1>4, <1>5 DEF Grown

\* The recursion of a table of prefixes.
GermStep(n, J, m, R, N, g) ==
  [s \in 0 .. N |-> IF s = 0 THEN UnitTensor(n, J)
                    ELSE ApplyFactor(g[s - 1], n, J, m, R[s], s)]

GermTable(n, J, m, R, N) == CHOOSE g : g = GermStep(n, J, m, R, N, g)

\* and the table of a recursion ends in the tensor of its bound.
LEMMA TableIsGrown ==
  ASSUME NEW n, NEW J, NEW m, NEW R, NEW G, Grown(n, J, m, R, G), NEW N \in Nat
  PROVE  GermTable(n, J, m, R, N)[N] = G[N]
<1> DEFINE h == [s \in 0 .. N |-> G[s]]
           t == GermTable(n, J, m, R, N)
<1>1. h = GermStep(n, J, m, R, N, h)
  <2> SUFFICES ASSUME NEW s \in 0 .. N PROVE h[s] = GermStep(n, J, m, R, N, h)[s]
    BY DEF GermStep
  <2>1. CASE s = 0
    BY <2>1 DEF GermStep, Grown
  <2>2. CASE s # 0
    <3>1. s - 1 \in Nat /\ s - 1 \in 0 .. N /\ (s - 1) + 1 = s
      BY <2>2
    <3>2. G[(s - 1) + 1] = ApplyFactor(G[s - 1], n, J, m, R[(s - 1) + 1], (s - 1) + 1)
      BY <3>1 DEF Grown
    <3> QED BY <2>2, <3>1, <3>2 DEF GermStep
  <2> QED BY <2>1, <2>2
<1> HIDE DEF h
<1>2. t = GermStep(n, J, m, R, N, t)
  BY <1>1 DEF GermTable
<1> HIDE DEF t
<1> DEFINE T == {s \in Nat : s <= N => t[s] = G[s]}
<1>3. 0 \in T
  <2>1. GermStep(n, J, m, R, N, t)[0] = UnitTensor(n, J)
    BY DEF GermStep
  <2> QED BY <1>2, <2>1 DEF Grown
<1>4. ASSUME NEW s \in Nat, s \in T PROVE s + 1 \in T
  <2> SUFFICES ASSUME s + 1 <= N PROVE t[s + 1] = G[s + 1]
    OBVIOUS
  <2>1. s + 1 \in 0 .. N /\ s + 1 # 0 /\ (s + 1) - 1 = s /\ s <= N
    OBVIOUS
  <2>2. t[s] = G[s]
    BY <1>4, <2>1
  <2>3. GermStep(n, J, m, R, N, t)[s + 1] = ApplyFactor(t[(s + 1) - 1], n, J, m, R[s + 1], s + 1)
    BY <2>1 DEF GermStep
  <2> QED BY <1>2, <2>1, <2>2, <2>3 DEF Grown
<1>5. \A s \in Nat : s \in T
  <2> HIDE DEF T
  <2> QED BY <1>3, <1>4, SetOfAllNaturals
<1> QED BY <1>5 DEF t

\* Evaluated only tells TLC when to compute.
LEMMA EvaluatedIs ==
  ASSUME NEW f
  PROVE  Evaluated(f) = f
BY DEF Evaluated

\* The rows of the program, one for each factor.
NativeRows(J, m) == [s \in Nat |-> BinomialRow(s, J, m, ModularInverses(J, m))]

\* GermPrefix is the last entry of its table.
LEMMA GermPrefixIsTable ==
  ASSUME NEW n, NEW J, NEW m, NEW N \in Nat
  PROVE  GermPrefix(n, J, m, N) = GermTable(n, J, m, NativeRows(J, m), N)[N]
<1> DEFINE G(g) == [s \in 0 .. N |->
                      IF s = 0 THEN UnitTensor(n, J)
                      ELSE ApplyFactor(g[s - 1], n, J, m, BinomialRow(s, J, m, ModularInverses(J, m)), s)]
<1>1. GermPrefix(n, J, m, N) = (CHOOSE g : g = G(g))[N]
  BY DEF GermPrefix, Evaluated
<1>2. ASSUME NEW g PROVE G(g) = GermStep(n, J, m, NativeRows(J, m), N, g)
  <2>1. \A s \in 0 .. N : NativeRows(J, m)[s] = BinomialRow(s, J, m, ModularInverses(J, m))
    BY DEF NativeRows
  <2> QED BY <2>1 DEF GermStep
<1> HIDE DEF G
<1>3. (CHOOSE g : g = G(g)) = GermTable(n, J, m, NativeRows(J, m), N)
  BY <1>2 DEF GermTable
<1> QED BY <1>1, <1>3

(* --------------------------- inverses and rows ------------------------- *)

\* The recursion of modular_inverses.
ReciprocalStep(J, m, g) ==
  [i \in 0 .. J |-> IF i < 2 THEN i ELSE (0 - ((m \div i) * g[m % i])) % m]

\* The table of modular_inverses satisfies its recursion, in integers.
LEMMA ReciprocalFacts ==
  ASSUME NEW J \in Nat, NEW m \in Nat \ {0}
  PROVE  /\ ModularInverses(J, m) \in [0 .. J -> Int]
         /\ ModularInverses(J, m) = ReciprocalStep(J, m, ModularInverses(J, m))
<1> DEFINE D == 0 .. J
           G == [g \in [D -> Int] |-> ReciprocalStep(J, m, g)]
           rank == [i \in D |-> i]
           t == ModularInverses(J, m)
<1>1. ASSUME NEW i \in D, i >= 2
      PROVE  m % i \in D /\ m % i < i /\ m \div i \in Int /\ i \in Nat \ {0}
  <2>1. i \in Nat \ {0}
    BY <1>1
  <2>2. m % i \in 0 .. i - 1
    BY <2>1, SameAsRest
  <2>3. m \div i \in Int
    BY <2>1
  <2> QED BY <2>1, <2>2, <2>3
<1>2. ASSUME NEW i \in D, i >= 2, NEW v \in Int PROVE (0 - ((m \div i) * v)) % m \in Int
  <2>1. PICK u \in Int : u = 0 - ((m \div i) * v)
    BY <1>1, <1>2
  <2>2. u % m \in Int
    BY <2>1
  <2> QED BY <2>1, <2>2
<1>3. Recurses(D, Int, J, rank, G)
  <2>1. ASSUME NEW g \in [D -> Int] PROVE ReciprocalStep(J, m, g) \in [D -> Int]
    <3> SUFFICES ASSUME NEW i \in D
                 PROVE  (IF i < 2 THEN i ELSE (0 - ((m \div i) * g[m % i])) % m) \in Int
      BY DEF ReciprocalStep
    <3>1. CASE i < 2
      BY <3>1
    <3>2. CASE ~(i < 2)
      <4>1. g[m % i] \in Int
        BY <1>1, <3>2
      <4> QED BY <1>2, <3>2, <4>1
    <3> QED BY <3>1, <3>2
  <2>2. G \in [[D -> Int] -> [D -> Int]]
    BY <2>1
  <2>3. ASSUME NEW g \in [D -> Int], NEW h \in [D -> Int], NEW i \in D,
               \A e \in D : rank[e] < rank[i] => g[e] = h[e]
        PROVE  G[g][i] = G[h][i]
    <3>1. CASE i < 2
      BY <3>1 DEF ReciprocalStep
    <3>2. CASE ~(i < 2)
      <4>1. g[m % i] = h[m % i]
        BY <1>1, <2>3, <3>2
      <4> QED BY <3>2, <4>1 DEF ReciprocalStep
    <3> QED BY <3>1, <3>2
  <2>4. rank \in [D -> 0 .. J]
    OBVIOUS
  <2> HIDE DEF G, rank, D
  <2> QED BY <2>2, <2>3, <2>4 DEF Recurses
<1>4. PICK g \in [D -> Int] : g = ReciprocalStep(J, m, g)
  <2>1. \E g \in [D -> Int] : g = G[g]
    <3> HIDE DEF G, rank, D
    <3> QED BY <1>3, RecursionHasSolution
  <2> QED BY <2>1
<1>5. t = (CHOOSE h : h = ReciprocalStep(J, m, h))
  BY DEF ModularInverses, ReciprocalStep
<1>6. t = ReciprocalStep(J, m, t)
  <2> HIDE DEF t
  <2> QED BY <1>4, <1>5
<1> HIDE DEF t
<1> DEFINE Bad == {i \in D : t[i] \notin Int}
<1>7. Bad = {}
  <2> SUFFICES ASSUME Bad # {} PROVE FALSE
    OBVIOUS
  <2>1. PICK i \in Bad : \A e \in Bad : i <= e
    <3>1. Bad \subseteq Nat
      OBVIOUS
    <3> HIDE DEF Bad
    <3> QED BY <3>1, LeastNatural
  <2>2. t[i] = IF i < 2 THEN i ELSE (0 - ((m \div i) * t[m % i])) % m
    BY <1>6 DEF ReciprocalStep
  <2>3. i >= 2
    BY <2>1, <2>2
  <2>4. m % i \in D /\ m % i < i
    BY <1>1, <2>3
  <2>5. t[m % i] \in Int
    BY <2>1, <2>4
  <2>6. t[i] \in Int
    BY <1>2, <2>2, <2>3, <2>5
  <2> QED BY <2>1, <2>6
<1>8. t \in [0 .. J -> Int]
  BY <1>6, <1>7 DEF ReciprocalStep
<1> QED BY <1>6, <1>8 DEF t

\* The recursion of truncated_binomial_row.
BinomialStep(e, J, m, inv, g) ==
  [j \in 0 .. Smaller(e, J) |->
     IF j = 0 THEN 1
     ELSE (((g[j - 1] * ((e - j + 1) % m)) % m) * inv[j]) % m]

\* A row satisfies its recursion, in integers.
LEMMA BinomialFacts ==
  ASSUME NEW e \in Nat, NEW J \in Nat, NEW m \in Nat \ {0}, NEW inv \in [0 .. J -> Int]
  PROVE  /\ IsRow(BinomialRow(e, J, m, inv), e, J)
         /\ BinomialRow(e, J, m, inv) = BinomialStep(e, J, m, inv, BinomialRow(e, J, m, inv))
<1> DEFINE N == Smaller(e, J)
           D == 0 .. N
           G == [g \in [D -> Int] |-> BinomialStep(e, J, m, inv, g)]
           rank == [j \in D |-> j]
           t == BinomialRow(e, J, m, inv)
<1>1. N \in Nat /\ N <= J /\ N <= e
  BY DEF Smaller
<1> HIDE DEF N
<1>2. ASSUME NEW j \in D, NEW v \in Int
      PROVE  (((v * ((e - j + 1) % m)) % m) * inv[j]) % m \in Int
  <2>1. PICK a \in Int : a = (e - j + 1) % m
    BY <1>1
  <2>2. PICK b \in Int : b = (v * a) % m
    <3>1. v * a \in Int
      BY <2>1
    <3> QED BY <3>1
  <2>3. inv[j] \in Int
    BY <1>1
  <2>4. PICK c \in Int : c = b * inv[j]
    BY <2>2, <2>3
  <2> QED BY <2>1, <2>2, <2>4
<1>3. Recurses(D, Int, N, rank, G)
  <2>1. ASSUME NEW g \in [D -> Int] PROVE BinomialStep(e, J, m, inv, g) \in [D -> Int]
    <3> DEFINE b == BinomialStep(e, J, m, inv, g)
    <3>1. b = [j \in D |-> b[j]]
      BY DEF BinomialStep, N
    <3>2. ASSUME NEW j \in D PROVE b[j] \in Int
      <4>1. CASE j = 0
        BY <4>1 DEF BinomialStep, N
      <4>2. CASE j # 0
        <5>1. g[j - 1] \in Int
          BY <1>1, <4>2
        <5>2. b[j] = (((g[j - 1] * ((e - j + 1) % m)) % m) * inv[j]) % m
          BY <4>2 DEF BinomialStep, N
        <5> QED BY <1>2, <5>1, <5>2
      <4> QED BY <4>1, <4>2
    <3>3. PICK c : c = b
      OBVIOUS
    <3>4. c = [j \in D |-> c[j]] /\ \A j \in D : c[j] \in Int
      BY <3>1, <3>2, <3>3
    <3>5. c \in [D -> Int]
      <4> HIDE DEF b
      <4> QED BY <3>4
    <3> QED BY <3>3, <3>5
  <2>2. G \in [[D -> Int] -> [D -> Int]]
    BY <2>1
  <2>3. ASSUME NEW g \in [D -> Int], NEW h \in [D -> Int], NEW j \in D,
               \A i \in D : rank[i] < rank[j] => g[i] = h[i]
        PROVE  G[g][j] = G[h][j]
    <3>1. j # 0 => g[j - 1] = h[j - 1]
      BY <1>1, <2>3
    <3> QED BY <3>1 DEF BinomialStep, N
  <2>4. rank \in [D -> 0 .. N]
    OBVIOUS
  <2>5. Int # {} /\ N \in Nat
    BY <1>1
  <2> HIDE DEF G, rank, D
  <2> QED BY <2>2, <2>3, <2>4, <2>5 DEF Recurses
<1>4. PICK g \in [D -> Int] : g = BinomialStep(e, J, m, inv, g)
  <2>1. \E g \in [D -> Int] : g = G[g]
    <3> HIDE DEF G, rank, D
    <3> QED BY <1>3, RecursionHasSolution
  <2> QED BY <2>1
<1>5. t = (CHOOSE h : h = BinomialStep(e, J, m, inv, h))
  BY DEF BinomialRow, BinomialStep
<1>6. t = BinomialStep(e, J, m, inv, t)
  <2> HIDE DEF t
  <2> QED BY <1>4, <1>5
<1> HIDE DEF t
<1> DEFINE T == {j \in Nat : j <= N => t[j] \in Int}
<1>7. 0 \in T
  <2>1. BinomialStep(e, J, m, inv, t)[0] = 1
    BY <1>1 DEF BinomialStep, N
  <2> QED BY <1>6, <2>1
<1>8. ASSUME NEW j \in Nat, j \in T PROVE j + 1 \in T
  <2> SUFFICES ASSUME j + 1 <= N PROVE t[j + 1] \in Int
    OBVIOUS
  <2>1. PICK i \in D : i = j + 1 /\ i # 0 /\ i - 1 = j
    BY <1>1
  <2>2. t[i - 1] \in Int
    <3>1. j <= N
      BY <1>1
    <3>2. t[j] \in Int
      BY <1>8, <3>1
    <3> QED BY <2>1, <3>2
  <2>3. BinomialStep(e, J, m, inv, t)[i] = (((t[i - 1] * ((e - i + 1) % m)) % m) * inv[i]) % m
    BY <2>1 DEF BinomialStep, N
  <2>4. (((t[i - 1] * ((e - i + 1) % m)) % m) * inv[i]) % m \in Int
    BY <1>2, <2>2
  <2> QED BY <1>6, <2>1, <2>3, <2>4
<1>9. \A j \in Nat : j \in T
  <2> HIDE DEF T
  <2> QED BY <1>7, <1>8, SetOfAllNaturals
<1>10. t \in [0 .. N -> Int]
  <2>1. \A j \in 0 .. N : t[j] \in Int
    BY <1>9
  <2>2. t = [j \in 0 .. N |-> t[j]]
    <3>1. BinomialStep(e, J, m, inv, t) = [j \in 0 .. N |-> BinomialStep(e, J, m, inv, t)[j]]
      BY DEF BinomialStep, N
    <3> QED BY <1>6, <3>1
  <2> QED BY <2>1, <2>2
<1> QED BY <1>6, <1>10 DEF t, N, IsRow

\* A row that begins as those of Pascal's triangle do.
Begins(r, s, m) == r[0] = 1 /\ Same(r[1], s, m)

\* The rows of the program begin that way.
LEMMA NativeRowsFacts ==
  ASSUME NEW J \in Nat, J >= 1, NEW m \in Nat, m >= 3
  PROVE  /\ Rows(NativeRows(J, m), J)
         /\ \A s \in Nat : s >= 1 => Begins(NativeRows(J, m)[s], s, m)
<1> DEFINE inv == ModularInverses(J, m)
<1>1. inv \in [0 .. J -> Int] /\ inv = ReciprocalStep(J, m, inv)
  BY ReciprocalFacts
<1>2. inv[1] = 1
  <2>1. ReciprocalStep(J, m, inv)[1] = 1
    BY DEF ReciprocalStep
  <2> QED BY <1>1, <2>1
<1>3. \A s \in Nat : NativeRows(J, m)[s] = BinomialRow(s, J, m, inv)
  BY DEF NativeRows
<1> HIDE DEF inv
<1>4. ASSUME NEW s \in Nat
      PROVE  /\ IsRow(BinomialRow(s, J, m, inv), s, J)
             /\ BinomialRow(s, J, m, inv) = BinomialStep(s, J, m, inv, BinomialRow(s, J, m, inv))
  BY <1>1, BinomialFacts
<1>5. ASSUME NEW s \in Nat, s >= 1 PROVE Begins(BinomialRow(s, J, m, inv), s, m)
  <2>1. PICK r : r = BinomialRow(s, J, m, inv)
    OBVIOUS
  <2>2. r = BinomialStep(s, J, m, inv, r)
    BY <1>4, <2>1
  <2>3. 0 \in 0 .. Smaller(s, J) /\ 1 \in 0 .. Smaller(s, J)
    BY <1>5 DEF Smaller
  <2>4. BinomialStep(s, J, m, inv, r)[0] = 1
    BY <2>3 DEF BinomialStep
  <2>5. BinomialStep(s, J, m, inv, r)[1] = (((r[0] * ((s - 1 + 1) % m)) % m) * inv[1]) % m
    BY <2>3 DEF BinomialStep
  <2>6. r[0] = 1 /\ r[1] = (((1 * ((s - 1 + 1) % m)) % m) * 1) % m
    BY <1>2, <2>2, <2>4, <2>5
  <2>7. PICK a \in 0 .. m - 1 : a = s % m
    BY SameAsRest
  <2>8. s - 1 + 1 = s /\ 1 * a = a /\ a * 1 = a
    BY <2>7
  <2>9. a % m = a
    BY <2>7
  <2>10. r[1] = a
    BY <2>6, <2>7, <2>8, <2>9
  <2>11. Same(a, s, m)
    BY <2>7, SameAsRest
  <2> QED BY <2>1, <2>6, <2>10, <2>11 DEF Begins
<1> QED BY <1>3, <1>4, <1>5 DEF Rows

(* --------------------------------- sums -------------------------------- *)

\* The terms of one sum and a multiple of another's.
Combines(h, f, g, c, S) == \A x \in S : h[x] = f[x] + c * g[x]

\* Their sum is that of the sums.
LEMMA SumOfCombined ==
  ASSUME NEW S, NEW f, Summable(f, S), NEW g, Summable(g, S), NEW c \in Int,
         NEW h, Combines(h, f, g, c, S)
  PROVE  SumOver(h, S) = SumOver(f, S) + c * SumOver(g, S) /\ Summable(h, S)
<1>1. ASSUME NEW x \in S PROVE h[x] = f[x] + c * g[x] /\ h[x] \in Int
  <2>1. PICK u \in Int, v \in Int : u = f[x] /\ v = g[x]
    BY DEF Summable
  <2>2. h[x] = u + c * v
    BY <2>1 DEF Combines
  <2> QED BY <2>1, <2>2
<1>2. Summable(h, S)
  BY <1>1 DEF Summable
<1> DEFINE F == {s \in SUBSET S : SumOver(h, s) = SumOver(f, s) + c * SumOver(g, s)}
<1>3. \A s \in SUBSET S : (\A u \in SUBSET s : u # s => u \in F) => s \in F
  <2> SUFFICES ASSUME NEW s \in SUBSET S, \A u \in SUBSET s : u # s => u \in F
               PROVE  SumOver(h, s) = SumOver(f, s) + c * SumOver(g, s)
    OBVIOUS
  <2>1. CASE s = {}
    <3>1. SumOver(h, s) = 0 /\ SumOver(f, s) = 0 /\ SumOver(g, s) = 0
      BY <2>1, SumOfNone
    <3> QED BY <3>1
  <2>2. CASE s # {}
    <3>1. PICK a \in s : TRUE
      BY <2>2
    <3> DEFINE u == s \ {a}
    <3>2. u \in SUBSET s /\ u # s /\ u \in SUBSET S
      BY <3>1
    <3>3. SumOver(h, u) = SumOver(f, u) + c * SumOver(g, u)
      BY <3>2
    <3>4. Summable(f, s) /\ Summable(g, s) /\ Summable(h, s)
      BY <1>2, SummableSubset
    <3>5. /\ SumOver(f, s) = f[a] + SumOver(f, u)
          /\ SumOver(g, s) = g[a] + SumOver(g, u)
          /\ SumOver(h, s) = h[a] + SumOver(h, u)
      BY <3>1, <3>4, SumWithout
    <3>6. SumOver(f, u) \in Int /\ SumOver(g, u) \in Int /\ f[a] \in Int /\ g[a] \in Int
      BY <3>1, <3>2, SummableSubset, SumType DEF Summable
    <3>7. h[a] = f[a] + c * g[a]
      BY <1>1, <3>1
    <3> HIDE DEF u
    <3>8. PICK p \in Int, q \in Int, v \in Int, w \in Int :
            p = SumOver(f, u) /\ q = SumOver(g, u) /\ v = f[a] /\ w = g[a]
      BY <3>6
    <3>9. SumOver(h, s) = (v + c * w) + (p + c * q)
      BY <3>3, <3>5, <3>7, <3>8
    <3>10. (v + c * w) + (p + c * q) = (v + p) + c * (w + q)
      OBVIOUS
    <3> QED BY <3>5, <3>8, <3>9, <3>10
  <2> QED BY <2>1, <2>2
<1>4. \A s \in SUBSET S : s \in F
  <2> HIDE DEF F
  <2> QED BY <1>3, SubsetInduction DEF Summable
<1>5. SumOver(h, S) = SumOver(f, S) + c * SumOver(g, S)
  BY <1>4
<1> QED BY <1>2, <1>5

\* A table of terms, and its sums by rows and by columns.
TermTable(f, g, S, T) ==
  /\ IsFiniteSet(S) /\ IsFiniteSet(T)
  /\ f \in [S -> [T -> Int]]
  /\ g \in [T -> [S -> Int]]
  /\ \A x \in S : \A y \in T : g[y][x] = f[x][y]

Sums(a, f, S, T) == \A x \in S : a[x] = SumOver(f[x], T)

\* The sums of the rows and the sums of the columns have the same sum.
LEMMA SumOfTable ==
  ASSUME NEW f, NEW g, NEW S, NEW T, TermTable(f, g, S, T),
         NEW a, Sums(a, f, S, T), NEW b, Sums(b, g, T, S)
  PROVE  SumOver(a, S) = SumOver(b, T) /\ Summable(a, S) /\ Summable(b, T)
<1>1. ASSUME NEW x \in S PROVE Summable(f[x], T) /\ a[x] = SumOver(f[x], T) /\ a[x] \in Int
  <2>1. Summable(f[x], T)
    BY DEF TermTable, Summable
  <2> QED BY <2>1, SumType DEF Sums
<1>2. ASSUME NEW y \in T PROVE Summable(g[y], S) /\ b[y] = SumOver(g[y], S) /\ b[y] \in Int
  <2>1. Summable(g[y], S)
    BY DEF TermTable, Summable
  <2> QED BY <2>1, SumType DEF Sums
<1>3. Summable(a, S) /\ Summable(b, T)
  BY <1>1, <1>2 DEF Summable, TermTable
<1> DEFINE B(s) == [y \in T |-> SumOver(g[y], s)]
           F == {s \in SUBSET S : SumOver(a, s) = SumOver(B(s), T)}
<1>4. ASSUME NEW s \in SUBSET S PROVE Summable(B(s), T)
  <2>1. ASSUME NEW y \in T PROVE SumOver(g[y], s) \in Int
    BY <1>2, SummableSubset, SumType
  <2> QED BY <2>1 DEF Summable, TermTable
<1>5. \A s \in SUBSET S : (\A u \in SUBSET s : u # s => u \in F) => s \in F
  <2> SUFFICES ASSUME NEW s \in SUBSET S, \A u \in SUBSET s : u # s => u \in F
               PROVE  SumOver(a, s) = SumOver(B(s), T)
    OBVIOUS
  <2>1. CASE s = {}
    <3>1. SumOver(a, s) = 0
      BY <2>1, SumOfNone
    <3>2. \A y \in T : B(s)[y] = 0
      BY <2>1, SumOfNone
    <3>3. SumOver(B(s), T) = 0
      <4> HIDE DEF B
      <4> QED BY <3>2, SumOfZeros DEF TermTable
    <3> QED BY <3>1, <3>3
  <2>2. CASE s # {}
    <3>1. PICK x \in s : TRUE
      BY <2>2
    <3> DEFINE u == s \ {x}
    <3>2. u \in SUBSET s /\ u # s /\ u \in SUBSET S
      BY <3>1
    <3>3. SumOver(a, u) = SumOver(B(u), T)
      BY <3>2
    <3>4. SumOver(a, s) = a[x] + SumOver(a, u)
      <4>1. Summable(a, s)
        BY <1>3, SummableSubset
      <4> QED BY <3>1, <4>1, SumWithout
    <3>5. ASSUME NEW y \in T PROVE B(s)[y] = f[x][y] + 1 * B(u)[y]
      <4>1. Summable(g[y], s)
        BY <1>2, SummableSubset
      <4>2. SumOver(g[y], s) = g[y][x] + SumOver(g[y], u)
        BY <3>1, <4>1, SumWithout
      <4>3. g[y][x] = f[x][y]
        BY <3>1 DEF TermTable
      <4>4. SumOver(g[y], u) \in Int
        BY <1>2, <3>2, SummableSubset, SumType
      <4> HIDE DEF u
      <4> QED BY <4>2, <4>3, <4>4
    <3>6. Combines(B(s), f[x], B(u), 1, T)
      BY <3>5 DEF Combines
    <3>7. Summable(f[x], T) /\ Summable(B(u), T) /\ a[x] = SumOver(f[x], T) /\ a[x] \in Int
      BY <1>1, <1>4, <3>1, <3>2
    <3>8. SumOver(B(s), T) = SumOver(f[x], T) + 1 * SumOver(B(u), T)
      <4> HIDE DEF B, u
      <4> QED BY <3>6, <3>7, SumOfCombined
    <3>9. SumOver(B(u), T) \in Int
      <4> HIDE DEF B, u
      <4> QED BY <3>7, SumType
    <3> HIDE DEF B, u
    <3> QED BY <3>3, <3>4, <3>7, <3>8, <3>9
  <2> QED BY <2>1, <2>2
<1>6. SumOver(a, S) = SumOver(B(S), T)
  <2>1. \A s \in SUBSET S : s \in F
    <3> HIDE DEF F
    <3> QED BY <1>5, SubsetInduction DEF TermTable
  <2> QED BY <2>1
<1>7. SumOver(B(S), T) = SumOver(b, T)
  <2>1. \A y \in T : B(S)[y] = b[y]
    BY <1>2
  <2> HIDE DEF B
  <2> QED BY <1>3, <2>1, SumEqual
<1> HIDE DEF B
<1> QED BY <1>3, <1>6, <1>7

(* ------------------------------- transport ----------------------------- *)

\* A divisor of an order, as the order of a quotient.
DividesInto(n, t) == n \in Nat /\ n >= 2 /\ t \in Nat /\ t >= 2 /\ n % t = 0

\* The indices that fold onto s.
FiberOf(n, t, s) == {i \in Column(n) : i % t = s}

\* Reducing by a multiple of t changes nothing modulo t.
LEMMA RestOfMultiple ==
  ASSUME NEW n, NEW t, DividesInto(n, t), NEW x \in Int
  PROVE  Same(x % n, x, t)
<1>1. n \in Nat \ {0} /\ t \in Nat \ {0}
  BY DEF DividesInto
<1>2. PICK q \in Int : n = q * t
  <2>1. n % t \in 0 .. t - 1 /\ Same(n, n % t, t)
    BY <1>1, SameAsRest
  <2>2. Same(n, 0, t)
    BY <2>1 DEF DividesInto
  <2> QED BY <1>1, <2>2 DEF Same
<1>3. Same(x % n, x, n) /\ x % n \in Int
  BY <1>1, SameAsRest
<1>4. PICK v \in Int : x % n = x + v * n
  BY <1>3 DEF Same
<1>5. x % n = x + (v * q) * t
  BY <1>2, <1>4, <1>1
<1>6. v * q \in Int
  OBVIOUS
<1> QED BY <1>5, <1>6 DEF Same

\* The terms of a shifted column over a fiber.
ShiftedColumn(c, n, s, F) == [i \in F |-> c[(i - s) % n]]

\* A shift moves a fiber onto the fiber of the shifted index.
LEMMA FiberShift ==
  ASSUME NEW n, NEW t, DividesInto(n, t), NEW s \in Nat, NEW i \in Column(t), NEW c
  PROVE  Matches(ShiftedColumn(c, n, s, FiberOf(n, t, i)), FiberOf(n, t, i),
                 c, FiberOf(n, t, (i - s) % t), [u \in FiberOf(n, t, i) |-> (u - s) % n])
<1> DEFINE F == FiberOf(n, t, i)
           e == (i - s) % t
           b == [u \in F |-> (u - s) % n]
<1>1. n \in Nat \ {0} /\ t \in Nat \ {0} /\ i \in Int /\ e \in Column(t)
  <2>1. n \in Nat \ {0} /\ t \in Nat \ {0} /\ i \in Int
    BY DEF DividesInto, Column
  <2>2. i - s \in Int
    BY <2>1
  <2> QED BY <2>1, <2>2, IndexWraps
<1>2. ASSUME NEW u \in F PROVE u \in Column(n) /\ u \in Int /\ u \in 0 .. n - 1 /\ u % t = i /\ Same(u, i, t)
  <2>1. u \in Column(n) /\ u \in Int /\ u % t = i /\ u \in 0 .. n - 1
    BY DEF FiberOf, Column
  <2>2. Same(u, u % t, t)
    BY <1>1, <2>1, SameAsRest
  <2> QED BY <2>1, <2>2
<1>3. ASSUME NEW u \in F PROVE (u - s) % n \in FiberOf(n, t, e)
  <2>1. u \in Int /\ Same(u, i, t) /\ (u - s) \in Int
    BY <1>2
  <2>2. PICK w \in Int : w = (u - s) % n
    BY <1>1, <2>1
  <2>3. w \in Column(n)
    BY <1>1, <2>1, <2>2, IndexWraps
  <2>4. Same(w, u - s, t)
    BY <2>1, <2>2, RestOfMultiple
  <2>5. Same(u - s, i - s, t)
    <3>1. PICK v \in Int : u = i + v * t
      BY <2>1 DEF Same
    <3>2. u - s = (i - s) + v * t
      BY <1>1, <3>1
    <3> QED BY <3>2 DEF Same
  <2>6. Same(w, i - s, t)
    <3>1. u - s \in Int /\ i - s \in Int /\ t \in Int
      BY <1>1, <2>1
    <3> QED BY <2>2, <2>4, <2>5, <3>1, SameIsTransitive
  <2>7. w % t = e
    <3>1. i - s \in Int
      BY <1>1
    <3> QED BY <1>1, <2>2, <2>6, <3>1, RestsOfSame
  <2> QED BY <2>2, <2>3, <2>7 DEF FiberOf
<1>4. ASSUME NEW u \in F, NEW w \in F, (u - s) % n = (w - s) % n PROVE u = w
  <2>1. u \in 0 .. n - 1 /\ w \in 0 .. n - 1
    BY <1>2
  <2>2. PICK x \in Int, y \in Int : x = u - s /\ y = w - s
    BY <2>1
  <2>3. Same(x, x % n, n) /\ Same(y % n, y, n) /\ x % n \in Int /\ x % n = y % n
    <3>1. Same(x, x % n, n) /\ Same(y % n, y, n) /\ x % n \in 0 .. n - 1
      BY <1>1, SameAsRest
    <3>2. x % n = y % n
      BY <1>4, <2>2
    <3> QED BY <1>1, <3>1, <3>2
  <2>4. Same(x, y, n)
    BY <1>1, <2>2, <2>3, SameIsTransitive
  <2>5. Same(u, w, n)
    <3>1. PICK v \in Int : x = y + v * n
      BY <2>4 DEF Same
    <3>2. u = w + v * n
      BY <2>1, <2>2, <3>1, <1>1
    <3> QED BY <3>2 DEF Same
  <2> QED BY <1>1, <2>1, <2>5, SameOfSmall
<1>5. ASSUME NEW w \in FiberOf(n, t, e) PROVE \E u \in F : (u - s) % n = w
  <2>1. w \in Column(n) /\ w \in 0 .. n - 1 /\ w \in Int /\ w % t = e
    BY <1>5 DEF FiberOf, Column
  <2>2. PICK u \in Int : u = (w + s) % n
    BY <1>1, <2>1
  <2>3. u \in Column(n)
    <3>1. w + s \in Int
      BY <2>1
    <3> QED BY <1>1, <2>2, <3>1, IndexWraps
  <2>4. Same(u, w + s, n) /\ Same(u, w + s, t)
    <3>1. w + s \in Int
      BY <2>1
    <3> QED BY <1>1, <2>2, <3>1, SameAsRest, RestOfMultiple
  <2>5. (u - s) % n = w
    <3>1. PICK v \in Int : u = (w + s) + v * n
      BY <2>4 DEF Same
    <3>2. u - s = w + v * n
      BY <1>1, <2>1, <3>1
    <3>3. Same(u - s, w, n) /\ u - s \in Int
      BY <3>2 DEF Same
    <3> QED BY <1>1, <2>1, <3>3, RestIsSmall
  <2>6. u % t = i
    <3>1. Same(w, w % t, t) /\ Same(e, i - s, t)
      <4>1. i - s \in Int
        BY <1>1
      <4> QED BY <1>1, <2>1, <4>1, SameAsRest
    <3>2. PICK x \in Int : u = (w + s) + x * t
      BY <2>4 DEF Same
    <3>3. PICK y \in Int : w = e + y * t
      BY <2>1, <3>1 DEF Same
    <3>4. PICK z \in Int : e = (i - s) + z * t
      BY <3>1 DEF Same
    <3>5. u = i + (x + y + z) * t
      <4>1. u = (((i - s) + z * t) + y * t + s) + x * t
        BY <3>2, <3>3, <3>4
      <4>2. (((i - s) + z * t) + y * t + s) + x * t = i + (x + y + z) * t
        BY <1>1
      <4> QED BY <4>1, <4>2
    <3>6. Same(u, i, t)
      BY <3>5 DEF Same
    <3>7. i \in 0 .. t - 1
      BY DEF Column
    <3> QED BY <1>1, <3>6, <3>7, RestIsSmall
  <2>7. u \in F
    BY <2>3, <2>6 DEF FiberOf
  <2> QED BY <2>5, <2>7
<1>6. b \in [F -> FiberOf(n, t, e)]
  BY <1>3
<1>7. \A u, w \in F : b[u] = b[w] => u = w
  BY <1>4
<1>8. \A w \in FiberOf(n, t, e) : \E u \in F : b[u] = w
  BY <1>5
<1>9. \A u \in F : c[b[u]] = ShiftedColumn(c, n, s, F)[u]
  BY DEF ShiftedColumn
<1> HIDE DEF F, e, b
<1>10. Matches(ShiftedColumn(c, n, s, F), F, c, FiberOf(n, t, e), b)
  BY <1>6, <1>7, <1>8, <1>9 DEF Matches
<1> QED BY <1>10 DEF F, e, b

\* The fibers are finite, and a column is summable over them.
LEMMA FiberFacts ==
  ASSUME NEW n, NEW t, DividesInto(n, t), NEW m \in Nat, NEW c \in Columns(n, m), NEW i
  PROVE  /\ FiberOf(n, t, i) \subseteq Column(n)
         /\ IsFiniteSet(FiberOf(n, t, i))
         /\ Summable(c, FiberOf(n, t, i))
<1>1. IsFiniteSet(Column(n))
  <2>1. n - 1 \in Int
    BY DEF DividesInto
  <2> QED BY <2>1, FS_Interval DEF Column
<1>2. FiberOf(n, t, i) \subseteq Column(n)
  BY DEF FiberOf
<1>3. IsFiniteSet(FiberOf(n, t, i))
  BY <1>1, <1>2, FS_Subset
<1>4. \A u \in FiberOf(n, t, i) : c[u] \in Int
  BY <1>2 DEF Columns, Residues
<1> QED BY <1>2, <1>3, <1>4 DEF Summable

\* The tensor p is the tensor g folded onto the order t.
Folded(p, g, n, t, J, m) ==
  \A d \in 0 .. J : \A i \in Column(t) : p[d][i] = SumOver(g[d], FiberOf(n, t, i)) % m

\* A folded tensor is what PushforwardGerm returns.
LEMMA FoldedIs ==
  ASSUME NEW n, NEW t, NEW J, NEW m, NEW g \in JetTensors(n, J, m), NEW p \in JetTensors(t, J, m),
         Folded(p, g, n, t, J, m)
  PROVE  PushforwardGerm(g, n, t, m) = p
<1>1. DOMAIN g = 0 .. J /\ p = [d \in 0 .. J |-> p[d]]
  BY DEF JetTensors
<1>2. ASSUME NEW d \in 0 .. J PROVE PushforwardColumn(g[d], n, t, m) = p[d]
  <2>1. PushforwardColumn(g[d], n, t, m)
          = [i \in Column(t) |-> SumOver(g[d], FiberOf(n, t, i)) % m]
    BY DEF PushforwardColumn, SumOver, FiberOf
  <2>2. p[d] = [i \in Column(t) |-> p[d][i]]
    BY DEF JetTensors, Columns
  <2>3. \A i \in Column(t) : p[d][i] = SumOver(g[d], FiberOf(n, t, i)) % m
    BY DEF Folded
  <2> QED BY <2>1, <2>2, <2>3
<1>3. PushforwardGerm(g, n, t, m) = [d \in 0 .. J |-> PushforwardColumn(g[d], n, t, m)]
  BY <1>1 DEF PushforwardGerm
<1>4. PushforwardGerm(g, n, t, m) = [d \in 0 .. J |-> p[d]]
  BY <1>2, <1>3
<1> QED BY <1>1, <1>4

\* The tensors before the first factor fold onto each other.
LEMMA UnitFolds ==
  ASSUME NEW n, NEW t, DividesInto(n, t), NEW J, NEW m, Shape(n, J, m), Shape(t, J, m)
  PROVE  Folded(UnitTensor(t, J), UnitTensor(n, J), n, t, J, m)
<1> SUFFICES ASSUME NEW d \in 0 .. J, NEW i \in Column(t)
             PROVE  UnitTensor(t, J)[d][i] = SumOver(UnitTensor(n, J)[d], FiberOf(n, t, i)) % m
  BY DEF Folded
<1> DEFINE F == FiberOf(n, t, i)
<1>1. PICK c \in Columns(n, m) : c = UnitTensor(n, J)[d]
  BY UnitTensorFacts DEF JetTensors
<1>2. \A u \in Column(n) : c[u] = (IF d = 0 /\ u = 0 THEN 1 ELSE 0)
  BY <1>1, UnitTensorFacts
<1>3. UnitTensor(t, J)[d][i] = (IF d = 0 /\ i = 0 THEN 1 ELSE 0)
  BY UnitTensorFacts
<1>4. F \subseteq Column(n) /\ IsFiniteSet(F) /\ Summable(c, F)
  <2>1. m \in Nat
    BY DEF Shape
  <2> QED BY <2>1, FiberFacts
<1>5. 0 % t = 0 /\ 0 % m = 0 /\ 1 % m = 1
  BY DEF DividesInto, Shape
<1>6. 0 \in Column(n) /\ \A u \in F : u % t = i
  BY DEF Column, DividesInto, FiberOf
<1>7. CASE d = 0 /\ i = 0
  <2>1. 0 \in F
    BY <1>5, <1>6, <1>7 DEF FiberOf
  <2>2. SumOver(c, F) = c[0] + SumOver(c, F \ {0})
    BY <1>4, <2>1, SumWithout
  <2>3. SumOver(c, F \ {0}) = 0
    <3>1. IsFiniteSet(F \ {0}) /\ \A u \in F \ {0} : c[u] = 0
      <4>1. F \ {0} \subseteq F
        OBVIOUS
      <4> HIDE DEF F
      <4> QED BY <1>2, <1>4, <4>1, FS_Subset
    <3> HIDE DEF F
    <3> QED BY <3>1, SumOfZeros
  <2>4. c[0] = 1
    BY <1>2, <1>6, <1>7
  <2> QED BY <1>1, <1>3, <1>5, <1>7, <2>2, <2>3, <2>4
<1>8. CASE ~(d = 0 /\ i = 0)
  <2>1. \A u \in F : c[u] = 0
    BY <1>2, <1>4, <1>5, <1>6, <1>8
  <2>2. SumOver(c, F) = 0
    <3> HIDE DEF F
    <3> QED BY <1>4, <2>1, SumOfZeros
  <2> QED BY <1>1, <1>3, <1>5, <1>8, <2>2
<1> QED BY <1>7, <1>8

\* The terms an index of the tensor takes away, as a table: a row for every
\* index of a fiber, a column for every lag.
Taken(g, n, r, d, s, F) == [i \in F |-> Lag(g, r, d, (i - s) % n)]

Columnwise(f, S, T) == [y \in T |-> [x \in S |-> f[x][y]]]

\* A factor and its fold commute at an index.
LEMMA FactorFoldsAt ==
  ASSUME NEW n, NEW t, DividesInto(n, t), NEW J, NEW m, Shape(n, J, m), Shape(t, J, m),
         NEW g \in JetTensors(n, J, m), NEW p \in JetTensors(t, J, m), Folded(p, g, n, t, J, m),
         NEW s \in Nat, NEW r, IsRow(r, s, J), NEW d \in 0 .. J, NEW i \in Column(t)
  PROVE  ApplyFactor(p, t, J, m, r, s)[d][i]
           = SumOver(ApplyFactor(g, n, J, m, r, s)[d], FiberOf(n, t, i)) % m
<1> DEFINE F == FiberOf(n, t, i)
           e == (i - s) % t
           E == FiberOf(n, t, e)
           T == Lags(r, d)
           f == Taken(g, n, r, d, s, F)
           h == Columnwise(f, F, T)
           a == [u \in F |-> SumOver(f[u], T)]
           b == [j \in T |-> SumOver(h[j], F)]
           l == Lag(p, r, d, e)
<1>0. n \in Nat /\ J \in Nat /\ m \in Nat /\ t \in Nat /\ m \in Nat \ {0} /\ m \in Int
  BY DEF Shape
<1>1. PICK q \in JetTensors(n, J, m) : q = ApplyFactor(g, n, J, m, r, s)
  BY FactorIs
<1>2. /\ e \in Column(t)
      /\ p[d][i] \in Residues(m)
      /\ SumOver(l, T) \in Int
      /\ ApplyFactor(p, t, J, m, r, s)[d][i] = (p[d][i] - SumOver(l, T)) % m
  BY FactorIs
<1>3. Summable(l, T)
  BY <1>0, <1>2, LagIsSummable
<1>4. IsFiniteSet(T) /\ \A j \in T : j \in Nat /\ j <= d /\ d - j \in 0 .. J /\ r[j] \in Int
  BY <1>0, LagsFacts
<1>5. /\ F \subseteq Column(n) /\ IsFiniteSet(F)
      /\ \A x \in 0 .. J : Summable(g[x], F) /\ Summable(g[x], E) /\ Summable(q[x], F)
  <2>1. \A x \in 0 .. J : g[x] \in Columns(n, m) /\ q[x] \in Columns(n, m)
    BY DEF JetTensors
  <2>2. \A x \in 0 .. J : Summable(g[x], F) /\ Summable(g[x], E) /\ Summable(q[x], F)
    BY <1>0, <2>1, FiberFacts
  <2>3. F \subseteq Column(n) /\ IsFiniteSet(F)
    <3>1. 0 \in 0 .. J
      BY <1>0
    <3> QED BY <1>0, <2>1, <3>1, FiberFacts
  <2> QED BY <2>2, <2>3
<1>6. ASSUME NEW u \in F
      PROVE  /\ f[u] = Lag(g, r, d, (u - s) % n) /\ f[u] \in [T -> Int]
             /\ a[u] = SumOver(f[u], T) /\ a[u] \in Int
             /\ g[d][u] \in Int
             /\ q[d][u] = (g[d][u] - a[u]) % m
  <2>1. u \in Column(n)
    BY <1>5
  <2>2. f[u] = Lag(g, r, d, (u - s) % n)
    BY DEF Taken
  <2>3. (u - s) % n \in Column(n) /\ g[d][u] \in Residues(m)
        /\ SumOver(Lag(g, r, d, (u - s) % n), T) \in Int
        /\ ApplyFactor(g, n, J, m, r, s)[d][u] = (g[d][u] - SumOver(Lag(g, r, d, (u - s) % n), T)) % m
    BY <2>1, FactorIs
  <2>4. PICK v \in Column(n) : v = (u - s) % n
    BY <2>3
  <2>5. Lag(g, r, d, v) \in [T -> Int]
    <3>1. Summable(Lag(g, r, d, v), T)
      BY <1>0, LagIsSummable
    <3> QED BY <3>1 DEF Summable, Lag
  <2>6. g[d][u] \in Int
    BY <2>3 DEF Residues
  <2> QED BY <1>1, <2>2, <2>3, <2>4, <2>5, <2>6
<1>7. ASSUME NEW j \in T
      PROVE  /\ h[j] \in [F -> Int] /\ \A u \in F : h[j][u] = f[u][j]
             /\ \A u \in F : f[u][j] = g[d - j][(u - s) % n] * r[j]
             /\ b[j] = SumOver(h[j], F)
  <2>1. \A u \in F : f[u][j] \in Int
    BY <1>6
  <2>2. \A u \in F : f[u][j] = g[d - j][(u - s) % n] * r[j]
    BY DEF Taken, Lag
  <2> QED BY <2>1, <2>2 DEF Columnwise
<1>8. TermTable(f, h, F, T)
  <2>1. f \in [F -> [T -> Int]]
    BY <1>6 DEF Taken
  <2>2. h \in [T -> [F -> Int]]
    BY <1>7 DEF Columnwise
  <2> HIDE DEF f, h, F, T
  <2> QED BY <1>4, <1>5, <1>7, <2>1, <2>2 DEF TermTable
<1>9. SumOver(a, F) = SumOver(b, T) /\ Summable(a, F) /\ Summable(b, T)
  <2>1. Sums(a, f, F, T) /\ Sums(b, h, T, F)
    BY <1>6, <1>7 DEF Sums
  <2> HIDE DEF f, h, F, T, a, b
  <2> QED BY <1>8, <2>1, SumOfTable
<1>10. ASSUME NEW j \in T PROVE Same(b[j], l[j], m)
  <2>1. PICK c \in Columns(n, m) : c = g[d - j]
    BY <1>4 DEF JetTensors
  <2>2. Summable(ShiftedColumn(c, n, s, F), F) /\ SumOver(c, E) = SumOver(ShiftedColumn(c, n, s, F), F)
    <3>1. Matches(ShiftedColumn(c, n, s, F), F, c, E, [u \in F |-> (u - s) % n])
      BY FiberShift
    <3>2. \A u \in F : ShiftedColumn(c, n, s, F)[u] \in Int
      <4>1. ASSUME NEW u \in F PROVE c[(u - s) % n] \in Int
        <5>1. (u - s) % n \in Column(n)
          BY <1>5, FactorIs
        <5> QED BY <5>1 DEF Columns, Residues
      <4> QED BY <4>1 DEF ShiftedColumn
    <3>3. Summable(ShiftedColumn(c, n, s, F), F)
      BY <1>5, <3>2 DEF Summable
    <3> HIDE DEF F, E
    <3> QED BY <3>1, <3>3, SumOfMatching
  <2>3. b[j] = r[j] * SumOver(c, E)
    <3> DEFINE zero == [u \in F |-> 0]
    <3>1. SumOver(zero, F) = 0 /\ Summable(zero, F)
      <4>1. \A u \in F : zero[u] = 0
        OBVIOUS
      <4> HIDE DEF F, zero
      <4> QED BY <1>5, <4>1, SumOfZeros
    <3>2. r[j] \in Int
      BY <1>4
    <3>3. Combines(h[j], zero, ShiftedColumn(c, n, s, F), r[j], F)
      <4> SUFFICES ASSUME NEW u \in F PROVE h[j][u] = zero[u] + r[j] * ShiftedColumn(c, n, s, F)[u]
        BY DEF Combines
      <4>1. h[j][u] = c[(u - s) % n] * r[j]
        BY <1>7, <2>1
      <4>2. ShiftedColumn(c, n, s, F)[u] = c[(u - s) % n] /\ ShiftedColumn(c, n, s, F)[u] \in Int
        BY <2>2 DEF ShiftedColumn, Summable
      <4>3. PICK v \in Int, w \in Int : v = c[(u - s) % n] /\ w = r[j]
        BY <3>2, <4>2
      <4>4. v * w = 0 + w * v
        OBVIOUS
      <4> QED BY <4>1, <4>2, <4>3, <4>4
    <3>4. SumOver(h[j], F) = SumOver(zero, F) + r[j] * SumOver(ShiftedColumn(c, n, s, F), F)
      <4> HIDE DEF h, F, zero
      <4> QED BY <2>2, <3>1, <3>2, <3>3, SumOfCombined
    <3>5. PICK v \in Int, w \in Int : v = SumOver(ShiftedColumn(c, n, s, F), F) /\ w = r[j]
      <4> HIDE DEF F
      <4> QED BY <2>2, <3>2, SumType
    <3> HIDE DEF h, zero, F, E
    <3> QED BY <1>7, <2>2, <3>1, <3>4, <3>5
  <2>4. p[d - j][e] = SumOver(c, E) % m
    BY <1>2, <1>4, <2>1 DEF Folded
  <2>5. PICK v \in Int : v = SumOver(c, E)
    <3>1. Summable(c, E)
      BY <1>4, <1>5, <2>1
    <3> QED BY <3>1, SumType
  <2>6. Same(v, v % m, m) /\ v % m \in Int
    <3>1. Same(v, v % m, m) /\ v % m \in 0 .. m - 1
      BY <1>0, SameAsRest
    <3> QED BY <1>0, <3>1
  <2>7. PICK w \in Int : w = r[j]
    BY <1>4
  <2>8. b[j] = w * v /\ l[j] = (v % m) * w
    BY <2>3, <2>4, <2>5, <2>7 DEF Lag
  <2>9. Same(w * v, w * (v % m), m)
    <3>1. Same(w, w, m)
      BY <1>0, SameIsReflexive
    <3> QED BY <1>0, <2>6, <3>1, SameTimes
  <2>10. PICK x \in Int : x = v % m
    BY <2>6
  <2>11. w * x = x * w
    OBVIOUS
  <2> QED BY <2>8, <2>9, <2>10, <2>11
<1>11. Same(SumOver(b, T), SumOver(l, T), m)
  <2>1. SameTerms(b, l, T, m)
    BY <1>10 DEF SameTerms
  <2> HIDE DEF b, l, T
  <2> QED BY <1>0, <1>3, <1>9, <2>1, SumOfSame
<1>12. Same(SumOver(q[d], F), SumOver(g[d], F) - SumOver(a, F), m)
  <2> DEFINE x == [u \in F |-> g[d][u] + (-1) * a[u]]
  <2>1. Combines(x, g[d], a, -1, F)
    BY DEF Combines
  <2>2. Summable(g[d], F) /\ Summable(q[d], F)
    BY <1>5
  <2>3. SumOver(x, F) = SumOver(g[d], F) + (-1) * SumOver(a, F) /\ Summable(x, F)
    <3>1. -1 \in Int
      OBVIOUS
    <3> HIDE DEF x, a, F
    <3> QED BY <1>9, <2>1, <2>2, <3>1, SumOfCombined
  <2>4. SameTerms(q[d], x, F, m)
    <3> SUFFICES ASSUME NEW u \in F PROVE Same(q[d][u], x[u], m)
      BY DEF SameTerms
    <3>1. PICK v \in Int : v = g[d][u] - a[u]
      BY <1>6
    <3>2. q[d][u] = v % m /\ x[u] = v
      <4>1. q[d][u] = v % m
        BY <1>6, <3>1
      <4>2. PICK y \in Int, z \in Int : y = g[d][u] /\ z = a[u]
        BY <1>6
      <4>3. x[u] = y + (-1) * z
        BY <4>2
      <4> QED BY <3>1, <4>1, <4>2, <4>3
    <3>3. Same(v % m, v, m)
      BY <1>0, SameAsRest
    <3> QED BY <3>2, <3>3
  <2>5. Same(SumOver(q[d], F), SumOver(x, F), m)
    <3> HIDE DEF x, F
    <3> QED BY <1>0, <2>2, <2>3, <2>4, SumOfSame
  <2>6. PICK v \in Int, w \in Int : v = SumOver(g[d], F) /\ w = SumOver(a, F)
    <3> HIDE DEF a, F
    <3> QED BY <1>9, <2>2, SumType
  <2> HIDE DEF x, a, F
  <2> QED BY <2>3, <2>5, <2>6
<1>13. PICK A \in Int, B \in Int, L \in Int, Q \in Int :
         A = SumOver(g[d], F) /\ B = SumOver(b, T) /\ L = SumOver(l, T) /\ Q = SumOver(q[d], F)
  <2>1. Summable(g[d], F) /\ Summable(q[d], F)
    BY <1>5
  <2> HIDE DEF a, b, l, F, T
  <2> QED BY <1>3, <1>9, <2>1, SumType
<1>14. Same(B, L, m) /\ Same(Q, A - B, m)
  BY <1>9, <1>11, <1>12, <1>13
<1>15. p[d][i] = A % m
  BY <1>13 DEF Folded
<1>16. Same((A % m) - L, Q, m) /\ (A % m) - L \in Int
  <2>1. PICK z \in Int : z = A % m
    BY <1>0
  <2>2. Same(z, A, m)
    BY <1>0, <2>1, SameAsRest
  <2>3. PICK x \in Int : z = A + x * m
    BY <2>2 DEF Same
  <2>4. PICK y \in Int : B = L + y * m
    BY <1>14 DEF Same
  <2>5. PICK v \in Int : Q = (A - B) + v * m
    BY <1>14 DEF Same
  <2>6. z - L = Q + (x + y - v) * m
    <3>1. z - L = (A + x * m) - (B - y * m)
      BY <1>0, <2>3, <2>4
    <3>2. (A + x * m) - (B - y * m) = ((A - B) + v * m) + (x + y - v) * m
      BY <1>0
    <3> QED BY <2>5, <3>1, <3>2
  <2>7. x + y - v \in Int /\ z - L \in Int
    OBVIOUS
  <2> QED BY <2>1, <2>6, <2>7 DEF Same
<1>17. ((A % m) - L) % m = Q % m
  BY <1>0, <1>16, RestsOfSame
<1> HIDE DEF F, T, l
<1>18. ApplyFactor(p, t, J, m, r, s)[d][i] = Q % m
  BY <1>2, <1>13, <1>15, <1>17
<1> QED BY <1>1, <1>13, <1>18 DEF F

\* So the tensors that the same rows grow on an order and on a divisor of it
\* fold onto each other after every factor.
LEMMA GrownFolds ==
  ASSUME NEW n, NEW t, DividesInto(n, t), NEW J, NEW m, Shape(n, J, m), Shape(t, J, m),
         NEW R, Rows(R, J), NEW G, Grown(n, J, m, R, G), NEW H, Grown(t, J, m, R, H)
  PROVE  \A s \in Nat : PushforwardGerm(G[s], n, t, m) = H[s]
<1> DEFINE T == {s \in Nat : Folded(H[s], G[s], n, t, J, m)}
<1>1. 0 \in T
  BY UnitFolds DEF Grown
<1>2. ASSUME NEW s \in Nat, s \in T PROVE s + 1 \in T
  <2>1. PICK g \in JetTensors(n, J, m), p \in JetTensors(t, J, m), e \in Nat :
          g = G[s] /\ p = H[s] /\ e = s + 1
    BY DEF Grown
  <2> DEFINE r == R[e]
  <2>2. IsRow(r, e, J) /\ Folded(p, g, n, t, J, m)
    BY <1>2, <2>1 DEF Rows
  <2>3. G[e] = ApplyFactor(g, n, J, m, r, e) /\ H[e] = ApplyFactor(p, t, J, m, r, e)
    BY <2>1 DEF Grown
  <2> HIDE DEF r
  <2>4. Folded(H[e], G[e], n, t, J, m)
    BY <2>2, <2>3, FactorFoldsAt DEF Folded
  <2> QED BY <2>1, <2>4
<1>3. \A s \in Nat : s \in T
  <2> HIDE DEF T
  <2> QED BY <1>1, <1>2, SetOfAllNaturals
<1>4. ASSUME NEW s \in Nat PROVE PushforwardGerm(G[s], n, t, m) = H[s]
  <2>1. G[s] \in JetTensors(n, J, m) /\ H[s] \in JetTensors(t, J, m) /\ Folded(H[s], G[s], n, t, J, m)
    BY <1>3 DEF Grown
  <2> QED BY <2>1, FoldedIs
<1> QED BY <1>4

(* ------------------------------- the germ ------------------------------ *)

\* The program's own tensors, one for each number of factors.
Germs(n, J, m, G) == Grown(n, J, m, NativeRows(J, m), G)

\* They exist.
LEMMA GermsExist ==
  ASSUME NEW n, NEW J, NEW m, Shape(n, J, m)
  PROVE  \E G : Germs(n, J, m, G)
<1>1. Rows(NativeRows(J, m), J)
  BY NativeRowsFacts DEF Shape
<1> QED BY <1>1, GrownExists DEF Germs

\* GermPrefix returns the tensor of its number of factors.
LEMMA GermsAreReturned ==
  ASSUME NEW n, NEW J, NEW m, NEW G, Germs(n, J, m, G)
  PROVE  \A N \in Nat : GermPrefix(n, J, m, N) = G[N]
BY GermPrefixIsTable, TableIsGrown DEF Germs

\* The germs of an order fold onto those of a divisor.
LEMMA GermsFold ==
  ASSUME NEW n, NEW t, DividesInto(n, t), NEW J, NEW m, Shape(n, J, m), Shape(t, J, m),
         NEW G, Germs(n, J, m, G), NEW H, Germs(t, J, m, H)
  PROVE  \A s \in Nat : PushforwardGerm(G[s], n, t, m) = H[s]
<1>1. Rows(NativeRows(J, m), J)
  BY NativeRowsFacts DEF Shape
<1> QED BY <1>1, GrownFolds DEF Germs

(* ------------------------------ truncation ----------------------------- *)

\* A longer table of inverses begins with the shorter one,
LEMMA InversesAgree ==
  ASSUME NEW h \in Nat, NEW J \in Nat, h <= J, NEW m \in Nat \ {0}
  PROVE  \A i \in 0 .. h : ModularInverses(J, m)[i] = ModularInverses(h, m)[i]
<1> DEFINE a == ModularInverses(J, m)
           b == ModularInverses(h, m)
           Bad == {i \in 0 .. h : a[i] # b[i]}
<1>1. a = ReciprocalStep(J, m, a) /\ b = ReciprocalStep(h, m, b)
  BY ReciprocalFacts
<1> HIDE DEF a, b
<1>2. ASSUME NEW i \in 0 .. h
      PROVE  /\ a[i] = IF i < 2 THEN i ELSE (0 - ((m \div i) * a[m % i])) % m
             /\ b[i] = IF i < 2 THEN i ELSE (0 - ((m \div i) * b[m % i])) % m
  <2>1. i \in 0 .. J
    OBVIOUS
  <2>2. ReciprocalStep(J, m, a)[i] = IF i < 2 THEN i ELSE (0 - ((m \div i) * a[m % i])) % m
    BY <2>1 DEF ReciprocalStep
  <2>3. ReciprocalStep(h, m, b)[i] = IF i < 2 THEN i ELSE (0 - ((m \div i) * b[m % i])) % m
    BY DEF ReciprocalStep
  <2> QED BY <1>1, <2>2, <2>3
<1>3. Bad = {}
  <2> SUFFICES ASSUME Bad # {} PROVE FALSE
    OBVIOUS
  <2>1. PICK i \in Bad : \A e \in Bad : i <= e
    <3>1. Bad \subseteq Nat
      OBVIOUS
    <3> HIDE DEF Bad
    <3> QED BY <3>1, LeastNatural
  <2>2. i \in 0 .. h /\ i \in Nat /\ i >= 2
    BY <1>2, <2>1
  <2>3. m % i \in 0 .. i - 1
    <3>1. PICK e \in Nat \ {0} : e = i
      BY <2>2
    <3>2. m % e \in 0 .. e - 1
      BY SameAsRest
    <3> QED BY <3>1, <3>2
  <2>4. m % i \in 0 .. h /\ m % i < i
    BY <2>2, <2>3
  <2>5. a[m % i] = b[m % i]
    BY <2>1, <2>4
  <2>6. a[i] = b[i]
    BY <1>2, <2>2, <2>5
  <2> QED BY <2>1, <2>6
<1> QED BY <1>3 DEF a, b

\* so the row of a factor does,
LEMMA RowsAgree ==
  ASSUME NEW h \in Nat, NEW J \in Nat, h <= J, NEW m \in Nat \ {0}, NEW s \in Nat
  PROVE  /\ IsRow(NativeRows(J, m)[s], s, J) /\ IsRow(NativeRows(h, m)[s], s, h)
         /\ \A j \in 0 .. Smaller(s, h) :
              NativeRows(J, m)[s][j] = NativeRows(h, m)[s][j]
<1> DEFINE a == ModularInverses(J, m)
           b == ModularInverses(h, m)
<1>1. a \in [0 .. J -> Int] /\ b \in [0 .. h -> Int] /\ \A i \in 0 .. h : a[i] = b[i]
  BY ReciprocalFacts, InversesAgree
<1>2. /\ NativeRows(J, m)[s] = BinomialRow(s, J, m, a)
      /\ NativeRows(h, m)[s] = BinomialRow(s, h, m, b)
  BY DEF NativeRows
<1> HIDE DEF a, b
<1>3. PICK f, g : f = BinomialRow(s, J, m, a) /\ g = BinomialRow(s, h, m, b)
  OBVIOUS
<1>4. /\ IsRow(f, s, J) /\ f = BinomialStep(s, J, m, a, f)
      /\ IsRow(g, s, h) /\ g = BinomialStep(s, h, m, b, g)
  BY <1>1, <1>3, BinomialFacts
<1> DEFINE T == {j \in Nat : j <= Smaller(s, h) => f[j] = g[j]}
<1>5. ASSUME NEW j \in 0 .. Smaller(s, h)
      PROVE  /\ j \in 0 .. Smaller(s, J) /\ j \in 0 .. h
             /\ f[j] = (IF j = 0 THEN 1
                        ELSE (((f[j - 1] * ((s - j + 1) % m)) % m) * a[j]) % m)
             /\ g[j] = (IF j = 0 THEN 1
                        ELSE (((g[j - 1] * ((s - j + 1) % m)) % m) * b[j]) % m)
  <2>1. j \in 0 .. Smaller(s, J) /\ j \in 0 .. h
    BY DEF Smaller
  <2>2. BinomialStep(s, J, m, a, f)[j]
          = IF j = 0 THEN 1 ELSE (((f[j - 1] * ((s - j + 1) % m)) % m) * a[j]) % m
    BY <2>1 DEF BinomialStep
  <2>3. BinomialStep(s, h, m, b, g)[j]
          = IF j = 0 THEN 1 ELSE (((g[j - 1] * ((s - j + 1) % m)) % m) * b[j]) % m
    BY DEF BinomialStep
  <2> QED BY <1>4, <2>1, <2>2, <2>3
<1>6. Smaller(s, h) \in Nat
  BY DEF Smaller
<1>7. 0 \in T
  BY <1>5, <1>6
<1>8. ASSUME NEW j \in Nat, j \in T PROVE j + 1 \in T
  <2> SUFFICES ASSUME j + 1 <= Smaller(s, h) PROVE f[j + 1] = g[j + 1]
    OBVIOUS
  <2>1. PICK e \in 0 .. Smaller(s, h) : e = j + 1 /\ e # 0 /\ e - 1 = j
    BY <1>6
  <2>2. f[e - 1] = g[e - 1] /\ a[e] = b[e]
    BY <1>1, <1>5, <1>6, <1>8, <2>1
  <2>3. f[e] = g[e]
    BY <1>5, <2>1, <2>2
  <2> QED BY <2>1, <2>3
<1>9. \A j \in Nat : j \in T
  <2> HIDE DEF T
  <2> QED BY <1>7, <1>8, SetOfAllNaturals
<1>10. \A j \in 0 .. Smaller(s, h) : f[j] = g[j]
  BY <1>6, <1>9
<1> QED BY <1>2, <1>3, <1>4, <1>10

\* A degree of the next tensor needs no degree above it.
LEMMA FactorsAgree ==
  ASSUME NEW n, NEW h, NEW J, NEW m, Shape(n, h, m), Shape(n, J, m), h <= J, NEW s \in Nat,
         NEW f, IsRow(f, s, J), NEW g, IsRow(g, s, h),
         \A j \in 0 .. Smaller(s, h) : f[j] = g[j],
         NEW p \in JetTensors(n, J, m), NEW q \in JetTensors(n, h, m),
         \A d \in 0 .. h : p[d] = q[d]
  PROVE  \A d \in 0 .. h :
           ApplyFactor(p, n, J, m, f, s)[d] = ApplyFactor(q, n, h, m, g, s)[d]
<1>0. h \in Nat /\ J \in Nat /\ m \in Nat
  BY DEF Shape
<1> SUFFICES ASSUME NEW d \in 0 .. h
             PROVE  ApplyFactor(p, n, J, m, f, s)[d] = ApplyFactor(q, n, h, m, g, s)[d]
  OBVIOUS
<1>1. d \in 0 .. J
  BY <1>0
<1>2. Lags(f, d) = Lags(g, d)
  BY <1>0 DEF Lags, IsRow, Smaller
<1>3. ASSUME NEW j \in Lags(g, d) PROVE f[j] = g[j] /\ p[d - j] = q[d - j]
  <2>1. j \in 0 .. Smaller(s, h)
    BY DEF Lags, IsRow
  <2>2. d - j \in 0 .. h
    BY <1>0, LagsFacts
  <2> QED BY <2>1, <2>2
<1>4. ASSUME NEW i \in Column(n) PROVE Lag(p, f, d, i) = Lag(q, g, d, i)
  BY <1>2, <1>3 DEF Lag
<1>5. ASSUME NEW i \in Column(n)
      PROVE  ApplyFactor(p, n, J, m, f, s)[d][i] = ApplyFactor(q, n, h, m, g, s)[d][i]
  <2>1. /\ (i - s) % n \in Column(n)
        /\ ApplyFactor(p, n, J, m, f, s)[d][i]
             = (p[d][i] - SumOver(Lag(p, f, d, (i - s) % n), Lags(f, d))) % m
    BY <1>1, FactorIs
  <2>2. ApplyFactor(q, n, h, m, g, s)[d][i]
          = (q[d][i] - SumOver(Lag(q, g, d, (i - s) % n), Lags(g, d))) % m
    BY FactorIs
  <2>3. Lag(p, f, d, (i - s) % n) = Lag(q, g, d, (i - s) % n)
    BY <1>4, <2>1
  <2> QED BY <1>2, <2>1, <2>2, <2>3
<1>6. /\ ApplyFactor(p, n, J, m, f, s)[d] \in Columns(n, m)
      /\ ApplyFactor(q, n, h, m, g, s)[d] \in Columns(n, m)
  <2>1. ApplyFactor(p, n, J, m, f, s) \in JetTensors(n, J, m)
    BY FactorIs
  <2>2. ApplyFactor(q, n, h, m, g, s) \in JetTensors(n, h, m)
    BY FactorIs
  <2> QED BY <1>1, <2>1, <2>2 DEF JetTensors
<1> QED BY <1>5, <1>6 DEF Columns

\* So a jet of the germ begins with every shorter jet of it.
LEMMA GermsAgree ==
  ASSUME NEW n, NEW h, NEW J, NEW m, Shape(n, h, m), Shape(n, J, m), h <= J,
         NEW G, Germs(n, J, m, G), NEW H, Germs(n, h, m, H)
  PROVE  \A s \in Nat : \A d \in 0 .. h : G[s][d] = H[s][d]
<1> DEFINE T == {s \in Nat : \A d \in 0 .. h : G[s][d] = H[s][d]}
<1>0. h \in Nat /\ J \in Nat /\ m \in Nat \ {0}
  BY DEF Shape
<1>1. 0 \in T
  <2>1. G[0] = UnitTensor(n, J) /\ H[0] = UnitTensor(n, h)
    BY DEF Germs, Grown
  <2>2. \A d \in 0 .. h : d \in 0 .. J
    BY <1>0
  <2>3. \A d \in 0 .. h : UnitTensor(n, J)[d] = UnitTensor(n, h)[d]
    BY <2>2 DEF UnitTensor
  <2> QED BY <2>1, <2>3
<1>2. ASSUME NEW s \in Nat, s \in T PROVE s + 1 \in T
  <2>1. PICK p \in JetTensors(n, J, m), q \in JetTensors(n, h, m), e \in Nat :
          p = G[s] /\ q = H[s] /\ e = s + 1
    BY DEF Germs, Grown
  <2> DEFINE f == NativeRows(J, m)[e]
             g == NativeRows(h, m)[e]
  <2>2. G[e] = ApplyFactor(p, n, J, m, f, e) /\ H[e] = ApplyFactor(q, n, h, m, g, e)
    BY <2>1 DEF Germs, Grown
  <2>3. IsRow(f, e, J) /\ IsRow(g, e, h) /\ \A j \in 0 .. Smaller(e, h) : f[j] = g[j]
    BY <1>0, RowsAgree
  <2>4. \A d \in 0 .. h : p[d] = q[d]
    BY <1>2, <2>1
  <2> HIDE DEF f, g
  <2>5. \A d \in 0 .. h : G[e][d] = H[e][d]
    BY <2>2, <2>3, <2>4, FactorsAgree
  <2> QED BY <2>1, <2>5
<1>3. \A s \in Nat : s \in T
  <2> HIDE DEF T
  <2> QED BY <1>1, <1>2, SetOfAllNaturals
<1> QED BY <1>3
=============================================================================
