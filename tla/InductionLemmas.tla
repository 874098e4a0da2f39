---------------------------- MODULE InductionLemmas ----------------------------
(***************************************************************************)
(* Induction over the naturals as a fact about sets, and what it shows of  *)
(* sums over finite sets.                                                  *)
(***************************************************************************)
EXTENDS Integers, FiniteSets, FiniteSetsExt, TLAPS, FiniteSetTheorems, WellFoundedInduction

Less == {p \in Nat \X Nat : p[1] < p[2]}

LEMMA LessIsWellFounded == IsWellFoundedOn(Less, Nat)
BY NatLessThanWellFounded DEF OpToRel, Less

\* A set that has 0, and with each number the next, has them all.
LEMMA SetInduction ==
    ASSUME NEW T, 0 \in T, \A n \in Nat : n \in T => n + 1 \in T
    PROVE  Nat \subseteq T
<1> SUFFICES ASSUME Nat \ T # {} PROVE FALSE
  OBVIOUS
<1>1. PICK x \in Nat \ T : \A y \in Nat \ T : ~ (<<y, x>> \in Less)
  BY LessIsWellFounded, WFMin
<1>2. x - 1 \in Nat /\ x - 1 < x
  BY <1>1
<1>3. x - 1 \in T
  BY <1>1, <1>2 DEF Less
<1> QED BY <1>1, <1>2, <1>3

\* What holds of the first value and passes from each to the next.
LEMMA UpTo ==
    ASSUME NEW N \in Nat, NEW S, NEW f, f[0] \in S,
           \A n \in 1 .. N : f[n - 1] \in S => f[n] \in S
    PROVE  \A n \in 0 .. N : f[n] \in S
<1> DEFINE T == {n \in Nat : n <= N => f[n] \in S}
<1>1. 0 \in T
  OBVIOUS
<1>2. ASSUME NEW n \in Nat, n \in T PROVE n + 1 \in T
  <2> SUFFICES ASSUME n + 1 <= N PROVE f[n + 1] \in S
    OBVIOUS
  <2>1. n + 1 \in 1 .. N /\ (n + 1) - 1 = n /\ f[n] \in S
    BY <1>2
  <2> QED BY <2>1
<1> HIDE DEF T
<1>3. Nat \subseteq T
  BY <1>1, <1>2, SetInduction
<1> QED BY <1>3 DEF T

\* A function defined by recursion over 0 .. N from a function of the value
\* before and the place.
Recursive(g, N, c, F) == g = [n \in 0 .. N |-> IF n = 0 THEN c ELSE F[<<g[n - 1], n>>]]

LEMMA Recursion ==
    ASSUME NEW N \in Nat, NEW c, NEW F
    PROVE  \E g : Recursive(g, N, c, F)
<1> DEFINE Steps(n, g) == g = [m \in 0 .. n |-> IF m = 0 THEN c ELSE F[<<g[m - 1], m>>]]
           T == {n \in Nat : \E g : Steps(n, g)}
<1>1. 0 \in T
  <2> DEFINE g == [m \in 0 .. 0 |-> c]
  <2>1. Steps(0, g)
    OBVIOUS
  <2> QED BY <2>1
<1>2. ASSUME NEW n \in Nat, n \in T PROVE n + 1 \in T
  <2>1. PICK g : Steps(n, g)
    BY <1>2
  <2> DEFINE h == [m \in 0 .. n + 1 |-> IF m = n + 1 THEN F[<<g[n], n + 1>>] ELSE g[m]]
  <2>2. \A m \in 0 .. n + 1 : h[m] = IF m = 0 THEN c ELSE F[<<h[m - 1], m>>]
    <3> SUFFICES ASSUME NEW m \in 0 .. n + 1
                 PROVE  h[m] = IF m = 0 THEN c ELSE F[<<h[m - 1], m>>]
      OBVIOUS
    <3>1. \A l \in 0 .. n : g[l] = IF l = 0 THEN c ELSE F[<<g[l - 1], l>>]
      BY <2>1
    <3>2. (\A l \in 0 .. n : h[l] = g[l]) /\ h[n + 1] = F[<<g[n], n + 1>>]
      OBVIOUS
    <3> HIDE DEF h
    <3>3. CASE m = n + 1
      <4>1. m # 0 /\ m - 1 = n /\ h[n] = g[n]
        BY <3>2, <3>3
      <4> QED BY <3>2, <3>3, <4>1
    <3>4. CASE m # n + 1 /\ m # 0
      <4>1. m \in 0 .. n /\ m - 1 \in 0 .. n
        BY <3>4
      <4>2. h[m] = g[m] /\ h[m - 1] = g[m - 1]
        BY <3>2, <4>1
      <4> QED BY <3>1, <3>4, <4>1, <4>2
    <3>5. CASE m = 0
      <4>1. 0 \in 0 .. n
        OBVIOUS
      <4> QED BY <3>1, <3>2, <3>5, <4>1
    <3> QED BY <3>3, <3>4, <3>5
  <2> DEFINE k == [m \in 0 .. n + 1 |-> IF m = 0 THEN c ELSE F[<<h[m - 1], m>>]]
  <2>3. h = k
    BY <2>2
  <2> HIDE DEF h
  <2>4. Steps(n + 1, h)
    BY <2>3
  <2> QED BY <2>4
<1> HIDE DEF T
<1>3. N \in T
  BY <1>1, <1>2, SetInduction
<1> QED BY <1>3 DEF T, Recursive

\* Its values stay in a set the function does not leave.
LEMMA RecursionStays ==
    ASSUME NEW N \in Nat, NEW S, NEW c \in S, NEW F, \A y \in S, n \in 1 .. N : F[<<y, n>>] \in S
    PROVE  \E g : Recursive(g, N, c, F) /\ \A n \in 0 .. N : g[n] \in S
<1>1. PICK g : Recursive(g, N, c, F)
  BY Recursion
<1>2. g[0] \in S
  BY <1>1 DEF Recursive
<1>3. ASSUME NEW n \in 1 .. N, g[n - 1] \in S PROVE g[n] \in S
  <2>1. g[n] = F[<<g[n - 1], n>>]
    BY <1>1 DEF Recursive
  <2> QED BY <1>3, <2>1
<1>4. \A n \in 0 .. N : g[n] \in S
  BY ONLY <1>2, <1>3, N \in Nat, UpTo
<1> QED BY <1>1, <1>4

\* The values of a function on a finite set are finitely many.
LEMMA ImageIsFinite ==
    ASSUME NEW g, NEW S, IsFiniteSet(S)
    PROVE  IsFiniteSet({g[x] : x \in S})
<1> DEFINE T == {g[x] : x \in S}
           f == [x \in S |-> g[x]]
<1>1. f \in Surjection(S, T)
  BY DEF Surjection
<1> HIDE DEF f, T
<1>2. IsFiniteSet(T)
  BY <1>1, FS_Surjection
<1> QED BY <1>2 DEF T

\* A finite set in a linear order has a last element.
LEMMA LastOne ==
    ASSUME NEW R, NEW S, IsFiniteSet(S), S # {},
           \A x, y \in S : x # y => <<x, y>> \in R \/ <<y, x>> \in R,
           \A x, y, z \in S : <<x, y>> \in R /\ <<y, z>> \in R => <<x, z>> \in R
    PROVE  \E x \in S : \A y \in S \ {x} : <<y, x>> \in R
<1> DEFINE Last(A, x) == x \in A /\ \A y \in A \ {x} : <<y, x>> \in R
           T == {n \in Nat : \A A \in SUBSET S : Cardinality(A) = n /\ A # {} => \E x : Last(A, x)}
<1>0. \A A \in SUBSET S : IsFiniteSet(A) /\ Cardinality(A) \in Nat
  BY FS_Subset, FS_CardinalityType
<1>1. 0 \in T
  <2>1. \A A \in SUBSET S : Cardinality(A) = 0 => A = {}
    BY <1>0, FS_EmptySet
  <2> QED BY <2>1
<1>2. ASSUME NEW n \in Nat, n \in T PROVE n + 1 \in T
  <2> SUFFICES ASSUME NEW A \in SUBSET S, Cardinality(A) = n + 1, A # {} PROVE \E x : Last(A, x)
    OBVIOUS
  <2>1. PICK a : a \in A
    OBVIOUS
  <2>2. A \ {a} \in SUBSET S /\ Cardinality(A \ {a}) = n
    <3>1. Cardinality(A \ {a}) = Cardinality(A) - 1
      BY <1>0, <2>1, FS_RemoveElement
    <3> QED BY <3>1
  <2>3. CASE A \ {a} = {}
    <3>1. Last(A, a)
      BY <2>1, <2>3
    <3> QED BY <3>1
  <2>4. CASE A \ {a} # {}
    <3>1. PICK b : Last(A \ {a}, b)
      BY <1>2, <2>2, <2>4
    <3>2. CASE <<a, b>> \in R
      <4>1. Last(A, b)
        BY <3>1, <3>2
      <4> QED BY <4>1
    <3>3. CASE <<b, a>> \in R
      <4>1. Last(A, a)
        BY <2>1, <3>1, <3>3
      <4> QED BY <4>1
    <3> QED BY <2>1, <3>1, <3>2, <3>3
  <2> QED BY <2>3, <2>4
<1> HIDE DEF T
<1>3. Nat \subseteq T
  BY <1>1, <1>2, SetInduction
<1>4. Cardinality(S) \in T /\ S \in SUBSET S
  BY <1>0, <1>3
<1>5. \E x : Last(S, x)
  BY <1>4 DEF T
<1> QED BY <1>5

NotAfter == {p \in Nat \X Nat : p[1] <= p[2]}

LEMMA GreatestOne ==
    ASSUME NEW S, IsFiniteSet(S), S # {}, S \subseteq Nat
    PROVE  \E x \in S : \A y \in S : y <= x
<1>1. /\ \A x, y \in S : x # y => <<x, y>> \in NotAfter \/ <<y, x>> \in NotAfter
      /\ \A x, y, z \in S : <<x, y>> \in NotAfter /\ <<y, z>> \in NotAfter => <<x, z>> \in NotAfter
  BY DEF NotAfter
<1>2. \E x \in S : \A y \in S \ {x} : <<y, x>> \in NotAfter
  BY ONLY <1>1, IsFiniteSet(S), S # {}, LastOne
<1>3. PICK x \in S : \A y \in S \ {x} : <<y, x>> \in NotAfter
  BY <1>2
<1>4. ASSUME NEW y \in S PROVE y <= x
  <2>1. CASE y = x
    BY <2>1
  <2>2. CASE y # x
    BY <1>3, <2>2 DEF NotAfter
  <2> QED BY <2>1, <2>2
<1> QED BY <1>4

-----------------------------------------------------------------------------
\* The sum of a function's values over a finite set.

Total(w, S) == MapThenSumSet(LAMBDA x : w[x], S)

Pick(S) == CHOOSE x \in S : TRUE

\* The sum is a function of the subsets, by recursion.
Adds(w, S, g) ==
    g = [s \in SUBSET S |-> IF s = {} THEN 0 ELSE w[Pick(s)] + g[s \ {Pick(s)}]]

LEMMA TotalIs ==
    ASSUME NEW w, NEW S
    PROVE  Total(w, S) = (CHOOSE g : Adds(w, S, g))[S]
BY DEF Total, MapThenSumSet, MapThenFoldSet, Adds, Pick

LEMMA Picked ==
    ASSUME NEW S, IsFiniteSet(S), S # {}
    PROVE  /\ Pick(S) \in S /\ IsFiniteSet(S \ {Pick(S)})
           /\ Cardinality(S) \in Nat /\ Cardinality(S) > 0
           /\ Cardinality(S \ {Pick(S)}) = Cardinality(S) - 1
<1>1. Pick(S) \in S
  BY DEF Pick
<1> QED BY <1>1, FS_CardinalityType, FS_RemoveElement, FS_EmptySet

\* There is such a function: it is built from the small subsets up.
LEMMA AddsExists ==
    ASSUME NEW w, NEW S, IsFiniteSet(S)
    PROVE  \E g : Adds(w, S, g)
<1> DEFINE Small(n) == {s \in SUBSET S : Cardinality(s) <= n}
           Level(n, h) ==
               h = [s \in Small(n) |-> IF s = {} THEN 0 ELSE w[Pick(s)] + h[s \ {Pick(s)}]]
           T == {n \in Nat : \E h : Level(n, h)}
<1>1. \A s \in SUBSET S : IsFiniteSet(s) /\ Cardinality(s) \in Nat
  BY FS_Subset, FS_CardinalityType
<1>2. \A s \in SUBSET S : Cardinality(s) <= 0 => s = {}
  BY <1>1, FS_EmptySet
<1>3. 0 \in T
  <2> DEFINE h == [s \in Small(0) |-> 0]
  <2>1. Level(0, h)
    BY <1>2
  <2> QED BY <2>1
<1>4. ASSUME NEW n \in Nat, n \in T PROVE n + 1 \in T
  <2>1. PICK h : Level(n, h)
    BY <1>4
  <2> DEFINE k == [s \in Small(n + 1) |-> IF s = {} THEN 0 ELSE w[Pick(s)] + h[s \ {Pick(s)}]]
  <2>2. \A s \in Small(n) : s \in Small(n + 1) /\ k[s] = h[s]
    <3>1. \A s \in Small(n) : s \in Small(n + 1)
      BY <1>1
    <3>2. \A s \in Small(n) : h[s] = IF s = {} THEN 0 ELSE w[Pick(s)] + h[s \ {Pick(s)}]
      <4> HIDE DEF Small
      <4> QED BY <2>1
    <3> HIDE DEF Small
    <3> QED BY <3>1, <3>2
  <2>3. \A s \in Small(n + 1) : s # {} => s \ {Pick(s)} \in Small(n)
    <3> SUFFICES ASSUME NEW s \in Small(n + 1), s # {} PROVE s \ {Pick(s)} \in Small(n)
      OBVIOUS
    <3>1. IsFiniteSet(s)
      BY <1>1
    <3> QED BY <3>1, Picked
  <2>4. Level(n + 1, k)
    <3> HIDE DEF Small
    <3> QED BY <2>2, <2>3
  <2> HIDE DEF k, Level
  <2> QED BY <2>4
<1> HIDE DEF T
<1>5. Nat \subseteq T
  BY <1>3, <1>4, SetInduction
<1>6. PICK h : Level(Cardinality(S), h)
  BY <1>1, <1>5 DEF T
<1>7. Small(Cardinality(S)) = SUBSET S
  BY <1>1, FS_Subset
<1> QED BY <1>6, <1>7 DEF Adds

Summed(w, S) == CHOOSE g : Adds(w, S, g)

LEMMA SummedSteps ==
    ASSUME NEW w, NEW S, IsFiniteSet(S), NEW s \in SUBSET S
    PROVE  Summed(w, S)[s] = IF s = {} THEN 0 ELSE w[Pick(s)] + Summed(w, S)[s \ {Pick(s)}]
<1>1. Adds(w, S, Summed(w, S))
  BY AddsExists DEF Summed
<1> QED BY <1>1 DEF Adds

\* Within any set, a subset has its own sum.
LEMMA SummedWithin ==
    ASSUME NEW w, NEW S, IsFiniteSet(S), NEW s \in SUBSET S
    PROVE  Summed(w, S)[s] = Total(w, s)
<1> DEFINE T == {n \in Nat : \A R, r : IsFiniteSet(R) /\ r \subseteq R /\ Cardinality(r) = n
                                          => Summed(w, R)[r] = Summed(w, r)[r]}
<1>1. 0 \in T
  <2> SUFFICES ASSUME NEW R, NEW r, IsFiniteSet(R), r \subseteq R, Cardinality(r) = 0
               PROVE  Summed(w, R)[r] = Summed(w, r)[r]
    OBVIOUS
  <2>1. IsFiniteSet(r) /\ r = {}
    BY FS_Subset, FS_EmptySet
  <2> QED BY <2>1, SummedSteps
<1>2. ASSUME NEW n \in Nat, n \in T PROVE n + 1 \in T
  <2> SUFFICES ASSUME NEW R, NEW r, IsFiniteSet(R), r \subseteq R, Cardinality(r) = n + 1
               PROVE  Summed(w, R)[r] = Summed(w, r)[r]
    OBVIOUS
  <2>1. IsFiniteSet(r) /\ r # {}
    BY FS_Subset, FS_EmptySet
  <2> DEFINE rest == r \ {Pick(r)}
  <2>2. rest \subseteq r /\ rest \subseteq R /\ Cardinality(rest) = n
    BY <2>1, Picked
  <2>3. Summed(w, R)[rest] = Summed(w, rest)[rest] /\ Summed(w, r)[rest] = Summed(w, rest)[rest]
    BY <1>2, <2>1, <2>2
  <2>4. /\ Summed(w, R)[r] = w[Pick(r)] + Summed(w, R)[rest]
        /\ Summed(w, r)[r] = w[Pick(r)] + Summed(w, r)[rest]
    <3>1. r \in SUBSET R /\ r \in SUBSET r
      OBVIOUS
    <3> QED BY <2>1, <3>1, SummedSteps
  <2> QED BY <2>3, <2>4
<1> HIDE DEF T
<1>3. Nat \subseteq T
  BY <1>1, <1>2, SetInduction
<1>4. IsFiniteSet(s) /\ Cardinality(s) \in Nat
  BY FS_Subset, FS_CardinalityType
<1>5. Summed(w, S)[s] = Summed(w, s)[s]
  BY <1>3, <1>4 DEF T
<1> QED BY <1>5, TotalIs DEF Summed

LEMMA TotalEmpty == ASSUME NEW w PROVE Total(w, {}) = 0
BY FS_EmptySet, SummedSteps, TotalIs DEF Summed

LEMMA TotalPick ==
    ASSUME NEW w, NEW S, IsFiniteSet(S), S # {}
    PROVE  Total(w, S) = w[Pick(S)] + Total(w, S \ {Pick(S)})
<1>1. S \in SUBSET S /\ S \ {Pick(S)} \in SUBSET S
  OBVIOUS
<1>2. Summed(w, S)[S] = w[Pick(S)] + Summed(w, S)[S \ {Pick(S)}]
  BY <1>1, SummedSteps
<1>3. Summed(w, S)[S] = Total(w, S) /\ Summed(w, S)[S \ {Pick(S)}] = Total(w, S \ {Pick(S)})
  BY <1>1, SummedWithin
<1> QED BY <1>2, <1>3

\* The sum of numbers is one, and no larger than so many times the largest.
LEMMA TotalType ==
    ASSUME NEW w, NEW S, IsFiniteSet(S), NEW b \in Nat, \A x \in S : w[x] \in 0 .. b
    PROVE  Total(w, S) \in 0 .. Cardinality(S) * b
<1> DEFINE T == {n \in Nat : \A R \in SUBSET S : Cardinality(R) = n => Total(w, R) \in 0 .. n * b}
<1>0. \A R \in SUBSET S : IsFiniteSet(R) /\ Cardinality(R) \in Nat
  BY FS_Subset, FS_CardinalityType
<1>1. 0 \in T
  <2>1. \A R \in SUBSET S : Cardinality(R) = 0 => R = {}
    BY <1>0, FS_EmptySet
  <2>2. Total(w, {}) \in 0 .. 0 * b
    BY TotalEmpty
  <2> QED BY <2>1, <2>2
<1>2. ASSUME NEW n \in Nat, n \in T PROVE n + 1 \in T
  <2> SUFFICES ASSUME NEW R \in SUBSET S, Cardinality(R) = n + 1
               PROVE  Total(w, R) \in 0 .. (n + 1) * b
    OBVIOUS
  <2>1. IsFiniteSet(R) /\ R # {}
    BY <1>0, FS_EmptySet
  <2> DEFINE rest == R \ {Pick(R)}
  <2>2. rest \in SUBSET S /\ Cardinality(rest) = n /\ Pick(R) \in S
    BY <2>1, Picked
  <2>3. Total(w, rest) \in 0 .. n * b /\ w[Pick(R)] \in 0 .. b
    BY <1>2, <2>2
  <2>4. Total(w, R) = w[Pick(R)] + Total(w, rest)
    BY <2>1, TotalPick
  <2>5. (n + 1) * b = n * b + b /\ n * b \in Nat
    OBVIOUS
  <2> HIDE DEF rest
  <2> QED BY <2>3, <2>4, <2>5
<1> HIDE DEF T
<1>3. Nat \subseteq T
  BY <1>1, <1>2, SetInduction
<1> QED BY <1>0, <1>3 DEF T

\* The sum depends on the summed values alone.
LEMMA TotalSame ==
    ASSUME NEW w, NEW v, NEW S, IsFiniteSet(S), \A x \in S : w[x] = v[x]
    PROVE  Total(w, S) = Total(v, S)
<1> DEFINE T == {n \in Nat : \A R \in SUBSET S : Cardinality(R) = n => Total(w, R) = Total(v, R)}
<1>0. \A R \in SUBSET S : IsFiniteSet(R) /\ Cardinality(R) \in Nat
  BY FS_Subset, FS_CardinalityType
<1>1. 0 \in T
  <2>1. \A R \in SUBSET S : Cardinality(R) = 0 => R = {}
    BY <1>0, FS_EmptySet
  <2>2. Total(w, {}) = Total(v, {})
    BY TotalEmpty
  <2> QED BY <2>1, <2>2
<1>2. ASSUME NEW n \in Nat, n \in T PROVE n + 1 \in T
  <2> SUFFICES ASSUME NEW R \in SUBSET S, Cardinality(R) = n + 1
               PROVE  Total(w, R) = Total(v, R)
    OBVIOUS
  <2>1. IsFiniteSet(R) /\ R # {}
    BY <1>0, FS_EmptySet
  <2>2. /\ R \ {Pick(R)} \in SUBSET S /\ Cardinality(R \ {Pick(R)}) = n
        /\ Pick(R) \in S
    <3>1. Pick(R) \in R /\ Cardinality(R \ {Pick(R)}) = Cardinality(R) - 1
      BY <2>1, Picked
    <3> QED BY <3>1
  <2>3. Total(w, R \ {Pick(R)}) = Total(v, R \ {Pick(R)}) /\ w[Pick(R)] = v[Pick(R)]
    BY <1>2, <2>2
  <2> QED BY <2>1, <2>3, TotalPick
<1> HIDE DEF T
<1>3. Nat \subseteq T
  BY <1>1, <1>2, SetInduction
<1> QED BY <1>0, <1>3 DEF T

LEMMA TotalNat ==
    ASSUME NEW w, NEW S, IsFiniteSet(S), \A y \in S : w[y] \in Nat
    PROVE  Total(w, S) \in Nat
<1> DEFINE T == {n \in Nat : \A R \in SUBSET S : Cardinality(R) = n => Total(w, R) \in Nat}
<1>0. \A R \in SUBSET S : IsFiniteSet(R) /\ Cardinality(R) \in Nat
  BY FS_Subset, FS_CardinalityType
<1>1. 0 \in T
  <2>1. \A R \in SUBSET S : Cardinality(R) = 0 => R = {}
    BY <1>0, FS_EmptySet
  <2>2. Total(w, {}) \in Nat
    BY TotalEmpty
  <2> QED BY <2>1, <2>2
<1>2. ASSUME NEW n \in Nat, n \in T PROVE n + 1 \in T
  <2> SUFFICES ASSUME NEW R \in SUBSET S, Cardinality(R) = n + 1
               PROVE  Total(w, R) \in Nat
    OBVIOUS
  <2>1. IsFiniteSet(R) /\ R # {}
    BY <1>0, FS_EmptySet
  <2>2. R \ {Pick(R)} \in SUBSET S /\ Cardinality(R \ {Pick(R)}) = n /\ Pick(R) \in S
    <3>1. Pick(R) \in R /\ Cardinality(R \ {Pick(R)}) = Cardinality(R) - 1
      BY <2>1, Picked
    <3> QED BY <3>1
  <2>3. Total(w, R \ {Pick(R)}) \in Nat /\ w[Pick(R)] \in Nat
    BY <1>2, <2>2
  <2>4. Total(w, R) = w[Pick(R)] + Total(w, R \ {Pick(R)})
    BY <2>1, TotalPick
  <2> QED BY <2>3, <2>4
<1> HIDE DEF T
<1>3. Nat \subseteq T
  BY <1>1, <1>2, SetInduction
<1> QED BY <1>0, <1>3 DEF T

\* The order of the summands does not matter.
LEMMA TotalRemove ==
    ASSUME NEW w, NEW S, IsFiniteSet(S), \A y \in S : w[y] \in Nat, NEW x \in S
    PROVE  Total(w, S) = w[x] + Total(w, S \ {x}) /\ Total(w, S \ {x}) \in Nat
<1> DEFINE T == {n \in Nat : \A R \in SUBSET S : Cardinality(R) = n =>
                    \A y \in R : Total(w, R) = w[y] + Total(w, R \ {y})}
<1>0. \A R \in SUBSET S : IsFiniteSet(R) /\ Cardinality(R) \in Nat
  BY FS_Subset, FS_CardinalityType
<1>1. \A R \in SUBSET S : Total(w, R) \in Nat
  BY <1>0, TotalNat
<1>2. 0 \in T
  <2>1. \A R \in SUBSET S : Cardinality(R) = 0 => R = {}
    BY <1>0, FS_EmptySet
  <2> QED BY <2>1
<1>3. ASSUME NEW n \in Nat, n \in T PROVE n + 1 \in T
  <2> SUFFICES ASSUME NEW R \in SUBSET S, Cardinality(R) = n + 1, NEW y \in R
               PROVE  Total(w, R) = w[y] + Total(w, R \ {y})
    OBVIOUS
  <2> DEFINE p == Pick(R)
  <2>1. IsFiniteSet(R) /\ R # {}
    BY <1>0
  <2>2. p \in R /\ Cardinality(R \ {p}) = n
    <3>1. Pick(R) \in R /\ Cardinality(R \ {Pick(R)}) = Cardinality(R) - 1
      BY <2>1, Picked
    <3> QED BY <3>1
  <2>3. Total(w, R) = w[p] + Total(w, R \ {p})
    BY <2>1, TotalPick
  <2> HIDE DEF p
  <2>4. CASE y = p
    BY <2>3, <2>4
  <2>5. CASE y # p
    <3> DEFINE both == (R \ {p}) \ {y}
    <3>1. /\ R \ {p} \in SUBSET S /\ R \ {y} \in SUBSET S /\ both \in SUBSET S
          /\ y \in R \ {p} /\ p \in R \ {y} /\ both = (R \ {y}) \ {p}
      BY <2>2, <2>5
    <3>2. Cardinality(R \ {y}) = n
      <4>1. Cardinality(R \ {y}) = Cardinality(R) - 1
        BY <2>1, FS_RemoveElement
      <4> QED BY <4>1
    <3>3. Total(w, R \ {p}) = w[y] + Total(w, both) /\ Total(w, R \ {y}) = w[p] + Total(w, both)
      BY <1>3, <2>2, <3>1, <3>2
    <3>4. Total(w, both) \in Nat
      BY <1>1, <3>1
    <3> HIDE DEF both
    <3> QED BY <2>2, <2>3, <3>3, <3>4
  <2> QED BY <2>4, <2>5
<1> HIDE DEF T
<1>4. Nat \subseteq T
  BY <1>2, <1>3, SetInduction
<1>5. S \ {x} \in SUBSET S
  OBVIOUS
<1> QED BY <1>0, <1>1, <1>4, <1>5 DEF T

\* The sum of a union is the sum of the sums.
LEMMA TotalUnion ==
    ASSUME NEW w, NEW A, NEW B, IsFiniteSet(A), IsFiniteSet(B), A \intersect B = {},
           \A y \in A \union B : w[y] \in Nat
    PROVE  Total(w, A \union B) = Total(w, A) + Total(w, B)
<1> DEFINE T == {n \in Nat : \A R \in SUBSET B : Cardinality(R) = n =>
                    Total(w, A \union R) = Total(w, A) + Total(w, R)}
<1>0. \A R \in SUBSET B : /\ IsFiniteSet(R) /\ Cardinality(R) \in Nat /\ IsFiniteSet(A \union R)
                          /\ Total(w, R) \in Nat /\ Total(w, A \union R) \in Nat
  <2> SUFFICES ASSUME NEW R \in SUBSET B
               PROVE  /\ IsFiniteSet(R) /\ Cardinality(R) \in Nat /\ IsFiniteSet(A \union R)
                      /\ Total(w, R) \in Nat /\ Total(w, A \union R) \in Nat
    OBVIOUS
  <2>1. IsFiniteSet(R) /\ Cardinality(R) \in Nat
    BY FS_Subset, FS_CardinalityType
  <2>2. IsFiniteSet(A \union R)
    BY <2>1, FS_Union
  <2>3. \A y \in A \union R : w[y] \in Nat
    OBVIOUS
  <2>4. \A y \in R : w[y] \in Nat
    OBVIOUS
  <2>5. Total(w, R) \in Nat
    BY <2>1, <2>4, TotalNat
  <2>6. Total(w, A \union R) \in Nat
    BY <2>2, <2>3, TotalNat
  <2> QED BY <2>1, <2>2, <2>5, <2>6
<1>1. Total(w, A) \in Nat
  BY TotalNat
<1>2. 0 \in T
  <2>1. \A R \in SUBSET B : Cardinality(R) = 0 => R = {}
    BY <1>0, FS_EmptySet
  <2>2. A \union {} = A /\ Total(w, {}) = 0
    BY TotalEmpty
  <2> QED BY <1>1, <2>1, <2>2
<1>3. ASSUME NEW n \in Nat, n \in T PROVE n + 1 \in T
  <2> SUFFICES ASSUME NEW R \in SUBSET B, Cardinality(R) = n + 1
               PROVE  Total(w, A \union R) = Total(w, A) + Total(w, R)
    OBVIOUS
  <2>1. IsFiniteSet(R) /\ R # {}
    <3>1. IsFiniteSet(R)
      BY <1>0
    <3> HIDE DEF T
    <3>2. Cardinality(R) # 0
      OBVIOUS
    <3> QED BY <3>1, <3>2, FS_EmptySet
  <2>2. PICK x : x \in R
    BY <2>1
  <2>3. R \ {x} \in SUBSET B /\ Cardinality(R \ {x}) = n
    <3>1. Cardinality(R \ {x}) = Cardinality(R) - 1
      BY <2>1, <2>2, FS_RemoveElement
    <3> QED BY <3>1
  <2>4. (A \union R) \ {x} = A \union (R \ {x})
    BY <2>2
  <2>5. Total(w, R) = w[x] + Total(w, R \ {x})
    BY <2>1, <2>2, TotalRemove
  <2>6. Total(w, A \union R) = w[x] + Total(w, A \union (R \ {x}))
    <3>1. IsFiniteSet(A \union R) /\ x \in A \union R /\ \A y \in A \union R : w[y] \in Nat
      BY <1>0, <2>2
    <3>2. Total(w, A \union R) = w[x] + Total(w, (A \union R) \ {x})
      BY <3>1, TotalRemove
    <3> QED BY <2>4, <3>2
  <2>7. Total(w, A \union (R \ {x})) = Total(w, A) + Total(w, R \ {x})
    BY <1>3, <2>3
  <2>8. w[x] \in Nat /\ Total(w, R \ {x}) \in Nat
    BY <1>0, <2>2, <2>3
  <2> QED BY <1>1, <2>5, <2>6, <2>7, <2>8
<1> HIDE DEF T
<1>4. Nat \subseteq T
  BY <1>2, <1>3, SetInduction
<1>5. B \in SUBSET B
  OBVIOUS
<1> QED BY <1>0, <1>4, <1>5 DEF T

=============================================================================
