--------------------------- MODULE InductionOnSets ---------------------------
(***************************************************************************)
(* Induction and recursion over the natural numbers, and powers of two, in *)
(* a form that first-order provers can use.  The library's theorems take   *)
(* the induction hypothesis as an operator; here it is a set.              *)
(***************************************************************************)
EXTENDS Integers, FiniteSetTheorems, WellFoundedInduction, TLAPS

\* A set that has 0, and with each number the next one, has all numbers.
LEMMA SetInduction ==
    ASSUME NEW S, 0 \in S, \A n \in Nat : n \in S => n + 1 \in S
    PROVE  \A n \in Nat : n \in S
<1> DEFINE R == {ss \in Nat \X Nat : ss[1] < ss[2]}
           T == Nat \ S
<1>1. OpToRel(<, Nat) = R
    BY Zenon DEF OpToRel
<1>2. IsWellFoundedOn(R, Nat)
    BY <1>1, NatLessThanWellFounded, Zenon
<1>3. SUFFICES ASSUME T # {} PROVE FALSE
    OBVIOUS
<1>4. T \subseteq Nat
    OBVIOUS
<1> HIDE DEF R, T
<1>5. PICK x \in T : \A y \in T : <<y, x>> \notin R
    BY <1>2, <1>3, <1>4, WFMin
<1>6. x \in Nat \ {0} /\ x - 1 \in Nat /\ (x - 1) + 1 = x
    BY <1>4, <1>5 DEF T
<1>7. x - 1 \in T /\ <<x - 1, x>> \in R
    BY <1>5, <1>6 DEF T, R
<1>8. QED
    BY <1>5, <1>7

-----------------------------------------------------------------------------
(* Recursion: A, F[A], F[F[A]] and so on.                                  *)

\* The first n + 1 of them.
IsStart(A, F, n, g) == g[0] = A /\ \A i \in 0 .. n - 1 : g[i + 1] = F[g[i]]

LEMMA StartsExist ==
    ASSUME NEW X, NEW A \in X, NEW F \in [X -> X]
    PROVE  \A n \in Nat : \E g \in [0 .. n -> X] : IsStart(A, F, n, g)
<1> DEFINE S == {n \in Nat : \E g \in [0 .. n -> X] : IsStart(A, F, n, g)}
<1>1. 0 \in S
  <2> DEFINE g == [i \in 0 .. 0 |-> A]
  <2>1. g \in [0 .. 0 -> X] /\ IsStart(A, F, 0, g)
    BY DEF IsStart
  <2>2. QED
    BY <2>1
<1>2. ASSUME NEW n \in Nat, n \in S PROVE n + 1 \in S
  <2>1. PICK g \in [0 .. n -> X] : IsStart(A, F, n, g)
    BY <1>2
  <2> DEFINE h == [i \in 0 .. n + 1 |-> IF i = n + 1 THEN F[g[n]] ELSE g[i]]
  <2>2. h \in [0 .. n + 1 -> X]
    BY <2>1
  <2>3. h[0] = A
    BY <2>1 DEF IsStart
  <2>4. \A i \in 0 .. n : h[i + 1] = F[h[i]]
    BY <2>1 DEF IsStart
  <2>5. (n + 1) - 1 = n
    OBVIOUS
  <2>6. IsStart(A, F, n + 1, h)
    BY <2>3, <2>4, <2>5 DEF IsStart
  <2>7. QED
    BY <2>2, <2>6
<1> HIDE DEF S
<1>3. \A n \in Nat : n \in S
    BY <1>1, <1>2, SetInduction
<1>4. QED
    BY <1>3 DEF S

LEMMA StartsAgree ==
    ASSUME NEW A, NEW F, NEW m \in Nat, NEW n \in Nat, NEW g, NEW h,
           IsStart(A, F, m, g), IsStart(A, F, n, h)
    PROVE  \A i \in Nat : i <= m /\ i <= n => g[i] = h[i]
<1> DEFINE S == {i \in Nat : i <= m /\ i <= n => g[i] = h[i]}
<1>1. 0 \in S
    BY DEF IsStart
<1>2. ASSUME NEW i \in Nat, i \in S PROVE i + 1 \in S
    BY <1>2 DEF IsStart
<1> HIDE DEF S
<1>3. \A i \in Nat : i \in S
    BY <1>1, <1>2, SetInduction
<1>4. QED
    BY <1>3 DEF S

\* F can be applied to its own results.
Iterable(F, X) == F \in [X -> X]

\* There is a function that is defined by recursion.
LEMMA RecursionExists ==
    ASSUME NEW X, NEW A \in X, NEW F, Iterable(F, X)
    PROVE  \E f \in [Nat -> X] : f[0] = A /\ \A n \in Nat : f[n + 1] = F[f[n]]
<1> DEFINE G(n) == CHOOSE g \in [0 .. n -> X] : IsStart(A, F, n, g)
           f == [n \in Nat |-> G(n)[n]]
<1>1. \A n \in Nat : G(n) \in [0 .. n -> X] /\ IsStart(A, F, n, G(n))
    BY StartsExist DEF Iterable
<1> HIDE DEF G
<1>2. f \in [Nat -> X]
    BY <1>1
<1>3. f[0] = A
    BY <1>1 DEF IsStart
<1>4. ASSUME NEW n \in Nat PROVE f[n + 1] = F[f[n]]
  <2>1. n + 1 \in Nat /\ n \in 0 .. (n + 1) - 1
    OBVIOUS
  <2>2. G(n + 1)[n + 1] = F[G(n + 1)[n]]
    BY <1>1, <2>1 DEF IsStart
  <2>3. G(n + 1)[n] = G(n)[n]
    BY <1>1, <2>1, StartsAgree
  <2>4. QED
    BY <2>1, <2>2, <2>3
<1>5. QED
    BY <1>2, <1>3, <1>4

-----------------------------------------------------------------------------
(* Induction and recursion on what has a size.                             *)

\* Each thing has a number for its size.
HasSizes(D, size) == \A d \in D : size[d] \in Nat

\* The set has each thing that it has all smaller ones of.
Inherited(S, D, size) ==
    \A d \in D : (\A e \in D : size[e] < size[d] => e \in S) => d \in S

\* Such a set has everything.
LEMMA SizeInduction ==
    ASSUME NEW D, NEW size, HasSizes(D, size), NEW S, Inherited(S, D, size)
    PROVE  \A d \in D : d \in S
<1> USE DEF HasSizes, Inherited
<1> DEFINE N == {n \in Nat : \A d \in D : size[d] < n => d \in S}
<1>1. 0 \in N
    OBVIOUS
<1>2. ASSUME NEW n \in Nat, n \in N PROVE n + 1 \in N
  <2>1. SUFFICES ASSUME NEW d \in D, size[d] < n + 1 PROVE d \in S
    OBVIOUS
  <2>2. \A e \in D : size[e] < size[d] => size[e] < n
    BY <2>1
  <2>3. \A e \in D : size[e] < size[d] => e \in S
    BY <1>2, <2>2
  <2>4. QED
    BY <2>3
<1>3. \A n \in Nat : n \in N
  <2> HIDE DEF N
  <2>1. QED
    BY <1>1, <1>2, SetInduction
<1>4. ASSUME NEW d \in D PROVE d \in S
  <2>1. size[d] + 1 \in Nat /\ size[d] < size[d] + 1
    OBVIOUS
  <2>2. size[d] + 1 \in N
    BY <1>3, <2>1
  <2>3. QED
    BY <2>1, <2>2
<1>5. QED
    BY <1>4

\* What F makes of a function at d depends on its results for smaller things.
Descends(F, X, D, size) ==
    \A g, h \in X : \A d \in D :
        (\A e \in D : size[e] < size[d] => g[e] = h[e]) => F[g][d] = F[h][d]

\* F is the step of a recursion for functions from D to R.
IsRecursion(F, D, R, size) ==
    /\ HasSizes(D, size)
    /\ [D -> R] # {}
    /\ Iterable(F, [D -> R])
    /\ Descends(F, [D -> R], D, size)

\* There is a function that is what F makes of it.
LEMMA FixpointExists ==
    ASSUME NEW D, NEW size, NEW R, NEW F, IsRecursion(F, D, R, size)
    PROVE  \E f \in [D -> R] : F[f] = f
<1> USE DEF HasSizes, IsRecursion
<1>0. PICK A \in [D -> R] : TRUE
    OBVIOUS
<1>1. PICK X : X = [D -> R]
    OBVIOUS
<1>2. A \in X /\ Iterable(F, X) /\ Descends(F, X, D, size)
    BY <1>1
<1>3. PICK it \in [Nat -> X] : it[0] = A /\ \A n \in Nat : it[n + 1] = F[it[n]]
    BY <1>2, RecursionExists
<1>4. \A n \in Nat : \A d \in D : size[d] < n => it[n + 1][d] = it[n][d]
  <2> DEFINE S == {n \in Nat : \A d \in D : size[d] < n => it[n + 1][d] = it[n][d]}
  <2>1. 0 \in S
    OBVIOUS
  <2>2. ASSUME NEW n \in Nat, n \in S PROVE n + 1 \in S
    <3>1. SUFFICES ASSUME NEW d \in D, size[d] < n + 1 PROVE it[(n + 1) + 1][d] = it[n + 1][d]
        OBVIOUS
    <3>2. it[n + 1] = F[it[n]] /\ it[(n + 1) + 1] = F[it[n + 1]] /\ it[n] \in X /\ it[n + 1] \in X
        BY <1>3
    <3>3. \A e \in D : size[e] < size[d] => size[e] < n
        BY <3>1
    <3>4. \A e \in D : size[e] < size[d] => it[n + 1][e] = it[n][e]
        BY <2>2, <3>3
    <3>5. QED
        BY <1>2, <3>2, <3>4 DEF Descends
  <2> HIDE DEF S
  <2>3. \A n \in Nat : n \in S
    BY <2>1, <2>2, SetInduction
  <2>4. QED
    BY <2>3 DEF S
<1> DEFINE f == [d \in D |-> it[size[d] + 1][d]]
<1>5. \A n \in Nat : \A d \in D : size[d] < n => it[n][d] = f[d]
  <2> DEFINE S == {n \in Nat : \A d \in D : size[d] < n => it[n][d] = f[d]}
  <2>1. 0 \in S
    OBVIOUS
  <2>2. ASSUME NEW n \in Nat, n \in S PROVE n + 1 \in S
    <3>1. SUFFICES ASSUME NEW d \in D, size[d] < n + 1 PROVE it[n + 1][d] = f[d]
        OBVIOUS
    <3>2. CASE size[d] = n
        BY <3>2
    <3>3. CASE size[d] < n /\ size[d] \in Nat
      <4>1. it[n][d] = f[d]
        BY <2>2, <3>3
      <4>2. QED
        BY <1>4, <3>3, <4>1
    <3>4. QED
        BY <3>1, <3>2, <3>3
  <2> HIDE DEF S
  <2>3. \A n \in Nat : n \in S
    BY <2>1, <2>2, SetInduction
  <2>4. QED
    BY <2>3 DEF S
<1>6. f \in X
  <2>1. \A d \in D : it[size[d] + 1] \in [D -> R]
    BY <1>1, <1>3
  <2>2. QED
    BY <1>1, <2>1
<1>7. \A d \in D : F[f][d] = f[d]
  <2>1. SUFFICES ASSUME NEW d \in D PROVE F[f][d] = f[d]
    OBVIOUS
  <2>2. PICK n \in Nat : n = size[d]
    OBVIOUS
  <2>3. it[n] \in X /\ it[n + 1] = F[it[n]] /\ f[d] = it[n + 1][d]
    BY <1>3, <2>2
  <2>4. \A e \in D : size[e] < size[d] => f[e] = it[n][e]
    BY <1>5, <2>2
  <2> HIDE DEF f
  <2>5. F[f][d] = F[it[n]][d]
    BY <1>2, <1>6, <2>3, <2>4 DEF Descends
  <2>6. QED
    BY <2>3, <2>5
<1>8. F[f] \in [D -> R] /\ f \in [D -> R]
  <2> HIDE DEF f
  <2>1. QED
    BY <1>1, <1>2, <1>6 DEF Iterable
<1>9. F[f] = f
  <2> HIDE DEF f
  <2>1. QED
    BY <1>7, <1>8
<1>10. QED
    BY <1>8, <1>9

-----------------------------------------------------------------------------
(* Powers of two: a set with one more element has twice the subsets.       *)

LEMMA PowerZero == 2^0 = 1
<1>1. IsFiniteSet({}) /\ Cardinality({}) = 0
    BY FS_EmptySet
<1>2. Cardinality(SUBSET {}) = 2^0
    BY <1>1, FS_SUBSET
<1>3. SUBSET {} = {{}} /\ Cardinality({{}}) = 1
    BY FS_Singleton
<1>4. QED
    BY <1>2, <1>3

LEMMA PowerType == ASSUME NEW n \in Nat PROVE 2^n \in Nat
<1>1. IsFiniteSet(1 .. n) /\ Cardinality(1 .. n) = n
    BY FS_Interval
<1>2. QED
    BY <1>1, FS_SUBSET, FS_CardinalityType

LEMMA PowerSuccessor == ASSUME NEW n \in Nat PROVE 2^(n + 1) = 2 * 2^n
<1> DEFINE P == SUBSET (1 .. n)
           f == [s \in P |-> s \cup {n + 1}]
           Q == {s \cup {n + 1} : s \in P}
<1>1. /\ IsFiniteSet(1 .. n) /\ Cardinality(1 .. n) = n
      /\ IsFiniteSet(1 .. n + 1) /\ Cardinality(1 .. n + 1) = n + 1
    BY FS_Interval
<1>2. IsFiniteSet(P) /\ Cardinality(P) = 2^n /\ Cardinality(SUBSET (1 .. n + 1)) = 2^(n + 1)
    BY <1>1, FS_SUBSET
<1>3. \A s \in P : n + 1 \notin s
    OBVIOUS
<1>4. f \in Surjection(P, Q)
  <2>1. f \in [P -> Q]
    OBVIOUS
  <2>2. \A q \in Q : \E s \in P : f[s] = q
    OBVIOUS
  <2>3. QED
    BY <2>1, <2>2 DEF Surjection
<1>5. f \in Injection(P, Q)
  <2>1. f \in [P -> Q]
    OBVIOUS
  <2>2. ASSUME NEW a \in P, NEW b \in P, f[a] = f[b] PROVE a = b
    <3>1. a \cup {n + 1} = b \cup {n + 1}
        BY <2>2
    <3>2. n + 1 \notin a /\ n + 1 \notin b
        BY <1>3
    <3> HIDE DEF P, Q, f
    <3>3. \A x \in a : x \in b
        BY <3>1, <3>2
    <3>4. \A x \in b : x \in a
        BY <3>1, <3>2
    <3>5. QED
        BY <3>3, <3>4
  <2> HIDE DEF P, Q, f
  <2>3. QED
    BY <2>1, <2>2 DEF Injection, IsInjective
<1>6. IsFiniteSet(Q) /\ Cardinality(Q) = Cardinality(P)
    BY <1>2, <1>4, <1>5, FS_Surjection
<1>7. SUBSET (1 .. n + 1) = P \cup Q
  <2>1. 1 .. n + 1 = (1 .. n) \cup {n + 1}
    OBVIOUS
  <2>2. ASSUME NEW s \in SUBSET (1 .. n + 1) PROVE s \in P \cup Q
    <3>1. s \ {n + 1} \in P
        BY <2>1
    <3>2. n + 1 \in s => s = (s \ {n + 1}) \cup {n + 1}
        OBVIOUS
    <3>3. QED
        BY <2>1, <3>1, <3>2
  <2>3. \A s \in P \cup Q : s \in SUBSET (1 .. n + 1)
    BY <2>1
  <2>4. QED
    BY <2>2, <2>3
<1>8. P \cap Q = {}
    BY <1>3
<1> HIDE DEF P, Q, f
<1>9. Cardinality(P \cup Q) = Cardinality(P) + Cardinality(Q) - Cardinality({})
    BY <1>2, <1>6, <1>8, FS_Union
<1>10. Cardinality({}) = 0
    BY FS_EmptySet
<1>11. PICK k \in Nat : k = Cardinality(P)
    BY <1>2, FS_CardinalityType
<1>12. Cardinality(SUBSET (1 .. n + 1)) = k + k
  <2>1. Cardinality(Q) = k
    BY <1>6, <1>11
  <2>2. Cardinality(P \cup Q) = k + k
    BY <1>9, <1>10, <1>11, <2>1
  <2>3. QED
    BY <1>7, <2>2
<1>13. 2^n = k
    BY <1>2, <1>11
<1>14. 2^(n + 1) = k + k
    BY <1>2, <1>12
<1>15. QED
    BY <1>13, <1>14

LEMMA PowersOfTwo ==
    /\ 2^0 = 1
    /\ \A n \in Nat : 2^n \in Nat \ {0} /\ 2^(n + 1) = 2 * 2^n
<1> DEFINE S == {n \in Nat : 2^n # 0}
<1>1. 0 \in S
    BY PowerZero
<1>2. ASSUME NEW n \in Nat, n \in S PROVE n + 1 \in S
    BY <1>2, PowerType, PowerSuccessor
<1>3. \A n \in Nat : n \in S
  <2> HIDE DEF S
  <2>1. QED
    BY <1>1, <1>2, SetInduction
<1>4. QED
    BY <1>3, PowerZero, PowerType, PowerSuccessor
=============================================================================
