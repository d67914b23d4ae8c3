--------------------------- MODULE TypeMapProofs ---------------------------
(***************************************************************************)
(* That the sort of the type map is stable and a search in it is right and *)
(* short, for every width of the ids, all written sequences and all keys.  *)
(*                                                                         *)
(* The recursions of filter and of the sort are opened with a fixpoint of  *)
(* InductionOnSets (FilterDefinition, SortDefinition); what they compute   *)
(* is by induction over the length of the sequence, in terms of what is in *)
(* a sequence (Elements) and how its elements stand to the later ones      *)
(* (Along).                                                                *)
(***************************************************************************)
EXTENDS TypeMap, InductionOnSets

-----------------------------------------------------------------------------
(* Sequences: what is in them and in which order.                          *)

\* What is in the sequence.
Elements(s) == {s[i] : i \in 1 .. Len(s)}

\* Each element of the sequence stands in the relation to each later one.
Along(s, R) == \A i, j \in 1 .. Len(s) : i < j => <<s[i], s[j]>> \in R

\* What is in a sequence of one element, and in a concatenation.
LEMMA ElementsOfOne == \A x : Elements(<<x>>) = {x}
BY DEF Elements

LEMMA ElementsOfBoth ==
    ASSUME NEW a \in Seq(Types), NEW b \in Seq(Types)
    PROVE  Elements(a \o b) = Elements(a) \cup Elements(b)
<1> DEFINE c == a \o b
<1>1. /\ Len(a) \in Nat /\ Len(b) \in Nat /\ Len(c) = Len(a) + Len(b)
      /\ \A i \in 1 .. Len(a) : c[i] = a[i]
      /\ \A i \in 1 .. Len(c) : i > Len(a) => c[i] = b[i - Len(a)]
  OBVIOUS
<1>2. \A i \in 1 .. Len(b) : c[Len(a) + i] = b[i]
  BY <1>1
<1> HIDE DEF c
<1>3. \A i \in 1 .. Len(c) : c[i] \in Elements(a) \cup Elements(b)
  <2> TAKE i \in 1 .. Len(c)
  <2>1. CASE i <= Len(a)
    BY <1>1, <2>1 DEF Elements
  <2>2. CASE i > Len(a)
    <3>1. i - Len(a) \in 1 .. Len(b)
      BY <1>1, <2>2
    <3> QED
      BY <1>1, <2>2, <3>1 DEF Elements
  <2> QED
    BY <1>1, <2>1, <2>2
<1>4. \A i \in 1 .. Len(a) : a[i] \in Elements(c)
  <2> TAKE i \in 1 .. Len(a)
  <2>1. i \in 1 .. Len(c) /\ c[i] = a[i]
    BY <1>1
  <2> QED
    BY <2>1 DEF Elements
<1>5. \A i \in 1 .. Len(b) : b[i] \in Elements(c)
  <2> TAKE i \in 1 .. Len(b)
  <2>1. Len(a) + i \in 1 .. Len(c) /\ c[Len(a) + i] = b[i]
    BY <1>1, <1>2
  <2> QED
    BY <2>1 DEF Elements
<1>6. Elements(c) \subseteq Elements(a) \cup Elements(b)
  BY <1>3 DEF Elements
<1>7. Elements(a) \subseteq Elements(c) /\ Elements(b) \subseteq Elements(c)
  BY <1>4, <1>5 DEF Elements
<1>8. Elements(c) = Elements(a) \cup Elements(b)
  BY <1>6, <1>7
<1> QED
  BY <1>8 DEF c

LEMMA ElementsWithFirst ==
    ASSUME NEW h \in Types, NEW s \in Seq(Types)
    PROVE  Elements(<<h>> \o s) = {h} \cup Elements(s)
<1>1. <<h>> \in Seq(Types)
  OBVIOUS
<1>2. Elements(<<h>> \o s) = Elements(<<h>>) \cup Elements(s)
  BY <1>1, ElementsOfBoth
<1> QED
  BY <1>2, ElementsOfOne

\* A concatenation is in order if its parts are, and each element of the first
\* stands in the relation to each of the second.
LEMMA AlongBoth ==
    ASSUME NEW a \in Seq(Types), NEW b \in Seq(Types), NEW R
    PROVE  Along(a \o b, R) <=> /\ Along(a, R)
                                /\ Along(b, R)
                                /\ \A x \in Elements(a), y \in Elements(b) : <<x, y>> \in R
<1> DEFINE c == a \o b
<1>1. /\ Len(a) \in Nat /\ Len(b) \in Nat /\ Len(c) = Len(a) + Len(b)
      /\ \A i \in 1 .. Len(a) : c[i] = a[i]
      /\ \A i \in 1 .. Len(c) : i > Len(a) => c[i] = b[i - Len(a)]
  OBVIOUS
<1>2. \A i \in 1 .. Len(b) : c[Len(a) + i] = b[i]
  BY <1>1
<1> HIDE DEF c
<1>3. ASSUME Along(c, R) PROVE Along(a, R)
  BY <1>1, <1>3 DEF Along
<1>4. ASSUME Along(c, R) PROVE Along(b, R)
  <2> SUFFICES ASSUME NEW i \in 1 .. Len(b), NEW j \in 1 .. Len(b), i < j PROVE <<b[i], b[j]>> \in R
    BY DEF Along
  <2>1. Len(a) + i \in 1 .. Len(c) /\ Len(a) + j \in 1 .. Len(c) /\ Len(a) + i < Len(a) + j
    BY <1>1
  <2>2. <<c[Len(a) + i], c[Len(a) + j]>> \in R
    BY <1>4, <2>1 DEF Along
  <2> QED
    BY <1>2, <2>2
<1>5. ASSUME Along(c, R), NEW x \in Elements(a), NEW y \in Elements(b) PROVE <<x, y>> \in R
  <2>1. PICK i \in 1 .. Len(a) : x = a[i]
    BY DEF Elements
  <2>2. PICK j \in 1 .. Len(b) : y = b[j]
    BY DEF Elements
  <2>3. i \in 1 .. Len(c) /\ Len(a) + j \in 1 .. Len(c) /\ i < Len(a) + j
    BY <1>1
  <2>4. <<c[i], c[Len(a) + j]>> \in R
    BY <1>5, <2>3 DEF Along
  <2> QED
    BY <1>1, <1>2, <2>1, <2>2, <2>4
<1>6. ASSUME Along(a, R), Along(b, R), \A x \in Elements(a), y \in Elements(b) : <<x, y>> \in R
      PROVE  Along(c, R)
  <2> SUFFICES ASSUME NEW i \in 1 .. Len(c), NEW j \in 1 .. Len(c), i < j PROVE <<c[i], c[j]>> \in R
    BY DEF Along
  <2>1. CASE j <= Len(a)
    <3>1. i \in 1 .. Len(a) /\ j \in 1 .. Len(a)
      BY <1>1, <2>1
    <3> QED
      BY <1>1, <1>6, <3>1 DEF Along
  <2>2. CASE i > Len(a)
    <3>1. i - Len(a) \in 1 .. Len(b) /\ j - Len(a) \in 1 .. Len(b) /\ i - Len(a) < j - Len(a)
      BY <1>1, <2>2
    <3>2. c[i] = b[i - Len(a)] /\ c[j] = b[j - Len(a)]
      BY <1>1, <2>2
    <3> QED
      BY <1>6, <3>1, <3>2 DEF Along
  <2>3. CASE i <= Len(a) /\ j > Len(a)
    <3>1. i \in 1 .. Len(a) /\ j - Len(a) \in 1 .. Len(b)
      BY <1>1, <2>3
    <3>2. c[i] \in Elements(a) /\ c[j] \in Elements(b)
      BY <1>1, <2>3, <3>1 DEF Elements
    <3> QED
      BY <1>6, <3>2
  <2> QED
    BY <1>1, <2>1, <2>2, <2>3
<1>7. Along(c, R) <=> /\ Along(a, R)
                      /\ Along(b, R)
                      /\ \A x \in Elements(a), y \in Elements(b) : <<x, y>> \in R
  BY <1>3, <1>4, <1>5, <1>6
<1> QED
  BY <1>7 DEF c

\* A sequence is empty, or is its first element before the rest.
LEMMA FirstAndRest ==
    ASSUME NEW q \in Seq(Types), q # <<>>
    PROVE  /\ Head(q) \in Types
           /\ Tail(q) \in Seq(Types)
           /\ q = <<Head(q)>> \o Tail(q)
           /\ Len(q) \in Nat \ {0}
           /\ Len(Tail(q)) \in Nat /\ Len(Tail(q)) < Len(q)
           /\ Len(Tail(q)) = Len(q) - 1
           /\ <<Head(q)>> \in Seq(Types)
<1>1. /\ Head(q) \in Types /\ Tail(q) \in Seq(Types)
      /\ Len(q) \in Nat \ {0} /\ Len(Tail(q)) = Len(q) - 1
  OBVIOUS
<1>2. <<Head(q)>> \o Tail(q) \in Seq(Types) /\ Len(<<Head(q)>> \o Tail(q)) = Len(q)
  BY <1>1
<1>3. \A i \in 1 .. Len(q) : (<<Head(q)>> \o Tail(q))[i] = q[i]
  BY <1>1
<1> QED
  BY <1>1, <1>2, <1>3

\* The length of a sequence of types.
Lengths == [q \in Seq(Types) |-> Len(q)]

LEMMA LengthsAreNumbers ==
    /\ \A q \in Seq(Types) : Lengths[q] = Len(q) /\ Lengths[q] \in Nat
    /\ HasSizes(Seq(Types), Lengths)
    /\ [q \in Seq(Types) |-> <<>>] \in [Seq(Types) -> Seq(Types)]
    /\ <<>> \in Seq(Types)
BY DEF Lengths, HasSizes

\* A set that has each sequence of types that it has all shorter ones of has
\* every one.
LEMMA SequenceInduction ==
    ASSUME NEW S,
           \A q \in Seq(Types) : (\A e \in Seq(Types) : Len(e) < Len(q) => e \in S) => q \in S
    PROVE  \A q \in Seq(Types) : q \in S
<1>1. Inherited(S, Seq(Types), Lengths)
  BY LengthsAreNumbers DEF Inherited
<1> QED
  BY <1>1, LengthsAreNumbers, SizeInduction

-----------------------------------------------------------------------------
(* Filtering.                                                              *)

\* One step of the recursion of filter, and the function it defines.
FilterStep(keep, f) ==
    [q \in Seq(Types) |->
        IF q = <<>> THEN <<>>
        ELSE (IF Head(q) \in keep THEN <<Head(q)>> ELSE <<>>) \o f[Tail(q)]]

Filtered(keep) == CHOOSE f : f = FilterStep(keep, f)

\* filter is what its recursion says.
LEMMA FilterDefinition ==
    ASSUME NEW keep
    PROVE  /\ Filter(<<>>, keep) = <<>>
           /\ \A q \in Seq(Types) : q # <<>> =>
                 Filter(q, keep) = (IF Head(q) \in keep THEN <<Head(q)>> ELSE <<>>)
                                       \o Filter(Tail(q), keep)
<1> DEFINE D == Seq(Types)
           F == [f \in [D -> D] |-> FilterStep(keep, f)]
<1>1. Iterable(F, [D -> D])
  <2>1. ASSUME NEW f \in [D -> D] PROVE FilterStep(keep, f) \in [D -> D]
    <3>1. ASSUME NEW q \in D, q # <<>>
          PROVE  (IF Head(q) \in keep THEN <<Head(q)>> ELSE <<>>) \o f[Tail(q)] \in D
      <4>1. Head(q) \in Types /\ f[Tail(q)] \in Seq(Types)
        BY <3>1, FirstAndRest
      <4> QED
        BY <4>1
    <3> QED
      BY <3>1, LengthsAreNumbers DEF FilterStep
  <2> HIDE DEF D
  <2> QED
    BY <2>1 DEF Iterable
<1>2. Descends(F, [D -> D], D, Lengths)
  <2>1. SUFFICES ASSUME NEW g \in [D -> D], NEW h \in [D -> D], NEW q \in D,
                        \A e \in D : Lengths[e] < Lengths[q] => g[e] = h[e]
                 PROVE  FilterStep(keep, g)[q] = FilterStep(keep, h)[q]
    BY DEF Descends
  <2>2. CASE q = <<>>
    BY <2>2 DEF FilterStep
  <2>3. CASE q # <<>>
    <3>1. Tail(q) \in D /\ Lengths[Tail(q)] < Lengths[q]
      BY <2>3, FirstAndRest, LengthsAreNumbers
    <3>2. g[Tail(q)] = h[Tail(q)]
      BY <2>1, <3>1
    <3> QED
      BY <2>3, <3>2 DEF FilterStep
  <2> QED
    BY <2>2, <2>3
<1>3. \E f \in [D -> D] : F[f] = f
  <2> HIDE DEF F, D
  <2>1. [D -> D] # {}
    BY LengthsAreNumbers DEF D
  <2>2. HasSizes(D, Lengths)
    BY LengthsAreNumbers DEF D
  <2>3. IsRecursion(F, D, D, Lengths)
    BY <1>1, <1>2, <2>1, <2>2 DEF IsRecursion
  <2> QED
    BY <2>3, FixpointExists
<1>4. \E f : f = FilterStep(keep, f)
  BY <1>3
<1>5. Filtered(keep) = FilterStep(keep, Filtered(keep))
  BY <1>4 DEF Filtered
<1>6. \A q \in D : Filter(q, keep) = Filtered(keep)[q]
  BY DEF Filter, Filtered, FilterStep
<1>7. \A q \in D : Filtered(keep)[q] = FilterStep(keep, Filtered(keep))[q]
  BY <1>5
<1>8. Filter(<<>>, keep) = <<>>
  BY <1>6, <1>7, LengthsAreNumbers DEF FilterStep
<1>9. ASSUME NEW q \in D, q # <<>>
      PROVE  Filter(q, keep) = (IF Head(q) \in keep THEN <<Head(q)>> ELSE <<>>)
                                       \o Filter(Tail(q), keep)
  <2>1. Tail(q) \in D
    BY <1>9, FirstAndRest
  <2>2. Filtered(keep)[q] = (IF Head(q) \in keep THEN <<Head(q)>> ELSE <<>>)
                                       \o Filtered(keep)[Tail(q)]
    BY <1>7, <1>9 DEF FilterStep
  <2> QED
    BY <1>6, <1>9, <2>1, <2>2
<1> QED
  BY <1>8, <1>9

\* What filter keeps: the elements of the set, in the order they had.
LEMMA FilterKeeps ==
    ASSUME NEW keep, NEW s \in Seq(Types)
    PROVE  /\ Filter(s, keep) \in Seq(Types)
           /\ Elements(Filter(s, keep)) = Elements(s) \cap keep
           /\ \A R : Along(s, R) => Along(Filter(s, keep), R)
<1> DEFINE Correct(q) == /\ Filter(q, keep) \in Seq(Types)
                         /\ Elements(Filter(q, keep)) = Elements(q) \cap keep
                         /\ \A R : Along(q, R) => Along(Filter(q, keep), R)
           S == {q \in Seq(Types) : Correct(q)}
<1>1. ASSUME NEW q \in Seq(Types), \A e \in Seq(Types) : Len(e) < Len(q) => e \in S
      PROVE  Correct(q)
  <2>1. CASE q = <<>>
    <3>1. Filter(q, keep) = q /\ Elements(q) = {}
      BY <2>1, FilterDefinition DEF Elements
    <3> QED
      BY <3>1
  <2>2. CASE q # <<>>
    <3>1. PICK h \in Types, t \in Seq(Types) :
            h = Head(q) /\ t = Tail(q) /\ q = <<h>> \o t /\ Len(t) < Len(q) /\ <<h>> \in Seq(Types)
      BY <2>2, FirstAndRest
    <3>2. Correct(t)
      BY <1>1, <3>1
    <3>3. PICK ft \in Seq(Types) : ft = Filter(t, keep)
      BY <3>2
    <3>4. Elements(ft) = Elements(t) \cap keep /\ \A R : Along(t, R) => Along(ft, R)
      BY <3>2, <3>3
    <3>5. Elements(q) = {h} \cup Elements(t)
      BY <3>1, ElementsWithFirst
    <3>6. ASSUME NEW R, Along(q, R)
          PROVE  Along(t, R) /\ \A y \in Elements(t) : <<h, y>> \in R
      <4>1. h \in Elements(<<h>>)
        BY ElementsOfOne
      <4>2. Along(<<h>> \o t, R)
        BY <3>1, <3>6
      <4> QED
        BY <3>1, <4>1, <4>2, AlongBoth
    <3>7. CASE h \in keep
      <4>1. Filter(q, keep) = <<h>> \o ft
        BY <2>2, <3>1, <3>3, <3>7, FilterDefinition
      <4>2. <<h>> \o ft \in Seq(Types)
        OBVIOUS
      <4>3. Elements(<<h>> \o ft) = {h} \cup Elements(ft)
        BY ElementsWithFirst
      <4>4. ASSUME NEW R, Along(q, R) PROVE Along(<<h>> \o ft, R)
        <5>1. Along(ft, R)
          BY <3>4, <3>6, <4>4
        <5>2. \A x \in Elements(<<h>>), y \in Elements(ft) : <<x, y>> \in R
          BY <3>4, <3>6, <4>4, ElementsOfOne
        <5>3. Along(<<h>>, R)
          BY DEF Along
        <5> QED
          BY <3>1, <5>1, <5>2, <5>3, AlongBoth
      <4> QED
        BY <3>4, <3>5, <3>7, <4>1, <4>2, <4>3, <4>4
    <3>8. CASE h \notin keep
      <4>1. Filter(q, keep) = <<>> \o ft
        BY <2>2, <3>1, <3>3, <3>8, FilterDefinition
      <4>2. <<>> \o ft = ft
        OBVIOUS
      <4> QED
        BY <3>4, <3>5, <3>6, <3>8, <4>1, <4>2
    <3> QED
      BY <3>7, <3>8
  <2> QED
    BY <2>1, <2>2
<1>2. \A q \in Seq(Types) : q \in S
  <2>1. \A q \in Seq(Types) : (\A e \in Seq(Types) : Len(e) < Len(q) => e \in S) => q \in S
    BY <1>1
  <2> HIDE DEF S
  <2> QED
    BY <2>1, SequenceInduction
<1> QED
  BY <1>2

\* What filter keeps with a test and with its negation is everything, once.
LEMMA FilterParts ==
    ASSUME NEW K, NEW L, K \cap L = {}, Types \subseteq K \cup L, NEW s \in Seq(Types)
    PROVE  Len(Filter(s, K)) + Len(Filter(s, L)) = Len(s)
<1> DEFINE S == {q \in Seq(Types) : Len(Filter(q, K)) + Len(Filter(q, L)) = Len(q)}
<1>1. ASSUME NEW q \in Seq(Types), \A e \in Seq(Types) : Len(e) < Len(q) => e \in S
      PROVE  Len(Filter(q, K)) + Len(Filter(q, L)) = Len(q)
  <2>1. CASE q = <<>>
    BY <2>1, FilterDefinition
  <2>2. CASE q # <<>>
    <3>1. PICK h \in Types, t \in Seq(Types) :
            h = Head(q) /\ t = Tail(q) /\ Len(q) \in Nat
            /\ Len(t) < Len(q) /\ Len(t) = Len(q) - 1
      BY <2>2, FirstAndRest
    <3>2. Len(Filter(t, K)) + Len(Filter(t, L)) = Len(t)
      BY <1>1, <3>1
    <3>3. PICK k \in Seq(Types), l \in Seq(Types) : k = Filter(t, K) /\ l = Filter(t, L)
      BY FilterKeeps
    <3>4. /\ Len(<<h>> \o k) = Len(k) + 1 /\ Len(<<>> \o k) = Len(k)
          /\ Len(<<h>> \o l) = Len(l) + 1 /\ Len(<<>> \o l) = Len(l)
          /\ Len(k) \in Nat /\ Len(l) \in Nat
      OBVIOUS
    <3>7. Len(k) + Len(l) + 1 = Len(q)
      <4>1. Len(k) + Len(l) = Len(t)
        BY <3>2, <3>3
      <4>2. Len(t) = Len(q) - 1 /\ Len(q) \in Int
        BY <3>1
      <4> QED
        BY <4>1, <4>2
    <3>5. CASE h \in K /\ h \notin L
      <4>1. Filter(q, K) = <<h>> \o k /\ Filter(q, L) = <<>> \o l
        BY <2>2, <3>1, <3>3, <3>5, FilterDefinition
      <4>2. Len(Filter(q, K)) + Len(Filter(q, L)) = Len(k) + Len(l) + 1
        BY <3>4, <4>1
      <4> QED
        BY <3>7, <4>2
    <3>6. CASE h \notin K /\ h \in L
      <4>1. Filter(q, K) = <<>> \o k /\ Filter(q, L) = <<h>> \o l
        BY <2>2, <3>1, <3>3, <3>6, FilterDefinition
      <4>2. Len(Filter(q, K)) + Len(Filter(q, L)) = Len(k) + Len(l) + 1
        BY <3>4, <4>1
      <4> QED
        BY <3>7, <4>2
    <3> QED
      BY <3>5, <3>6
  <2> QED
    BY <2>1, <2>2
<1>2. \A q \in Seq(Types) : q \in S
  <2>1. \A q \in Seq(Types) : (\A e \in Seq(Types) : Len(e) < Len(q) => e \in S) => q \in S
    BY <1>1
  <2> HIDE DEF S
  <2> QED
    BY <2>1, SequenceInduction
<1> QED
  BY <1>2

-----------------------------------------------------------------------------
(* Sorting.                                                                *)

\* One step of the recursion of seq_sort, and the function it defines.
SortStep(f) ==
    [q \in Seq(Types) |->
        IF q = <<>> THEN <<>>
        ELSE f[FilterLess(Tail(q), Head(q))] \o <<Head(q)>>
             \o f[FilterNotLess(Tail(q), Head(q))]]

Sorted == CHOOSE f : f = SortStep(f)

\* Both parts around the pivot are sequences, shorter than the whole.
LEMMA PartsAreShorter ==
    ASSUME NEW q \in Seq(Types), q # <<>>
    PROVE  /\ FilterLess(Tail(q), Head(q)) \in Seq(Types)
           /\ FilterNotLess(Tail(q), Head(q)) \in Seq(Types)
           /\ Len(FilterLess(Tail(q), Head(q))) < Len(q)
           /\ Len(FilterNotLess(Tail(q), Head(q))) < Len(q)
           /\ Len(q) = Len(FilterLess(Tail(q), Head(q))) + 1
                           + Len(FilterNotLess(Tail(q), Head(q)))
<1>1. PICK h \in Types, t \in Seq(Types) :
        h = Head(q) /\ t = Tail(q) /\ Len(q) \in Nat /\ Len(t) = Len(q) - 1
  BY FirstAndRest
<1>2. PICK K, L : K = {v \in Types : Less(v, h)} /\ L = {v \in Types : ~Less(v, h)}
  OBVIOUS
<1>3. K \cap L = {} /\ Types \subseteq K \cup L
  BY <1>2
<1>4. PICK k \in Seq(Types), l \in Seq(Types) : k = Filter(t, K) /\ l = Filter(t, L)
  BY FilterKeeps
<1>5. Len(k) + Len(l) = Len(t)
  BY <1>3, <1>4, FilterParts
<1>6. k = FilterLess(Tail(q), Head(q)) /\ l = FilterNotLess(Tail(q), Head(q))
  BY <1>1, <1>2, <1>4 DEF FilterLess, FilterNotLess
<1>7. Len(k) \in Nat /\ Len(l) \in Nat /\ Len(t) = Len(q) - 1 /\ Len(q) \in Nat
  BY <1>1
<1> QED
  BY <1>5, <1>6, <1>7

\* seq_sort is what its recursion says.
LEMMA SortDefinition ==
    /\ Sort(<<>>) = <<>>
    /\ \A q \in Seq(Types) : q # <<>> =>
          Sort(q) = Sort(FilterLess(Tail(q), Head(q))) \o <<Head(q)>>
                        \o Sort(FilterNotLess(Tail(q), Head(q)))
<1> DEFINE D == Seq(Types)
           F == [f \in [D -> D] |-> SortStep(f)]
<1>1. Iterable(F, [D -> D])
  <2>1. ASSUME NEW f \in [D -> D] PROVE SortStep(f) \in [D -> D]
    <3>1. ASSUME NEW q \in D, q # <<>>
          PROVE  f[FilterLess(Tail(q), Head(q))] \o <<Head(q)>>
                     \o f[FilterNotLess(Tail(q), Head(q))] \in D
      <4>1. PICK k \in D, l \in D :
              k = FilterLess(Tail(q), Head(q)) /\ l = FilterNotLess(Tail(q), Head(q))
        BY <3>1, PartsAreShorter
      <4>2. f[k] \in Seq(Types) /\ f[l] \in Seq(Types) /\ <<Head(q)>> \in Seq(Types)
        BY <3>1, FirstAndRest
      <4>3. f[k] \o <<Head(q)>> \o f[l] \in Seq(Types)
        BY <4>2
      <4> QED
        BY <4>1, <4>3
    <3> QED
      BY <3>1, LengthsAreNumbers DEF SortStep
  <2> HIDE DEF D
  <2> QED
    BY <2>1 DEF Iterable
<1>2. Descends(F, [D -> D], D, Lengths)
  <2>1. SUFFICES ASSUME NEW g \in [D -> D], NEW h \in [D -> D], NEW q \in D,
                        \A e \in D : Lengths[e] < Lengths[q] => g[e] = h[e]
                 PROVE  SortStep(g)[q] = SortStep(h)[q]
    BY DEF Descends
  <2>2. CASE q = <<>>
    BY <2>2 DEF SortStep
  <2>3. CASE q # <<>>
    <3>1. PICK k \in D, l \in D :
            k = FilterLess(Tail(q), Head(q)) /\ l = FilterNotLess(Tail(q), Head(q))
      BY <2>3, PartsAreShorter
    <3>2. Len(k) < Len(q) /\ Len(l) < Len(q)
      BY <2>3, <3>1, PartsAreShorter
    <3>3. g[k] = h[k] /\ g[l] = h[l]
      BY <2>1, <3>2, LengthsAreNumbers
    <3> QED
      BY <2>3, <3>1, <3>3 DEF SortStep
  <2> QED
    BY <2>2, <2>3
<1>3. \E f \in [D -> D] : F[f] = f
  <2> HIDE DEF F, D
  <2>1. [D -> D] # {}
    BY LengthsAreNumbers DEF D
  <2>2. HasSizes(D, Lengths)
    BY LengthsAreNumbers DEF D
  <2>3. IsRecursion(F, D, D, Lengths)
    BY <1>1, <1>2, <2>1, <2>2 DEF IsRecursion
  <2> QED
    BY <2>3, FixpointExists
<1>4. \E f : f = SortStep(f)
  BY <1>3
<1>5. Sorted = SortStep(Sorted)
  BY <1>4 DEF Sorted
<1>6. \A q \in D : Sort(q) = Sorted[q]
  BY DEF Sort, Sorted, SortStep
<1>7. \A q \in D : Sorted[q] = SortStep(Sorted)[q]
  BY <1>5
<1>8. Sort(<<>>) = <<>>
  BY <1>6, <1>7, LengthsAreNumbers DEF SortStep
<1>9. ASSUME NEW q \in D, q # <<>>
      PROVE  Sort(q) = Sort(FilterLess(Tail(q), Head(q))) \o <<Head(q)>>
                        \o Sort(FilterNotLess(Tail(q), Head(q)))
  <2>1. PICK k \in D, l \in D :
          k = FilterLess(Tail(q), Head(q)) /\ l = FilterNotLess(Tail(q), Head(q))
    BY <1>9, PartsAreShorter
  <2>2. Sorted[q] = Sorted[k] \o <<Head(q)>> \o Sorted[l]
    BY <1>7, <1>9, <2>1 DEF SortStep
  <2> QED
    BY <1>6, <1>9, <2>1, <2>2
<1> QED
  BY <1>8, <1>9

\* The order in which types are written, and the one in which they are sorted.
WrittenBefore == {p \in Types \X Types : p[1].at < p[2].at}
SortedBefore == {p \in Types \X Types :
                 p[1].id < p[2].id \/ (p[1].id = p[2].id /\ p[1].at < p[2].at)}

\* seq_sort keeps the types, and sorts those that are in the order of writing.
LEMMA SortSorts ==
    ASSUME NEW s \in Seq(Types)
    PROVE  /\ Sort(s) \in Seq(Types)
           /\ Len(Sort(s)) = Len(s)
           /\ Elements(Sort(s)) = Elements(s)
           /\ Along(s, WrittenBefore) => Along(Sort(s), SortedBefore)
<1> DEFINE Correct(q) == /\ Sort(q) \in Seq(Types)
                         /\ Len(Sort(q)) = Len(q)
                         /\ Elements(Sort(q)) = Elements(q)
                         /\ Along(q, WrittenBefore) => Along(Sort(q), SortedBefore)
           S == {q \in Seq(Types) : Correct(q)}
<1>1. ASSUME NEW q \in Seq(Types), \A e \in Seq(Types) : Len(e) < Len(q) => e \in S
      PROVE  Correct(q)
  <2>1. CASE q = <<>>
    <3>1. Sort(q) = q /\ Along(q, SortedBefore)
      BY <2>1, SortDefinition DEF Along
    <3> QED
      BY <3>1
  <2>2. CASE q # <<>>
    <3>1. PICK h \in Types, t \in Seq(Types) :
            h = Head(q) /\ t = Tail(q) /\ q = <<h>> \o t /\ <<h>> \in Seq(Types)
      BY <2>2, FirstAndRest
    <3>2. PICK K, L : K = {v \in Types : Less(v, h)} /\ L = {v \in Types : ~Less(v, h)}
      OBVIOUS
    <3>3. PICK k \in Seq(Types), l \in Seq(Types) : k = Filter(t, K) /\ l = Filter(t, L)
      BY FilterKeeps
    <3>4. k = FilterLess(Tail(q), Head(q)) /\ l = FilterNotLess(Tail(q), Head(q))
      BY <3>1, <3>2, <3>3 DEF FilterLess, FilterNotLess
    <3>5. Len(k) < Len(q) /\ Len(l) < Len(q) /\ Len(q) = Len(k) + 1 + Len(l)
      BY <2>2, <3>4, PartsAreShorter
    <3>6. Correct(k) /\ Correct(l)
      BY <1>1, <3>5
    <3>7. PICK a \in Seq(Types), b \in Seq(Types) : a = Sort(k) /\ b = Sort(l)
      BY <3>6
    <3>8. PICK c \in Seq(Types) : c = a \o <<h>>
      <4>1. a \o <<h>> \in Seq(Types)
        BY <3>1
      <4> QED
        BY <4>1
    <3>9. Sort(q) = c \o b /\ c \o b \in Seq(Types) /\ Len(c \o b) = Len(a) + 1 + Len(b)
      <4>1. Sort(q) = c \o b
        BY <2>2, <3>1, <3>4, <3>7, <3>8, SortDefinition
      <4>2. Len(c) = Len(a) + 1
        BY <3>8
      <4>3. c \o b \in Seq(Types) /\ Len(c \o b) = Len(c) + Len(b)
        OBVIOUS
      <4> QED
        BY <4>1, <4>2, <4>3
    <3>10. /\ Elements(a) = Elements(t) \cap K
           /\ Elements(b) = Elements(t) \cap L
           /\ Len(a) = Len(k) /\ Len(b) = Len(l)
      BY <3>3, <3>6, <3>7, FilterKeeps
    <3>11. Elements(c) = Elements(a) \cup {h}
      <4>1. Elements(<<h>>) = {h} /\ <<h>> \in Seq(Types)
        BY <3>1, ElementsOfOne
      <4>2. Elements(c) = Elements(a) \cup Elements(<<h>>)
        BY <3>8, <4>1, ElementsOfBoth
      <4> QED
        BY <4>1, <4>2
    <3>12. Elements(c \o b) = Elements(a) \cup {h} \cup Elements(b)
      <4>1. Elements(c \o b) = Elements(c) \cup Elements(b)
        BY ElementsOfBoth
      <4> QED
        BY <3>11, <4>1
    <3>13. Elements(q) = {h} \cup Elements(t)
      BY <3>1, ElementsOfBoth, ElementsOfOne
    <3>14. Elements(t) \subseteq Types
      BY DEF Elements
    <3>15. Elements(c \o b) = Elements(q)
      BY <3>2, <3>10, <3>12, <3>13, <3>14
    <3>16. ASSUME Along(q, WrittenBefore) PROVE Along(c \o b, SortedBefore)
      <4>1. Along(<<h>> \o t, WrittenBefore) /\ h \in Elements(<<h>>)
        BY <3>1, <3>16, ElementsOfOne
      <4>2. Along(t, WrittenBefore) /\ \A y \in Elements(t) : <<h, y>> \in WrittenBefore
        BY <3>1, <4>1, AlongBoth
      <4>3. Along(k, WrittenBefore) /\ Along(l, WrittenBefore)
        BY <3>3, <4>2, FilterKeeps
      <4>4. Along(a, SortedBefore) /\ Along(b, SortedBefore) /\ Along(<<h>>, SortedBefore)
        BY <3>6, <3>7, <4>3 DEF Along
      <4>5. \A x \in Elements(a) : <<x, h>> \in SortedBefore
        BY <3>2, <3>10 DEF Less, SortedBefore
      <4>6. \A y \in Elements(b) : <<h, y>> \in SortedBefore
        <5> TAKE y \in Elements(b)
        <5>1. y \in Types /\ ~(y.id < h.id) /\ <<h, y>> \in WrittenBefore
          BY <3>2, <3>10, <4>2 DEF Less
        <5>2. y.id \in Int /\ h.id \in Int
          BY <5>1, ModulusAssumption DEF Types, Ids
        <5>3. h.at < y.at
          BY <5>1 DEF WrittenBefore
        <5>4. h.id < y.id \/ h.id = y.id
          BY <5>1, <5>2
        <5> QED
          BY <5>1, <5>3, <5>4 DEF SortedBefore
      <4>7. \A x \in Elements(a), y \in Elements(b) : <<x, y>> \in SortedBefore
        <5> TAKE x \in Elements(a), y \in Elements(b)
        <5>1. x \in Types /\ y \in Types /\ x.id < h.id /\ ~(y.id < h.id)
          BY <3>2, <3>10 DEF Less
        <5>2. x.id \in Int /\ y.id \in Int /\ h.id \in Int
          BY <5>1, ModulusAssumption DEF Types, Ids
        <5>3. x.id < y.id
          BY <5>1, <5>2
        <5> QED
          BY <5>1, <5>3 DEF SortedBefore
      <4>8. Along(c, SortedBefore)
        <5>1. \A x \in Elements(a), y \in Elements(<<h>>) : <<x, y>> \in SortedBefore
          BY <4>5, ElementsOfOne
        <5> QED
          BY <3>1, <3>8, <4>4, <5>1, AlongBoth
      <4>9. \A x \in Elements(c), y \in Elements(b) : <<x, y>> \in SortedBefore
        BY <3>11, <4>6, <4>7
      <4> QED
        BY <3>9, <4>4, <4>8, <4>9, AlongBoth
    <3> HIDE DEF S
    <3> QED
      BY <3>5, <3>8, <3>9, <3>10, <3>15, <3>16
  <2> QED
    BY <2>1, <2>2
<1>2. \A q \in Seq(Types) : q \in S
  <2>1. \A q \in Seq(Types) : (\A e \in Seq(Types) : Len(e) < Len(q) => e \in S) => q \in S
    BY <1>1
  <2> HIDE DEF S
  <2> QED
    BY <2>1, SequenceInduction
<1> QED
  BY <1>2

\* Any written sequence is sorted stably.
LEMMA SortIsRight ==
    ASSUME NEW w \in Seq(Ids)
    PROVE  SortsStably(w) /\ Len(Sort(TypesOf(w))) = Len(w)
<1> DEFINE t == TypesOf(w)
<1>1. /\ t \in Seq(Types) /\ Len(t) = Len(w)
      /\ \A i \in 1 .. Len(w) : t[i] = [id |-> w[i], at |-> i]
  <2>1. \A i \in 1 .. Len(w) : [id |-> w[i], at |-> i] \in Types
    BY DEF Types
  <2>2. t = [i \in 1 .. Len(w) |-> [id |-> w[i], at |-> i]]
    BY DEF TypesOf
  <2> QED
    BY <2>1, <2>2
<1> HIDE DEF t
<1>2. Along(t, WrittenBefore)
  <2> SUFFICES ASSUME NEW i \in 1 .. Len(t), NEW j \in 1 .. Len(t), i < j
               PROVE  <<t[i], t[j]>> \in WrittenBefore
    BY DEF Along
  <2>1. t[i] = [id |-> w[i], at |-> i] /\ t[j] = [id |-> w[j], at |-> j]
    BY <1>1
  <2>2. t[i].at < t[j].at
    BY <2>1
  <2>3. t[i] \in Types /\ t[j] \in Types
    BY <1>1
  <2> QED
    BY <2>2, <2>3 DEF WrittenBefore
<1>3. PICK s \in Seq(Types) : s = Sort(t)
  BY <1>1, SortSorts
<1>4. Len(s) = Len(t) /\ Elements(s) = Elements(t) /\ Along(s, SortedBefore)
  BY <1>1, <1>2, <1>3, SortSorts
<1>5. StablyAscending(s)
  <2> SUFFICES ASSUME NEW i \in DOMAIN s, NEW j \in DOMAIN s, i < j
               PROVE  s[i].id < s[j].id \/ (s[i].id = s[j].id /\ s[i].at < s[j].at)
    BY DEF StablyAscending
  <2>1. <<s[i], s[j]>> \in SortedBefore
    BY <1>4 DEF Along
  <2> QED
    BY <2>1 DEF SortedBefore
<1>6. SameTypes(s, t)
  <2>1. \A i \in 1 .. Len(t) : t[i] \in Elements(s)
    BY <1>4 DEF Elements
  <2>2. \A i \in 1 .. Len(s) : s[i] \in Elements(t)
    BY <1>4 DEF Elements
  <2>3. DOMAIN t = 1 .. Len(t) /\ DOMAIN s = 1 .. Len(s)
    BY <1>1
  <2> QED
    BY <1>4, <2>1, <2>2, <2>3 DEF Elements, SameTypes
<1> QED
  BY <1>1, <1>3, <1>4, <1>5, <1>6 DEF t, SortsStably

-----------------------------------------------------------------------------
(* The comparison.                                                         *)

\* The comparison is the difference unless the id is far from the key.
LEMMA CompareNear ==
    ASSUME NEW k \in Ids, NEW id \in Ids, ~(k - id >= Half), ~(id - k > Half)
    PROVE  Compare(k, id) = k - id
<1>1. Half \in Nat /\ Modulus \in Nat \ {0} /\ Modulus = 2 * Half
  BY ModulusAssumption, SMTT(60) DEF Half
<1>2. CASE k >= id
  <2>1. (k - id) % Modulus = k - id
    BY <1>1, <1>2, SMTT(60) DEF Ids
  <2> QED
    BY <1>1, <1>2, <2>1 DEF Ids, Compare
<1>3. CASE k < id
  <2>1. (k - id) % Modulus = k - id + Modulus
    BY <1>1, <1>3, SMTT(60) DEF Ids
  <2> QED
    BY <1>1, <1>3, <2>1 DEF Ids, Compare
<1> QED
  BY <1>1, <1>2, <1>3 DEF Ids

\* The comparison finds nothing but the key, however far the id is.
LEMMA CompareZero ==
    ASSUME NEW k \in Ids, NEW id \in Ids
    PROVE  Compare(k, id) = 0 <=> k = id
<1>1. Half \in Nat /\ Modulus \in Nat \ {0} /\ Modulus = 2 * Half
  BY ModulusAssumption, SMTT(60) DEF Half
<1>2. CASE k >= id
  <2>1. (k - id) % Modulus = k - id
    BY <1>1, <1>2, SMTT(60) DEF Ids
  <2> QED
    BY <1>1, <1>2, <2>1 DEF Ids, Compare
<1>3. CASE k < id
  <2>1. (k - id) % Modulus = k - id + Modulus
    BY <1>1, <1>3, SMTT(60) DEF Ids
  <2> QED
    BY <1>1, <1>3, <2>1 DEF Ids, Compare
<1> QED
  BY <1>1, <1>2, <1>3 DEF Ids

-----------------------------------------------------------------------------
Ascending(s) == \A i, j \in DOMAIN s : i < j => s[i].id <= s[j].id

Has(s, id) == \E i \in DOMAIN s : s[i].id = id

\* The key was compared with an id that is far from it.
Strayed == \E j \in DOMAIN visited : Far(visited[j])

IsWritten(id) == \E i \in DOMAIN ids : ids[i] = id

\* The node is a part of the sorted types; the key, if it was written, is still
\* in it, unless the search has strayed.
Inv ==
    /\ ids \in Seq(Ids)
    /\ key \in Ids
    /\ visited \in Seq(Ids)
    /\ node \in Seq(Types)
    /\ Ascending(node)
    /\ \A i \in DOMAIN node : IsWritten(node[i].id)
    /\ result = "searching" /\ IsWritten(key) => Has(node, key) \/ Strayed
    /\ SearchIsRight

\* The ids of types are numbers.
LEMMA IdsAreNumbers ==
    ASSUME NEW s \in Seq(Types)
    PROVE  \A j \in 1 .. Len(s) : s[j].id \in Nat
<1> TAKE j \in 1 .. Len(s)
<1>1. s[j] \in Types
  OBVIOUS
<1> QED
  BY <1>1, ModulusAssumption DEF Types, Ids

\* The elements of the three parts of a branch.
LEMMA Parts ==
    ASSUME NEW s \in Seq(Types), Len(s) > 1
    PROVE  LET h == HalfLength(s)
           IN  /\ h \in 1 .. Len(s) - 1
               /\ Middle(s) = s[h + 1]
               /\ Left(s) \in Seq(Types) /\ Len(Left(s)) = h
               /\ \A i \in 1 .. h : Left(s)[i] = s[i]
               /\ Right(s) \in Seq(Types) /\ Len(Right(s)) = Len(s) - h - 1
               /\ \A i \in 1 .. Len(s) - h - 1 : Right(s)[i] = s[h + 1 + i]
<1> DEFINE h == HalfLength(s)
<1>1. h \in 1 .. Len(s) - 1 /\ Len(s) \in Nat
  BY SMTT(30) DEF HalfLength
<1> HIDE DEF h
<1>2. Left(s) = SubSeq(s, 1, h) /\ Second(s) = SubSeq(s, h + 1, Len(s))
  <2>1. Left(s) = SubSeq(s, 1, h)
    BY DEF h, Left, SplitLeft
  <2>2. Second(s) = SplitRight(Len(s) - h, s)
    BY DEF h, Second
  <2>3. Len(s) - h < Len(s) /\ Len(s) - (Len(s) - h) + 1 = h + 1
    BY <1>1
  <2> QED
    BY <2>1, <2>2, <2>3 DEF SplitRight
<1>3. /\ Left(s) \in Seq(Types) /\ Len(Left(s)) = h
      /\ \A i \in 1 .. h : Left(s)[i] = s[i]
  BY <1>1, <1>2
<1>4. /\ Second(s) \in Seq(Types) /\ Len(Second(s)) = Len(s) - h
      /\ \A i \in 1 .. Len(s) - h : Second(s)[i] = s[h + i]
  BY <1>1, <1>2
<1>5. Second(s) # <<>> /\ Middle(s) = s[h + 1]
  BY <1>1, <1>4 DEF Middle
<1>6. /\ Right(s) \in Seq(Types) /\ Len(Right(s)) = Len(s) - h - 1
      /\ \A i \in 1 .. Len(s) - h - 1 : Right(s)[i] = Second(s)[i + 1]
  BY <1>1, <1>4, <1>5 DEF Right
<1>7. \A i \in 1 .. Len(s) - h - 1 : Right(s)[i] = s[h + 1 + i]
  BY <1>1, <1>4, <1>6
<1> QED
  BY <1>1, <1>3, <1>5, <1>6, <1>7 DEF h

-----------------------------------------------------------------------------
(* Going to one side of a branch keeps the key, or has just strayed.       *)

\* Visited ids stay visited.
LEMMA StaysStrayed ==
    ASSUME NEW id \in Ids, visited \in Seq(Ids), visited' = Append(visited, id),
           key' = key
    PROVE  /\ visited' \in Seq(Ids)
           /\ Strayed => Strayed'
           /\ Far(id) => Strayed'
<1>1. /\ visited' \in Seq(Ids) /\ Len(visited') = Len(visited) + 1
      /\ visited'[Len(visited) + 1] = id
      /\ \A j \in 1 .. Len(visited) : visited'[j] = visited[j]
  OBVIOUS
<1>2. Strayed => Strayed'
  BY <1>1 DEF Strayed, Far
<1>3. Far(id) => Strayed'
  BY <1>1 DEF Strayed, Far
<1> QED
  BY <1>1, <1>2, <1>3

\* The key of an ascending sequence that is left of the middle is in the left part.
LEMMA KeyIsLeft ==
    ASSUME NEW s \in Seq(Types), Len(s) > 1, Ascending(s), NEW k \in Ids,
           Has(s, k), k < Middle(s).id
    PROVE  Has(Left(s), k)
<1> DEFINE h == HalfLength(s)
<1>1. PICK i \in 1 .. Len(s) : s[i].id = k
  BY DEF Has
<1>2. h \in 1 .. Len(s) - 1 /\ Middle(s) = s[h + 1]
  BY Parts
<1>3. \A j \in 1 .. Len(s) : s[j].id \in Nat
  BY IdsAreNumbers
<1>4. ~(h + 1 <= i)
  <2> SUFFICES ASSUME h + 1 <= i PROVE FALSE
    OBVIOUS
  <2>1. CASE h + 1 = i
    BY <1>1, <1>2, <1>3, <2>1
  <2>2. CASE h + 1 < i
    BY <1>1, <1>2, <1>3, <2>2 DEF Ascending
  <2> QED
    BY <1>1, <1>2, <2>1, <2>2
<1>5. i \in 1 .. h
  BY <1>1, <1>2, <1>4
<1>6. Left(s)[i].id = k /\ i \in DOMAIN Left(s)
  BY <1>1, <1>5, Parts
<1> QED
  BY <1>6 DEF Has

\* The same for the right part.
LEMMA KeyIsRight ==
    ASSUME NEW s \in Seq(Types), Len(s) > 1, Ascending(s), NEW k \in Ids,
           Has(s, k), k > Middle(s).id
    PROVE  Has(Right(s), k)
<1> DEFINE h == HalfLength(s)
<1>1. PICK i \in 1 .. Len(s) : s[i].id = k
  BY DEF Has
<1>2. h \in 1 .. Len(s) - 1 /\ Middle(s) = s[h + 1]
  BY Parts
<1>3. \A j \in 1 .. Len(s) : s[j].id \in Nat
  BY IdsAreNumbers
<1>4. ~(i <= h + 1)
  <2> SUFFICES ASSUME i <= h + 1 PROVE FALSE
    OBVIOUS
  <2>1. CASE h + 1 = i
    BY <1>1, <1>2, <1>3, <2>1
  <2>2. CASE i < h + 1
    BY <1>1, <1>2, <1>3, <2>2 DEF Ascending
  <2> QED
    BY <1>1, <1>2, <2>1, <2>2
<1>5. PICK j \in 1 .. Len(s) - h - 1 : h + 1 + j = i
  <2>1. i - h - 1 \in 1 .. Len(s) - h - 1
    BY <1>1, <1>2, <1>4
  <2> QED
    BY <1>1, <1>2, <2>1
<1>6. Right(s)[j].id = k /\ j \in DOMAIN Right(s)
  BY <1>1, <1>5, Parts
<1> QED
  BY <1>6 DEF Has

-----------------------------------------------------------------------------
(* The invariant.                                                          *)

\* A program that begins to search has the whole sorted sequence before it.
LEMMA InvInit ==
    ASSUME Init
    PROVE  Inv
<1>1. ids \in Seq(Ids) /\ key \in Ids /\ visited = <<>> /\ result = "searching"
  BY WrittenAssumption DEF Init
<1>2. SortsStably(ids) /\ node = Sort(TypesOf(ids))
  BY <1>1, SortIsRight DEF Init
<1>3. node \in Seq(Types) /\ StablyAscending(node) /\ SameTypes(node, TypesOf(ids))
  BY <1>2 DEF SortsStably
<1>4. \A i \in 1 .. Len(ids) : TypesOf(ids)[i].id = ids[i]
  BY <1>1 DEF TypesOf
<1>5. DOMAIN TypesOf(ids) = 1 .. Len(ids)
  BY <1>1 DEF TypesOf
<1>6. Ascending(node)
  BY <1>3, IdsAreNumbers DEF StablyAscending, Ascending
<1>7. \A j \in DOMAIN node : IsWritten(node[j].id)
  BY <1>1, <1>3, <1>4, <1>5 DEF SameTypes, IsWritten
<1>8. IsWritten(key) => Has(node, key)
  <2> SUFFICES ASSUME NEW i \in DOMAIN ids, ids[i] = key PROVE Has(node, key)
    BY DEF IsWritten
  <2>1. i \in 1 .. Len(ids)
    BY <1>1
  <2>2. PICK j \in DOMAIN node : node[j] = TypesOf(ids)[i]
    BY <1>3, <1>5, <2>1 DEF SameTypes
  <2>3. node[j].id = key
    BY <1>4, <2>1, <2>2
  <2> QED
    BY <2>3 DEF Has
<1> QED
  BY <1>1, <1>3, <1>6, <1>7, <1>8 DEF Inv, SearchIsRight

\* What is left of the node after a branch satisfies what Inv says of a node.
LEMMA BranchKeeps ==
    ASSUME Inv, Len(node) > 1, NEW part \in {Left(node), Right(node)}
    PROVE  /\ part \in Seq(Types)
           /\ Ascending(part)
           /\ \A i \in DOMAIN part : IsWritten(part[i].id)
<1> DEFINE h == HalfLength(node)
<1>1. node \in Seq(Types) /\ Ascending(node)
  BY DEF Inv
<1>2. PICK d \in 0 .. Len(node) :
        /\ part \in Seq(Types) /\ d + Len(part) <= Len(node)
        /\ \A i \in 1 .. Len(part) : part[i] = node[d + i]
  <2>1. CASE part = Left(node)
    <3>1. /\ h \in 1 .. Len(node) - 1 /\ Len(node) \in Nat
          /\ part \in Seq(Types) /\ Len(part) = h
          /\ \A i \in 1 .. h : part[i] = node[i]
      BY <1>1, <2>1, Parts
    <3> HIDE DEF h
    <3>2. 0 \in 0 .. Len(node) /\ 0 + Len(part) <= Len(node)
      BY <3>1
    <3>3. \A i \in 1 .. Len(part) : part[i] = node[0 + i]
      BY <3>1
    <3> QED
      BY <3>1, <3>2, <3>3
  <2>2. CASE part = Right(node)
    <3>1. h + 1 \in 0 .. Len(node)
      BY <1>1, Parts
    <3> WITNESS h + 1 \in 0 .. Len(node)
    <3> QED
      BY <1>1, <2>2, Parts
  <2> QED
    BY <2>1, <2>2
<1>3. \A i \in 1 .. Len(part) : d + i \in 1 .. Len(node)
  BY <1>1, <1>2
<1>4. Ascending(part)
  <2> SUFFICES ASSUME NEW i \in DOMAIN part, NEW j \in DOMAIN part, i < j
               PROVE  part[i].id <= part[j].id
    BY DEF Ascending
  <2>1. i \in 1 .. Len(part) /\ j \in 1 .. Len(part)
    BY <1>2
  <2>2. d + i \in DOMAIN node /\ d + j \in DOMAIN node /\ d + i < d + j
    BY <1>1, <1>3, <2>1
  <2>3. node[d + i].id <= node[d + j].id
    BY <1>1, <2>2 DEF Ascending
  <2> QED
    BY <1>2, <2>1, <2>3
<1>5. \A i \in DOMAIN part : IsWritten(part[i].id)
  <2>1. \A i \in 1 .. Len(node) : IsWritten(node[i].id)
    BY <1>1 DEF Inv
  <2> TAKE i \in DOMAIN part
  <2>2. i \in 1 .. Len(part) /\ part[i] = node[d + i]
    BY <1>2
  <2> QED
    BY <1>3, <2>1, <2>2
<1> QED
  BY <1>2, <1>4, <1>5

\* A visit of a type of the node.
LEMMA VisitKeeps ==
    ASSUME Inv, NEW v \in Types, NEW answers, Visit(v, answers)
    PROVE  /\ ids' = ids /\ key' = key /\ result = "searching"
           /\ visited' \in Seq(Ids)
           /\ Strayed => Strayed'
           /\ Far(v.id) => Strayed'
           /\ Compare(key, v.id) \in answers
<1>1. v.id \in Ids
  BY DEF Types
<1>2. ids' = ids /\ key' = key /\ visited' = Append(visited, v.id)
  BY DEF Visit
<1> QED
  BY <1>1, <1>2, StaysStrayed DEF Inv, Visit

\* Every step preserves the invariant.
LEMMA InvNext ==
    ASSUME Inv, [Next]_vars
    PROVE  Inv'
<1> USE DEF Positive, Negative
<1>1. Half \in Nat
  BY ModulusAssumption DEF Half
<1>2. \A i \in DOMAIN node : node[i] \in Types
  BY DEF Inv
<1>3. ASSUME Len(node) > 1
      PROVE  Middle(node) \in Types /\ IsWritten(Middle(node).id)
  <2>1. PICK i \in DOMAIN node : Middle(node) = node[i]
    BY <1>3, Parts DEF Inv
  <2> QED
    BY <1>2, <2>1 DEF Inv
<1>4. CASE BranchFinds
  <2>1. Len(node) > 1 /\ Visit(Middle(node), {0}) /\ result' = "found" /\ node' = node
    BY <1>4 DEF BranchFinds
  <2>2. Middle(node).id = key
    BY <1>3, <2>1, VisitKeeps, CompareZero DEF Types, Inv
  <2>3. IsWritten(key)
    BY <1>3, <2>1, <2>2
  <2> QED
    BY <1>3, <2>1, <2>3, VisitKeeps DEF Inv, SearchIsRight, IsWritten
<1>5. CASE BranchGoesLeft
  <2>1. Len(node) > 1 /\ Visit(Middle(node), Negative) /\ node' = Left(node) /\ result' = result
    BY <1>5 DEF BranchGoesLeft
  <2>2. ids' = ids /\ key' = key /\ result = "searching" /\ visited' \in Seq(Ids)
        /\ (Strayed => Strayed') /\ (Far(Middle(node).id) => Strayed')
        /\ Compare(key, Middle(node).id) \in Negative
    BY <1>3, <2>1, VisitKeeps
  <2>3. IsWritten(key) => Has(Left(node), key) \/ Strayed'
    <3> SUFFICES ASSUME IsWritten(key), ~Strayed' PROVE Has(Left(node), key)
      OBVIOUS
    <3>1. Has(node, key) /\ ~Far(Middle(node).id)
      BY <2>2 DEF Inv
    <3>2. key \in Ids /\ Middle(node).id \in Ids
      BY <1>3, <2>1 DEF Inv, Types
    <3>3. Compare(key, Middle(node).id) = key - Middle(node).id
      BY <3>1, <3>2, CompareNear DEF Far
    <3>4. key < Middle(node).id
      BY <1>1, <2>2, <3>2, <3>3, ModulusAssumption DEF Ids
    <3> QED
      BY <2>1, <3>1, <3>2, <3>4, KeyIsLeft DEF Inv
  <2>4. /\ Left(node) \in Seq(Types) /\ Ascending(Left(node))
        /\ \A i \in DOMAIN Left(node) : IsWritten(Left(node)[i].id)
    BY <2>1, BranchKeeps
  <2> QED
    BY <2>1, <2>2, <2>3, <2>4 DEF Inv, SearchIsRight, IsWritten, Has, Ascending
<1>6. CASE BranchGoesRight
  <2>1. Len(node) > 1 /\ Visit(Middle(node), Positive) /\ node' = Right(node) /\ result' = result
    BY <1>6 DEF BranchGoesRight
  <2>2. ids' = ids /\ key' = key /\ result = "searching" /\ visited' \in Seq(Ids)
        /\ (Strayed => Strayed') /\ (Far(Middle(node).id) => Strayed')
        /\ Compare(key, Middle(node).id) \in Positive
    BY <1>3, <2>1, VisitKeeps
  <2>3. IsWritten(key) => Has(Right(node), key) \/ Strayed'
    <3> SUFFICES ASSUME IsWritten(key), ~Strayed' PROVE Has(Right(node), key)
      OBVIOUS
    <3>1. Has(node, key) /\ ~Far(Middle(node).id)
      BY <2>2 DEF Inv
    <3>2. key \in Ids /\ Middle(node).id \in Ids
      BY <1>3, <2>1 DEF Inv, Types
    <3>3. Compare(key, Middle(node).id) = key - Middle(node).id
      BY <3>1, <3>2, CompareNear DEF Far
    <3>4. key > Middle(node).id
      BY <1>1, <2>2, <3>2, <3>3, ModulusAssumption DEF Ids
    <3> QED
      BY <2>1, <3>1, <3>2, <3>4, KeyIsRight DEF Inv
  <2>4. /\ Right(node) \in Seq(Types) /\ Ascending(Right(node))
        /\ \A i \in DOMAIN Right(node) : IsWritten(Right(node)[i].id)
    BY <2>1, BranchKeeps
  <2> QED
    BY <2>1, <2>2, <2>3, <2>4 DEF Inv, SearchIsRight, IsWritten, Has, Ascending
<1>7. CASE Leaf
  <2>1. Len(node) = 1 /\ node' = node /\ node[1] \in Types /\ IsWritten(node[1].id)
    BY <1>2, <1>7 DEF Leaf, Inv
  <2>2. CASE Visit(node[1], {0}) /\ result' = "found"
    <3>1. node[1].id = key
      BY <2>1, <2>2, VisitKeeps, CompareZero DEF Types, Inv
    <3> QED
      BY <2>1, <2>2, <3>1, VisitKeeps DEF Inv, SearchIsRight, IsWritten
  <2>3. CASE Visit(node[1], Negative \cup Positive) /\ result' = "missing"
    <3>1. Compare(key, node[1].id) \in Negative \cup Positive /\ key \in Ids /\ node[1].id \in Ids
      BY <2>1, <2>3, VisitKeeps DEF Types, Inv
    <3>2. key # node[1].id
      BY <1>1, <3>1, CompareZero
    <3>3. ~Has(node, key)
      BY <2>1, <3>2 DEF Has, Inv
    <3> QED
      BY <2>1, <2>3, <3>3, VisitKeeps DEF Inv, SearchIsRight, IsWritten, Strayed, Far
  <2> QED
    BY <1>7, <2>2, <2>3 DEF Leaf
<1>8. CASE Empty
  <2>1. ~Has(node, key)
    BY <1>8 DEF Empty, Has
  <2> QED
    BY <1>8, <2>1 DEF Empty, Inv, SearchIsRight, IsWritten, Strayed, Far
<1>9. CASE UNCHANGED vars
  BY <1>9 DEF vars, Inv, SearchIsRight, IsWritten, Has, Strayed, Far
<1> QED
  BY <1>4, <1>5, <1>6, <1>7, <1>8, <1>9 DEF Next, Ended

-----------------------------------------------------------------------------
(* The length of a search: each branch leaves at most half of the node.    *)

\* Half as much, twice as often, is not more.
LEMMA HalfOften ==
    ASSUME NEW a \in Nat, NEW b \in Nat, NEW p \in Nat, 2 * b <= a
    PROVE  b * (2 * p) <= a * p
<1>1. PICK d \in Nat : a = 2 * b + d
  <2>1. a - 2 * b \in Nat /\ a = 2 * b + (a - 2 * b)
    OBVIOUS
  <2> QED
    BY <2>1
<1>2. a * p = b * (2 * p) + d * p
  BY <1>1
<1>3. d * p \in Nat /\ b * (2 * p) \in Int
  OBVIOUS
<1> QED
  BY <1>2, <1>3

\* The node is so small that the search can go on for what is left of log2 of
\* the number of ids.
ShortInv ==
    /\ result = "searching" => Len(node) * 2^Len(visited) <= Len(ids)
    /\ SearchIsShort

\* At first the node has all the types.
LEMMA ShortInit ==
    ASSUME Init
    PROVE  ShortInv
<1>1. ids \in Seq(Ids) /\ visited = <<>>
  BY WrittenAssumption DEF Init
<1>2. Len(node) = Len(ids)
  BY <1>1, SortIsRight DEF Init
<1>3. 2^Len(visited) = 1
  BY <1>1, PowersOfTwo
<1>4. Len(node) * 2^Len(visited) <= Len(ids)
  BY <1>1, <1>2, <1>3
<1> QED
  BY <1>1, <1>4 DEF ShortInv, SearchIsShort

\* A visit of a node that is not empty.
LEMMA ShortVisit ==
    ASSUME Inv, ShortInv, node # <<>>, NEW v \in Types, NEW answers, Visit(v, answers)
    PROVE  /\ SearchIsShort'
           /\ \A n \in Nat : 2 * n <= Len(node) => n * 2^Len(visited') <= Len(ids')
<1>1. /\ ids' = ids /\ ids \in Seq(Ids) /\ Len(ids) \in Nat
      /\ Len(visited) \in Nat /\ visited' # <<>> /\ Len(visited') = Len(visited) + 1
      /\ Len(node) \in Nat \ {0}
  <2>1. ids' = ids /\ ids \in Seq(Ids) /\ visited \in Seq(Ids) /\ node \in Seq(Types)
    BY DEF Inv, Visit
  <2>2. visited' = Append(visited, v.id) /\ v.id \in Ids
    BY DEF Visit, Types
  <2>3. visited' # <<>> /\ Len(visited') = Len(visited) + 1
    BY <2>1, <2>2
  <2> QED
    BY <2>1, <2>3
<1>2. PICK p \in Nat \ {0} : p = 2^Len(visited)
  BY <1>1, PowersOfTwo
<1>3. 2^Len(visited') = 2 * p /\ Len(visited') - 1 = Len(visited)
  BY <1>1, <1>2, PowersOfTwo
<1>4. Len(node) * p <= Len(ids)
  BY <1>2 DEF ShortInv, Visit
<1>5. SearchIsShort'
  <2>1. PICK n \in Nat : Len(node) = n + 1
    <3>1. Len(node) - 1 \in Nat /\ Len(node) = (Len(node) - 1) + 1
      BY <1>1
    <3> QED
      BY <3>1
  <2>2. (n + 1) * p = n * p + p /\ n * p \in Nat
    OBVIOUS
  <2>3. p <= Len(ids)
    BY <1>1, <1>4, <2>1, <2>2
  <2> QED
    BY <1>1, <1>2, <1>3, <2>3 DEF SearchIsShort
<1>6. ASSUME NEW n \in Nat, 2 * n <= Len(node) PROVE n * 2^Len(visited') <= Len(ids')
  <2>1. n * (2 * p) <= Len(node) * p
    BY <1>1, <1>6, HalfOften
  <2>2. n * (2 * p) \in Int /\ Len(node) * p \in Int
    BY <1>1
  <2>3. n * (2 * p) <= Len(ids)
    BY <1>1, <1>4, <2>1, <2>2
  <2> QED
    BY <1>1, <1>3, <2>3
<1> QED
  BY <1>5, <1>6

\* Every step keeps the search short.
LEMMA ShortNext ==
    ASSUME Inv, ShortInv, [Next]_vars
    PROVE  ShortInv'
<1>1. node \in Seq(Types)
  BY DEF Inv
<1>2. ASSUME Len(node) > 1
      PROVE  /\ Middle(node) \in Types
             /\ Len(Left(node)) \in Nat /\ 2 * Len(Left(node)) <= Len(node)
             /\ Len(Right(node)) \in Nat /\ 2 * Len(Right(node)) <= Len(node)
  <2>1. PICK h : h = HalfLength(node)
    OBVIOUS
  <2>2. /\ h \in 1 .. Len(node) - 1
        /\ Middle(node) = node[h + 1]
        /\ Len(Left(node)) = h
        /\ Len(Right(node)) = Len(node) - h - 1
    BY <1>1, <1>2, <2>1, Parts
  <2>3. h = Len(node) \div 2
    BY <2>1 DEF HalfLength
  <2>4. 2 * h <= Len(node) /\ Len(node) <= 2 * h + 1
    BY <1>1, <2>3
  <2>5. h + 1 \in 1 .. Len(node)
    BY <1>1, <2>2
  <2> QED
    BY <1>1, <2>2, <2>4, <2>5
<1>3. CASE BranchFinds
  <2>1. Len(node) > 1 /\ node # <<>> /\ Visit(Middle(node), {0}) /\ result' = "found"
    BY <1>3 DEF BranchFinds
  <2>2. SearchIsShort'
    BY <1>2, <2>1, ShortVisit
  <2> QED
    BY <2>1, <2>2 DEF ShortInv
<1>4. CASE BranchGoesLeft
  <2>1. Len(node) > 1 /\ node # <<>> /\ Visit(Middle(node), Negative) /\ node' = Left(node)
    BY <1>4 DEF BranchGoesLeft
  <2>2. SearchIsShort' /\ Len(Left(node)) * 2^Len(visited') <= Len(ids')
    BY <1>2, <2>1, ShortVisit
  <2> QED
    BY <2>1, <2>2 DEF ShortInv
<1>5. CASE BranchGoesRight
  <2>1. Len(node) > 1 /\ node # <<>> /\ Visit(Middle(node), Positive) /\ node' = Right(node)
    BY <1>5 DEF BranchGoesRight
  <2>2. SearchIsShort' /\ Len(Right(node)) * 2^Len(visited') <= Len(ids')
    BY <1>2, <2>1, ShortVisit
  <2> QED
    BY <2>1, <2>2 DEF ShortInv
<1>6. CASE Leaf
  <2>1. Len(node) = 1 /\ node # <<>> /\ node[1] \in Types /\ result' # "searching"
    BY <1>1, <1>6 DEF Leaf
  <2>2. PICK answers : Visit(node[1], answers)
    BY <1>6 DEF Leaf
  <2>3. SearchIsShort'
    BY <2>1, <2>2, ShortVisit
  <2> QED
    BY <2>1, <2>3 DEF ShortInv
<1>7. CASE Empty
  BY <1>7 DEF Empty, ShortInv, SearchIsShort
<1>8. CASE UNCHANGED vars
  BY <1>8 DEF vars, ShortInv, SearchIsShort
<1> QED
  BY <1>3, <1>4, <1>5, <1>6, <1>7, <1>8 DEF Next, Ended

-----------------------------------------------------------------------------
(* The theorems.                                                           *)

\* Sorting by filtering around the first type (seq_sort) gives an ascending
\* sequence of the written types, with types of the same id in the order in
\* which they were written.
THEOREM SortRight == Spec => []SortIsStable
<1>1. Init => ids \in Written
  BY DEF Init
<1>2. ids \in Written /\ [Next]_vars => (ids \in Written)'
  BY DEF Next, vars, BranchFinds, BranchGoesLeft, BranchGoesRight, Leaf, Empty, Ended, Visit
<1>3. ids \in Written => SortIsStable
  <2>1. ids \in Written => ids \in Seq(Ids)
    BY WrittenAssumption
  <2> QED
    BY <2>1, SortIsRight DEF SortIsStable
<1> QED
  BY <1>1, <1>2, <1>3, PTL DEF Spec

\* A search finds no key that was not written, and misses one that was only
\* after a comparison with an id half the range away or more.
THEOREM SearchRight == Spec => []SearchIsRight
<1>1. Init => Inv
  BY InvInit
<1>2. Inv /\ [Next]_vars => Inv'
  BY InvNext
<1>3. Inv => SearchIsRight
  BY DEF Inv
<1> QED
  BY <1>1, <1>2, <1>3, PTL DEF Spec

\* The tree of the map is balanced: a search compares the key with at most
\* 1 + log2 of the number of ids.
THEOREM SearchShort == Spec => []SearchIsShort
<1>1. Init => Inv /\ ShortInv
  BY InvInit, ShortInit
<1>2. (Inv /\ ShortInv) /\ [Next]_vars => (Inv /\ ShortInv)'
  BY InvNext, ShortNext
<1>3. Inv /\ ShortInv => SearchIsShort
  BY DEF ShortInv
<1> QED
  BY <1>1, <1>2, <1>3, PTL DEF Spec

=============================================================================
