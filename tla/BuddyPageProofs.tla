-------------------------- MODULE BuddyPageProofs -----------------------------
(***************************************************************************)
(* Proofs about the buddy page, for a buffer of any size and requests of   *)
(* any lengths that fit it.                                                *)
(*                                                                         *)
(* PageInv says that the blocks tile the page and that the headers are     *)
(* true of them; NoBuddies that no two free blocks are the halves of one.  *)
(* AllocateRefines and FreeRefines show that a call keeps both, and does   *)
(* what the abstract allocator may do; RefuseRefines that a request is     *)
(* refused only when no aligned hole of its size is left.                  *)
(***************************************************************************)
EXTENDS BuddyPage, InductionOnSets

(* Arithmetic.                                                             *)

\* Division with a remainder.
LEMMA Division ==
    ASSUME NEW h \in Nat, NEW p \in Nat \ {0}
    PROVE  /\ h \div p \in Nat
           /\ h % p \in 0 .. p - 1
           /\ h = p * (h \div p) + (h % p)
BY SMTT(30)

\* A multiple that is smaller than what it is a multiple of is zero.
LEMMA SmallMultiple ==
    ASSUME NEW m \in Int, NEW p \in Nat \ {0}, m * p < p, -p < m * p
    PROVE  m = 0
<1>1. ~(m >= 1)
  <2> SUFFICES ASSUME m >= 1 PROVE FALSE
    OBVIOUS
  <2>1. PICK k \in Nat : m = k + 1
    <3>1. m - 1 \in Nat /\ m = (m - 1) + 1
      OBVIOUS
    <3> QED
      BY <3>1
  <2>2. m * p = k * p + p /\ k * p >= 0
    BY <2>1
  <2> QED
    BY <2>2
<1>2. ~(m <= -1)
  <2> SUFFICES ASSUME m <= -1 PROVE FALSE
    OBVIOUS
  <2>1. PICK k \in Nat : m = -k - 1
    <3>1. -m - 1 \in Nat /\ m = -(-m - 1) - 1
      OBVIOUS
    <3> QED
      BY <3>1
  <2>2. m * p = -(k * p) - p /\ k * p >= 0
    BY <2>1
  <2> QED
    BY <2>2
<1> QED
  BY <1>1, <1>2

\* There is only one way to divide.
LEMMA DivisionIsUnique ==
    ASSUME NEW p \in Nat \ {0}, NEW k \in Nat, NEW r \in 0 .. p - 1
    PROVE  (p * k + r) \div p = k /\ (p * k + r) % p = r
<1> DEFINE h == p * k + r
           d == h \div p
           e == h % p
<1>1. h \in Nat
  OBVIOUS
<1>2. d \in Nat /\ e \in 0 .. p - 1 /\ h = p * d + e
  BY <1>1, Division
<1>3. h = p * k + r
  OBVIOUS
<1> HIDE DEF h, d, e
<1>4. (k - d) * p = e - r
  <2>1. (k - d) * p = p * k - p * d
    BY <1>2
  <2> QED
    BY <1>1, <1>2, <1>3, <2>1
<1>5. (k - d) * p < p /\ -p < (k - d) * p
  BY <1>2, <1>4
<1>6. k - d = 0
  BY <1>2, <1>5, SmallMultiple
<1>7. d = k
  BY <1>2, <1>6
<1>8. e = r
  BY <1>1, <1>2, <1>3, <1>7
<1> QED
  BY <1>7, <1>8 DEF h, d, e

-----------------------------------------------------------------------------
(* Where blocks begin.                                                     *)

\* A power of two is a multiple of each smaller one.
LEMMA PowersDivide ==
    ASSUME NEW l \in Nat, NEW d \in Nat
    PROVE  \E c \in Nat \ {0} : 2^(l + d) = c * 2^l
<1> DEFINE S == {e \in Nat : \E c \in Nat \ {0} : 2^(l + e) = c * 2^l}
<1>1. 2^l \in Nat \ {0}
  BY PowersOfTwo
<1>2. 0 \in S
  <2>1. l + 0 = l /\ 1 * 2^l = 2^l
    BY <1>1
  <2> QED
    BY <2>1
<1>3. ASSUME NEW e \in Nat, e \in S PROVE e + 1 \in S
  <2>1. PICK c \in Nat \ {0} : 2^(l + e) = c * 2^l
    BY <1>3
  <2>2. l + e \in Nat /\ l + (e + 1) = (l + e) + 1
    OBVIOUS
  <2>3. 2^(l + (e + 1)) = 2 * 2^(l + e)
    BY <2>2, PowersOfTwo
  <2>4. 2^(l + (e + 1)) = (2 * c) * 2^l /\ 2 * c \in Nat \ {0}
    BY <1>1, <2>1, <2>3
  <2>5. PICK b \in Nat \ {0} : b = 2 * c
    BY <2>4
  <2>6. 2^(l + (e + 1)) = b * 2^l
    BY <2>4, <2>5
  <2> QED
    BY <2>6
<1>4. \A e \in Nat : e \in S
  <2> HIDE DEF S
  <2> QED
    BY <1>2, <1>3, SetInduction
<1> QED
  BY <1>4

\* The offsets at which a block of level l may begin.
Begins(a, l) == \E k \in Nat : a = 2^l * k

\* Leftmost is the begin of the block of level l that h is in.
LEMMA LeftmostIs ==
    ASSUME NEW h \in Nat, NEW l \in Nat, NEW a \in Nat, Begins(a, l), a <= h, h < a + 2^l
    PROVE  Leftmost(h, l) = a
<1>1. PICK p \in Nat \ {0} : p = 2^l
  BY PowersOfTwo
<1>2. PICK k \in Nat : a = p * k
  BY <1>1 DEF Begins
<1>3. h - a \in 0 .. p - 1 /\ p * k + (h - a) = h
  BY <1>1, <1>2
<1>4. (p * k + (h - a)) % p = h - a
  BY <1>1, <1>3, DivisionIsUnique
<1>5. h % p = h - a
  BY <1>3, <1>4
<1> QED
  BY <1>1, <1>5 DEF Leftmost

LEMMA LeftmostExists ==
    ASSUME NEW h \in Nat, NEW l \in Nat
    PROVE  /\ Leftmost(h, l) \in Nat
           /\ Begins(Leftmost(h, l), l)
           /\ Leftmost(h, l) <= h
           /\ h < Leftmost(h, l) + 2^l
<1>1. PICK p \in Nat \ {0} : p = 2^l
  BY PowersOfTwo
<1>2. PICK k \in Nat, r \in 0 .. p - 1 : r = h % p /\ h = p * k + r
  BY Division
<1>3. Leftmost(h, l) = h - r
  BY <1>1, <1>2 DEF Leftmost
<1>4. h - r = p * k /\ p * k \in Nat
  BY <1>2
<1>5. h - r <= h /\ h < (h - r) + p
  BY <1>2
<1> QED
  BY <1>1, <1>3, <1>4, <1>5 DEF Begins

LEMMA LeftmostType ==
    ASSUME NEW h \in Nat, NEW l \in Nat
    PROVE  /\ Leftmost(h, l) \in Nat
           /\ Leftmost(Leftmost(h, l), l) = Leftmost(h, l)
           /\ h \in Cells(Leftmost(h, l), l)
<1>1. PICK a \in Nat : a = Leftmost(h, l) /\ Begins(a, l) /\ a <= h /\ h < a + 2^l
  BY LeftmostExists
<1>2. 2^l \in Nat \ {0}
  BY PowersOfTwo
<1>3. Leftmost(a, l) = a
  BY <1>1, <1>2, LeftmostIs
<1>4. h \in a .. a + 2^l - 1
  BY <1>1, <1>2
<1> QED
  BY <1>1, <1>3, <1>4 DEF Cells

\* What begins a block also begins each smaller one.
LEMMA LeftmostStays ==
    ASSUME NEW h \in Nat, NEW l \in Nat, NEW m \in Nat, l <= m, Leftmost(h, m) = h
    PROVE  Leftmost(h, l) = h
<1>1. PICK d \in Nat : m = l + d
  <2>1. m - l \in Nat /\ m = l + (m - l)
    OBVIOUS
  <2> QED
    BY <2>1
<1>2. PICK c \in Nat \ {0} : 2^m = c * 2^l
  BY <1>1, PowersDivide
<1>3. PICK k \in Nat : h = 2^m * k
  <2>1. Begins(h, m)
    BY LeftmostExists
  <2> QED
    BY <2>1 DEF Begins
<1>4. PICK p \in Nat \ {0} : p = 2^l
  BY PowersOfTwo
<1>5. c * k \in Nat /\ h = p * (c * k)
  BY <1>2, <1>3, <1>4
<1>6. Begins(h, l)
  BY <1>4, <1>5 DEF Begins
<1>7. h <= h /\ h < h + 2^l
  BY <1>4
<1> QED
  BY <1>6, <1>7, LeftmostIs

\* What begins a block of level l + 1, begins its left half; its right half is
\* the buddy.
LEMMA BuddiesOfTwo ==
    ASSUME NEW c \in Nat, NEW l \in Nat, Begins(c, l + 1)
    PROVE  /\ Begins(c, l) /\ Begins(c + 2^l, l)
           /\ Buddy(c, l) = c + 2^l
           /\ Buddy(c + 2^l, l) = c
<1>1. PICK p \in Nat \ {0} : p = 2^l /\ 2 * p = 2^(l + 1)
  BY PowersOfTwo
<1>2. PICK k \in Nat : c = (2 * p) * k
  BY <1>1 DEF Begins
<1>3. c = p * (2 * k) + 0 /\ c + p = p * (2 * k + 1) + 0
  BY <1>1, <1>2
<1>4. c = p * (2 * k) /\ c + p = p * (2 * k + 1)
  BY <1>1, <1>2
<1>5. Begins(c, l) /\ Begins(c + p, l)
  <2>1. 2 * k \in Nat /\ 2 * k + 1 \in Nat
    OBVIOUS
  <2>2. Begins(c, l)
    BY <1>1, <1>4, <2>1 DEF Begins
  <2>3. PICK e \in Nat : c + p = p * e
    BY <1>4, <2>1
  <2>4. Begins(c + p, l)
    BY <1>1, <2>3 DEF Begins
  <2> QED
    BY <2>2, <2>4
<1>6. 0 \in 0 .. p - 1 /\ 2 * k \in Nat /\ 2 * k + 1 \in Nat
  OBVIOUS
<1>7. (p * (2 * k) + 0) \div p = 2 * k /\ (p * (2 * k + 1) + 0) \div p = 2 * k + 1
  BY <1>6, DivisionIsUnique
<1>8. c \div p = 2 * k /\ (c + p) \div p = 2 * k + 1
  BY <1>3, <1>7
<1>9. (2 * k) % 2 = 0 /\ (2 * k + 1) % 2 = 1
  OBVIOUS
<1>10. Buddy(c, l) = c + p /\ Buddy(c + p, l) = c
  <2>1. Buddy(c, l) = c + p
    BY <1>1, <1>8, <1>9 DEF Buddy
  <2>2. Buddy(c + p, l) = (c + p) - p
    BY <1>1, <1>8, <1>9 DEF Buddy
  <2> QED
    BY <2>1, <2>2
<1> QED
  BY <1>1, <1>5, <1>10

\* The buddy of the block of level l that h is in.
BuddyAt(h, l) == Buddy(Leftmost(h, l), l)

\* A block and its buddy are the halves of a block.
LEMMA Halves ==
    ASSUME NEW h \in Nat, NEW l \in Nat
    PROVE  /\ BuddyAt(h, l) \in Nat
           /\ Leftmost(BuddyAt(h, l), l) = BuddyAt(h, l)
           /\ Leftmost(BuddyAt(h, l), l + 1) = Leftmost(h, l + 1)
           /\ BuddyAt(BuddyAt(h, l), l) = Leftmost(h, l)
           /\ Cells(Leftmost(h, l + 1), l + 1) =
                 Cells(Leftmost(h, l), l) \cup Cells(BuddyAt(h, l), l)
           /\ Cells(Leftmost(h, l), l) \cap Cells(BuddyAt(h, l), l) = {}
<1>1. PICK p \in Nat \ {0} : p = 2^l /\ 2 * p = 2^(l + 1)
  BY PowersOfTwo
<1>2. PICK c \in Nat : c = Leftmost(h, l + 1) /\ Begins(c, l + 1) /\ c <= h /\ h < c + 2 * p
  BY <1>1, LeftmostExists
<1>3. PICK d \in Nat : d = c + p
  OBVIOUS
<1>4. Begins(c, l) /\ Begins(d, l) /\ Buddy(c, l) = d /\ Buddy(d, l) = c
  BY <1>1, <1>2, <1>3, BuddiesOfTwo
<1>5. Leftmost(c, l) = c /\ Leftmost(d, l) = d
  BY <1>1, <1>4, LeftmostIs
<1>6. Leftmost(c, l + 1) = c /\ Leftmost(d, l + 1) = c
  BY <1>1, <1>2, <1>3, LeftmostIs
<1>7. /\ c .. c + 2 * p - 1 = (c .. c + p - 1) \cup (d .. d + p - 1)
      /\ c .. c + 2 * p - 1 = (d .. d + p - 1) \cup (c .. c + p - 1)
      /\ (c .. c + p - 1) \cap (d .. d + p - 1) = {}
      /\ (d .. d + p - 1) \cap (c .. c + p - 1) = {}
  BY <1>3
<1>8. CASE h < d
  <2>1. Leftmost(h, l) = c /\ BuddyAt(h, l) = d /\ BuddyAt(d, l) = c
    BY <1>1, <1>2, <1>3, <1>4, <1>5, <1>8, LeftmostIs DEF BuddyAt
  <2> QED
    BY <1>1, <1>2, <1>5, <1>6, <1>7, <2>1 DEF Cells
<1>9. CASE ~(h < d)
  <2>1. Leftmost(h, l) = d
    BY <1>1, <1>2, <1>3, <1>4, <1>9, LeftmostIs
  <2>2. BuddyAt(h, l) = c /\ BuddyAt(c, l) = d
    BY <1>4, <1>5, <2>1 DEF BuddyAt
  <2> QED
    BY <1>1, <1>2, <1>5, <1>6, <1>7, <2>1, <2>2 DEF Cells
<1> QED
  BY <1>8, <1>9

\* A block that an offset of the page is in is in the page.
LEMMA CellsInPage ==
    ASSUME NEW h \in Offsets, NEW l \in Levels
    PROVE  Leftmost(h, l) \in Offsets /\ Cells(Leftmost(h, l), l) \subseteq Offsets
<1>1. TopLevel \in Nat /\ l \in Nat /\ l <= TopLevel
  BY TopLevelAssumption DEF Levels
<1>2. PICK d \in Nat : TopLevel = l + d
  <2>1. TopLevel - l \in Nat /\ TopLevel = l + (TopLevel - l)
    BY <1>1
  <2> QED
    BY <2>1
<1>3. PICK p \in Nat \ {0} : p = 2^l
  BY <1>1, PowersOfTwo
<1>4. PICK c \in Nat \ {0} : 2^TopLevel = c * p
  BY <1>1, <1>2, <1>3, PowersDivide
<1>5. h \in Nat /\ h <= c * p - 1
  BY <1>4 DEF Offsets
<1>6. PICK k \in Nat : Leftmost(h, l) = p * k /\ p * k <= h /\ h < p * k + p
  BY <1>1, <1>3, <1>5, LeftmostExists DEF Begins
<1>7. k < c
  <2> SUFFICES ASSUME k >= c PROVE FALSE
    OBVIOUS
  <2>1. PICK e \in Nat : k = c + e
    <3>1. k - c \in Nat /\ k = c + (k - c)
      OBVIOUS
    <3> QED
      BY <3>1
  <2>2. p * k = c * p + p * e /\ p * e \in Nat
    BY <2>1
  <2> QED
    BY <1>5, <1>6, <2>2
<1>8. p * k + p <= c * p
  <2>1. PICK e \in Nat : c = k + 1 + e
    <3>1. c - k - 1 \in Nat /\ c = k + 1 + (c - k - 1)
      BY <1>7
    <3> QED
      BY <3>1
  <2>2. c * p = p * k + p + p * e /\ p * e \in Nat
    BY <2>1
  <2> QED
    BY <2>2
<1>9. p * k \in Nat /\ c * p \in Nat
  OBVIOUS
<1>10. p * k \in 0 .. c * p - 1 /\ p * k .. p * k + p - 1 \subseteq 0 .. c * p - 1
  BY <1>8, <1>9
<1> QED
  BY <1>3, <1>4, <1>6, <1>10 DEF Offsets, Cells

-----------------------------------------------------------------------------
(* The least number of a set.                                              *)

\* A set of numbers that is not empty has a least one.
LEMMA MinIs ==
    ASSUME NEW S \in SUBSET Nat, S # {}
    PROVE  Min(S) \in S /\ \A n \in S : Min(S) <= n
<1> DEFINE None == {n \in Nat : \A m \in S : n <= m}
<1>1. ~(\A n \in Nat : n \in None)
  <2>1. PICK m \in S : TRUE
    OBVIOUS
  <2>2. m + 1 \notin None /\ m + 1 \in Nat
    BY <2>1
  <2> QED
    BY <2>2
<1>2. 0 \in None
  OBVIOUS
<1>3. PICK n \in Nat : n \in None /\ n + 1 \notin None
  <2> HIDE DEF None
  <2> QED
    BY <1>1, <1>2, SetInduction
<1>4. n \in S
  BY <1>3
<1>5. \A m \in S : n <= m
  BY <1>3
<1> QED
  BY <1>4, <1>5 DEF Min

-----------------------------------------------------------------------------
(* Lists.                                                                  *)

Once(list) == \A i, j \in DOMAIN list : list[i] = list[j] => i = j

\* prepend
LEMMA PrependRight ==
    ASSUME NEW S, NEW list \in Seq(S), NEW b \in S
    PROVE  /\ <<b>> \o list \in Seq(S)
           /\ ToSet(<<b>> \o list) = ToSet(list) \cup {b}
           /\ Once(list) /\ b \notin ToSet(list) => Once(<<b>> \o list)
<1>1. PICK c \in Seq(S) : c = <<b>> \o list
  <2>1. <<b>> \o list \in Seq(S)
    OBVIOUS
  <2> QED
    BY <2>1
<1>2. /\ Len(c) = Len(list) + 1 /\ Len(list) \in Nat
      /\ DOMAIN c = 1 .. Len(c) /\ DOMAIN list = 1 .. Len(list)
      /\ c[1] = b /\ \A i \in 1 .. Len(list) : c[i + 1] = list[i]
  BY <1>1
<1>3. \A i \in DOMAIN c : i = 1 \/ \E j \in DOMAIN list : i = j + 1 /\ c[i] = list[j]
  <2> TAKE i \in DOMAIN c
  <2>1. i = 1 \/ (i - 1 \in 1 .. Len(list) /\ i = (i - 1) + 1)
    BY <1>2
  <2> QED
    BY <1>2, <2>1
<1>4. ToSet(c) = ToSet(list) \cup {b}
  <2>1. \A i \in DOMAIN c : c[i] \in ToSet(list) \cup {b}
    BY <1>2, <1>3 DEF ToSet
  <2>2. \A j \in DOMAIN list : list[j] \in ToSet(c)
    <3> TAKE j \in DOMAIN list
    <3>1. j + 1 \in DOMAIN c /\ c[j + 1] = list[j]
      BY <1>2
    <3> QED
      BY <3>1 DEF ToSet
  <2>3. b \in ToSet(c)
    BY <1>2 DEF ToSet
  <2> QED
    BY <2>1, <2>2, <2>3 DEF ToSet
<1>5. ASSUME Once(list), b \notin ToSet(list) PROVE Once(c)
  <2> SUFFICES ASSUME NEW i \in DOMAIN c, NEW j \in DOMAIN c, c[i] = c[j] PROVE i = j
    BY DEF Once
  <2>1. \A k \in DOMAIN list : list[k] # b
    BY <1>5 DEF ToSet
  <2> QED
    BY <1>2, <1>3, <1>5, <2>1 DEF Once
<1> QED
  BY <1>1, <1>4, <1>5

\* The rest of a list.
LEMMA TailRight ==
    ASSUME NEW S, NEW list \in Seq(S), list # <<>>, Once(list)
    PROVE  /\ Head(list) \in ToSet(list)
           /\ Tail(list) \in Seq(S)
           /\ ToSet(Tail(list)) = ToSet(list) \ {Head(list)}
           /\ Once(Tail(list))
<1>1. PICK c \in Seq(S) : c = Tail(list)
  <2>1. Tail(list) \in Seq(S)
    OBVIOUS
  <2> QED
    BY <2>1
<1>2. /\ Len(c) = Len(list) - 1 /\ Len(list) \in Nat \ {0}
      /\ DOMAIN c = 1 .. Len(c) /\ DOMAIN list = 1 .. Len(list)
      /\ Head(list) = list[1] /\ \A i \in 1 .. Len(c) : c[i] = list[i + 1]
  BY <1>1
<1>3. Head(list) \in ToSet(list)
  BY <1>2 DEF ToSet
<1>4. \A i \in DOMAIN list : i = 1 \/ \E j \in DOMAIN c : i = j + 1 /\ c[j] = list[i]
  <2> TAKE i \in DOMAIN list
  <2>1. i = 1 \/ (i - 1 \in 1 .. Len(c) /\ i = (i - 1) + 1)
    BY <1>2
  <2> QED
    BY <1>2, <2>1
<1>5. \A i \in DOMAIN c : i + 1 \in DOMAIN list /\ i + 1 # 1 /\ 1 \in DOMAIN list
  BY <1>2
<1>6. \A i \in DOMAIN c : c[i] \in ToSet(list) \ {Head(list)}
  BY <1>2, <1>5 DEF ToSet, Once
<1>7. \A i \in DOMAIN list : list[i] # Head(list) => list[i] \in ToSet(c)
  BY <1>2, <1>4 DEF ToSet
<1>8. ToSet(c) = ToSet(list) \ {Head(list)}
  BY <1>6, <1>7 DEF ToSet
<1>9. Once(c)
  <2> SUFFICES ASSUME NEW i \in DOMAIN c, NEW j \in DOMAIN c, c[i] = c[j] PROVE i = j
    BY DEF Once
  <2>1. i + 1 = j + 1
    BY <1>2, <1>5 DEF Once
  <2> QED
    BY <1>2, <2>1
<1> QED
  BY <1>1, <1>3, <1>8, <1>9

\* remove
LEMMA WithoutRight ==
    ASSUME NEW S, NEW list \in Seq(S), Once(list), NEW b \in ToSet(list)
    PROVE  /\ Without(list, b) \in Seq(S)
           /\ ToSet(Without(list, b)) = ToSet(list) \ {b}
           /\ Once(Without(list, b))
<1>1. PICK k \in DOMAIN list : k = CHOOSE i \in DOMAIN list : list[i] = b
  BY DEF ToSet
<1>2. list[k] = b
  BY <1>1 DEF ToSet
<1>3. Len(list) \in Nat /\ DOMAIN list = 1 .. Len(list) /\ k \in 1 .. Len(list)
  BY <1>1
<1>4. PICK u \in Seq(S), v \in Seq(S) :
        u = SubSeq(list, 1, k - 1) /\ v = SubSeq(list, k + 1, Len(list))
  <2>1. SubSeq(list, 1, k - 1) \in Seq(S)
    BY <1>3
  <2>2. SubSeq(list, k + 1, Len(list)) \in Seq(S)
    BY <1>3
  <2> QED
    BY <2>1, <2>2
<1>5. /\ Len(u) = k - 1 /\ \A i \in 1 .. k - 1 : u[i] = list[i]
      /\ Len(v) = Len(list) - k /\ \A i \in 1 .. Len(list) - k : v[i] = list[k + i]
  <2>1. Len(u) = k - 1 /\ \A i \in 1 .. k - 1 : u[i] = list[i]
    BY <1>3, <1>4
  <2>2. Len(v) = Len(list) - k
    BY <1>3, <1>4
  <2>3. ASSUME NEW i \in 1 .. Len(list) - k PROVE v[i] = list[k + i]
    <3>1. v[i] = list[k + 1 + i - 1]
      BY <1>3, <1>4, <2>2
    <3>2. k + 1 + i - 1 = k + i
      BY <1>3
    <3> QED
      BY <3>1, <3>2
  <2> QED
    BY <2>1, <2>2, <2>3
<1>6. PICK c \in Seq(S) : c = u \o v
  <2>1. u \o v \in Seq(S)
    OBVIOUS
  <2> QED
    BY <2>1
<1>7. /\ Len(c) = Len(list) - 1 /\ DOMAIN c = 1 .. Len(list) - 1
      /\ \A i \in 1 .. k - 1 : c[i] = u[i]
      /\ \A i \in k .. Len(list) - 1 : c[i] = v[i - (k - 1)]
  <2>1. Len(u) \in Nat /\ Len(v) \in Nat /\ Len(c) = Len(u) + Len(v)
    BY <1>6
  <2>2. Len(c) = Len(list) - 1
    BY <1>3, <1>5, <2>1
  <2>3. \A i \in 1 .. Len(u) : c[i] = u[i]
    BY <1>6
  <2>4. \A i \in Len(u) + 1 .. Len(u) + Len(v) : c[i] = v[i - Len(u)]
    BY <1>6
  <2>5. DOMAIN c = 1 .. Len(c)
    OBVIOUS
  <2>6. ASSUME NEW i \in k .. Len(list) - 1 PROVE c[i] = v[i - (k - 1)]
    <3>1. Len(u) = k - 1 /\ Len(v) = Len(list) - k
      BY <1>5
    <3>2. i \in Len(u) + 1 .. Len(u) + Len(v)
      BY <1>3, <3>1
    <3>3. c[i] = v[i - Len(u)]
      BY <2>4, <3>2
    <3> QED
      BY <3>1, <3>3
  <2>7. \A i \in 1 .. k - 1 : c[i] = u[i]
    BY <1>5, <2>3
  <2> QED
    BY <2>2, <2>5, <2>6, <2>7
<1>8. \A i \in k .. Len(list) - 1 : c[i] = list[i + 1]
  <2> TAKE i \in k .. Len(list) - 1
  <2>1. i - (k - 1) \in 1 .. Len(list) - k /\ k + (i - (k - 1)) = i + 1
    BY <1>3
  <2> QED
    BY <1>5, <1>7, <2>1
<1>9. \A i \in 1 .. k - 1 : c[i] = list[i]
  BY <1>5, <1>7
<1>10. Without(list, b) = c
  BY <1>1, <1>4, <1>6 DEF Without, RemoveAt
<1>11. \A i \in DOMAIN c : \E j \in DOMAIN list :
          j # k /\ c[i] = list[j] /\ (i < k => j = i) /\ (i >= k => j = i + 1)
  <2> TAKE i \in DOMAIN c
  <2>1. CASE i < k
    <3>1. i \in 1 .. k - 1 /\ i \in DOMAIN list /\ i # k /\ ~(i >= k)
      BY <1>3, <1>7, <2>1
    <3> QED
      BY <1>9, <2>1, <3>1
  <2>2. CASE i >= k
    <3>1. i \in k .. Len(list) - 1 /\ i + 1 \in DOMAIN list /\ i + 1 # k /\ ~(i < k)
      BY <1>3, <1>7, <2>2
    <3> QED
      BY <1>8, <2>2, <3>1
  <2> QED
    BY <1>3, <1>7, <2>1, <2>2
<1>12. \A j \in DOMAIN list : j # k => list[j] \in ToSet(c)
  <2> SUFFICES ASSUME NEW j \in DOMAIN list, j # k PROVE list[j] \in ToSet(c)
    OBVIOUS
  <2>1. CASE j < k
    <3>1. j \in 1 .. k - 1 /\ j \in DOMAIN c
      BY <1>3, <1>7, <2>1
    <3> QED
      BY <1>9, <3>1 DEF ToSet
  <2>2. CASE j > k
    <3>1. j - 1 \in k .. Len(list) - 1 /\ j - 1 \in DOMAIN c /\ (j - 1) + 1 = j
      BY <1>3, <1>7, <2>2
    <3>2. c[j - 1] = list[j]
      BY <1>8, <3>1
    <3> QED
      BY <3>1, <3>2 DEF ToSet
  <2> QED
    BY <1>3, <2>1, <2>2
<1>13. \A i \in DOMAIN c : c[i] \in ToSet(list) \ {b}
  BY <1>2, <1>11 DEF ToSet, Once
<1>14. ToSet(c) \subseteq ToSet(list) \ {b}
  BY <1>13 DEF ToSet
<1>15. ToSet(list) \ {b} \subseteq ToSet(c)
  BY <1>2, <1>12 DEF ToSet
<1>16. Once(c)
  <2> SUFFICES ASSUME NEW i \in DOMAIN c, NEW j \in DOMAIN c, c[i] = c[j] PROVE i = j
    BY DEF Once
  <2>1. PICK m \in DOMAIN list : m # k /\ c[i] = list[m] /\ (i < k => m = i) /\ (i >= k => m = i + 1)
    BY <1>11
  <2>2. PICK n \in DOMAIN list : n # k /\ c[j] = list[n] /\ (j < k => n = j) /\ (j >= k => n = j + 1)
    BY <1>11
  <2>3. m = n
    BY <2>1, <2>2 DEF Once
  <2> QED
    BY <1>3, <1>7, <2>1, <2>2, <2>3
<1> QED
  BY <1>10, <1>14, <1>15, <1>16

-----------------------------------------------------------------------------
(* Tiles.                                                                  *)

\* The blocks cover the page once.
Tiling(tiles) ==
    /\ \A o \in Offsets : \E t \in tiles : o \in Cells(t[1], t[2])
    /\ \A s, t \in tiles : s # t => Cells(s[1], s[2]) \cap Cells(t[1], t[2]) = {}

\* Some blocks can be exchanged for others that cover the same.
LEMMA Retile ==
    ASSUME NEW tiles, Tiling(tiles), NEW old \in SUBSET tiles, NEW new,
           \A o : (\E t \in old : o \in Cells(t[1], t[2])) <=> (\E t \in new : o \in Cells(t[1], t[2])),
           \A s, t \in new : s # t => Cells(s[1], s[2]) \cap Cells(t[1], t[2]) = {}
    PROVE  Tiling((tiles \ old) \cup new)
<1>1. ASSUME NEW o \in Offsets
      PROVE  \E t \in (tiles \ old) \cup new : o \in Cells(t[1], t[2])
  BY DEF Tiling
<1>2. ASSUME NEW s \in tiles \ old, NEW t \in new
      PROVE  Cells(s[1], s[2]) \cap Cells(t[1], t[2]) = {}
  <2> SUFFICES ASSUME NEW o, o \in Cells(s[1], s[2]), o \in Cells(t[1], t[2]) PROVE FALSE
    OBVIOUS
  <2>1. PICK r \in old : o \in Cells(r[1], r[2])
    OBVIOUS
  <2> QED
    BY <2>1 DEF Tiling
<1>3. \A s, t \in tiles \ old : s # t => Cells(s[1], s[2]) \cap Cells(t[1], t[2]) = {}
  BY DEF Tiling
<1>4. ASSUME NEW s \in (tiles \ old) \cup new, NEW t \in (tiles \ old) \cup new, s # t
      PROVE  Cells(s[1], s[2]) \cap Cells(t[1], t[2]) = {}
  BY <1>2, <1>3, <1>4
<1> QED
  BY <1>1, <1>4 DEF Tiling

\* The block of level l that h is in, and the buddies that it is merged with up to level m.
Halved(h, l, m) == {<<Leftmost(h, l), l>>} \cup {<<BuddyAt(h, i), i>> : i \in l .. m - 1}

\* Together they are the block of level m.
LEMMA HalvedCovers ==
    ASSUME NEW h \in Nat, NEW l \in Nat, NEW m \in Nat, l <= m
    PROVE  \A o : o \in Cells(Leftmost(h, m), m) <=>
                     \/ o \in Cells(Leftmost(h, l), l)
                     \/ \E i \in l .. m - 1 : o \in Cells(BuddyAt(h, i), i)
<1> DEFINE Covers(n) == \A o : o \in Cells(Leftmost(h, n), n) <=>
                                 \/ o \in Cells(Leftmost(h, l), l)
                                 \/ \E i \in l .. n - 1 : o \in Cells(BuddyAt(h, i), i)
           S == {d \in Nat : Covers(l + d)}
<1>1. 0 \in S
  <2>1. l + 0 = l /\ l .. l - 1 = {}
    OBVIOUS
  <2> QED
    BY <2>1
<1>2. ASSUME NEW d \in Nat, d \in S PROVE d + 1 \in S
  <2>1. PICK n \in Nat : n = l + d /\ n + 1 = l + (d + 1)
    OBVIOUS
  <2>2. Covers(n)
    BY <1>2, <2>1
  <2>3. Cells(Leftmost(h, n + 1), n + 1) = Cells(Leftmost(h, n), n) \cup Cells(BuddyAt(h, n), n)
    BY Halves
  <2>4. l .. (n + 1) - 1 = (l .. n - 1) \cup {n}
    BY <2>1
  <2>5. Covers(n + 1)
    BY <2>2, <2>3, <2>4
  <2> QED
    BY <2>1, <2>5
<1>3. \A d \in Nat : d \in S
  <2> HIDE DEF S
  <2> QED
    BY <1>1, <1>2, SetInduction
<1>4. m - l \in Nat /\ l + (m - l) = m
  OBVIOUS
<1> QED
  BY <1>3, <1>4

\* and they do not overlap.
LEMMA HalvedTiles ==
    ASSUME NEW h \in Nat, NEW l \in Nat, NEW m \in Nat, l <= m
    PROVE  /\ \A o : (\E t \in Halved(h, l, m) : o \in Cells(t[1], t[2]))
                        <=> o \in Cells(Leftmost(h, m), m)
           /\ \A s, t \in Halved(h, l, m) :
                 s # t => Cells(s[1], s[2]) \cap Cells(t[1], t[2]) = {}
<1>1. \A o : (\E t \in Halved(h, l, m) : o \in Cells(t[1], t[2]))
                 <=> o \in Cells(Leftmost(h, m), m)
  <2> TAKE o
  <2>1. (\E t \in Halved(h, l, m) : o \in Cells(t[1], t[2])) <=>
           \/ o \in Cells(Leftmost(h, l), l)
           \/ \E i \in l .. m - 1 : o \in Cells(BuddyAt(h, i), i)
    <3>1. <<Leftmost(h, l), l>> \in Halved(h, l, m)
      BY DEF Halved
    <3>2. \A i \in l .. m - 1 : <<BuddyAt(h, i), i>> \in Halved(h, l, m)
      BY DEF Halved
    <3>3. ASSUME NEW t \in Halved(h, l, m), o \in Cells(t[1], t[2])
          PROVE  \/ o \in Cells(Leftmost(h, l), l)
                 \/ \E i \in l .. m - 1 : o \in Cells(BuddyAt(h, i), i)
      <4>1. CASE t = <<Leftmost(h, l), l>>
        BY <3>3, <4>1
      <4>2. ASSUME NEW i \in l .. m - 1, t = <<BuddyAt(h, i), i>>
            PROVE  o \in Cells(BuddyAt(h, i), i)
        BY <3>3, <4>2
      <4> QED
        BY <4>1, <4>2 DEF Halved
    <3> QED
      BY <3>1, <3>2, <3>3
  <2> QED
    BY <2>1, HalvedCovers
<1>2. \A i \in l .. m - 1 : Cells(Leftmost(h, l), l) \cap Cells(BuddyAt(h, i), i) = {}
  <2> TAKE i \in l .. m - 1
  <2>1. i \in Nat /\ l <= i
    OBVIOUS
  <2>2. Cells(Leftmost(h, i), i) \cap Cells(BuddyAt(h, i), i) = {}
    BY <2>1, Halves
  <2>3. \A o : o \in Cells(Leftmost(h, l), l) => o \in Cells(Leftmost(h, i), i)
    BY <2>1, HalvedCovers
  <2> QED
    BY <2>2, <2>3
<1>3. ASSUME NEW i \in l .. m - 1, NEW j \in l .. m - 1, i < j
      PROVE  Cells(BuddyAt(h, i), i) \cap Cells(BuddyAt(h, j), j) = {}
  <2>1. i \in Nat /\ j \in Nat /\ l <= j /\ i \in l .. j - 1
    BY <1>3
  <2>2. Cells(Leftmost(h, j), j) \cap Cells(BuddyAt(h, j), j) = {}
    BY <2>1, Halves
  <2>3. \A o : o \in Cells(BuddyAt(h, i), i) => o \in Cells(Leftmost(h, j), j)
    BY <2>1, HalvedCovers
  <2> QED
    BY <2>2, <2>3
<1>4. ASSUME NEW i \in l .. m - 1, NEW j \in l .. m - 1, i # j
      PROVE  Cells(BuddyAt(h, i), i) \cap Cells(BuddyAt(h, j), j) = {}
  <2>1. i < j \/ j < i
    BY <1>4
  <2> QED
    BY <1>3, <2>1
<1>5. ASSUME NEW s \in Halved(h, l, m), NEW t \in Halved(h, l, m), s # t
      PROVE  Cells(s[1], s[2]) \cap Cells(t[1], t[2]) = {}
  BY <1>2, <1>4, <1>5 DEF Halved
<1> QED
  BY <1>1, <1>5

-----------------------------------------------------------------------------
(* The invariant of the page.                                              *)

\* The blocks handed out, with the level of their headers, and all blocks.
LiveBlocks == {<<h, header[h].level>> : h \in live}
Tiles == FreeBlocks \cup LiveBlocks

HeaderSet == [free : BOOLEAN, level : Levels] \cup {Bytes}

\* The blocks tile the page and begin where blocks of their levels may begin;
\* their headers are true, and no other offset has a header that says free.
PageInv ==
    /\ header \in [Offsets -> HeaderSet]
    /\ freeLevels \in [Levels -> Seq(Offsets)]
    /\ live \subseteq Offsets
    /\ \A h \in live : header[h].free = FALSE /\ header[h].level \in Levels
    /\ \A l \in Levels : Once(freeLevels[l])
    /\ Tiling(Tiles)
    /\ \A t \in Tiles : Leftmost(t[1], t[2]) = t[1]
    /\ \A b \in FreeBlocks : header[b[1]] = Header(TRUE, b[2])
    /\ \A o \in Offsets : header[o].free => <<o, header[o].level>> \in FreeBlocks

LEMMA LevelsType ==
    /\ TopLevel \in Nat /\ TopLevel \in Levels
    /\ \A l \in Levels : l \in Nat /\ l <= TopLevel
    /\ Offsets \subseteq Nat
    /\ 0 \in Offsets
    /\ 2^TopLevel \in Nat \ {0}
BY TopLevelAssumption, PowersOfTwo DEF Levels, Offsets

\* What is true of the tiles.
LEMMA TileType ==
    ASSUME PageInv, NEW t \in Tiles
    PROVE  /\ t[1] \in Offsets /\ t[1] \in Nat
           /\ t[2] \in Levels /\ t[2] \in Nat
           /\ t = <<t[1], t[2]>>
           /\ t[1] \in Cells(t[1], t[2])
           /\ Cells(t[1], t[2]) \subseteq Offsets
<1>1. t[1] \in Offsets /\ t[2] \in Levels /\ t = <<t[1], t[2]>>
  <2>1. CASE t \in FreeBlocks
    BY <2>1 DEF FreeBlocks
  <2>2. CASE t \in LiveBlocks
    BY <2>2 DEF LiveBlocks, PageInv
  <2> QED
    BY <2>1, <2>2 DEF Tiles
<1>2. t[1] \in Nat /\ t[2] \in Nat
  BY <1>1, LevelsType
<1>3. Leftmost(t[1], t[2]) = t[1]
  BY DEF PageInv
<1>4. t[1] \in Cells(t[1], t[2])
  BY <1>2, <1>3, LeftmostType
<1>5. Cells(t[1], t[2]) \subseteq Offsets
  BY <1>1, <1>3, CellsInPage
<1> QED
  BY <1>1, <1>2, <1>4, <1>5

\* A block is not both free and in use.
LEMMA FreeOrLive ==
    ASSUME PageInv, NEW b \in FreeBlocks
    PROVE  /\ b[1] \notin live
           /\ b \notin LiveBlocks
           /\ header[b[1]].free
<1>1. header[b[1]] = Header(TRUE, b[2])
  BY DEF PageInv
<1>2. header[b[1]].free = TRUE
  BY <1>1 DEF Header
<1>3. b[1] \notin live
  BY <1>2 DEF PageInv
<1> QED
  BY <1>2, <1>3 DEF LiveBlocks

\* The initial page is one free block.
LEMMA PageInvInit ==
    ASSUME PageInit
    PROVE  PageInv
<1>1. /\ header = [o \in Offsets |-> IF o = 0 THEN Header(TRUE, TopLevel) ELSE Bytes]
      /\ freeLevels = [l \in Levels |-> IF l = TopLevel THEN <<0>> ELSE <<>>]
      /\ live = {}
  BY DEF PageInit
<1>2. header \in [Offsets -> HeaderSet]
  BY <1>1, LevelsType DEF HeaderSet, Header
<1>3. <<0>> \in Seq(Offsets) /\ <<>> \in Seq(Offsets) /\ ToSet(<<0>>) = {0} /\ ToSet(<<>>) = {}
  BY LevelsType DEF ToSet
<1>4. freeLevels \in [Levels -> Seq(Offsets)]
  BY <1>1, <1>3
<1>5. \A l \in Levels : Once(freeLevels[l])
  BY <1>1 DEF Once
<1>6. FreeBlocks = {<<0, TopLevel>>}
  <2>1. \A b \in FreeBlocks : b[2] = TopLevel /\ b[1] = 0 /\ b = <<b[1], b[2]>>
    BY <1>1, <1>3 DEF FreeBlocks
  <2>2. <<0, TopLevel>> \in FreeBlocks
    BY <1>1, <1>3, LevelsType DEF FreeBlocks
  <2> QED
    BY <2>1, <2>2
<1>7. LiveBlocks = {} /\ Tiles = {<<0, TopLevel>>}
  BY <1>1, <1>6 DEF LiveBlocks, Tiles
<1>8. Leftmost(0, TopLevel) = 0
  <2>1. Leftmost(0, TopLevel) \in Nat /\ Leftmost(0, TopLevel) <= 0
    BY LevelsType, LeftmostExists
  <2> QED
    BY <2>1
<1>9. Cells(0, TopLevel) = Offsets
  BY LevelsType DEF Cells, Offsets
<1>10. Tiling(Tiles)
  BY <1>7, <1>9 DEF Tiling
<1>11. \A o \in Offsets : header[o].free => o = 0
  BY <1>1 DEF Bytes
<1>12. header[0] = Header(TRUE, TopLevel) /\ header[0].level = TopLevel
  BY <1>1, LevelsType DEF Header
<1>13. \A t \in Tiles : Leftmost(t[1], t[2]) = t[1]
  <2> TAKE t \in Tiles
  <2>1. t[1] = 0 /\ t[2] = TopLevel
    BY <1>7
  <2> QED
    BY <1>8, <2>1
<1>14. \A b \in FreeBlocks : header[b[1]] = Header(TRUE, b[2])
  <2> TAKE b \in FreeBlocks
  <2>1. b[1] = 0 /\ b[2] = TopLevel
    BY <1>6
  <2> QED
    BY <1>12, <2>1
<1>15. \A o \in Offsets : header[o].free => <<o, header[o].level>> \in FreeBlocks
  BY <1>6, <1>11, <1>12
<1> QED
  BY <1>1, <1>2, <1>4, <1>5, <1>10, <1>13, <1>14, <1>15 DEF PageInv

\* The invariant says that the page is tiled.
LEMMA PageInvTiles ==
    ASSUME PageInv
    PROVE  BlocksTile
BY DEF PageInv, BlocksTile, Tiling, Tiles, LiveBlocks, Once

\* The level of a request is one of the page's.
LEMMA LevelForType ==
    ASSUME NEW len \in Lengths
    PROVE  LevelFor(len) \in Levels
<1> DEFINE S == {l \in Levels : len + HeaderSize < MinSize * 2^l}
<1>1. S \in SUBSET Nat
  BY LevelsType
<1>2. TopLevel \in S
  BY LevelsType, LengthsAssumption
<1>3. Min(S) \in S
  <2> HIDE DEF S
  <2> QED
    BY <1>1, <1>2, MinIs
<1> QED
  BY <1>3 DEF LevelFor

-----------------------------------------------------------------------------
(* allocate.                                                               *)

\* An offset outside of a tile is not in it.
LEMMA OtherTiles ==
    ASSUME PageInv, NEW s \in Tiles, NEW t \in Tiles, s # t
    PROVE  /\ Cells(s[1], s[2]) \cap Cells(t[1], t[2]) = {}
           /\ s[1] \notin Cells(t[1], t[2])
           /\ s[1] # t[1]
<1>1. Cells(s[1], s[2]) \cap Cells(t[1], t[2]) = {}
  BY DEF PageInv, Tiling
<1>2. s[1] \in Cells(s[1], s[2]) /\ t[1] \in Cells(t[1], t[2])
  BY TileType
<1> QED
  BY <1>1, <1>2

\* What allocate takes.
LEMMA FoundIs ==
    ASSUME PageInv, NEW w \in Levels, Fitting(w) # {}
    PROVE  /\ FoundLevel(w) \in w .. TopLevel
           /\ FoundLevel(w) \in Levels
           /\ freeLevels[FoundLevel(w)] \in Seq(Offsets)
           /\ freeLevels[FoundLevel(w)] # <<>>
           /\ Found(w) \in Offsets
           /\ <<Found(w), FoundLevel(w)>> \in FreeBlocks
           /\ \A l \in Levels : w <= l /\ l < FoundLevel(w) => freeLevels[l] = <<>>
<1>1. Fitting(w) \in SUBSET Nat
  BY LevelsType DEF Fitting
<1>2. PICK L : L = FoundLevel(w) /\ L \in Fitting(w) /\ \A l \in Fitting(w) : L <= l
  BY <1>1, MinIs DEF FoundLevel
<1>3. L \in w .. TopLevel /\ L \in Levels /\ freeLevels[L] # <<>>
  BY <1>2, LevelsType DEF Fitting, Levels
<1>4. freeLevels[L] \in Seq(Offsets) /\ Once(freeLevels[L])
  BY <1>3 DEF PageInv
<1>5. Found(w) \in ToSet(freeLevels[L])
  BY <1>2, <1>3, <1>4, TailRight DEF Found
<1>6. Found(w) \in Offsets
  BY <1>2, <1>3, <1>4 DEF Found
<1>7. <<Found(w), L>> \in FreeBlocks
  BY <1>3, <1>5, <1>6 DEF FreeBlocks
<1>8. ASSUME NEW l \in Levels, w <= l, l < L PROVE freeLevels[l] = <<>>
  <2>1. l \in w .. TopLevel
    BY <1>8, LevelsType
  <2>2. l \notin Fitting(w)
    BY <1>2, <1>3, <1>8, LevelsType
  <2> QED
    BY <2>1, <2>2 DEF Fitting
<1> QED
  BY <1>2, <1>3, <1>4, <1>6, <1>7, <1>8

\* The blocks that allocate makes of the one it takes.
LEMMA SplitIs ==
    ASSUME PageInv, NEW w \in Levels, NEW L \in w .. TopLevel, NEW h \in Offsets,
           Leftmost(h, L) = h
    PROVE  /\ \A l \in w .. L : l \in Levels /\ l \in Nat /\ Leftmost(h, l) = h
           /\ \A l \in w .. L - 1 : Buddy(h, l) = BuddyAt(h, l)
           /\ \A l \in w .. L - 1 :
                 /\ Buddy(h, l) \in Cells(h, L)
                 /\ Buddy(h, l) \in Offsets
                 /\ Buddy(h, l) # h
                 /\ Leftmost(Buddy(h, l), l) = Buddy(h, l)
           /\ \A l, m \in w .. L - 1 : Buddy(h, l) = Buddy(h, m) => l = m
           /\ Cells(h, w) \subseteq Cells(h, L)
           /\ h \in Cells(h, w)
<1>1. h \in Nat /\ w \in Nat /\ L \in Nat /\ w <= L /\ L <= TopLevel /\ TopLevel \in Nat /\ L \in Levels
  BY LevelsType DEF Levels
<1>2. \A l \in w .. L : l \in Levels /\ l \in Nat /\ Leftmost(h, l) = h
  BY <1>1, LeftmostStays DEF Levels
<1>3. \A l \in w .. L - 1 : l \in w .. L /\ l \in Nat
  BY <1>1
<1>4. \A l \in w .. L - 1 : Buddy(h, l) = BuddyAt(h, l)
  BY <1>2, <1>3 DEF BuddyAt
<1>5. h \in Cells(h, w)
  BY <1>1, <1>2, LeftmostType
<1>6. \A o : o \in Cells(h, L) <=>
                     \/ o \in Cells(h, w)
                     \/ \E i \in w .. L - 1 : o \in Cells(Buddy(h, i), i)
  <2>1. Leftmost(h, w) = h
    BY <1>1, <1>2
  <2> QED
    BY <1>1, <1>4, <2>1, HalvedCovers
<1>7. \A l \in w .. L - 1 : /\ Buddy(h, l) \in Nat
                             /\ Leftmost(Buddy(h, l), l) = Buddy(h, l)
                             /\ Buddy(h, l) \in Cells(Buddy(h, l), l)
  <2> TAKE l \in w .. L - 1
  <2>1. l \in Nat
    BY <1>3
  <2>2. BuddyAt(h, l) \in Nat /\ Leftmost(BuddyAt(h, l), l) = BuddyAt(h, l)
    BY <1>1, <2>1, Halves
  <2>3. BuddyAt(h, l) \in Cells(BuddyAt(h, l), l)
    BY <2>1, <2>2, LeftmostType
  <2> QED
    BY <1>4, <2>2, <2>3
<1>8. Cells(h, L) \subseteq Offsets
  BY <1>1, CellsInPage
<1>9. ASSUME NEW l \in w .. L - 1
      PROVE  Buddy(h, l) \in Cells(h, L) /\ Buddy(h, l) \in Offsets /\ Buddy(h, l) # h
  <2>1. Buddy(h, l) \in Cells(h, L)
    BY <1>6, <1>7
  <2>2. Cells(Leftmost(h, l), l) \cap Cells(BuddyAt(h, l), l) = {}
    BY <1>1, <1>3, Halves
  <2>3. h \in Cells(Leftmost(h, l), l)
    BY <1>1, <1>3, LeftmostType
  <2> QED
    BY <1>4, <1>7, <1>8, <2>1, <2>2, <2>3
<1>10. ASSUME NEW l \in w .. L - 1, NEW m \in w .. L - 1, l # m
       PROVE  Buddy(h, l) # Buddy(h, m)
  <2>1. <<BuddyAt(h, l), l>> \in Halved(h, w, L) /\ <<BuddyAt(h, m), m>> \in Halved(h, w, L)
    BY DEF Halved
  <2>2. <<BuddyAt(h, l), l>> # <<BuddyAt(h, m), m>>
    BY <1>10
  <2>3. Cells(BuddyAt(h, l), l) \cap Cells(BuddyAt(h, m), m) = {}
    <3>1. PICK s \in Halved(h, w, L), t \in Halved(h, w, L) :
            s # t /\ s[1] = BuddyAt(h, l) /\ s[2] = l /\ t[1] = BuddyAt(h, m) /\ t[2] = m
      BY <2>1, <2>2
    <3>2. Cells(s[1], s[2]) \cap Cells(t[1], t[2]) = {}
      BY <1>1, <3>1, HalvedTiles
    <3> QED
      BY <3>1, <3>2
  <2> QED
    BY <1>4, <1>7, <2>3
<1>11. Cells(h, w) \subseteq Cells(h, L)
  BY <1>6
<1> QED
  BY <1>2, <1>4, <1>5, <1>7, <1>9, <1>10, <1>11

\* What allocate does to the blocks: the block of level L at h leaves one of
\* level w in use and its upper halves free.
Allocates(len, w, L, h) ==
    /\ w = LevelFor(len) /\ h = Found(w)
    /\ Leftmost(h, w) = h /\ Leftmost(h, L) = h
    /\ <<h, L>> \in FreeBlocks
    /\ FreeBlocks' = (FreeBlocks \ {<<h, L>>}) \cup {<<BuddyAt(h, l), l>> : l \in w .. L - 1}
    /\ LiveBlocks' = LiveBlocks \cup {<<h, w>>}
    /\ live' = live \cup {h}

\* allocate
LEMMA AllocateKeeps ==
    ASSUME PageInv, NEW len \in Lengths, Allocate(len)
    PROVE  /\ PageInv'
           /\ \E w \in Levels : \E L \in w .. TopLevel, h \in Offsets : Allocates(len, w, L, h)
<1>1. PICK w : w = LevelFor(len) /\ w \in Levels
  BY LevelForType
<1>2. PICK L, h : L = FoundLevel(w) /\ h = Found(w)
  OBVIOUS
<1>3. /\ L \in w .. TopLevel /\ L \in Levels /\ h \in Offsets
      /\ freeLevels[L] \in Seq(Offsets) /\ freeLevels[L] # <<>>
      /\ <<h, L>> \in FreeBlocks
  BY <1>1, <1>2, FoundIs DEF Allocate
<1>4. PICK split : split = w .. L - 1
  OBVIOUS
<1>5. /\ header' = [o \in Offsets |->
              IF o = h THEN Header(FALSE, w)
              ELSE IF \E l \in split : o = Buddy(h, l)
              THEN Header(TRUE, CHOOSE l \in split : o = Buddy(h, l))
              ELSE IF o \in Cells(h, w) THEN Bytes ELSE header[o]]
      /\ freeLevels' = [l \in Levels |->
              IF l \in split THEN <<Buddy(h, l)>> \o freeLevels[l]
              ELSE IF l = L THEN Tail(freeLevels[l]) ELSE freeLevels[l]]
      /\ live' = live \cup {h}
  BY <1>1, <1>2, <1>4 DEF Allocate, Cells
<1>6. PICK r \in Tiles : r = <<h, L>> /\ r \in FreeBlocks
  BY <1>3 DEF Tiles
<1>7. Leftmost(h, L) = h /\ h \in Nat /\ w \in Nat /\ L \in Nat /\ w <= L
  <2>1. Leftmost(r[1], r[2]) = r[1]
    BY DEF PageInv
  <2> QED
    BY <1>1, <1>3, <1>6, <2>1, LevelsType
<1>8. /\ \A l \in split : l \in Levels /\ l # L
      /\ \A l \in split : Buddy(h, l) = BuddyAt(h, l) /\ Leftmost(Buddy(h, l), l) = Buddy(h, l)
      /\ \A l \in split : Buddy(h, l) \in Cells(h, L) /\ Buddy(h, l) \in Offsets /\ Buddy(h, l) # h
      /\ \A l, m \in split : Buddy(h, l) = Buddy(h, m) => l = m
      /\ Cells(h, w) \subseteq Cells(h, L) /\ h \in Cells(h, w)
      /\ Leftmost(h, w) = h
  <2>1. \A l \in split : l \in w .. L /\ l # L
    BY <1>4, <1>7
  <2>2. w \in w .. L
    BY <1>7
  <2>3. /\ \A l \in w .. L : l \in Levels /\ l \in Nat /\ Leftmost(h, l) = h
        /\ \A l \in w .. L - 1 : Buddy(h, l) = BuddyAt(h, l)
        /\ \A l \in w .. L - 1 :
                 /\ Buddy(h, l) \in Cells(h, L)
                 /\ Buddy(h, l) \in Offsets
                 /\ Buddy(h, l) # h
                 /\ Leftmost(Buddy(h, l), l) = Buddy(h, l)
        /\ \A l, m \in w .. L - 1 : Buddy(h, l) = Buddy(h, m) => l = m
        /\ Cells(h, w) \subseteq Cells(h, L)
        /\ h \in Cells(h, w)
    BY <1>1, <1>3, <1>7, SplitIs
  <2> QED
    BY <1>4, <2>1, <2>2, <2>3
<1>9. /\ header'[h] = Header(FALSE, w)
      /\ \A l \in split : header'[Buddy(h, l)] = Header(TRUE, l)
      /\ \A o \in Offsets : o \notin Cells(h, L) => header'[o] = header[o]
      /\ \A o \in Offsets : \/ o = h
                            \/ \E l \in split : o = Buddy(h, l)
                            \/ header'[o] = Bytes
                            \/ header'[o] = header[o]
  <2>1. header'[h] = Header(FALSE, w)
    BY <1>3, <1>5
  <2>2. ASSUME NEW l \in split PROVE header'[Buddy(h, l)] = Header(TRUE, l)
    <3>1. (CHOOSE m \in split : Buddy(h, l) = Buddy(h, m)) = l
      BY <1>8
    <3> QED
      BY <1>5, <1>8, <3>1
  <2>3. ASSUME NEW o \in Offsets, o \notin Cells(h, L) PROVE header'[o] = header[o]
    <3>1. o # h /\ o \notin Cells(h, w) /\ ~\E l \in split : o = Buddy(h, l)
      BY <1>8, <2>3
    <3> QED
      BY <1>5, <3>1
  <2>4. ASSUME NEW o \in Offsets
        PROVE \/ o = h
              \/ \E l \in split : o = Buddy(h, l)
              \/ header'[o] = Bytes
              \/ header'[o] = header[o]
    BY <1>5
  <2> QED
    BY <2>1, <2>2, <2>3, <2>4
<1>10. header' \in [Offsets -> HeaderSet]
  <2>1. \A l \in Levels : Header(TRUE, l) \in HeaderSet /\ Header(FALSE, l) \in HeaderSet
    BY DEF Header, HeaderSet
  <2>2. Bytes \in HeaderSet /\ \A o \in Offsets : header[o] \in HeaderSet
    BY DEF HeaderSet, PageInv
  <2>3. ASSUME NEW o \in Offsets PROVE header'[o] \in HeaderSet
    <3>1. w \in Levels /\ split \subseteq Levels
      BY <1>1, <1>8
    <3>2. CASE o = h
      BY <1>9, <2>1, <3>1, <3>2
    <3>3. CASE \E l \in split : o = Buddy(h, l)
      BY <1>9, <2>1, <3>1, <3>3
    <3>4. CASE header'[o] = Bytes \/ header'[o] = header[o]
      BY <2>2, <3>4
    <3> QED
      BY <1>9, <3>2, <3>3, <3>4
  <2>4. DOMAIN header' = Offsets /\ header' = [o \in Offsets |-> header'[o]]
    BY <1>5
  <2> QED
    BY <2>3, <2>4
<1>11. \A l \in Levels : freeLevels[l] \in Seq(Offsets) /\ Once(freeLevels[l])
  BY DEF PageInv
<1>12. ASSUME NEW l \in split PROVE Buddy(h, l) \notin ToSet(freeLevels[l])
  <2> SUFFICES ASSUME Buddy(h, l) \in ToSet(freeLevels[l]) PROVE FALSE
    OBVIOUS
  <2>1. <<Buddy(h, l), l>> \in FreeBlocks
    BY <1>8 DEF FreeBlocks
  <2>2. PICK t \in Tiles : t = <<Buddy(h, l), l>>
    BY <2>1 DEF Tiles
  <2>3. t # r /\ t[1] = Buddy(h, l) /\ r[1] = h /\ r[2] = L
    BY <1>6, <1>8, <2>2
  <2>4. t[1] \notin Cells(r[1], r[2])
    BY <2>3, OtherTiles
  <2> QED
    BY <1>8, <2>3, <2>4
<1>13. ASSUME NEW l \in Levels
       PROVE  /\ freeLevels'[l] \in Seq(Offsets) /\ Once(freeLevels'[l])
              /\ l \in split => ToSet(freeLevels'[l]) = ToSet(freeLevels[l]) \cup {Buddy(h, l)}
              /\ l = L => ToSet(freeLevels'[l]) = ToSet(freeLevels[l]) \ {h}
              /\ l \notin split /\ l # L => freeLevels'[l] = freeLevels[l]
  <2>1. CASE l \in split
    <3>1. freeLevels'[l] = <<Buddy(h, l)>> \o freeLevels[l]
      BY <1>5, <2>1
    <3> QED
      BY <1>8, <1>11, <1>12, <2>1, <3>1, PrependRight
  <2>2. CASE l = L
    <3>1. freeLevels'[l] = Tail(freeLevels[l]) /\ l \notin split
      BY <1>5, <1>8, <2>2
    <3>2. Head(freeLevels[L]) = h
      BY <1>2 DEF Found
    <3> QED
      BY <1>3, <1>11, <2>2, <3>1, <3>2, TailRight
  <2>3. CASE l \notin split /\ l # L
    BY <1>5, <1>11, <2>3
  <2> QED
    BY <1>8, <2>1, <2>2, <2>3
<1>14. FreeBlocks' = (FreeBlocks \ {r}) \cup {<<Buddy(h, l), l>> : l \in split}
  <2>1. ASSUME NEW b \in Offsets \X Levels
        PROVE  b[1] \in ToSet(freeLevels'[b[2]]) <=>
                  b \in (FreeBlocks \ {r}) \cup {<<Buddy(h, l), l>> : l \in split}
    <3>1. b = <<b[1], b[2]>> /\ b[1] \in Offsets /\ b[2] \in Levels
      OBVIOUS
    <3>2. b \in FreeBlocks <=> b[1] \in ToSet(freeLevels[b[2]])
      BY DEF FreeBlocks
    <3>3. b \in {<<Buddy(h, l), l>> : l \in split} <=> b[2] \in split /\ b[1] = Buddy(h, b[2])
      BY <3>1
    <3>4. b = r <=> b[1] = h /\ b[2] = L
      BY <1>6, <3>1
    <3>5. CASE b[2] \in split
      <4>1. /\ ToSet(freeLevels'[b[2]]) = ToSet(freeLevels[b[2]]) \cup {Buddy(h, b[2])}
            /\ b[2] # L
        BY <1>8, <1>13, <3>1, <3>5
      <4> QED
        BY <3>2, <3>3, <3>4, <3>5, <4>1
    <3>6. CASE b[2] = L
      <4>1. ToSet(freeLevels'[L]) = ToSet(freeLevels[L]) \ {h} /\ L \notin split
        BY <1>8, <1>13, <3>1, <3>6
      <4> QED
        BY <3>2, <3>3, <3>4, <3>6, <4>1
    <3>7. CASE b[2] \notin split /\ b[2] # L
      <4>1. freeLevels'[b[2]] = freeLevels[b[2]]
        BY <1>13, <3>1, <3>7
      <4> QED
        BY <3>2, <3>3, <3>4, <3>7, <4>1
    <3> QED
      BY <3>5, <3>6, <3>7
  <2>2. FreeBlocks' = {b \in Offsets \X Levels : b[1] \in ToSet(freeLevels'[b[2]])}
    BY DEF FreeBlocks
  <2>3. FreeBlocks \subseteq Offsets \X Levels
    BY DEF FreeBlocks
  <2>4. {<<Buddy(h, l), l>> : l \in split} \subseteq Offsets \X Levels
    BY <1>8
  <2> QED
    BY <2>1, <2>2, <2>3, <2>4
<1>15. ASSUME NEW g \in live
       PROVE  g \notin Cells(h, L) /\ g # h /\ header'[g] = header[g]
  <2>1. PICK t \in Tiles : t = <<g, header[g].level>> /\ t \in LiveBlocks
    BY DEF Tiles, LiveBlocks
  <2>2. t # r
    BY <1>6, <2>1, FreeOrLive
  <2>3. t[1] \notin Cells(r[1], r[2]) /\ t[1] # r[1] /\ t[1] = g /\ r[1] = h /\ r[2] = L
    BY <1>6, <2>1, <2>2, OtherTiles
  <2> QED
    BY <1>9, <2>3 DEF PageInv
<1>16. header'[h].level = w /\ header'[h].free = FALSE
  BY <1>9 DEF Header
<1>17. LiveBlocks' = LiveBlocks \cup {<<h, w>>}
  <2>1. LiveBlocks' = {<<g, header'[g].level>> : g \in live'}
    BY DEF LiveBlocks
  <2>2. live' = live \cup {h}
    BY <1>5
  <2>3. \A g \in live : header'[g].level = header[g].level
    BY <1>15
  <2> QED
    BY <1>16, <2>1, <2>2, <2>3 DEF LiveBlocks
<1>18. Halved(h, w, L) = {<<h, w>>} \cup {<<Buddy(h, l), l>> : l \in split}
  BY <1>4, <1>8 DEF Halved
<1>19. Tiles' = (Tiles \ {r}) \cup Halved(h, w, L)
  <2>1. r \notin LiveBlocks
    BY <1>6, FreeOrLive
  <2> QED
    BY <1>14, <1>17, <1>18, <2>1 DEF Tiles
<1>20. Tiling(Tiles')
  <2>1. /\ \A o : (\E t \in Halved(h, w, L) : o \in Cells(t[1], t[2])) <=> o \in Cells(Leftmost(h, L), L)
        /\ \A s, t \in Halved(h, w, L) : s # t => Cells(s[1], s[2]) \cap Cells(t[1], t[2]) = {}
    BY <1>7, HalvedTiles
  <2>2. \A o : (\E t \in {r} : o \in Cells(t[1], t[2])) <=> o \in Cells(h, L)
    BY <1>6
  <2>3. \A o : (\E t \in {r} : o \in Cells(t[1], t[2])) <=> (\E t \in Halved(h, w, L) : o \in Cells(t[1], t[2]))
    BY <1>7, <2>1, <2>2
  <2>4. Tiling(Tiles)
    BY DEF PageInv
  <2>5. Tiling((Tiles \ {r}) \cup Halved(h, w, L))
    BY <2>1, <2>3, <2>4, Retile
  <2> QED
    BY <1>19, <2>5
<1>21. ASSUME NEW t \in Tiles' PROVE Leftmost(t[1], t[2]) = t[1]
  <2>1. CASE t \in Tiles
    BY <2>1 DEF PageInv
  <2>2. CASE t = <<h, w>>
    BY <1>8, <2>2
  <2>3. ASSUME NEW l \in split, t = <<Buddy(h, l), l>> PROVE Leftmost(t[1], t[2]) = t[1]
    BY <1>8, <2>3
  <2> QED
    BY <1>18, <1>19, <2>1, <2>2, <2>3
<1>22. ASSUME NEW b \in FreeBlocks' PROVE header'[b[1]] = Header(TRUE, b[2])
  <2>1. CASE b \in FreeBlocks \ {r}
    <3>1. b \in Tiles /\ b # r /\ b[1] \in Offsets
      BY <2>1 DEF Tiles, FreeBlocks
    <3>2. b[1] \notin Cells(h, L)
      BY <1>6, <3>1, OtherTiles
    <3> QED
      BY <1>9, <2>1, <3>1, <3>2 DEF PageInv
  <2>2. ASSUME NEW l \in split, b = <<Buddy(h, l), l>> PROVE header'[b[1]] = Header(TRUE, b[2])
    BY <1>9, <2>2
  <2> QED
    BY <1>14, <2>1, <2>2
<1>23. ASSUME NEW o \in Offsets, header'[o].free
       PROVE  <<o, header'[o].level>> \in FreeBlocks'
  <2>1. o # h
    BY <1>16, <1>23
  <2>2. CASE \E l \in split : o = Buddy(h, l)
    <3>1. PICK l \in split : o = Buddy(h, l)
      BY <2>2
    <3>2. header'[o] = Header(TRUE, l)
      BY <1>9, <3>1
    <3>3. header'[o].level = l
      BY <3>2 DEF Header
    <3> QED
      BY <1>14, <3>1, <3>3
  <2>3. CASE header'[o] = header[o]
    <3>1. <<o, header[o].level>> \in FreeBlocks
      BY <1>23, <2>3 DEF PageInv
    <3>2. <<o, header[o].level>> # r
      BY <1>6, <2>1
    <3> QED
      BY <1>14, <2>3, <3>1, <3>2
  <2>4. header'[o] # Bytes
    BY <1>23 DEF Bytes
  <2> QED
    BY <1>9, <2>1, <2>2, <2>3, <2>4
<1>24. freeLevels' \in [Levels -> Seq(Offsets)]
  <2>1. freeLevels' = [l \in Levels |-> freeLevels'[l]]
    BY <1>5
  <2> QED
    BY <1>13, <2>1
<1>25. live' \subseteq Offsets /\ \A g \in live' : header'[g].free = FALSE /\ header'[g].level \in Levels
  <2>1. live' = live \cup {h}
    BY <1>5
  <2>2. live \subseteq Offsets /\ \A g \in live : header[g].free = FALSE /\ header[g].level \in Levels
    BY DEF PageInv
  <2>3. h \in Offsets /\ w \in Levels
    BY <1>1, <1>3, <1>5
  <2> QED
    BY <1>15, <1>16, <2>1, <2>2, <2>3
<1>26. \A l \in Levels : Once(freeLevels'[l])
  BY <1>13
<1>27. PageInv'
  BY <1>10, <1>20, <1>21, <1>22, <1>23, <1>24, <1>25, <1>26 DEF PageInv
<1>28. {<<Buddy(h, l), l>> : l \in split} = {<<BuddyAt(h, l), l>> : l \in w .. L - 1}
  BY <1>4, <1>8
<1>29. Allocates(len, w, L, h)
  BY <1>1, <1>2, <1>3, <1>5, <1>6, <1>7, <1>8, <1>14, <1>17, <1>28 DEF Allocates
<1> QED
  BY <1>1, <1>3, <1>27, <1>29

-----------------------------------------------------------------------------
(* free.                                                                   *)

\* What free merges with: blocks of the lists, which together with the block
\* that is freed are a block of the level it grows to.
LEMMA MergedAre ==
    ASSUME PageInv, NEW h \in live, NEW w, w = header[h].level,
           NEW top, top = Min({l \in w .. TopLevel : l = TopLevel \/ ~Merges(h, l)})
    PROVE  /\ h \in Offsets /\ h \in Nat
           /\ w \in Levels /\ w \in Nat /\ top \in Levels /\ top \in Nat /\ w <= top
           /\ Leftmost(h, w) = h
           /\ <<h, w>> \in LiveBlocks
           /\ top = TopLevel \/ ~Merges(h, top)
           /\ \A l \in w .. top - 1 :
                 /\ l \in Levels /\ l # top
                 /\ BuddyAt(h, l) \in Offsets
                 /\ <<BuddyAt(h, l), l>> \in FreeBlocks
<1>1. h \in Offsets /\ h \in Nat /\ w \in Levels /\ w \in Nat /\ w <= TopLevel /\ TopLevel \in Nat
  BY LevelsType DEF PageInv
<1>2. PICK t \in Tiles : t = <<h, w>> /\ t \in LiveBlocks
  BY DEF Tiles, LiveBlocks
<1>3. Leftmost(h, w) = h
  <2>1. Leftmost(t[1], t[2]) = t[1]
    BY DEF PageInv
  <2> QED
    BY <1>2, <2>1
<1> DEFINE S == {l \in w .. TopLevel : l = TopLevel \/ ~Merges(h, l)}
<1>4. S \in SUBSET Nat /\ TopLevel \in S
  BY <1>1
<1>5. top \in S /\ \A l \in S : top <= l
  <2> HIDE DEF S
  <2>1. top = Min(S)
    BY DEF S
  <2>2. S # {}
    BY <1>4
  <2>3. Min(S) \in S /\ \A l \in S : Min(S) <= l
    BY <1>4, <2>2, MinIs
  <2> QED
    BY <2>1, <2>3
<1>6. top \in w .. TopLevel /\ top \in Levels /\ top \in Nat /\ w <= top /\ top <= TopLevel
  BY <1>1, <1>5 DEF Levels
<1>7. ASSUME NEW l \in w .. top - 1
      PROVE  /\ l \in Levels /\ l # top
             /\ BuddyAt(h, l) \in Offsets
             /\ <<BuddyAt(h, l), l>> \in FreeBlocks
  <2>1. l \in Nat /\ l + 1 \in Levels /\ l \in Levels /\ l < top /\ l \in w .. TopLevel /\ l # TopLevel
    BY <1>1, <1>6 DEF Levels
  <2>2. l \notin S
    BY <1>5, <1>6, <2>1
  <2>3. Merges(h, l)
    BY <2>1, <2>2
  <2>4. header[BuddyAt(h, l)].free /\ header[BuddyAt(h, l)].level = l
    BY <2>3 DEF Merges, BuddyAt
  <2>5. /\ BuddyAt(h, l) \in Nat
        /\ Leftmost(BuddyAt(h, l), l) = BuddyAt(h, l)
        /\ Cells(Leftmost(h, l + 1), l + 1) = Cells(Leftmost(h, l), l) \cup Cells(BuddyAt(h, l), l)
    BY <1>1, <2>1, Halves
  <2>6. BuddyAt(h, l) \in Cells(BuddyAt(h, l), l)
    BY <2>1, <2>5, LeftmostType
  <2>7. Cells(Leftmost(h, l + 1), l + 1) \subseteq Offsets
    BY <1>1, <2>1, CellsInPage
  <2>8. BuddyAt(h, l) \in Offsets
    BY <2>5, <2>6, <2>7
  <2>9. <<BuddyAt(h, l), l>> \in FreeBlocks
    BY <2>4, <2>8 DEF PageInv
  <2> QED
    BY <2>1, <2>8, <2>9
<1> QED
  BY <1>1, <1>2, <1>3, <1>5, <1>6, <1>7

\* What free does to the blocks: the block of level w at h grows to level top.
Frees(h, w, top) ==
    /\ w <= top
    /\ top = TopLevel \/ ~Merges(h, top)
    /\ FreeBlocks' = (FreeBlocks \ {<<BuddyAt(h, l), l>> : l \in w .. top - 1})
                         \cup {<<Leftmost(h, top), top>>}
    /\ <<h, w>> \in LiveBlocks
    /\ LiveBlocks' = LiveBlocks \ {<<h, w>>}
    /\ live' = live \ {h}

\* free
LEMMA FreeKeeps ==
    ASSUME PageInv, NEW h, Free(h)
    PROVE  /\ PageInv'
           /\ h \in Offsets /\ \E w, top \in Levels : Frees(h, w, top)
<1>1. PICK w : w = header[h].level
  OBVIOUS
<1>2. PICK top : top = Min({l \in w .. TopLevel : l = TopLevel \/ ~Merges(h, l)})
  OBVIOUS
<1>3. PICK merged : merged = w .. top - 1
  OBVIOUS
<1>4. h \in live
  BY DEF Free
<1>5. PICK c : c = Leftmost(h, top)
  OBVIOUS
<1>6. /\ header' = [o \in Offsets |->
              IF o = c THEN Header(TRUE, top)
              ELSE IF \E l \in merged : o = BuddyAt(h, l)
              THEN [header[o] EXCEPT !.free = FALSE] ELSE header[o]]
      /\ freeLevels' = [l \in Levels |->
              IF l \in merged THEN Without(freeLevels[l], BuddyAt(h, l))
              ELSE IF l = top THEN <<Leftmost(h, l)>> \o freeLevels[l] ELSE freeLevels[l]]
      /\ live' = live \ {h}
  BY <1>1, <1>2, <1>3, <1>5 DEF Free, BuddyAt
<1>7. /\ h \in Offsets /\ h \in Nat
      /\ w \in Levels /\ w \in Nat /\ top \in Levels /\ top \in Nat /\ w <= top
      /\ Leftmost(h, w) = h
      /\ <<h, w>> \in LiveBlocks
      /\ top = TopLevel \/ ~Merges(h, top)
      /\ \A l \in merged :
                 /\ l \in Levels /\ l # top
                 /\ BuddyAt(h, l) \in Offsets
                 /\ <<BuddyAt(h, l), l>> \in FreeBlocks
  BY <1>1, <1>2, <1>3, <1>4, MergedAre
<1> DEFINE Gone == {<<BuddyAt(h, l), l>> : l \in merged}
           R == Halved(h, w, top)
<1>8. PICK t \in Tiles : t = <<h, w>> /\ t \in LiveBlocks
  BY <1>7 DEF Tiles
<1>9. R = {t} \cup Gone /\ Gone \subseteq FreeBlocks /\ R \subseteq Tiles
  BY <1>3, <1>7, <1>8 DEF Halved, Tiles
<1>10. /\ c \in Nat /\ c \in Offsets /\ Leftmost(c, top) = c /\ h \in Cells(c, top)
  BY <1>5, <1>7, LeftmostType, CellsInPage
<1>11. /\ \A o : (\E s \in R : o \in Cells(s[1], s[2])) <=> o \in Cells(c, top)
       /\ \A s, u \in R : s # u => Cells(s[1], s[2]) \cap Cells(u[1], u[2]) = {}
  <2>1. /\ \A o : (\E s \in R : o \in Cells(s[1], s[2])) <=> o \in Cells(Leftmost(h, top), top)
        /\ \A s, u \in R : s # u => Cells(s[1], s[2]) \cap Cells(u[1], u[2]) = {}
    BY <1>7, HalvedTiles
  <2> QED
    BY <1>5, <2>1
<1>12. ASSUME NEW s \in Tiles, s \notin R
       PROVE  s[1] \notin Cells(c, top)
  <2> SUFFICES ASSUME s[1] \in Cells(c, top) PROVE FALSE
    OBVIOUS
  <2>1. PICK u \in R : s[1] \in Cells(u[1], u[2])
    BY <1>11
  <2>2. u \in Tiles /\ u # s
    BY <1>9, <1>12
  <2> QED
    BY <2>1, <2>2, OtherTiles
<1>13. \A l \in merged : BuddyAt(h, l) \in Cells(c, top)
  <2> TAKE l \in merged
  <2>1. PICK s \in R : s = <<BuddyAt(h, l), l>>
    BY <1>9
  <2>2. s[1] \in Cells(s[1], s[2])
    BY <1>9, <2>1, TileType
  <2>3. s[1] \in Cells(c, top)
    BY <1>11, <2>2
  <2> QED
    BY <2>1, <2>3
<1>14. c \in Cells(c, top)
  BY <1>7, <1>10, LeftmostType
<1>15. /\ header'[c] = Header(TRUE, top)
       /\ \A o \in Offsets : o \notin Cells(c, top) => header'[o] = header[o]
       /\ \A o \in Offsets : \/ o = c
                             \/ header'[o].free = FALSE
                             \/ header'[o] = header[o] /\ \A l \in merged : o # BuddyAt(h, l)
       /\ \A o \in Offsets : header'[o] \in HeaderSet
  <2>1. header'[c] = Header(TRUE, top)
    BY <1>6, <1>10
  <2>2. ASSUME NEW o \in Offsets, o \notin Cells(c, top) PROVE header'[o] = header[o]
    <3>1. o # c /\ ~\E l \in merged : o = BuddyAt(h, l)
      BY <1>13, <1>14, <2>2
    <3> QED
      BY <1>6, <3>1
  <2>3. ASSUME NEW o \in Offsets, o # c, NEW l \in merged, o = BuddyAt(h, l)
        PROVE  header'[o].free = FALSE /\ header'[o] \in HeaderSet
    <3>1. PICK b \in FreeBlocks : b = <<o, l>>
      BY <1>7, <2>3
    <3>2. header[b[1]] = Header(TRUE, b[2])
      BY DEF PageInv
    <3>3. header[o] = Header(TRUE, l)
      BY <3>1, <3>2
    <3>4. header'[o] = [header[o] EXCEPT !.free = FALSE]
      BY <1>6, <2>3
    <3>5. header[o] = [free |-> TRUE, level |-> l] /\ l \in Levels
      BY <1>7, <3>3 DEF Header
    <3>6. header[o] \in [free : BOOLEAN, level : Levels]
      BY <3>5
    <3> QED
      BY <3>4, <3>5, <3>6 DEF HeaderSet
  <2>4. ASSUME NEW o \in Offsets, o # c, \A l \in merged : o # BuddyAt(h, l)
        PROVE  header'[o] = header[o]
    BY <1>6, <2>4
  <2>5. \A l \in Levels : Header(TRUE, l) \in HeaderSet
    BY DEF Header, HeaderSet
  <2>6. \A o \in Offsets : header[o] \in HeaderSet
    BY DEF PageInv
  <2>8. \A o \in Offsets : header'[o] \in HeaderSet
    BY <1>7, <2>1, <2>3, <2>4, <2>5, <2>6
  <2>9. \A o \in Offsets : \/ o = c
                           \/ header'[o].free = FALSE
                           \/ header'[o] = header[o] /\ \A l \in merged : o # BuddyAt(h, l)
    BY <2>3, <2>4
  <2> QED
    BY <2>1, <2>2, <2>8, <2>9
<1>16. header' \in [Offsets -> HeaderSet]
  <2>1. header' = [o \in Offsets |-> header'[o]]
    BY <1>6
  <2> QED
    BY <1>15, <2>1
<1>17. \A l \in Levels : freeLevels[l] \in Seq(Offsets) /\ Once(freeLevels[l])
  BY DEF PageInv
<1>18. c \notin ToSet(freeLevels[top])
  <2> SUFFICES ASSUME c \in ToSet(freeLevels[top]) PROVE FALSE
    OBVIOUS
  <2>1. PICK s \in Tiles : s = <<c, top>> /\ s \in FreeBlocks
    <3>1. <<c, top>> \in Offsets \X Levels /\ <<c, top>>[1] = c /\ <<c, top>>[2] = top
      BY <1>7, <1>10
    <3>2. <<c, top>> \in FreeBlocks
      BY <3>1 DEF FreeBlocks
    <3> QED
      BY <3>2 DEF Tiles
  <2>2. s # t
    BY <1>8, <2>1, FreeOrLive
  <2>3. t[1] \notin Cells(s[1], s[2])
    BY <2>2, OtherTiles
  <2> QED
    BY <1>8, <1>10, <2>1, <2>3
<1>19. ASSUME NEW l \in Levels
       PROVE  /\ freeLevels'[l] \in Seq(Offsets) /\ Once(freeLevels'[l])
              /\ l \in merged => ToSet(freeLevels'[l]) = ToSet(freeLevels[l]) \ {BuddyAt(h, l)}
              /\ l = top => ToSet(freeLevels'[l]) = ToSet(freeLevels[l]) \cup {c}
              /\ l \notin merged /\ l # top => freeLevels'[l] = freeLevels[l]
  <2>1. CASE l \in merged
    <3>1. freeLevels'[l] = Without(freeLevels[l], BuddyAt(h, l))
      BY <1>6, <2>1
    <3>2. PICK b \in FreeBlocks : b = <<BuddyAt(h, l), l>>
      BY <1>7, <2>1
    <3>3. BuddyAt(h, l) \in ToSet(freeLevels[l])
      BY <3>2 DEF FreeBlocks
    <3>4. freeLevels[l] \in Seq(Offsets) /\ Once(freeLevels[l])
      BY <1>17
    <3>5. /\ Without(freeLevels[l], BuddyAt(h, l)) \in Seq(Offsets)
          /\ ToSet(Without(freeLevels[l], BuddyAt(h, l))) = ToSet(freeLevels[l]) \ {BuddyAt(h, l)}
          /\ Once(Without(freeLevels[l], BuddyAt(h, l)))
      BY <3>3, <3>4, WithoutRight
    <3> QED
      BY <1>7, <2>1, <3>1, <3>5
  <2>2. CASE l = top
    <3>1. freeLevels'[l] = <<c>> \o freeLevels[l] /\ l \notin merged
      BY <1>5, <1>6, <1>7, <2>2
    <3> QED
      BY <1>10, <1>17, <1>18, <2>2, <3>1, PrependRight
  <2>3. CASE l \notin merged /\ l # top
    BY <1>6, <1>17, <2>3
  <2> QED
    BY <1>7, <2>1, <2>2, <2>3
<1>20. FreeBlocks' = (FreeBlocks \ Gone) \cup {<<c, top>>}
  <2>1. ASSUME NEW b \in Offsets \X Levels
        PROVE  b[1] \in ToSet(freeLevels'[b[2]]) <=> b \in (FreeBlocks \ Gone) \cup {<<c, top>>}
    <3>1. b = <<b[1], b[2]>> /\ b[1] \in Offsets /\ b[2] \in Levels
      OBVIOUS
    <3>2. b \in FreeBlocks <=> b[1] \in ToSet(freeLevels[b[2]])
      BY DEF FreeBlocks
    <3>3. b \in Gone <=> b[2] \in merged /\ b[1] = BuddyAt(h, b[2])
      BY <3>1
    <3>4. b = <<c, top>> <=> b[1] = c /\ b[2] = top
      BY <3>1
    <3> HIDE DEF Gone
    <3>5. CASE b[2] \in merged
      <4>1. ToSet(freeLevels'[b[2]]) = ToSet(freeLevels[b[2]]) \ {BuddyAt(h, b[2])} /\ b[2] # top
        BY <1>7, <1>19, <3>1, <3>5
      <4> QED
        BY <3>2, <3>3, <3>4, <3>5, <4>1
    <3>6. CASE b[2] = top
      BY <1>7, <1>19, <3>1, <3>2, <3>3, <3>4, <3>6
    <3>7. CASE b[2] \notin merged /\ b[2] # top
      BY <1>19, <3>1, <3>2, <3>3, <3>4, <3>7
    <3> QED
      BY <3>5, <3>6, <3>7
  <2>2. FreeBlocks' = {b \in Offsets \X Levels : b[1] \in ToSet(freeLevels'[b[2]])}
    BY DEF FreeBlocks
  <2>3. FreeBlocks \subseteq Offsets \X Levels /\ <<c, top>> \in Offsets \X Levels
    BY <1>7, <1>10 DEF FreeBlocks
  <2> QED
    BY <2>1, <2>2, <2>3
<1>21. ASSUME NEW g \in live, g # h
       PROVE  g \notin Cells(c, top) /\ header'[g] = header[g] /\ <<g, header[g].level>> # t
  <2>1. PICK s \in Tiles : s = <<g, header[g].level>> /\ s \in LiveBlocks
    BY DEF Tiles, LiveBlocks
  <2>2. s # t
    BY <1>8, <1>21, <2>1
  <2>3. s \notin R
    BY <1>9, <2>1, <2>2, FreeOrLive
  <2>4. s[1] \notin Cells(c, top) /\ s[1] = g
    BY <1>12, <2>1, <2>3
  <2> QED
    BY <1>15, <2>1, <2>2, <2>4 DEF PageInv
<1>22. LiveBlocks' = LiveBlocks \ {t}
  <2>1. LiveBlocks' = {<<g, header'[g].level>> : g \in live \ {h}}
    BY <1>6 DEF LiveBlocks
  <2>2. \A g \in live \ {h} : header'[g].level = header[g].level /\ <<g, header[g].level>> # t
    BY <1>21
  <2>3. t = <<h, header[h].level>>
    BY <1>1, <1>8
  <2> QED
    BY <2>1, <2>2, <2>3 DEF LiveBlocks
<1>23. Tiles' = (Tiles \ R) \cup {<<c, top>>}
  <2>1. \A b \in FreeBlocks : b \notin LiveBlocks
    BY FreeOrLive
  <2> HIDE DEF Gone, R
  <2> QED
    BY <1>8, <1>9, <1>20, <1>22, <2>1 DEF Tiles
<1>24. Tiling(Tiles')
  <2>1. \A o : (\E s \in {<<c, top>>} : o \in Cells(s[1], s[2])) <=> o \in Cells(c, top)
    OBVIOUS
  <2>2. \A o : (\E s \in R : o \in Cells(s[1], s[2])) <=> (\E s \in {<<c, top>>} : o \in Cells(s[1], s[2]))
    BY <1>11, <2>1
  <2>3. \A s, u \in {<<c, top>>} : s # u => Cells(s[1], s[2]) \cap Cells(u[1], u[2]) = {}
    OBVIOUS
  <2>4. Tiling(Tiles)
    BY DEF PageInv
  <2>5. Tiling((Tiles \ R) \cup {<<c, top>>})
    <3> HIDE DEF R
    <3> QED
      BY <1>9, <2>2, <2>3, <2>4, Retile
  <2> QED
    BY <1>23, <2>5
<1>25. ASSUME NEW s \in Tiles' PROVE Leftmost(s[1], s[2]) = s[1]
  <2>1. CASE s \in Tiles
    BY <2>1 DEF PageInv
  <2>2. CASE s = <<c, top>>
    BY <1>10, <2>2
  <2> QED
    BY <1>23, <2>1, <2>2
<1>26. ASSUME NEW b \in FreeBlocks' PROVE header'[b[1]] = Header(TRUE, b[2])
  <2>1. CASE b \in FreeBlocks \ Gone
    <3>1. b \in Tiles /\ b \notin R /\ b[1] \in Offsets
      BY <1>8, <1>9, <2>1, FreeOrLive DEF Tiles, FreeBlocks
    <3>2. b[1] \notin Cells(c, top)
      BY <1>12, <3>1
    <3> QED
      BY <1>15, <2>1, <3>1, <3>2 DEF PageInv
  <2>2. CASE b = <<c, top>>
    BY <1>15, <2>2
  <2> QED
    BY <1>20, <2>1, <2>2
<1>27. ASSUME NEW o \in Offsets, header'[o].free
       PROVE  <<o, header'[o].level>> \in FreeBlocks'
  <2>1. CASE o = c
    <3>1. header'[o].level = top
      BY <1>15, <2>1 DEF Header
    <3> QED
      BY <1>20, <2>1, <3>1
  <2>2. CASE header'[o] = header[o] /\ \A l \in merged : o # BuddyAt(h, l)
    <3>1. <<o, header[o].level>> \in FreeBlocks
      BY <1>27, <2>2 DEF PageInv
    <3>2. <<o, header[o].level>> \notin Gone
      BY <2>2
    <3> QED
      BY <1>20, <2>2, <3>1, <3>2
  <2> QED
    BY <1>15, <1>27, <2>1, <2>2
<1>28. freeLevels' \in [Levels -> Seq(Offsets)]
  <2>1. freeLevels' = [l \in Levels |-> freeLevels'[l]]
    BY <1>6
  <2> QED
    BY <1>19, <2>1
<1>29. live' \subseteq Offsets /\ \A g \in live' : header'[g].free = FALSE /\ header'[g].level \in Levels
  BY <1>6, <1>21 DEF PageInv
<1>30. \A l \in Levels : Once(freeLevels'[l])
  BY <1>19
<1>31. PageInv'
  BY <1>16, <1>24, <1>25, <1>26, <1>27, <1>28, <1>29, <1>30 DEF PageInv
<1>32. Frees(h, w, top)
  BY <1>3, <1>5, <1>6, <1>7, <1>8, <1>20, <1>22 DEF Frees
<1> QED
  BY <1>7, <1>31, <1>32

-----------------------------------------------------------------------------
(* Free buddies are one block.                                             *)

\* No block of the lists below the top level has its buddy in them.
NoBuddies ==
    \A b \in FreeBlocks : b[2] < TopLevel => <<BuddyAt(b[1], b[2]), b[2]>> \notin FreeBlocks

LEMMA FreeBlockType ==
    ASSUME PageInv, NEW b \in FreeBlocks
    PROVE  /\ b[1] \in Offsets /\ b[1] \in Nat /\ b[2] \in Levels /\ b[2] \in Nat
           /\ b = <<b[1], b[2]>>
           /\ Leftmost(b[1], b[2]) = b[1]
           /\ BuddyAt(BuddyAt(b[1], b[2]), b[2]) = b[1]
           /\ header[b[1]].free = TRUE /\ header[b[1]].level = b[2]
<1>1. b \in Tiles
  BY DEF Tiles
<1>2. b[1] \in Offsets /\ b[1] \in Nat /\ b[2] \in Levels /\ b[2] \in Nat /\ b = <<b[1], b[2]>>
  BY <1>1, TileType
<1>3. Leftmost(b[1], b[2]) = b[1]
  BY <1>1 DEF PageInv
<1>4. BuddyAt(BuddyAt(b[1], b[2]), b[2]) = b[1]
  BY <1>2, <1>3, Halves
<1>5. header[b[1]] = Header(TRUE, b[2])
  BY DEF PageInv
<1>6. header[b[1]].free = TRUE /\ header[b[1]].level = b[2]
  BY <1>5 DEF Header
<1> QED
  BY <1>2, <1>3, <1>4, <1>6

\* Of the halves that allocate makes, the lower one is used.
LEMMA AllocateLeavesNoBuddies ==
    ASSUME PageInv, NoBuddies, PageInv', NEW len \in Lengths,
           NEW w \in Levels, NEW L \in w .. TopLevel, NEW h \in Offsets, Allocates(len, w, L, h)
    PROVE  NoBuddies'
<1>1. \A b \in FreeBlocks' : b[1] # h
  <2> TAKE b \in FreeBlocks'
  <2>1. header'[b[1]] = Header(TRUE, b[2])
    BY DEF PageInv
  <2>2. header'[b[1]].free = TRUE
    BY <2>1 DEF Header
  <2>3. header'[h].free = FALSE
    BY DEF PageInv, Allocates
  <2> QED
    BY <2>2, <2>3
<1>2. h \in Nat /\ w \in Nat /\ L \in Nat /\ L <= TopLevel
  BY LevelsType
<1>3. ASSUME NEW l \in w .. L - 1
      PROVE  l \in Nat /\ BuddyAt(BuddyAt(h, l), l) = h
  <2>1. l \in Nat /\ l <= L
    BY <1>2
  <2>2. Leftmost(h, l) = h
    BY <1>2, <2>1, LeftmostStays DEF Allocates
  <2> QED
    BY <1>2, <2>1, <2>2, Halves
<1>4. \A b \in FreeBlocks' : \/ b \in FreeBlocks
                             \/ b[2] \in w .. L - 1 /\ b[1] = BuddyAt(h, b[2])
  BY DEF Allocates
<1> SUFFICES ASSUME NEW b \in FreeBlocks', b[2] < TopLevel,
                    NEW d \in FreeBlocks', d[1] = BuddyAt(b[1], b[2]), d[2] = b[2]
             PROVE  FALSE
  <2>1. NoBuddies' <=> \A b \in FreeBlocks' :
            b[2] < TopLevel => <<BuddyAt(b[1], b[2]), b[2]>> \notin FreeBlocks'
    BY DEF NoBuddies
  <2>2. \A b : <<BuddyAt(b[1], b[2]), b[2]>>[1] = BuddyAt(b[1], b[2]) /\ <<BuddyAt(b[1], b[2]), b[2]>>[2] = b[2]
    OBVIOUS
  <2> QED
    BY <2>1, <2>2
<1>5. CASE b[2] \in w .. L - 1 /\ b[1] = BuddyAt(h, b[2])
  <2>1. d[1] = h
    BY <1>3, <1>5
  <2> QED
    BY <1>1, <2>1
<1>6. CASE b \in FreeBlocks
  <2>1. BuddyAt(BuddyAt(b[1], b[2]), b[2]) = b[1]
    BY <1>6, FreeBlockType
  <2>2. CASE d \in FreeBlocks
    <3>1. d = <<d[1], d[2]>>
      BY <2>2, FreeBlockType
    <3>2. d = <<BuddyAt(b[1], b[2]), b[2]>>
      BY <3>1
    <3> QED
      BY <1>6, <2>2, <3>2 DEF NoBuddies
  <2>3. CASE d[2] \in w .. L - 1 /\ d[1] = BuddyAt(h, d[2])
    <3>1. b[1] = h
      BY <1>3, <2>1, <2>3
    <3> QED
      BY <1>1, <3>1
  <2> QED
    BY <1>4, <2>2, <2>3
<1> QED
  BY <1>4, <1>5, <1>6

\* The block that free makes has no buddy to be merged with.
LEMMA FreeLeavesNoBuddies ==
    ASSUME PageInv, NoBuddies, NEW h \in Offsets, NEW w \in Levels, NEW top \in Levels, Frees(h, w, top)
    PROVE  NoBuddies'
<1>1. h \in Nat /\ top \in Nat
  BY LevelsType
<1>2. PICK c \in Nat : c = Leftmost(h, top) /\ Leftmost(c, top) = c
  BY <1>1, LeftmostType
<1>3. BuddyAt(c, top) = BuddyAt(h, top)
  BY <1>2 DEF BuddyAt
<1>4. BuddyAt(h, top) # c
  <2>1. Cells(c, top) \cap Cells(BuddyAt(h, top), top) = {}
    BY <1>1, <1>2, Halves
  <2>2. c \in Cells(c, top)
    BY <1>1, <1>2, LeftmostType
  <2> QED
    BY <2>1, <2>2
<1>5. \A b \in FreeBlocks' : b \in FreeBlocks \/ (b[1] = c /\ b[2] = top)
  BY <1>2 DEF Frees
<1>6. ASSUME top < TopLevel, NEW b \in FreeBlocks, b[1] = BuddyAt(h, top), b[2] = top
      PROVE  FALSE
  <2>1. header[BuddyAt(h, top)].free = TRUE /\ header[BuddyAt(h, top)].level = top
    BY <1>6, FreeBlockType
  <2>2. Merges(h, top)
    BY <2>1 DEF Merges, BuddyAt
  <2>3. top # TopLevel
    BY <1>1, <1>6, LevelsType
  <2> QED
    BY <2>2, <2>3 DEF Frees
<1> SUFFICES ASSUME NEW b \in FreeBlocks', b[2] < TopLevel,
                    NEW d \in FreeBlocks', d[1] = BuddyAt(b[1], b[2]), d[2] = b[2]
             PROVE  FALSE
  <2>1. NoBuddies' <=> \A b \in FreeBlocks' :
            b[2] < TopLevel => <<BuddyAt(b[1], b[2]), b[2]>> \notin FreeBlocks'
    BY DEF NoBuddies
  <2>2. \A b : <<BuddyAt(b[1], b[2]), b[2]>>[1] = BuddyAt(b[1], b[2]) /\ <<BuddyAt(b[1], b[2]), b[2]>>[2] = b[2]
    OBVIOUS
  <2> QED
    BY <2>1, <2>2
<1>7. CASE b[1] = c /\ b[2] = top
  <2>1. d[1] = BuddyAt(h, top) /\ d[2] = top
    BY <1>3, <1>7
  <2>2. d \in FreeBlocks
    BY <1>4, <1>5, <2>1
  <2> QED
    BY <1>6, <1>7, <2>1, <2>2
<1>8. CASE b \in FreeBlocks
  <2>1. BuddyAt(BuddyAt(b[1], b[2]), b[2]) = b[1]
    BY <1>8, FreeBlockType
  <2>2. CASE d \in FreeBlocks
    <3>1. d = <<d[1], d[2]>>
      BY <2>2, FreeBlockType
    <3>2. d = <<BuddyAt(b[1], b[2]), b[2]>>
      BY <3>1
    <3> QED
      BY <1>8, <2>2, <3>2 DEF NoBuddies
  <2>3. CASE d[1] = c /\ d[2] = top
    <3>1. b[1] = BuddyAt(h, top) /\ b[2] = top
      BY <1>3, <2>1, <2>3
    <3> QED
      BY <1>6, <1>8, <3>1
  <2> QED
    BY <1>5, <2>2, <2>3
<1> QED
  BY <1>5, <1>7, <1>8

-----------------------------------------------------------------------------
(* What is free is found.                                                  *)

\* Any offset of a block has the block's begin as its leftmost.
LEMMA SameBlock ==
    ASSUME NEW a \in Nat, NEW l \in Nat, Leftmost(a, l) = a, NEW o \in Cells(a, l)
    PROVE  o \in Nat /\ Leftmost(o, l) = a
<1>1. 2^l \in Nat \ {0}
  BY PowersOfTwo
<1>2. o \in Nat /\ a <= o /\ o < a + 2^l
  BY <1>1 DEF Cells
<1>3. Begins(a, l)
  BY LeftmostExists
<1> QED
  BY <1>2, <1>3, LeftmostIs

\* Blocks are nested.
LEMMA Nested ==
    ASSUME NEW o \in Nat, NEW l \in Nat, NEW m \in Nat, l <= m
    PROVE  /\ Cells(Leftmost(o, l), l) \subseteq Cells(Leftmost(o, m), m)
           /\ Leftmost(Leftmost(o, l), m) = Leftmost(o, m)
<1>1. Cells(Leftmost(o, l), l) \subseteq Cells(Leftmost(o, m), m)
  BY HalvedCovers
<1>2. PICK a \in Nat : a = Leftmost(o, l) /\ a \in Cells(a, l)
  BY LeftmostType
<1>3. PICK b \in Nat : b = Leftmost(o, m) /\ Leftmost(b, m) = b
  BY LeftmostType
<1>4. a \in Cells(b, m)
  BY <1>1, <1>2, <1>3
<1>5. Leftmost(a, m) = b
  BY <1>3, <1>4, SameBlock
<1> QED
  BY <1>1, <1>2, <1>3, <1>5

\* If no part of a block is in use, and free buddies are one block, then a block
\* of its level or above is free: of the smallest free blocks in it, one would
\* have its buddy free.
LEMMA HolesAreFree ==
    ASSUME PageInv, NoBuddies, NEW w \in Levels, NEW a \in Offsets, Leftmost(a, w) = a,
           \A t \in LiveBlocks : Cells(a, w) \cap Cells(t[1], t[2]) = {}
    PROVE  \E t \in FreeBlocks : w <= t[2]
<1> SUFFICES ASSUME \A t \in FreeBlocks : ~(w <= t[2]) PROVE FALSE
  OBVIOUS
<1> DEFINE Inside == {t \in FreeBlocks : Cells(a, w) \cap Cells(t[1], t[2]) # {}}
           S == {t[2] : t \in Inside}
<1>1. a \in Nat /\ w \in Nat /\ w <= TopLevel /\ TopLevel \in Nat
  BY LevelsType
<1>2. Cells(a, w) \subseteq Offsets
  BY CellsInPage
<1>3. ASSUME NEW o \in Cells(a, w)
      PROVE  \E t \in Inside : o \in Cells(t[1], t[2])
  <2>1. PICK t \in Tiles : o \in Cells(t[1], t[2])
    BY <1>2 DEF PageInv, Tiling
  <2>2. t \in FreeBlocks
    BY <2>1 DEF Tiles
  <2> QED
    BY <2>1, <2>2
<1>4. a \in Cells(a, w)
  BY <1>1, LeftmostType
<1>5. S \in SUBSET Nat /\ S # {}
  <2>1. \A t \in FreeBlocks : t[2] \in Nat
    BY FreeBlockType
  <2> QED
    BY <1>3, <1>4, <2>1
<1>6. PICK t \in Inside : \A u \in Inside : t[2] <= u[2]
  <2>1. PICK m : m = Min(S) /\ m \in S /\ \A n \in S : m <= n
    <3> HIDE DEF S
    <3> QED
      BY <1>5, MinIs
  <2> QED
    BY <2>1
<1>7. PICK b \in Nat, m \in Nat : t[1] = b /\ t[2] = m
  BY FreeBlockType
<1>8. Leftmost(b, m) = b /\ t = <<b, m>> /\ t \in Tiles
  BY <1>7, FreeBlockType DEF Tiles
<1>9. m < w
  BY <1>1, <1>7
<1>10. Leftmost(b, w) = a
  <2>1. PICK o \in Cells(a, w) : o \in Cells(b, m)
    BY <1>7
  <2>2. o \in Nat /\ Leftmost(o, w) = a
    BY <1>1, SameBlock
  <2>3. Leftmost(o, m) = b
    BY <1>8, <2>1, SameBlock
  <2>4. m <= w
    BY <1>1, <1>9
  <2>5. Leftmost(Leftmost(o, m), w) = Leftmost(o, w)
    BY <1>1, <2>2, <2>4, Nested
  <2> QED
    BY <2>2, <2>3, <2>5
<1>11. PICK d \in Nat : d = BuddyAt(b, m) /\ Leftmost(d, m) = d
  <2>1. BuddyAt(b, m) \in Nat /\ Leftmost(BuddyAt(b, m), m) = BuddyAt(b, m)
    BY <1>7, Halves
  <2> QED
    BY <2>1
<1>12. PICK p \in Nat : p = Leftmost(b, m + 1)
  BY <1>7, LeftmostType
<1>13. /\ Leftmost(d, m + 1) = p
       /\ Cells(p, m + 1) = Cells(b, m) \cup Cells(d, m)
       /\ Cells(p, m + 1) \subseteq Cells(a, w)
  <2>1. /\ Leftmost(d, m + 1) = p
        /\ Cells(p, m + 1) = Cells(b, m) \cup Cells(d, m)
    BY <1>8, <1>11, <1>12, Halves
  <2>2. m + 1 \in Nat /\ m + 1 <= w
    BY <1>1, <1>9
  <2>3. Cells(p, m + 1) \subseteq Cells(a, w)
    BY <1>1, <1>10, <1>12, <2>2, Nested
  <2> QED
    BY <2>1, <2>3
<1>14. d \in Cells(d, m) /\ b \in Cells(b, m)
  BY <1>8, <1>11, LeftmostType
<1>15. PICK u \in Inside : d \in Cells(u[1], u[2])
  BY <1>3, <1>13, <1>14
<1>16. PICK n \in Nat : n = u[2] /\ m <= n
  BY <1>6, <1>7, FreeBlockType
<1>17. PICK e \in Nat : e = u[1] /\ Leftmost(e, n) = e /\ u = <<e, n>> /\ u \in Tiles
  BY <1>16, FreeBlockType DEF Tiles
<1>18. Leftmost(d, n) = e
  BY <1>15, <1>16, <1>17, SameBlock
<1>19. CASE n = m
  <2>1. u = <<BuddyAt(b, m), m>>
    BY <1>11, <1>17, <1>18, <1>19
  <2>2. m < TopLevel
    BY <1>1, <1>9
  <2> QED
    BY <1>7, <2>1, <2>2 DEF NoBuddies
<1>20. CASE m < n
  <2>1. m + 1 \in Nat /\ m + 1 <= n
    BY <1>20
  <2>2. Cells(p, m + 1) \subseteq Cells(e, n)
    BY <1>13, <1>18, <2>1, Nested
  <2>3. b \in Cells(e, n)
    BY <1>13, <1>14, <2>2
  <2>4. t # u
    BY <1>8, <1>17, <1>20
  <2> QED
    BY <1>7, <1>8, <1>16, <1>17, <2>3, <2>4, OtherTiles
<1> QED
  BY <1>16, <1>19, <1>20

-----------------------------------------------------------------------------
(* The page is an allocator.                                               *)

\* The block that the abstract allocator has for one that is in use.
Handed(b) == [at |-> b[1], size |-> 2^b[2]]

Blocks == {[at |-> h, size |-> 2^header[h].level] : h \in live}

LEMMA BlocksAre ==
    /\ Blocks = {Handed(b) : b \in LiveBlocks}
    /\ Blocks' = {Handed(b) : b \in LiveBlocks'}
<1>1. Blocks = {Handed(b) : b \in LiveBlocks}
  <2>1. \A h : Handed(<<h, header[h].level>>) = [at |-> h, size |-> 2^header[h].level]
    BY DEF Handed
  <2>2. Blocks = {Handed(<<h, header[h].level>>) : h \in live}
    BY <2>1, Zenon DEF Blocks
  <2>3. {Handed(b) : b \in LiveBlocks} = {Handed(<<h, header[h].level>>) : h \in live}
    BY DEF LiveBlocks
  <2> QED
    BY <2>2, <2>3
<1>2. Blocks' = {Handed(b) : b \in LiveBlocks'}
  <2>1. \A h : Handed(<<h, header'[h].level>>) = [at |-> h, size |-> 2^header'[h].level]
    BY DEF Handed
  <2>2. Blocks' = {Handed(<<h, header'[h].level>>) : h \in live'}
    BY <2>1, Zenon DEF Blocks
  <2>3. {Handed(b) : b \in LiveBlocks'} = {Handed(<<h, header'[h].level>>) : h \in live'}
    BY DEF LiveBlocks
  <2> QED
    BY <2>2, <2>3
<1> QED
  BY <1>1, <1>2

\* The cells of the abstract block are those of the block.
LEMMA HandedCells ==
    ASSUME NEW b
    PROVE  Abstract!Cells(Handed(b)) = Cells(b[1], b[2])
BY DEF Abstract!Cells, Handed, Cells

\* A block of the page is an aligned block, and each aligned block is one.
LEMMA HandedAligned ==
    ASSUME NEW h \in Offsets, NEW l \in Levels, Leftmost(h, l) = h
    PROVE  Handed(<<h, l>>) \in Abstract!Aligned
<1>1. h \in Nat /\ l \in Nat
  BY LevelsType
<1>2. PICK p \in Nat \ {0} : p = 2^l
  BY <1>1, PowersOfTwo
<1>3. PICK c \in Nat \ {0} : c = 2^TopLevel
  BY LevelsType
<1>4. h % p = 0
  <2>1. h - (h % p) = h /\ h % p \in Nat
    BY <1>1, <1>2 DEF Leftmost
  <2> QED
    BY <1>1, <2>1
<1>5. h \in 0 .. c - 1
  BY <1>3 DEF Offsets
<1>6. h + p <= c
  <2>1. Cells(h, l) \subseteq Offsets
    BY CellsInPage
  <2>2. h + p - 1 \in Cells(h, l)
    BY <1>1, <1>2 DEF Cells
  <2>3. h + p - 1 \in 0 .. c - 1
    BY <1>3, <2>1, <2>2 DEF Offsets
  <2> QED
    BY <1>1, <1>2, <1>3, <2>3
<1>7. PICK r : r = [at |-> h, size |-> p]
  OBVIOUS
<1>8. r = Handed(<<h, l>>)
  BY <1>2, <1>7 DEF Handed
<1>9. p \in {2^k : k \in Levels}
  BY <1>2
<1>10. r \in Abstract!Aligned
  BY <1>3, <1>4, <1>5, <1>6, <1>7, <1>9 DEF Abstract!Aligned
<1> QED
  BY <1>8, <1>10

LEMMA AlignedIs ==
    ASSUME NEW r \in Abstract!Aligned, NEW l \in Levels, r.size = 2^l
    PROVE  r.at \in Offsets /\ Leftmost(r.at, l) = r.at /\ Abstract!Cells(r) = Cells(r.at, l)
<1>1. r.at \in Offsets /\ r.at % 2^l = 0
  BY DEF Abstract!Aligned, Offsets
<1>2. r.at \in Nat
  BY <1>1, LevelsType
<1>3. Leftmost(r.at, l) = r.at
  BY <1>1, <1>2 DEF Leftmost
<1>4. Abstract!Cells(r) = Cells(r.at, l)
  BY DEF Abstract!Cells, Cells
<1> QED
  BY <1>1, <1>3, <1>4

LEMMA AllocateRefines ==
    ASSUME PageInv, NoBuddies, NEW len \in Lengths, Allocate(len)
    PROVE  PageInv' /\ NoBuddies' /\ Abstract!Allocate
<1>1. PICK w \in Levels, L \in Levels, h \in Offsets : L \in w .. TopLevel /\ Allocates(len, w, L, h) /\ PageInv'
  <2>1. PICK w \in Levels : \E L \in w .. TopLevel, h \in Offsets : Allocates(len, w, L, h)
    BY AllocateKeeps
  <2>2. PICK L \in w .. TopLevel, h \in Offsets : Allocates(len, w, L, h)
    BY <2>1
  <2>3. L \in Levels
    BY <2>2, LevelsType DEF Levels
  <2>4. PageInv'
    BY AllocateKeeps
  <2> QED
    BY <2>1, <2>2, <2>3, <2>4
<1>2. NoBuddies'
  BY <1>1, AllocateLeavesNoBuddies
<1>3. PICK t \in Offsets \X Levels : t = <<h, w>> /\ t[1] = h /\ t[2] = w
  <2>1. <<h, w>> \in Offsets \X Levels
    OBVIOUS
  <2> QED
    BY <2>1
<1>4. LiveBlocks' = LiveBlocks \cup {t}
  BY <1>1, <1>3 DEF Allocates
<1>5. t \notin LiveBlocks
  <2>1. h \notin live
    <3>1. PICK b \in FreeBlocks : b = <<h, L>>
      BY <1>1 DEF Allocates
    <3> QED
      BY <3>1, FreeOrLive
  <2> QED
    BY <1>3, <2>1 DEF LiveBlocks
<1>6. ASSUME NEW b \in LiveBlocks
      PROVE  Cells(t[1], t[2]) \cap Cells(b[1], b[2]) = {}
  <2>1. t \in Tiles' /\ b \in Tiles' /\ t # b
    BY <1>4, <1>5 DEF Tiles
  <2>2. \A s, u \in Tiles' : s # u => Cells(s[1], s[2]) \cap Cells(u[1], u[2]) = {}
    BY <1>1 DEF PageInv, Tiling
  <2> QED
    BY <2>1, <2>2
<1>7. Handed(t) \in Abstract!Aligned
  BY <1>1, <1>3, HandedAligned DEF Allocates
<1>8. Abstract!Free(Handed(t))
  <2>1. \A b \in LiveBlocks : Abstract!Cells(Handed(t)) \cap Abstract!Cells(Handed(b)) = {}
    BY <1>6, HandedCells
  <2>2. \A r \in Blocks : Abstract!Cells(Handed(t)) \cap Abstract!Cells(r) = {}
    BY <2>1, BlocksAre
  <2> QED
    BY <2>2 DEF Abstract!Free, Blocks
<1>9. Blocks' = Blocks \cup {Handed(t)}
  BY <1>4, BlocksAre
<1>10. refused' = 0
  BY DEF Allocate
<1>11. Abstract!Allocate
  BY <1>7, <1>8, <1>9, <1>10 DEF Abstract!Allocate, Blocks
<1> QED
  BY <1>1, <1>2, <1>11

LEMMA RefuseRefines ==
    ASSUME PageInv, NoBuddies, NEW len \in Lengths, AllocateFails(len)
    PROVE  Abstract!Refuse
<1>1. PICK w \in Levels : w = LevelFor(len)
  BY LevelForType
<1>2. Fitting(w) = {} /\ refused' = 2^w /\ UNCHANGED <<header, freeLevels, live>>
  BY <1>1 DEF AllocateFails
<1>3. \A t \in FreeBlocks : ~(w <= t[2])
  <2> SUFFICES ASSUME NEW t \in FreeBlocks, w <= t[2] PROVE FALSE
    OBVIOUS
  <2>1. t[1] \in ToSet(freeLevels[t[2]]) /\ t[2] \in Levels
    BY DEF FreeBlocks
  <2>2. freeLevels[t[2]] # <<>>
    <3>1. <<>> \in Seq(Offsets) /\ ToSet(<<>>) = {}
      BY DEF ToSet
    <3> QED
      BY <2>1, <3>1, Zenon
  <2>3. t[2] \in w .. TopLevel
    <3>1. w \in Nat /\ TopLevel \in Nat
      BY LevelsType
    <3>2. PICK l \in Nat : l = t[2] /\ l <= TopLevel
      BY <2>1, LevelsType
    <3>3. l \in w .. TopLevel
      BY <3>1, <3>2
    <3> QED
      BY <3>2, <3>3
  <2> QED
    BY <1>2, <2>2, <2>3 DEF Fitting
<1>4. ASSUME NEW r \in Abstract!Aligned, r.size = 2^w
      PROVE  ~Abstract!Free(r)
  <2> SUFFICES ASSUME Abstract!Free(r) PROVE FALSE
    OBVIOUS
  <2>1. r.at \in Offsets /\ Leftmost(r.at, w) = r.at /\ Abstract!Cells(r) = Cells(r.at, w)
    BY <1>4, AlignedIs
  <2>2. \A q \in Blocks : Abstract!Cells(r) \cap Abstract!Cells(q) = {}
    BY DEF Abstract!Free, Blocks
  <2>3. \A t \in LiveBlocks : Cells(r.at, w) \cap Cells(t[1], t[2]) = {}
    BY <2>1, <2>2, BlocksAre, HandedCells
  <2> QED
    BY <1>3, <2>1, <2>3, HolesAreFree
<1>5. Blocks' = Blocks
  BY <1>2 DEF Blocks
<1>6. 2^w \in {2^l : l \in Levels}
  OBVIOUS
<1> QED
  BY <1>2, <1>4, <1>5, <1>6 DEF Abstract!Refuse, Blocks

LEMMA FreeRefines ==
    ASSUME PageInv, NoBuddies, NEW h, Free(h)
    PROVE  PageInv' /\ NoBuddies' /\ Abstract!Release
<1>1. PICK w \in Levels, top \in Levels : Frees(h, w, top) /\ PageInv' /\ h \in Offsets
  BY FreeKeeps
<1>2. NoBuddies'
  BY <1>1, FreeLeavesNoBuddies
<1>3. PICK t \in LiveBlocks : t = <<h, w>>
  BY <1>1 DEF Frees
<1>4. LiveBlocks' = LiveBlocks \ {t}
  BY <1>1, <1>3 DEF Frees
<1>5. \A b \in LiveBlocks : Handed(b) = Handed(t) => b = t
  <2>1. \A b \in LiveBlocks : Handed(b).at = b[1] /\ b = <<b[1], header[b[1]].level>>
    BY DEF Handed, LiveBlocks
  <2> QED
    BY <2>1
<1>6. Blocks' = Blocks \ {Handed(t)} /\ Handed(t) \in Blocks
  BY <1>4, <1>5, BlocksAre
<1>7. refused' = 0
  BY DEF Free
<1>8. Abstract!Release
  BY <1>6, <1>7 DEF Abstract!Release, Blocks
<1> QED
  BY <1>1, <1>2, <1>8

\* The initial page has nothing in use.
LEMMA InitRefines ==
    ASSUME PageInit
    PROVE  NoBuddies /\ Abstract!Init
<1>1. \A b \in FreeBlocks : b[2] = TopLevel
  <2>1. <<>> \in Seq(Offsets) /\ ToSet(<<>>) = {}
    BY DEF ToSet
  <2> QED
    BY <2>1 DEF PageInit, FreeBlocks
<1>2. NoBuddies
  BY <1>1, LevelsType DEF NoBuddies
<1>3. Blocks = {} /\ refused = 0
  BY DEF PageInit, Blocks
<1> QED
  BY <1>2, <1>3 DEF Abstract!Init, Blocks

\* Steps that leave the page alone.
LEMMA PageStays ==
    ASSUME PageInv, NoBuddies, UNCHANGED pageVars
    PROVE  PageInv' /\ NoBuddies' /\ UNCHANGED Abstract!vars
<1>1. header' = header /\ freeLevels' = freeLevels /\ live' = live /\ refused' = refused
  BY DEF pageVars
<1>2. FreeBlocks' = FreeBlocks /\ LiveBlocks' = LiveBlocks /\ Tiles' = Tiles
  BY <1>1 DEF FreeBlocks, LiveBlocks, Tiles
<1>3. PageInv'
  BY <1>1, <1>2 DEF PageInv
<1>4. NoBuddies'
  BY <1>2 DEF NoBuddies
<1>5. UNCHANGED Abstract!vars
  <2>1. Blocks' = Blocks
    BY <1>1 DEF Blocks
  <2> QED
    BY <1>1, <2>1 DEF Abstract!vars, Blocks
<1> QED
  BY <1>3, <1>4, <1>5
===============================================================================
