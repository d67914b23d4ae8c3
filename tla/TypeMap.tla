------------------------------ MODULE TypeMap ------------------------------
(***************************************************************************)
(* tmap of binary_search.cpp: a sequence of types that each have an id is  *)
(* sorted and split into a balanced tree at compile time, and searched for *)
(* a key at run time.                                                      *)
(*                                                                         *)
(* A type is a record of its id and its place in the written sequence,     *)
(* since two types may have the same id.  The instantiations of map_node   *)
(* are named by their sequences; the calls of search that pass from one to *)
(* the next are the steps.                                                 *)
(***************************************************************************)
EXTENDS Integers, Sequences

CONSTANTS
    Modulus,  \* 2^w: ids are uint32_t, the comparison is an int32_t
    Written   \* the sequences of ids that programs write

ASSUME ModulusAssumption == Modulus \in Nat \ {0} /\ Modulus % 2 = 0

Ids  == 0 .. Modulus - 1
Half == Modulus \div 2

ASSUME WrittenAssumption == Written \subseteq Seq(Ids)

VARIABLES
    ids,     \* the written sequence
    key,     \* the bits of the key, which is an int
    node,    \* the sequence of the map_node that is searched
    visited, \* the ids that the key was compared with
    result   \* "searching", then "found" or "missing"

vars == <<ids, key, node, visited, result>>

Types == [id : Ids, at : Nat]

\* seq < handler < id > ... >
TypesOf(s) == [i \in DOMAIN s |-> [id |-> s[i], at |-> i]]

-----------------------------------------------------------------------------
(* Sorting.                                                                *)

Less(v, cv) == v.id < cv.id

\* filter: the types of the sequence that are to be kept.
Filter(s, keep) ==
    LET filtered[q \in Seq(Types)] ==
            IF q = <<>> THEN <<>>
            ELSE (IF Head(q) \in keep THEN <<Head(q)>> ELSE <<>>) \o filtered[Tail(q)]
    IN  filtered[s]

FilterLess(s, top)    == Filter(s, {v \in Types : Less(v, top)})
FilterNotLess(s, top) == Filter(s, {v \in Types : ~Less(v, top)})

\* Seeded defect: a type with the same id as the pivot is in neither part.
SortLosingEquals(s) ==
    LET sorted[q \in Seq(Types)] ==
            IF q = <<>> THEN <<>>
            ELSE sorted[FilterLess(Tail(q), Head(q))] \o <<Head(q)>>
                 \o sorted[Filter(Tail(q), {v \in Types : Less(Head(q), v)})]
    IN  sorted[s]

\* seq_sort: the first type is the pivot.
Sort(s) ==
    LET sorted[q \in Seq(Types)] ==
            IF q = <<>> THEN <<>>
            ELSE sorted[FilterLess(Tail(q), Head(q))] \o <<Head(q)>>
                 \o sorted[FilterNotLess(Tail(q), Head(q))]
    IN  sorted[s]

-----------------------------------------------------------------------------
(* Splitting.                                                              *)

\* Seeded defect: the parts are not halves, the middle type is the last one.
HalfLengthOfAll(s) == Len(s) - 1

HalfLength(s) == Len(s) \div 2

\* seq_split_left: types are moved to the left part while it has less than n.
SplitLeft(n, s) == SubSeq(s, 1, n)

\* seq_split_right: types are dropped until n are left, but at least the first.
SplitRight(n, s) == SubSeq(s, IF n < Len(s) THEN Len(s) - n + 1 ELSE 2, Len(s))

\* map_node of at least two types: the middle one and the two subtrees.
Second(s) == SplitRight(Len(s) - HalfLength(s), s)
Middle(s) == Head(Second(s))
Left(s)   == SplitLeft(HalfLength(s), s)
Right(s)  == Tail(Second(s))

-----------------------------------------------------------------------------
(* Searching.                                                              *)

\* Seeded defect: the operands are swapped.
CompareSwapped(k, id) ==
    LET difference == (id - k) % Modulus
    IN  IF difference < Half THEN difference ELSE difference - Modulus

\* comparer: the difference is computed unsigned, and is then made an int32_t.
Compare(k, id) ==
    LET difference == (k - id) % Modulus
    IN  IF difference < Half THEN difference ELSE difference - Modulus

Init ==
    /\ ids \in Written
    /\ key \in Ids
    /\ node = Sort(TypesOf(ids))
    /\ visited = <<>>
    /\ result = "searching"

\* The key is compared with the id of type v, with an answer in the set.
Visit(v, answers) ==
    /\ result = "searching"
    /\ Compare(key, v.id) \in answers
    /\ visited' = Append(visited, v.id)
    /\ UNCHANGED <<ids, key>>

Positive == 1 .. Half - 1
Negative == -Half .. -1

BranchFinds ==
    /\ Len(node) > 1
    /\ Visit(Middle(node), {0})
    /\ result' = "found"
    /\ UNCHANGED node

BranchGoesLeft ==
    /\ Len(node) > 1
    /\ Visit(Middle(node), Negative)
    /\ node' = Left(node)
    /\ UNCHANGED result

BranchGoesRight ==
    /\ Len(node) > 1
    /\ Visit(Middle(node), Positive)
    /\ node' = Right(node)
    /\ UNCHANGED result

Leaf ==
    /\ Len(node) = 1
    /\ \/ Visit(node[1], {0}) /\ result' = "found"
       \/ Visit(node[1], Negative \cup Positive) /\ result' = "missing"
    /\ UNCHANGED node

Empty ==
    /\ result = "searching"
    /\ node = <<>>
    /\ result' = "missing"
    /\ UNCHANGED <<ids, key, node, visited>>

Ended == result # "searching" /\ UNCHANGED vars

Next == BranchFinds \/ BranchGoesLeft \/ BranchGoesRight \/ Leaf \/ Empty \/ Ended

Spec == Init /\ [][Next]_vars

-----------------------------------------------------------------------------
TypeOK ==
    /\ ids \in Seq(Ids)
    /\ key \in Ids
    /\ node \in Seq(Types)
    /\ visited \in Seq(Ids)
    /\ result \in {"searching", "found", "missing"}

\* Seen from id, the key lies half the range away or more: the difference does
\* not fit the int32_t with its sign.
Far(id) == key - id >= Half \/ id - key > Half

\* A search finds the key if it is one of the ids, unless the key was compared
\* with an id so far away that the comparison has the wrong sign; it never
\* finds a key that is not there.
SearchIsRight ==
    /\ result = "found" => \E i \in DOMAIN ids : ids[i] = key
    /\ result = "missing" /\ (\E i \in DOMAIN ids : ids[i] = key)
           => \E j \in DOMAIN visited : Far(visited[j])

\* The tree is balanced: a search visits at most 1 + log2 of its size types.
SearchIsShort == visited # <<>> => 2^(Len(visited) - 1) <= Len(ids)

StablyAscending(s) ==
    \A i, j \in DOMAIN s :
        i < j => s[i].id < s[j].id \/ (s[i].id = s[j].id /\ s[i].at < s[j].at)

SameTypes(s, types) ==
    /\ Len(s) = Len(types)
    /\ \A i \in DOMAIN types : \E j \in DOMAIN s : s[j] = types[i]
    /\ \A j \in DOMAIN s : \E i \in DOMAIN types : types[i] = s[j]

SortsStably(written) ==
    LET sorted == Sort(TypesOf(written))
    IN  /\ sorted \in Seq(Types)
        /\ StablyAscending(sorted)
        /\ SameTypes(sorted, TypesOf(written))

\* The sorted sequence is ascending and has each written type once; types with
\* the same id stay in the order in which they were written.
SortIsStable == SortsStably(ids)
=============================================================================
