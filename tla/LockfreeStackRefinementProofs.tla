------------------- MODULE LockfreeStackRefinementProofs -------------------
(***************************************************************************)
(* lf::stack implements AbstractStack for any number of threads, nodes,    *)
(* values and calls: each step of the code is one step of the abstract     *)
(* stack or none.  What the mapping of LockfreeStackRefinement reads from  *)
(* the list is related to the links by induction on the length of a list.  *)
(***************************************************************************)
EXTENDS LockfreeStackRefinement, LockfreeStackProofs, InductionOnSets

-----------------------------------------------------------------------------
(* The values of a list, for any links and stored values.                  *)

V == Values \cup {NULL}

\* The next fields and the values of the nodes.
IsMemory(links, stored) == links \in [Nodes -> Pointers] /\ stored \in [Nodes -> V]

\* What the recursive function is by its definition.
AreValues(v, links, stored) ==
    /\ v \in [Nat -> [Pointers -> Seq(V)]]
    /\ \A q \in Pointers : v[0][q] = <<>>
    /\ \A k \in Nat : v[k][NULL] = <<>>
    /\ \A k \in Nat : \A q \in Nodes : v[k + 1][q] = <<stored[q]>> \o v[k][links[q]]

LEMMA ValuesDefined ==
    ASSUME NEW links, NEW stored, IsMemory(links, stored)
    PROVE  AreValues(ValuesAlong(links, stored), links, stored)
<1> DEFINE X == [Pointers -> Seq(V)]
           A == [q \in Pointers |-> <<>>]
           Longer(g, q) == IF q = NULL THEN <<>> ELSE <<stored[q]>> \o g[links[q]]
           F == [g \in X |-> [q \in Pointers |-> Longer(g, q)]]
           Along(f) == [k \in Nat |-> [q \in Pointers |->
                IF k = 0 \/ q = NULL THEN <<>> ELSE <<stored[q]>> \o f[k - 1][links[q]]]]
<1>0. links \in [Nodes -> Pointers] /\ stored \in [Nodes -> V]
    BY DEF IsMemory
<1>1. A \in X
    OBVIOUS
<1>2. ASSUME NEW g \in X, NEW q \in Pointers PROVE Longer(g, q) \in Seq(V)
  <2>1. CASE q = NULL
    BY <2>1
  <2>2. CASE q # NULL
    <3>1. q \in Nodes /\ stored[q] \in V /\ links[q] \in Pointers
        BY <1>0, <2>2 DEF Pointers
    <3>2. g[links[q]] \in Seq(V) /\ <<stored[q]>> \in Seq(V)
        BY <3>1
    <3> HIDE DEF X
    <3>3. QED
        BY <2>2, <3>2
  <2>3. QED
    BY <2>1, <2>2
<1>3. Iterable(F, X)
  <2> HIDE DEF Longer
  <2>1. QED
    BY <1>2 DEF Iterable
<1> HIDE DEF F, A, X
<1>4. PICK f \in [Nat -> X] : f[0] = A /\ \A n \in Nat : f[n + 1] = F[f[n]]
    BY <1>1, <1>3, RecursionExists
<1>5. f = Along(f)
  <2>1. ASSUME NEW n \in Nat
        PROVE  f[n] = [q \in Pointers |->
                 IF n = 0 \/ q = NULL THEN <<>> ELSE <<stored[q]>> \o f[n - 1][links[q]]]
    <3>1. CASE n = 0
        BY <1>4, <3>1 DEF A
    <3>2. CASE n # 0
      <4>1. n - 1 \in Nat /\ (n - 1) + 1 = n
        BY <3>2
      <4>2. f[n] = F[f[n - 1]] /\ f[n - 1] \in X
        BY <1>4, <4>1
      <4>3. QED
        BY <3>2, <4>2 DEF F
    <3>3. QED
        BY <3>1, <3>2
  <2>2. QED
    BY <1>4, <2>1
<1>6. PICK v : v = ValuesAlong(links, stored)
    OBVIOUS
<1>7. v = CHOOSE g : g = Along(g)
    BY <1>6 DEF ValuesAlong
<1>8. v = Along(v)
  <2> HIDE DEF Along
  <2>1. QED
    BY <1>5, <1>7
<1> DEFINE Value(k, q) == IF k = 0 \/ q = NULL THEN <<>> ELSE <<stored[q]>> \o v[k - 1][links[q]]
<1>80. v = [k \in Nat |-> [q \in Pointers |-> Value(k, q)]]
    BY <1>8
<1>9. \A k \in Nat : v[k] = [q \in Pointers |-> Value(k, q)]
  <2> HIDE DEF Value
  <2>1. QED
    BY <1>80
<1>10. v \in [Nat -> X]
  <2> DEFINE S == {k \in Nat : v[k] \in X}
  <2>1. 0 \in S
    <3>1. v[0] = A
        BY <1>9 DEF A
    <3>2. QED
        BY <1>1, <3>1
  <2>2. ASSUME NEW k \in Nat, k \in S PROVE k + 1 \in S
    <3>1. v[k] \in X /\ k + 1 # 0 /\ (k + 1) - 1 = k /\ k + 1 \in Nat
        BY <2>2
    <3>2. \A q \in Pointers : Value(k + 1, q) = Longer(v[k], q)
        BY <3>1
    <3>3. v[k + 1] = [q \in Pointers |-> Longer(v[k], q)]
      <4> HIDE DEF Value, Longer
      <4>1. QED
        BY <1>9, <3>1, <3>2
    <3>4. v[k + 1] \in X
      <4> HIDE DEF Longer
      <4>1. QED
        BY <1>2, <3>1, <3>3 DEF X
    <3>5. QED
        BY <3>1, <3>4
  <2> HIDE DEF S
  <2>3. \A k \in Nat : k \in S
    BY <2>1, <2>2, SetInduction
  <2>4. DOMAIN v = Nat /\ v = [k \in Nat |-> v[k]]
    BY <1>8
  <2>5. QED
    BY <2>3, <2>4 DEF S
<1>11. \A k \in Nat, q \in Pointers : v[k][q] = Value(k, q)
  <2> HIDE DEF Value
  <2>1. QED
    BY <1>9
<1>12. \A q \in Pointers : v[0][q] = <<>>
    BY <1>11
<1>13. \A k \in Nat : v[k][NULL] = <<>>
  <2>1. NULL \in Pointers
    BY DEF Pointers
  <2>2. \A k \in Nat : Value(k, NULL) = <<>>
    OBVIOUS
  <2> HIDE DEF Value
  <2>3. QED
    BY <1>11, <2>1, <2>2
<1>14. ASSUME NEW k \in Nat, NEW q \in Nodes PROVE v[k + 1][q] = <<stored[q]>> \o v[k][links[q]]
  <2>1. q \in Pointers /\ q # NULL
    BY NullAssumption DEF Pointers
  <2>2. k + 1 \in Nat /\ k + 1 # 0 /\ (k + 1) - 1 = k
    OBVIOUS
  <2>3. Value(k + 1, q) = <<stored[q]>> \o v[k][links[q]]
    BY <2>1, <2>2
  <2> HIDE DEF Value
  <2>4. QED
    BY <1>11, <2>1, <2>2, <2>3
<1>15. AreValues(v, links, stored)
    BY <1>10, <1>12, <1>13, <1>14 DEF X, AreValues
<1>16. QED
    BY <1>6, <1>15

\* Nodes that lead nowhere else, each to another one.
Closed(links, T) ==
    /\ T \in SUBSET Nodes
    /\ \A n \in T : links[n] \in T \cup {NULL}
    /\ \A m, n \in T : links[m] = links[n] /\ links[n] # NULL => m = n

\* No node of T comes before q.
Leading(links, T, q) ==
    q \in T \cup {NULL} /\ (q # NULL => \A m \in T : links[m] # q)

\* The values along a list depend on its nodes only.
LEMMA ValuesLocal ==
    ASSUME NEW links, NEW stored, NEW v, AreValues(v, links, stored),
           NEW links2, NEW stored2, NEW v2, AreValues(v2, links2, stored2),
           NEW T, Closed(links, T),
           \A n \in T : links2[n] = links[n] /\ stored2[n] = stored[n]
    PROVE  \A k \in Nat : \A q \in T \cup {NULL} : v2[k][q] = v[k][q]
<1> DEFINE S == {k \in Nat : \A q \in T \cup {NULL} : v2[k][q] = v[k][q]}
<1>1. T \cup {NULL} \subseteq Pointers
    BY DEF Closed, Pointers
<1>2. 0 \in S
    BY <1>1 DEF AreValues
<1>3. ASSUME NEW k \in Nat, k \in S PROVE k + 1 \in S
  <2>1. SUFFICES ASSUME NEW q \in T \cup {NULL} PROVE v2[k + 1][q] = v[k + 1][q]
    OBVIOUS
  <2>2. CASE q = NULL
    BY <2>2 DEF AreValues
  <2>3. CASE q # NULL
    <3>1. q \in T /\ q \in Nodes /\ links[q] \in T \cup {NULL}
          /\ links2[q] = links[q] /\ stored2[q] = stored[q]
        BY <2>3 DEF Closed
    <3>2. v[k + 1][q] = <<stored[q]>> \o v[k][links[q]]
        BY <3>1 DEF AreValues
    <3>3. v2[k + 1][q] = <<stored2[q]>> \o v2[k][links2[q]]
        BY <3>1 DEF AreValues
    <3>4. QED
        BY <1>3, <3>1, <3>2, <3>3
  <2>4. QED
    BY <2>2, <2>3
<1> HIDE DEF S
<1>4. \A k \in Nat : k \in S
    BY <1>2, <1>3, SetInduction
<1>5. QED
    BY <1>4 DEF S

\* A list of at most k nodes has been read to its end after k nodes.
LEMMA ValuesEnd ==
    ASSUME NEW links, NEW stored, NEW v, AreValues(v, links, stored)
    PROVE  \A k \in Nat : \A T, q :
              Closed(links, T) /\ Leading(links, T, q) /\ IsFiniteSet(T) /\ Cardinality(T) <= k =>
                 v[k + 1][q] = v[k][q]
<1> DEFINE S == {k \in Nat : \A T, q :
              Closed(links, T) /\ Leading(links, T, q) /\ IsFiniteSet(T) /\ Cardinality(T) <= k =>
                 v[k + 1][q] = v[k][q]}
<1>0. \A k \in Nat : v[k][NULL] = <<>>
    BY DEF AreValues
<1>1. 0 \in S
  <2>1. SUFFICES ASSUME NEW T, NEW q, Leading(links, T, q), IsFiniteSet(T), Cardinality(T) <= 0
                 PROVE  v[0 + 1][q] = v[0][q]
    OBVIOUS
  <2>2. Cardinality(T) = 0
    BY <2>1, FS_CardinalityType
  <2>3. T = {}
    BY <2>1, <2>2, FS_EmptySet
  <2>4. q = NULL
    BY <2>1, <2>3 DEF Leading
  <2>5. QED
    BY <1>0, <2>4
<1>2. ASSUME NEW k \in Nat, k \in S PROVE k + 1 \in S
  <2>1. SUFFICES ASSUME NEW T, NEW q, Closed(links, T), Leading(links, T, q),
                        IsFiniteSet(T), Cardinality(T) <= k + 1
                 PROVE  v[(k + 1) + 1][q] = v[k + 1][q]
    OBVIOUS
  <2>2. CASE q = NULL
    BY <1>0, <2>2
  <2>3. CASE q # NULL
    <3> DEFINE R == T \ {q}
               r == links[q]
    <3>1. q \in T /\ q \in Nodes /\ (\A m \in T : links[m] # q)
        BY <2>1, <2>3 DEF Leading, Closed
    <3>2. Closed(links, R)
        BY <2>1, <3>1 DEF Closed
    <3>3. Leading(links, R, r)
        BY <2>1, <3>1 DEF Leading, Closed
    <3>4. IsFiniteSet(R) /\ Cardinality(R) <= k
      <4>1. IsFiniteSet(R) /\ Cardinality(R) = Cardinality(T) - 1
        BY <2>1, <3>1, FS_RemoveElement
      <4>2. Cardinality(T) \in Nat
        BY <2>1, FS_CardinalityType
      <4> HIDE DEF R
      <4>3. QED
        BY <2>1, <4>1, <4>2
    <3> HIDE DEF R, r
    <3>5. v[k + 1][r] = v[k][r]
        BY <1>2, <3>2, <3>3, <3>4
    <3>6. v[k + 1][q] = <<stored[q]>> \o v[k][r]
        BY <3>1 DEF AreValues, r
    <3>7. v[(k + 1) + 1][q] = <<stored[q]>> \o v[k + 1][r]
      <4>1. k + 1 \in Nat
        OBVIOUS
      <4>2. QED
        BY <3>1, <4>1 DEF AreValues, r
    <3>8. QED
        BY <3>5, <3>6, <3>7
  <2>4. QED
    BY <2>2, <2>3
<1>3. \A k \in Nat : k \in S
  <2> HIDE DEF S
  <2>1. QED
    BY <1>1, <1>2, SetInduction
<1>4. QED
    BY <1>3

\* The list that starts with node q and goes on with those of T.
LEMMA ValuesOfHead ==
    ASSUME NEW links, NEW stored, NEW v, AreValues(v, links, stored),
           NEW T, Closed(links, T), NEW q \in Nodes, q \notin T, Leading(links, T, links[q])
    PROVE  v[Cardinality(Nodes)][q] = <<stored[q]>> \o v[Cardinality(Nodes)][links[q]]
<1>1. PICK N \in Nat : N = Cardinality(Nodes)
    BY NodesAssumption, FS_CardinalityType
<1>2. IsFiniteSet(T \cup {q}) /\ T \cup {q} \subseteq Nodes
    BY NodesAssumption, FS_Subset DEF Closed
<1>3. IsFiniteSet(T) /\ Cardinality(T) + 1 <= N /\ Cardinality(T) \in Nat
  <2>1. IsFiniteSet(T)
    BY NodesAssumption, FS_Subset DEF Closed
  <2>2. Cardinality(T \cup {q}) = Cardinality(T) + 1
    BY <2>1, FS_AddElement
  <2>3. Cardinality(T \cup {q}) <= N
    BY <1>1, <1>2, NodesAssumption, FS_Subset
  <2>4. QED
    BY <2>1, <2>2, <2>3, FS_CardinalityType
<1>4. PICK M \in Nat : N = M + 1
  <2>1. N # 0 /\ N - 1 \in Nat /\ N = (N - 1) + 1
    BY <1>3
  <2>2. QED
    BY <2>1
<1>5. Cardinality(T) <= M
    BY <1>3, <1>4
<1>6. v[M + 1][links[q]] = v[M][links[q]]
    BY <1>3, <1>5, ValuesEnd
<1>7. v[M + 1][q] = <<stored[q]>> \o v[M][links[q]]
    BY DEF AreValues
<1>8. QED
    BY <1>1, <1>4, <1>6, <1>7

-----------------------------------------------------------------------------
(* What a step of a thread does to the abstract state.                     *)

\* The result of a pop is there only between its last steps.
ResultInv == \A t \in Threads : pc[t] \notin CollectLabels => result[t] = NULL

Stacked == {n \in Nodes : where[n] = "stack"}

Contents == ListValues(head)

LEMMA StackedClosed ==
    ASSUME Inv
    PROVE  /\ IsMemory(next, value)
           /\ Closed(next, Stacked)
           /\ Leading(next, Stacked, head)
<1>1. IsMemory(next, value)
    BY DEF Inv, TypeOK, IsMemory, V
<1>2. Closed(next, Stacked)
  <2>1. \A n \in Stacked : n \in Nodes /\ where[n] = "stack" /\ Linked(n) /\ next[n] \in Pointers
    BY DEF Inv, TypeOK, Stacked, Linked
  <2>2. \A n \in Stacked : next[n] \in Stacked \cup {NULL}
    BY <2>1 DEF Inv, LinkInv, Stacked, Pointers
  <2>3. \A m, n \in Stacked : next[m] = next[n] /\ next[n] # NULL => m = n
    BY <2>1 DEF Inv, LinkInv
  <2>4. QED
    BY <2>2, <2>3 DEF Closed, Stacked
<1>3. Leading(next, Stacked, head)
  <2>1. head \in Stacked \cup {NULL}
    BY DEF Inv, TypeOK, HeadInv, Pointers, Stacked
  <2>2. ASSUME head # NULL, NEW m \in Stacked PROVE next[m] # head
    BY <2>2 DEF Inv, LinkInv, Stacked, Linked, IsHead
  <2>3. QED
    BY <2>1, <2>2 DEF Leading
<1>4. QED
    BY <1>1, <1>2, <1>3

\* The contents stay while nobody moves the head or writes a stacked node.
LEMMA ContentsKept ==
    ASSUME Inv, TypeOK', head' = head,
           \A n \in Stacked : next'[n] = next[n] /\ value'[n] = value[n]
    PROVE  Contents' = Contents
<1>1. IsMemory(next', value')
    BY DEF TypeOK, IsMemory, V
<1>2. /\ AreValues(ValuesAlong(next, value), next, value)
      /\ AreValues(ValuesAlong(next', value'), next', value')
    BY <1>1, StackedClosed, ValuesDefined
<1>3. \A k \in Nat : \A q \in Stacked \cup {NULL} :
            ValuesAlong(next', value')[k][q] = ValuesAlong(next, value)[k][q]
    BY <1>2, StackedClosed, ValuesLocal
<1>4. head \in Stacked \cup {NULL} /\ Cardinality(Nodes) \in Nat
    BY StackedClosed, NodesAssumption, FS_CardinalityType DEF Leading
<1>5. QED
    BY <1>3, <1>4 DEF Contents, ListValues

LEMMA ContentsOfHead ==
    ASSUME Inv, NEW q \in Nodes, NEW T, Closed(next, T), q \notin T, Leading(next, T, next[q])
    PROVE  ListValues(q) = <<value[q]>> \o ListValues(next[q])
<1>1. AreValues(ValuesAlong(next, value), next, value)
    BY StackedClosed, ValuesDefined
<1>2. QED
    BY <1>1, ValuesOfHead DEF ListValues

LEMMA ContentsType ==
    ASSUME Inv
    PROVE  /\ \A p \in Pointers : ListValues(p) \in Seq(V)
           /\ ListValues(NULL) = <<>>
<1>1. AreValues(ValuesAlong(next, value), next, value) /\ Cardinality(Nodes) \in Nat
    BY StackedClosed, ValuesDefined, NodesAssumption, FS_CardinalityType
<1>2. QED
    BY <1>1 DEF AreValues, ListValues

\* The stack is empty, or has a value on top of the others.
LEMMA ContentsSplit ==
    ASSUME Inv
    PROVE  /\ head = NULL => Contents = <<>>
           /\ head # NULL => /\ Contents # <<>>
                             /\ Head(Contents) = value[head]
                             /\ Tail(Contents) = ListValues(next[head])
<1>1. head = NULL => Contents = <<>>
    BY ContentsType DEF Contents
<1>2. ASSUME head # NULL
      PROVE  Contents = <<value[head]>> \o ListValues(next[head])
  <2> DEFINE T == Stacked \ {head}
  <2>1. head \in Stacked /\ head \in Nodes /\ \A m \in Stacked : next[m] # head
    BY <1>2, StackedClosed DEF Leading, Stacked
  <2>2. Closed(next, T)
    BY <2>1, StackedClosed DEF Closed
  <2>3. Leading(next, T, next[head])
    BY <2>1, StackedClosed DEF Closed, Leading
  <2>4. QED
    BY <2>1, <2>2, <2>3, ContentsOfHead DEF Contents
<1>3. ASSUME head # NULL
      PROVE  Contents # <<>> /\ Head(Contents) = value[head] /\ Tail(Contents) = ListValues(next[head])
  <2>1. value[head] \in V /\ ListValues(next[head]) \in Seq(V)
    BY <1>3, ContentsType DEF Inv, TypeOK, Pointers, V
  <2>2. PICK v, s : v = value[head] /\ s = ListValues(next[head])
    OBVIOUS
  <2>3. v \in V /\ s \in Seq(V) /\ Contents = <<v>> \o s
    BY <1>2, <1>3, <2>1, <2>2
  <2>4. <<v>> \o s # <<>> /\ Head(<<v>> \o s) = v /\ Tail(<<v>> \o s) = s
    BY <2>3
  <2>5. QED
    BY <2>2, <2>3, <2>4
<1>4. QED
    BY <1>1, <1>3

\* A step of t leaves the calls of the others alone.
Others(t) == \A u \in Threads \ {t} : Call(u)' = Call(u) /\ Answer(u)' = Answer(u)

LEMMA RestKept ==
    ASSUME Inv, NEW t \in Threads,
           \A u \in Threads \ {t} : UNCHANGED <<pc[u], first[u], result[u]>>,
           \A n \in Nodes : where[n] = "held" /\ holder[n] # t => value'[n] = value[n]
    PROVE  Others(t)
<1>1. ASSUME NEW u \in Threads \ {t}
      PROVE  Call(u)' = Call(u) /\ Answer(u)' = Answer(u)
  <2>1. pc'[u] = pc[u] /\ first'[u] = first[u] /\ result'[u] = result[u]
    OBVIOUS
  <2>2. Call(u)' = Call(u)
    BY <2>1 DEF Call
  <2>3. CASE pc[u] \in {"push_load", "push_cas", "pop_take"}
    <3>1. first[u] \in Nodes /\ Has(u, first[u])
        BY <2>3 DEF Inv, HoldInv, Chained
    <3>2. value'[first[u]] = value[first[u]]
        BY <1>1, <3>1 DEF Has
    <3>3. Answer(u) = value[first[u]]
        BY <2>3 DEF Answer
    <3>4. Answer(u)' = value'[first'[u]]
        BY <2>1, <2>3 DEF Answer
    <3>5. QED
        BY <2>1, <2>2, <3>2, <3>3, <3>4
  <2>4. CASE pc[u] \notin {"push_load", "push_cas", "pop_take"}
    <3>1. Answer(u) = result[u]
        BY <2>4 DEF Answer
    <3>2. Answer(u)' = result'[u]
        BY <2>1, <2>4 DEF Answer
    <3>3. QED
        BY <2>1, <2>2, <3>1, <3>2
  <2>5. QED
    BY <2>2, <2>3, <2>4
<1>2. QED
    BY <1>1 DEF Others

Calls == [t \in Threads |-> Call(t)]
Answers == [t \in Threads |-> Answer(t)]

LEMMA Stutter ==
    ASSUME NEW t \in Threads, Others(t), Contents' = Contents,
           Call(t)' = Call(t), Answer(t)' = Answer(t)
    PROVE  UNCHANGED Abstract!vars
<1>1. Calls' = Calls /\ Answers' = Answers
    BY DEF Others, Calls, Answers
<1>2. QED
    BY <1>1 DEF Abstract!vars, Calls, Answers, Contents

\* How the abstract functions change.
LEMMA OneChange ==
    ASSUME NEW t \in Threads, Others(t)
    PROVE  /\ Calls' = [Calls EXCEPT ![t] = Call(t)']
           /\ Answers' = [Answers EXCEPT ![t] = Answer(t)']
           /\ Calls[t] = Call(t) /\ Answers[t] = Answer(t)
<1>1. \A u \in Threads : Calls'[u] = Call(u)' /\ Answers'[u] = Answer(u)'
                      /\ Calls[u] = Call(u) /\ Answers[u] = Answer(u)
    BY DEF Calls, Answers
<1>2. DOMAIN Calls = Threads /\ DOMAIN Calls' = Threads /\ DOMAIN Answers = Threads /\ DOMAIN Answers' = Threads
    BY DEF Calls, Answers
<1>3. \A u \in Threads \ {t} : Calls'[u] = Calls[u] /\ Answers'[u] = Answers[u]
    BY <1>1 DEF Others
<1>4. Calls' = [Calls EXCEPT ![t] = Call(t)']
  <2>1. Calls' = [u \in Threads |-> Calls'[u]] /\ Calls = [u \in Threads |-> Calls[u]]
    BY <1>2 DEF Calls
  <2>2. QED
    BY <1>1, <1>3, <2>1
<1>5. Answers' = [Answers EXCEPT ![t] = Answer(t)']
  <2>1. Answers' = [u \in Threads |-> Answers'[u]] /\ Answers = [u \in Threads |-> Answers[u]]
    BY <1>2 DEF Answers
  <2>2. QED
    BY <1>1, <1>3, <2>1
<1>6. QED
    BY <1>1, <1>4, <1>5

LEMMA Starts ==
    ASSUME NEW t \in Threads, Others(t), Contents' = Contents, Call(t) = "none",
           \/ Call(t)' = "push" /\ Answer(t)' \in Values
           \/ Call(t)' \in {"pop", "clear"} /\ Answer(t)' = Answer(t)
    PROVE  Abstract!Start(t)
<1>1. CASE Call(t)' = "push" /\ Answer(t)' \in Values
    BY <1>1, OneChange DEF Abstract!Start, Calls, Answers, Contents
<1>2. CASE Call(t)' \in {"pop", "clear"} /\ Answer(t)' = Answer(t)
  <2>1. Answers' = Answers
    BY <1>2 DEF Others, Answers
  <2>2. QED
    BY <1>2, <2>1, OneChange DEF Abstract!Start, Calls, Answers, Contents
<1>3. QED
    BY <1>1, <1>2

LEMMA Effects ==
    ASSUME NEW t \in Threads, Others(t), NEW kind, Call(t) = kind, Call(t)' = "done",
           NEW newContents, Contents' = newContents, NEW newAnswer, Answer(t)' = newAnswer
    PROVE  Abstract!TakeEffect(t, kind, newContents, newAnswer)
    BY OneChange DEF Abstract!TakeEffect, Calls, Answers, Contents

LEMMA Returns ==
    ASSUME NEW t \in Threads, Others(t), Contents' = Contents,
           Call(t) = "done", Call(t)' = "none", Answer(t)' = NULL
    PROVE  Abstract!Return(t)
    BY OneChange DEF Abstract!Return, Calls, Answers, Contents

-----------------------------------------------------------------------------
(* Each step of the code is a step of the abstract stack, or none.         *)

LEMMA StepKeepsOthers == ASSUME Inv, NEW t \in Threads, Step(t) PROVE Others(t)
<1> USE DEF Inv, TypeOK, Transition, heads, coll, memory, ghost, locals, calls
<1>1. \A u \in Threads \ {t} : UNCHANGED <<pc[u], first[u], result[u]>>
    BY DEF Step, Push, PushAllocate, PushLoad, PushCas, PushRetry, PushCount,
        Pop, PopStart, PopCount, PopLoad, PopReadNext, PopCas, PopRetry, PopTake,
        Clear, ClearStart, ClearNothing, ClearDetach, ClearWalk, ClearTailFound, Destroy,
        Collect, CollectorLoad, CollectorCas, CollectorRetry, TryLoad, TryCheck, TryCas, TryGiveUp,
        TryDelete, TryDeleteEnd, Leave
<1>2. CASE PushAllocate(t)
  <2>1. \A n \in Nodes : where[n] = "held" => value'[n] = value[n]
    BY <1>2 DEF PushAllocate
  <2>2. QED
    BY <1>1, <2>1, RestKept
<1>3. CASE PopTake(t)
  <2>1. \A n \in Nodes : n # first[t] => value'[n] = value[n]
    BY <1>3 DEF PopTake
  <2>2. holder[first[t]] = t
    BY <1>3 DEF PopTake, HoldInv, Chained, Has
  <2>3. QED
    BY <1>1, <2>1, <2>2, RestKept
<1>4. CASE ~PushAllocate(t) /\ ~PopTake(t)
  <2>1. value' = value
    BY <1>4
    DEF Step, Push, PushLoad, PushCas, PushRetry, PushCount,
        Pop, PopStart, PopCount, PopLoad, PopReadNext, PopCas, PopRetry,
        Clear, ClearStart, ClearNothing, ClearDetach, ClearWalk, ClearTailFound, Destroy,
        Collect, CollectorLoad, CollectorCas, CollectorRetry, TryLoad, TryCheck, TryCas, TryGiveUp,
        TryDelete, TryDeleteEnd, Leave
  <2>2. QED
    BY <1>1, <2>1, RestKept
<1>5. QED
    BY <1>2, <1>3, <1>4

\* The steps that write no head of the stack.
LEMMA StepKeepsContents ==
    ASSUME Inv, TypeOK', NEW t \in Threads, Step(t), ~PushCas(t), ~PopCas(t), ~ClearDetach(t)
    PROVE  Contents' = Contents
<1> USE DEF Inv, TypeOK, Transition, heads, coll, memory, ghost, locals, calls
<1>1. head' = head
    BY DEF Step, Push, PushAllocate, PushLoad, PushRetry, PushCount,
        Pop, PopStart, PopCount, PopLoad, PopReadNext, PopRetry, PopTake,
        Clear, ClearStart, ClearNothing, ClearWalk, ClearTailFound, Destroy,
        Collect, CollectorLoad, CollectorCas, CollectorRetry, TryLoad, TryCheck, TryCas, TryGiveUp,
        TryDelete, TryDeleteEnd, Leave
<1>2. CASE PushAllocate(t)
  <2>1. next' = next /\ \A n \in Nodes : where[n] # "free" => value'[n] = value[n]
    BY <1>2 DEF PushAllocate
  <2>2. QED
    BY <1>1, <2>1, ContentsKept DEF Stacked
<1>3. CASE PopTake(t)
  <2>1. next' = next /\ \A n \in Nodes : n # first[t] => value'[n] = value[n]
    BY <1>3 DEF PopTake
  <2>2. where[first[t]] = "held"
    BY <1>3 DEF PopTake, HoldInv, Chained, Has
  <2>3. QED
    BY <1>1, <2>1, <2>2, ContentsKept DEF Stacked
<1>4. CASE PushLoad(t) \/ PushRetry(t)
  <2>1. value' = value /\ \A n \in Nodes : n # first[t] => next'[n] = next[n]
    BY <1>4 DEF PushLoad, PushRetry
  <2>2. where[first[t]] = "held"
    BY <1>4 DEF PushLoad, PushRetry, HoldInv, Has
  <2>3. QED
    BY <1>1, <2>1, <2>2, ContentsKept DEF Stacked
<1>5. CASE CollectorLoad(t) \/ CollectorRetry(t)
  <2>1. value' = value /\ \A n \in Nodes : n # last[t] => next'[n] = next[n]
    BY <1>5 DEF CollectorLoad, CollectorRetry
  <2>2. where[last[t]] = "held"
    BY <1>5 DEF CollectorLoad, CollectorRetry, HoldInv, Chained, Has
  <2>3. QED
    BY <1>1, <2>1, <2>2, ContentsKept DEF Stacked
<1>6. CASE ~(PushAllocate(t) \/ PopTake(t) \/ PushLoad(t) \/ PushRetry(t) \/ CollectorLoad(t) \/ CollectorRetry(t))
  <2>1. UNCHANGED <<next, value>>
    BY <1>6
    DEF Step, Push, PushCount, Pop, PopStart, PopCount, PopLoad, PopReadNext, PopRetry,
        Clear, ClearStart, ClearNothing, ClearWalk, ClearTailFound, Destroy,
        Collect, CollectorCas, TryLoad, TryCheck, TryCas, TryGiveUp, TryDelete, TryDeleteEnd, Leave
  <2>2. QED
    BY <1>1, <2>1, ContentsKept DEF Stacked
<1>7. QED
    BY <1>2, <1>3, <1>4, <1>5, <1>6

\* The steps between those that take effect.
LEMMA QuietSteps ==
    ASSUME Inv, ResultInv, TypeOK', NEW t \in Threads,
           \/ PushLoad(t) \/ PushRetry(t) \/ PopCount(t) \/ PopReadNext(t) \/ PopTake(t)
           \/ (PopLoad(t) /\ head # NULL) \/ (PopRetry(t) /\ head # NULL)
           \/ ClearWalk(t) \/ ClearTailFound(t) \/ CollectorLoad(t) \/ CollectorCas(t) \/ CollectorRetry(t)
           \/ TryLoad(t) \/ TryCheck(t) \/ TryCas(t) \/ TryGiveUp(t) \/ TryDelete(t) \/ TryDeleteEnd(t)
    PROVE  UNCHANGED Abstract!vars
<1> USE DEF Transition, heads, coll, memory, ghost, locals, calls
<1>1. Step(t)
    BY DEF Step, Push, Pop, Clear, Collect
<1>2. Others(t)
    BY <1>1, StepKeepsOthers
<1>3. Contents' = Contents
  <2>1. ~PushCas(t) /\ ~PopCas(t) /\ ~ClearDetach(t)
    BY DEF PushLoad, PushRetry, PopCount, PopReadNext, PopTake, PopLoad, PopRetry, ClearWalk,
        ClearTailFound, CollectorLoad, CollectorCas, CollectorRetry, TryLoad, TryCheck, TryCas,
        TryGiveUp, TryDelete, TryDeleteEnd, PushCas, PopCas, ClearDetach, Inv, TypeOK
  <2>2. QED
    BY <1>1, <2>1, StepKeepsContents
<1>4. CASE PushLoad(t) \/ PushRetry(t)
  <2>1. /\ pc[t] \in {"push_load", "push_cas"} /\ pc'[t] = "push_cas"
        /\ first' = first /\ value' = value
    BY <1>4 DEF PushLoad, PushRetry, Inv, TypeOK
  <2>2. Call(t) = "push" /\ Call(t)' = "push"
    BY <2>1 DEF Call
  <2>3. Answer(t) = value[first[t]] /\ Answer(t)' = value'[first'[t]]
    BY <2>1 DEF Answer
  <2>4. QED
    BY <1>2, <1>3, <2>1, <2>2, <2>3, Stutter
<1>5. CASE PopTake(t)
  <2>1. pc[t] = "pop_take" /\ pc'[t] = "coll_load" /\ result'[t] = value[first[t]]
    BY <1>5 DEF PopTake, Inv, TypeOK
  <2>2. Call(t) = "done" /\ Call(t)' = "done"
    BY <2>1 DEF Call
  <2>3. Answer(t) = value[first[t]] /\ Answer(t)' = result'[t]
    BY <2>1 DEF Answer
  <2>4. QED
    BY <1>2, <1>3, <2>1, <2>2, <2>3, Stutter
<1>6. CASE PopCount(t) \/ PopReadNext(t) \/ (PopLoad(t) /\ head # NULL) \/ (PopRetry(t) /\ head # NULL)
  <2>1. /\ pc[t] \in {"pop_count", "pop_load", "pop_next", "pop_cas"}
        /\ pc'[t] \in {"pop_count", "pop_load", "pop_next", "pop_cas"}
        /\ result' = result
    BY <1>6 DEF PopCount, PopReadNext, PopLoad, PopRetry, Inv, TypeOK
  <2>2. Call(t) = "pop" /\ Call(t)' = "pop"
    BY <2>1 DEF Call
  <2>3. Answer(t) = result[t] /\ Answer(t)' = result'[t]
    BY <2>1 DEF Answer
  <2>4. QED
    BY <1>2, <1>3, <2>1, <2>2, <2>3, Stutter
<1>7. CASE \/ ClearWalk(t) \/ ClearTailFound(t) \/ CollectorLoad(t) \/ CollectorCas(t) \/ CollectorRetry(t)
           \/ TryLoad(t) \/ TryCheck(t) \/ TryCas(t) \/ TryGiveUp(t) \/ TryDelete(t) \/ TryDeleteEnd(t)
  <2>1. /\ pc[t] \in CollectLabels \cup {"clear_tail"}
        /\ pc'[t] \in CollectLabels \cup {"clear_tail"}
        /\ result' = result
    BY <1>7 DEF ClearWalk, ClearTailFound, CollectorLoad, CollectorCas, CollectorRetry, TryLoad,
        TryCheck, TryCas, TryGiveUp, TryDelete, TryDeleteEnd, Inv, TypeOK, CollectLabels
  <2>2. Call(t) = "done" /\ Call(t)' = "done"
    BY <2>1 DEF Call, CollectLabels
  <2>3. Answer(t) = result[t] /\ Answer(t)' = result'[t]
    BY <2>1 DEF Answer, CollectLabels
  <2>4. QED
    BY <1>2, <1>3, <2>1, <2>2, <2>3, Stutter
<1>8. QED
    BY <1>4, <1>5, <1>6, <1>7

\* The steps with which calls start and return.
LEMMA BoundarySteps ==
    ASSUME Inv, ResultInv, TypeOK', NEW t \in Threads,
           PushAllocate(t) \/ PopStart(t) \/ ClearStart(t) \/ Destroy(t) \/ PushCount(t) \/ Leave(t)
    PROVE  Abstract!Start(t) \/ Abstract!Return(t)
<1> USE DEF Transition, heads, coll, memory, ghost, locals, calls
<1>1. Step(t)
    BY DEF Step, Push, Pop, Clear, Collect
<1>2. Others(t)
    BY <1>1, StepKeepsOthers
<1>3. Contents' = Contents
  <2>1. ~PushCas(t) /\ ~PopCas(t) /\ ~ClearDetach(t)
    BY DEF PushAllocate, PopStart, ClearStart, Destroy, PushCount, Leave, PushCas, PopCas, ClearDetach,
        Inv, TypeOK
  <2>2. QED
    BY <1>1, <2>1, StepKeepsContents
<1>4. CASE PushAllocate(t)
  <2>1. PICK n \in Nodes, v \in Values : value' = [value EXCEPT ![n] = v] /\ first' = [first EXCEPT ![t] = n]
    BY <1>4 DEF PushAllocate
  <2>2. pc[t] = "idle" /\ pc'[t] = "push_load"
    BY <1>4 DEF PushAllocate, Inv, TypeOK
  <2>3. value'[first'[t]] = v
    BY <2>1 DEF Inv, TypeOK
  <2>4. Call(t) = "none" /\ Call(t)' = "push"
    BY <2>2 DEF Call
  <2>5. Answer(t)' \in Values
    BY <2>2, <2>3 DEF Answer
  <2>6. QED
    BY <1>2, <1>3, <2>4, <2>5, Starts
<1>5. CASE PopStart(t) \/ ClearStart(t) \/ Destroy(t)
  <2>1. pc[t] = "idle" /\ pc'[t] \in {"pop_count", "clear_detach"} /\ result' = result
    BY <1>5 DEF PopStart, ClearStart, Destroy, Inv, TypeOK
  <2>2. Call(t) = "none" /\ Call(t)' \in {"pop", "clear"}
    BY <2>1 DEF Call
  <2>3. Answer(t) = result[t] /\ Answer(t)' = result'[t]
    BY <2>1 DEF Answer
  <2>4. QED
    BY <1>2, <1>3, <2>1, <2>2, <2>3, Starts
<1>6. CASE PushCount(t) \/ Leave(t)
  <2>1. pc[t] \in {"push_count", "leave"} /\ pc'[t] = "idle" /\ result'[t] = NULL
    <3>1. CASE PushCount(t)
        BY <3>1 DEF PushCount, Inv, TypeOK, ResultInv, CollectLabels
    <3>2. CASE Leave(t)
        BY <3>2 DEF Leave, Inv, TypeOK
    <3>3. QED
        BY <1>6, <3>1, <3>2
  <2>2. Call(t) = "done" /\ Call(t)' = "none"
    BY <2>1 DEF Call
  <2>3. Answer(t)' = result'[t]
    BY <2>1 DEF Answer
  <2>4. QED
    BY <1>2, <1>3, <2>1, <2>2, <2>3, Returns
<1>7. QED
    BY <1>4, <1>5, <1>6

\* A push takes effect with its compare-and-swap.
LEMMA PushEffect ==
    ASSUME Inv, ResultInv, TypeOK', NEW t \in Threads, PushCas(t)
    PROVE  Abstract!Push(t)
<1>1. Step(t)
    BY DEF Step, Push
<1>2. Others(t)
    BY <1>1, StepKeepsOthers
<1>3. /\ pc[t] = "push_cas" /\ pc'[t] = "push_count"
      /\ head = next[first[t]] /\ head' = first[t]
      /\ next' = next /\ value' = value /\ result' = result /\ first' = first
    BY DEF PushCas, Transition, memory, locals, Inv, TypeOK
<1>4. first[t] \in Nodes /\ first[t] \notin Stacked
    BY <1>3 DEF Inv, HoldInv, Has, Stacked
<1>5. Contents' = ListValues(first[t])
    BY <1>3 DEF Contents, ListValues
<1>6. ListValues(first[t]) = <<value[first[t]]>> \o Contents
    BY <1>3, <1>4, StackedClosed, ContentsOfHead DEF Contents
<1>7. Call(t) = "push" /\ Call(t)' = "done"
    BY <1>3 DEF Call
<1>8. Answer(t) = value[first[t]]
    BY <1>3 DEF Answer
<1>9. Answer(t)' = NULL
  <2>1. Answer(t)' = result'[t]
    BY <1>3 DEF Answer
  <2>2. QED
    BY <1>3, <2>1 DEF ResultInv, CollectLabels
<1>10. Contents' = <<Answers[t]>> \o Contents
    BY <1>5, <1>6, <1>8 DEF Answers
<1>11. Abstract!TakeEffect(t, "push", <<Answers[t]>> \o Contents, NULL)
    BY <1>2, <1>7, <1>9, <1>10, Effects
<1>12. QED
    BY <1>11 DEF Abstract!Push, Answers, Contents

\* A pop takes effect with its compare-and-swap, or when it finds no head.
LEMMA PopEffect ==
    ASSUME Inv, ResultInv, TypeOK', NEW t \in Threads,
           PopCas(t) \/ ((PopLoad(t) \/ PopRetry(t)) /\ head = NULL)
    PROVE  Abstract!Pop(t)
<1>1. Step(t)
    BY DEF Step, Pop
<1>2. Others(t)
    BY <1>1, StepKeepsOthers
<1>3. pc[t] \in {"pop_load", "pop_cas"} /\ result' = result /\ result[t] = NULL
    BY DEF PopCas, PopLoad, PopRetry, Transition, locals, Inv, TypeOK, ResultInv, CollectLabels
<1>4. Call(t) = "pop"
    BY <1>3 DEF Call
<1>5. CASE PopCas(t)
  <2>1. /\ pc'[t] = "pop_take" /\ pc[t] = "pop_cas" /\ head = old[t]
        /\ head' = seen[t] /\ first'[t] = head
        /\ next' = next /\ value' = value
    BY <1>5 DEF PopCas, Transition, memory, Inv, TypeOK
  <2>2. head # NULL /\ seen[t] = next[head]
    BY <2>1 DEF Inv, NonNullInv, PopInv, HeadInv, Popping
  <2>3. Contents' = ListValues(next[head])
    BY <2>1, <2>2 DEF Contents, ListValues
  <2>4. Contents # <<>> /\ Contents' = Tail(Contents) /\ Head(Contents) = value[head]
    BY <2>2, <2>3, ContentsSplit
  <2>5. Call(t)' = "done"
    BY <2>1 DEF Call
  <2>6. Answer(t)' = value'[first'[t]]
    BY <2>1 DEF Answer
  <2>7. Answer(t)' = Head(Contents)
    BY <2>1, <2>4, <2>6
  <2>8. Abstract!TakeEffect(t, "pop", Tail(Contents), Head(Contents))
    BY <1>2, <1>4, <2>4, <2>5, <2>7, Effects
  <2>9. QED
    BY <2>4, <2>8 DEF Abstract!Pop, Contents
<1>6. CASE (PopLoad(t) \/ PopRetry(t)) /\ head = NULL
  <2>1. pc'[t] = "try_load" /\ Contents' = Contents
    <3>1. pc'[t] = "try_load" /\ ~PushCas(t) /\ ~PopCas(t) /\ ~ClearDetach(t)
        BY <1>6 DEF PopLoad, PopRetry, PushCas, PopCas, ClearDetach, Transition, Inv, TypeOK, NonNullInv, Popping
    <3>2. QED
        BY <1>1, <3>1, StepKeepsContents
  <2>2. Contents = <<>>
    BY <1>6, ContentsSplit
  <2>3. Call(t)' = "done"
    BY <2>1 DEF Call
  <2>4. Answer(t)' = NULL
    BY <1>3, <2>1 DEF Answer
  <2>5. Abstract!TakeEffect(t, "pop", Contents, NULL)
    BY <1>2, <1>4, <2>1, <2>3, <2>4, Effects
  <2>6. QED
    BY <2>2, <2>5 DEF Abstract!Pop, Contents
<1>7. QED
    BY <1>5, <1>6

\* A clear takes effect with the exchange of the head.
LEMMA ClearEffect ==
    ASSUME Inv, ResultInv, TypeOK', NEW t \in Threads, ClearDetach(t) \/ ClearNothing(t)
    PROVE  Abstract!Clear(t)
<1>1. Step(t)
    BY DEF Step, Clear
<1>2. Others(t)
    BY <1>1, StepKeepsOthers
<1>3. /\ pc[t] = "clear_detach" /\ pc'[t] \in {"clear_tail", "try_load"}
      /\ result' = result /\ next' = next /\ value' = value /\ head' = NULL
    BY DEF ClearDetach, ClearNothing, Transition, heads, locals, memory, Inv, TypeOK
<1>4. Contents' = <<>>
  <2>1. Contents' = ListValues(NULL)
    BY <1>3 DEF Contents, ListValues
  <2>2. QED
    BY <2>1, ContentsType
<1>5. Call(t) = "clear" /\ Call(t)' = "done"
    BY <1>3 DEF Call
<1>6. Answer(t)' = NULL
  <2>1. Answer(t)' = result'[t]
    BY <1>3 DEF Answer
  <2>2. QED
    BY <1>3, <2>1 DEF ResultInv, CollectLabels
<1>7. Abstract!TakeEffect(t, "clear", <<>>, NULL)
    BY <1>2, <1>4, <1>5, <1>6, Effects
<1>8. QED
    BY <1>7 DEF Abstract!Clear

LEMMA StepRefines ==
    ASSUME Inv, ResultInv, TypeOK', [Next]_vars PROVE [Abstract!Next]_(Abstract!vars)
<1>1. ASSUME NEW t \in Threads, Step(t)
      PROVE  Abstract!Next \/ UNCHANGED Abstract!vars
  <2>1. CASE \/ PushLoad(t) \/ PushRetry(t) \/ PopCount(t) \/ PopReadNext(t) \/ PopTake(t)
             \/ (PopLoad(t) /\ head # NULL) \/ (PopRetry(t) /\ head # NULL)
             \/ ClearWalk(t) \/ ClearTailFound(t) \/ CollectorLoad(t) \/ CollectorCas(t) \/ CollectorRetry(t)
             \/ TryLoad(t) \/ TryCheck(t) \/ TryCas(t) \/ TryGiveUp(t) \/ TryDelete(t) \/ TryDeleteEnd(t)
    BY <2>1, QuietSteps
  <2>2. CASE PushAllocate(t) \/ PopStart(t) \/ ClearStart(t) \/ Destroy(t) \/ PushCount(t) \/ Leave(t)
    BY <2>2, BoundarySteps DEF Abstract!Next
  <2>3. CASE PushCas(t)
    BY <2>3, PushEffect DEF Abstract!Next
  <2>4. CASE PopCas(t) \/ ((PopLoad(t) \/ PopRetry(t)) /\ head = NULL)
    BY <2>4, PopEffect DEF Abstract!Next
  <2>5. CASE ClearDetach(t) \/ ClearNothing(t)
    BY <2>5, ClearEffect DEF Abstract!Next
  <2>6. QED
    BY <1>1, <2>1, <2>2, <2>3, <2>4, <2>5 DEF Step, Push, Pop, Clear, Collect
<1>2. CASE UNCHANGED vars
  <2>1. pc' = pc /\ first' = first /\ result' = result /\ value' = value /\ next' = next /\ head' = head
    BY <1>2 DEF vars, heads, memory, locals
  <2>2. Contents' = Contents
    BY <2>1 DEF Contents, ListValues
  <2>3. \A u \in Threads : Call(u)' = Call(u) /\ Answer(u)' = Answer(u)
    BY <2>1 DEF Call, Answer
  <2>4. Calls' = Calls /\ Answers' = Answers
    BY <2>3 DEF Calls, Answers
  <2>5. QED
    BY <2>2, <2>4 DEF Abstract!vars, Contents, Calls, Answers
<1>3. QED
    BY <1>1, <1>2 DEF Next, Terminated

LEMMA NextResult == ASSUME Inv, ResultInv, [Next]_vars PROVE ResultInv'
<1>1. CASE UNCHANGED vars
    BY <1>1 DEF vars, locals, ResultInv
<1>2. ASSUME NEW t \in Threads, Step(t) PROVE ResultInv'
  <2> USE DEF Inv, TypeOK, Transition, heads, coll, memory, ghost, locals, calls
  <2>1. \A u \in Threads \ {t} : pc'[u] = pc[u] /\ result'[u] = result[u]
    BY <1>2 DEF Step, Push, PushAllocate, PushLoad, PushCas, PushRetry, PushCount,
        Pop, PopStart, PopCount, PopLoad, PopReadNext, PopCas, PopRetry, PopTake,
        Clear, ClearStart, ClearNothing, ClearDetach, ClearWalk, ClearTailFound, Destroy,
        Collect, CollectorLoad, CollectorCas, CollectorRetry, TryLoad, TryCheck, TryCas, TryGiveUp,
        TryDelete, TryDeleteEnd, Leave
  <2>2. CASE Push(t)
    BY <2>1, <2>2 DEF Push, PushAllocate, PushLoad, PushCas, PushRetry, PushCount,
        ResultInv, CollectLabels
  <2>3. CASE Pop(t)
    BY <2>1, <2>3 DEF Pop, PopStart, PopCount, PopLoad, PopReadNext, PopCas, PopRetry, PopTake,
        ResultInv, CollectLabels
  <2>4. CASE Clear(t) \/ Destroy(t)
    BY <2>1, <2>4 DEF Clear, ClearStart, ClearNothing, ClearDetach, ClearWalk, ClearTailFound, Destroy,
        ResultInv, CollectLabels
  <2>5. CASE Collect(t)
    BY <2>1, <2>5 DEF Collect, CollectorLoad, CollectorCas, CollectorRetry, TryLoad, TryCheck, TryCas,
        TryGiveUp, TryDelete, TryDeleteEnd, Leave, ResultInv, CollectLabels
  <2>6. QED
    BY <1>2, <2>2, <2>3, <2>4, <2>5 DEF Step
<1>3. QED
    BY <1>1, <1>2 DEF Next, Terminated

LEMMA InitRefines == Init => ResultInv /\ Abstract!Init
<1> SUFFICES ASSUME Init PROVE ResultInv /\ Abstract!Init
    OBVIOUS
<1>1. ResultInv
    BY DEF Init, ResultInv
<1>2. Contents = <<>>
    BY InitInv, ContentsSplit DEF Init
<1>3. \A t \in Threads : Call(t) = "none" /\ Answer(t) = NULL
    BY DEF Init, Call, Answer
<1>4. Calls = [t \in Threads |-> "none"] /\ Answers = [t \in Threads |-> NULL]
    BY <1>3 DEF Calls, Answers
<1>5. QED
    BY <1>1, <1>2, <1>4 DEF Abstract!Init, Contents, Calls, Answers

\* If deleted blocks are not handed out again, or there are at most two threads,
\* lf::stack is linearizable, for any number of nodes, values and calls: each call of push, pop and
\* clear takes effect at one step between its start and its return, as if on a
\* last-in first-out stack that threads use one at a time.
THEOREM Linearizable == ASSUME SafeProgram PROVE Spec => IsAtomicStack
<1>1. Init => ResultInv /\ Abstract!Init
    BY InitRefines
<1>2. Inv /\ ResultInv /\ [Next]_vars => ResultInv'
    BY NextResult
<1>3. Inv /\ Inv' /\ ResultInv /\ [Next]_vars => [Abstract!Next]_(Abstract!vars)
    BY StepRefines DEF Inv
<1>4. QED
    BY <1>1, <1>2, <1>3, InvIsInvariant, PTL DEF Spec, IsAtomicStack, Abstract!Spec

\* The same although blocks are handed out again, to any number of threads, as
\* long as no third one is inside pop, clear or try_collect with two others.
THEOREM TwoInsideLinearizable == Spec /\ [](clients <= 2) => IsAtomicStack
<1>1. Init => Inv /\ ResultInv /\ Abstract!Init
    BY InitInv, InitRefines
<1>2. clients <= 2 /\ Inv /\ ResultInv /\ [Next]_vars =>
          Inv' /\ ResultInv' /\ [Abstract!Next]_(Abstract!vars)
  <2> SUFFICES ASSUME clients <= 2, Inv, ResultInv, [Next]_vars
               PROVE  Inv' /\ ResultInv' /\ [Abstract!Next]_(Abstract!vars)
    OBVIOUS
  <2>1. Inv'
    BY NextInv DEF TwoIfRecycled
  <2>2. QED
    BY <2>1, NextResult, StepRefines DEF Inv
<1>3. QED
    BY <1>1, <1>2, PTL DEF Spec, IsAtomicStack, Abstract!Spec

\* The calls that main hands out begin later.
LEMMA DispatchStutters ==
    ASSUME Inv, ResultInv, UNCHANGED NotTodo,
           todo' \in [Threads -> [push : Nat, pop : Nat, clear : Nat]]
    PROVE  ResultInv' /\ UNCHANGED Abstract!vars
<1>1. UNCHANGED <<head, next, value, pc, first, result>>
    BY DEF NotTodo, heads, memory, locals
<1>2. Inv'
    BY DispatchKeeps
<1>3. Contents' = Contents
    BY <1>1, <1>2, ContentsKept DEF Inv
<1>4. \A t \in Threads : Call(t)' = Call(t) /\ Answer(t)' = Answer(t)
    BY <1>1 DEF Call, Answer
<1>5. Calls' = Calls /\ Answers' = Answers
    BY <1>4 DEF Calls, Answers
<1>6. QED
    BY <1>1, <1>3, <1>5 DEF Abstract!vars, Contents, Calls, Answers, ResultInv

\* The racing calls of the long running test take effect one at a time.
THEOREM TestLinearizable == ASSUME SafeProgram PROVE RunSpec => IsAtomicStack
<1>1. RunInit => ResultInv /\ Abstract!Init
    BY InitRefines DEF RunInit
<1>2. Inv /\ ResultInv /\ [RunNext]_runVars => ResultInv'
    BY RunStep, NextResult, DispatchStutters
<1>3. Inv /\ Inv' /\ ResultInv /\ [RunNext]_runVars => [Abstract!Next]_(Abstract!vars)
    BY RunStep, StepRefines, DispatchStutters DEF Inv
<1>4. QED
    BY <1>1, <1>2, <1>3, RunKeeps, PTL DEF RunSpec, IsAtomicStack, Abstract!Spec
=============================================================================
