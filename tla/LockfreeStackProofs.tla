------------------------ MODULE LockfreeStackProofs ------------------------
(***************************************************************************)
(* Theorems about lf::stack for any number of threads, nodes and calls.    *)
(* The main one: if the allocator does not hand out a deleted block again, *)
(* or there are two threads only, no thread ever reads or writes a deleted *)
(* node.  At the end, what they say of the long running test, with rounds  *)
(* of any number of calls.                                                 *)
(***************************************************************************)
EXTENDS LockfreeStackRun, FiniteSetTheorems, TLAPS

Popping(t) == pc[t] \in {"pop_next", "pop_cas"}

Chained(t) == pc[t] \in {"pop_take", "clear_tail", "coll_load", "coll_cas"}

\* The pointers that a thread's next steps follow are not null.
NonNullInv ==
    \A t \in Threads :
        /\ Popping(t) => old[t] # NULL
        /\ pc[t] \in {"push_load", "push_cas"} => first[t] # NULL
        /\ Chained(t) => first[t] # NULL /\ last[t] # NULL

CriticalSet == {t \in Threads : Critical(t)}

\* The counter is the number of threads inside a guard.
CountInv == clients = Cardinality(CriticalSet)

\* A node a thread has for itself is one it is still working on.
HoldInv ==
    \A t \in Threads :
        /\ pc[t] \in {"push_load", "push_cas"} =>
              /\ first[t] \in Nodes /\ Has(t, first[t])
              /\ \A n \in Nodes : Has(t, n) => n = first[t]
        /\ Chained(t) => /\ first[t] \in Nodes /\ Has(t, first[t])
                         /\ last[t] \in Nodes /\ Has(t, last[t])
        /\ pc[t] = "pop_take" => \A n \in Nodes : Has(t, n) => n = last[t]
        /\ pc[t] \notin {"push_load", "push_cas"} /\ ~Chained(t) =>
              \A n \in Nodes : ~Has(t, n)

\* Where the pointers to the first node of each list lead.
HeadInv ==
    /\ head # NULL => where[head] = "stack"
    /\ collHead # NULL => where[collHead] = "dead"
    /\ \A t \in Threads : pc[t] = "try_delete" /\ collectable[t] # NULL =>
          where[collectable[t]] = "doomed" /\ holder[collectable[t]] = t
    /\ \A n \in Nodes : where[n] \in {"stack", "dead"} => holder[n] = NULL
    /\ \A n \in Nodes : where[n] = "held" => holder[n] \in Threads

\* The next field of n is that of a node of a list.  It is not for a node that
\* is about to be pushed, nor for the last node of a chain the collector gets.
Linked(n) ==
    \/ where[n] \in {"stack", "dead", "doomed"}
    \/ /\ where[n] = "held"
       /\ \/ pc[holder[n]] = "clear_tail"
          \/ Chained(holder[n]) /\ n # last[holder[n]]

IsHead(n) ==
    \/ n = head
    \/ n = collHead
    \/ \E t \in Threads : Chained(t) /\ n = first[t]
    \/ \E t \in Threads : pc[t] = "try_delete" /\ n = collectable[t]

\* Lists do not leave their place, do not lead back to a head and do not join.
LinkInv ==
    \A n \in Nodes : Linked(n) /\ next[n] # NULL =>
        /\ where[next[n]] = where[n]
        /\ holder[next[n]] = holder[n]
        /\ ~IsHead(next[n])
        /\ \A m \in Nodes : Linked(m) /\ next[m] = next[n] => m = n

\* The node a pop is looking at was on the stack, and is not yet for deletion.
PopInv ==
    \A t \in Threads : Popping(t) =>
        /\ old[t] \in Nodes
        /\ where[old[t]] \in {"stack", "held", "dead"}
        /\ pc[t] = "pop_cas" /\ where[old[t]] = "stack" => seen[t] = next[old[t]]
        /\ \A u \in Threads : pc[u] \in {"push_load", "push_cas"} => old[t] # first[u]

\* What try_collect has loaded from the collector never gets back to the stack,
\* unless it is deleted and allocated again.
CollectableInv ==
    ~Recycle => \A t \in Threads :
        pc[t] \in {"try_check", "try_cas"} /\ collectable[t] # NULL =>
            where[collectable[t]] \in {"dead", "doomed", "deleted"}

\* If the compare-and-swap of try_collect would succeed now, no pop is looking
\* at a node of the collector: all of them were there when the thread was alone.
\* With recycled blocks the head may be the one it loaded and the rest be new.
ArmedInv ==
    \A t, u \in Threads :
        pc[t] = "try_cas" /\ Popping(u) /\ (Recycle \/ collHead = collectable[t]) =>
            where[old[u]] # "dead"

\* What recycled blocks ask for: a thread in try_collect, one in pop and one
\* that gives a node to the collector are too many.
TwoIfRecycled == Recycle => clients <= 2

\* Programs of which that is known beforehand.
SafeProgram == ~Recycle \/ Cardinality(Threads) <= 2

Inv ==
    /\ TypeOK
    /\ NonNullInv
    /\ CountInv
    /\ SingleReaper
    /\ HoldInv
    /\ HeadInv
    /\ LinkInv
    /\ PopInv
    /\ CollectableInv
    /\ ArmedInv

-----------------------------------------------------------------------------
(* Type correctness.                                                       *)

LEMMA SizeStaysInRange ==
    ASSUME NEW s \in 0 .. SizeModulus - 1
    PROVE  /\ (s + 1) % SizeModulus \in 0 .. SizeModulus - 1
           /\ (s + SizeModulus - 1) % SizeModulus \in 0 .. SizeModulus - 1
    BY SizeAssumption

LEMMA InitType == Init => TypeOK
<1> SUFFICES ASSUME Init PROVE TypeOK
    OBVIOUS
<1>1. size \in 0 .. SizeModulus - 1
    BY SizeAssumption DEF Init
<1>2. todo \in [Threads -> [push : Nat, pop : Nat, clear : Nat]]
    BY BudgetAssumption DEF Init
<1>3. destroyed \in BOOLEAN
    BY DEF Init
<1>4. pc \in [Threads -> Labels]
    BY DEF Init, Labels
<1>5. where \in [Nodes -> Places]
    BY DEF Init, Places
<1>6. head \in Pointers /\ collHead \in Pointers /\ clients \in Int
    BY DEF Init, Pointers
<1>7. next \in [Nodes -> Pointers] /\ value \in [Nodes -> Values \cup {NULL}]
    BY DEF Init, Pointers
<1>8. holder \in [Nodes -> Threads \cup {NULL}]
    BY DEF Init
<1>9. /\ old \in [Threads -> Pointers] /\ seen \in [Threads -> Pointers]
      /\ first \in [Threads -> Pointers] /\ last \in [Threads -> Pointers]
      /\ collectable \in [Threads -> Pointers]
    BY DEF Init, Pointers
<1>10. result \in [Threads -> Values \cup {NULL}]
    BY DEF Init
<1>. QED
    BY <1>1, <1>2, <1>3, <1>4, <1>5, <1>6, <1>7, <1>8, <1>9, <1>10 DEF TypeOK

LEMMA PushType == ASSUME TypeOK, NonNullInv, NEW t \in Threads, Push(t) PROVE TypeOK'
<1>1. CASE PushAllocate(t)
  <2>1. PICK n \in Nodes, v \in Values :
            /\ where' = [where EXCEPT ![n] = "held"]
            /\ holder' = [holder EXCEPT ![n] = t]
            /\ value' = [value EXCEPT ![n] = v]
            /\ first' = [first EXCEPT ![t] = n]
    BY <1>1 DEF PushAllocate
  <2>2. todo' \in [Threads -> [push : Nat, pop : Nat, clear : Nat]]
    <3>1. todo \in [Threads -> [push : Nat, pop : Nat, clear : Nat]]
        BY DEF TypeOK
    <3>2. todo[t].push > 0 /\ todo' = [todo EXCEPT ![t].push = todo[t].push - 1]
        BY <1>1 DEF PushAllocate
    <3>3. [todo[t] EXCEPT !.push = todo[t].push - 1] \in [push : Nat, pop : Nat, clear : Nat]
        BY <3>1, <3>2
    <3>4. QED
        BY <3>1, <3>2, <3>3
  <2>3. QED
    BY <1>1, <2>1, <2>2
    DEF PushAllocate, Transition, TypeOK, Pointers, Labels, PushLabels, Places, heads, coll
<1>2. CASE PushLoad(t)
    BY <1>2 DEF PushLoad, Transition, TypeOK, Pointers, Labels, PushLabels, heads, coll, ghost, locals, calls
<1>3. CASE PushCas(t)
    BY <1>3 DEF PushCas, Transition, TypeOK, Pointers, Labels, PushLabels, Places, coll, memory, locals, calls
<1>4. CASE PushRetry(t)
    BY <1>4 DEF PushRetry, Transition, TypeOK, Pointers, Labels, PushLabels, heads, coll, ghost, locals, calls
<1>5. CASE PushCount(t)
    BY <1>5, SizeStaysInRange DEF PushCount, Transition, TypeOK, Pointers, Labels, coll, memory, ghost, calls
<1>6. QED
    BY <1>1, <1>2, <1>3, <1>4, <1>5, Push(t) DEF Push

LEMMA PopType == ASSUME TypeOK, NonNullInv, NEW t \in Threads, Pop(t) PROVE TypeOK'
<1>1. CASE PopStart(t)
    BY <1>1 DEF PopStart, Transition, TypeOK, Pointers, Labels, PopLabels, heads, memory, ghost, locals
<1>2. CASE PopCount(t)
    BY <1>2, SizeStaysInRange DEF PopCount, Transition, TypeOK, Pointers, Labels, PopLabels, coll, memory, ghost, locals, calls
<1>3. CASE PopLoad(t)
    BY <1>3 DEF PopLoad, Transition, TypeOK, Pointers, Labels, PopLabels, CollectLabels, heads, coll, memory, ghost, calls
<1>4. CASE PopReadNext(t)
    BY <1>4 DEF PopReadNext, NonNullInv, Popping, Transition, TypeOK, Pointers, Labels, PopLabels, heads, coll, memory, ghost, calls
<1>5. CASE PopCas(t)
    BY <1>5 DEF PopCas, Transition, TypeOK, Pointers, Labels, PopLabels, Places, coll, memory, calls
<1>6. CASE PopRetry(t)
    BY <1>6 DEF PopRetry, Transition, TypeOK, Pointers, Labels, PopLabels, CollectLabels, heads, coll, memory, ghost, calls
<1>7. CASE PopTake(t)
    BY <1>7 DEF PopTake, NonNullInv, Chained, Transition, TypeOK, Pointers, Labels, CollectLabels, heads, coll, ghost, calls
<1>8. QED
    BY <1>1, <1>2, <1>3, <1>4, <1>5, <1>6, <1>7, Pop(t) DEF Pop

LEMMA ClearType == ASSUME TypeOK, NonNullInv, NEW t \in Threads, Clear(t) PROVE TypeOK'
<1>1. CASE ClearStart(t)
    BY <1>1 DEF ClearStart, Transition, TypeOK, Pointers, Labels, ClearLabels, heads, memory, ghost, locals
<1>2. CASE ClearNothing(t)
    BY <1>2 DEF ClearNothing, Transition, TypeOK, Pointers, Labels, CollectLabels, heads, coll, memory, ghost, locals, calls
<1>3. CASE ClearDetach(t)
    BY <1>3 DEF ClearDetach, Transition, TypeOK, Pointers, Labels, ClearLabels, Places, coll, memory, calls
<1>4. CASE ClearWalk(t)
    BY <1>4 DEF ClearWalk, NonNullInv, Chained, Transition, TypeOK, Pointers, Labels, ClearLabels, heads, coll, memory, ghost, calls
<1>5. CASE ClearTailFound(t)
    BY <1>5 DEF ClearTailFound, Transition, TypeOK, Pointers, Labels, CollectLabels, heads, coll, memory, ghost, locals, calls
<1>6. QED
    BY <1>1, <1>2, <1>3, <1>4, <1>5, Clear(t) DEF Clear

LEMMA CollectType == ASSUME TypeOK, NonNullInv, NEW t \in Threads, Collect(t) PROVE TypeOK'
<1>1. CASE CollectorLoad(t)
    BY <1>1 DEF CollectorLoad, Transition, TypeOK, Pointers, Labels, CollectLabels, heads, coll, ghost, locals, calls
<1>2. CASE CollectorCas(t)
    BY <1>2 DEF CollectorCas, Transition, TypeOK, Pointers, Labels, CollectLabels, Places, heads, memory, locals, calls
<1>3. CASE CollectorRetry(t)
    BY <1>3 DEF CollectorRetry, Transition, TypeOK, Pointers, Labels, CollectLabels, heads, coll, ghost, locals, calls
<1>4. CASE TryLoad(t)
    BY <1>4 DEF TryLoad, Transition, TypeOK, Pointers, Labels, CollectLabels, heads, coll, memory, ghost, calls
<1>5. CASE TryCheck(t)
    BY <1>5 DEF TryCheck, Transition, TypeOK, Pointers, Labels, CollectLabels, heads, coll, memory, ghost, locals, calls
<1>6. CASE TryCas(t)
    BY <1>6 DEF TryCas, Transition, TypeOK, Pointers, Labels, CollectLabels, Places, heads, memory, locals, calls
<1>7. CASE TryGiveUp(t)
    BY <1>7 DEF TryGiveUp, Transition, TypeOK, Pointers, Labels, CollectLabels, heads, coll, memory, ghost, locals, calls
<1>8. CASE TryDelete(t)
    BY <1>8 DEF TryDelete, Transition, TypeOK, Pointers, Labels, CollectLabels, Places, heads, coll, memory, calls
<1>9. CASE TryDeleteEnd(t)
    BY <1>9 DEF TryDeleteEnd, Transition, TypeOK, Pointers, Labels, CollectLabels, heads, coll, memory, ghost, locals, calls
<1>10. CASE Leave(t)
    BY <1>10 DEF Leave, Transition, TypeOK, Pointers, Labels, heads, memory, ghost, calls
<1>11. QED
    BY <1>1, <1>2, <1>3, <1>4, <1>5, <1>6, <1>7, <1>8, <1>9, <1>10, Collect(t) DEF Collect

LEMMA NextType == ASSUME TypeOK, NonNullInv, [Next]_vars PROVE TypeOK'
<1>1. ASSUME NEW t \in Threads, Step(t) PROVE TypeOK'
  <2>1. CASE Destroy(t)
    BY <2>1 DEF Destroy, Transition, TypeOK, Pointers, Labels, ClearLabels, heads, memory, ghost, locals
  <2>2. QED
    BY <1>1, <2>1, PushType, PopType, ClearType, CollectType DEF Step
<1>2. CASE UNCHANGED vars
    BY <1>2 DEF vars, heads, coll, memory, ghost, locals, calls, TypeOK
<1>3. QED
    BY <1>1, <1>2 DEF Next, Terminated

LEMMA NextNonNull == ASSUME TypeOK, NonNullInv, [Next]_vars PROVE NonNullInv'
<1>1. ASSUME NEW t \in Threads, Push(t) PROVE NonNullInv'
    BY <1>1, NullAssumption
    DEF Push, PushAllocate, PushLoad, PushCas, PushRetry, PushCount, Transition,
        NonNullInv, Popping, Chained, TypeOK, locals
<1>2. ASSUME NEW t \in Threads, Pop(t) PROVE NonNullInv'
    BY <1>2
    DEF Pop, PopStart, PopCount, PopLoad, PopReadNext, PopCas, PopRetry, PopTake, Transition,
        NonNullInv, Popping, Chained, TypeOK, locals
<1>3. ASSUME NEW t \in Threads, Clear(t) PROVE NonNullInv'
    BY <1>3
    DEF Clear, ClearStart, ClearNothing, ClearDetach, ClearWalk, ClearTailFound, Transition,
        NonNullInv, Popping, Chained, TypeOK, locals
<1>4. ASSUME NEW t \in Threads, Collect(t) PROVE NonNullInv'
    BY <1>4
    DEF Collect, CollectorLoad, CollectorCas, CollectorRetry, TryLoad, TryCheck, TryCas, TryGiveUp,
        TryDelete, TryDeleteEnd, Leave, Transition, NonNullInv, Popping, Chained, TypeOK, locals
<1>5. ASSUME NEW t \in Threads, Destroy(t) PROVE NonNullInv'
    BY <1>5 DEF Destroy, Transition, NonNullInv, Popping, Chained, TypeOK, locals
<1>6. CASE UNCHANGED vars
    BY <1>6 DEF vars, locals, NonNullInv, Popping, Chained
<1>7. QED
    BY <1>1, <1>2, <1>3, <1>4, <1>5, <1>6 DEF Next, Step, Terminated

LEMMA InitNonNull == Init => NonNullInv
    BY DEF Init, NonNullInv, Popping, Chained

\* Every variable keeps its type: the size wraps within std::size_t, and each
\* pointer is null or points to a block of the allocator.
THEOREM TypeCorrect == Spec => []TypeOK
<1>1. TypeOK /\ NonNullInv /\ [Next]_vars => TypeOK' /\ NonNullInv'
    BY NextType, NextNonNull
<1>2. QED
    BY <1>1, InitType, InitNonNull, PTL DEF Spec

-----------------------------------------------------------------------------
(* The client counter counts, so the thread that reads 1 is alone.         *)

LEMMA CriticalSetFinite == IsFiniteSet(CriticalSet)
    BY ThreadsAssumption, FS_Subset DEF CriticalSet

LEMMA NextCount == ASSUME TypeOK, CountInv, [Next]_vars PROVE CountInv'
<1>1. ASSUME NEW t \in Threads,
             PopStart(t) \/ ClearStart(t) \/ Destroy(t)
      PROVE  CountInv'
  <2>1. t \notin CriticalSet /\ clients' = clients + 1
    BY <1>1 DEF PopStart, ClearStart, Destroy, Transition, CriticalSet, Critical
  <2>2. CriticalSet' = CriticalSet \cup {t}
    BY <1>1 DEF PopStart, ClearStart, Destroy, Transition, CriticalSet, Critical, PushLabels, TypeOK
  <2>3. QED
    BY <2>1, <2>2, CriticalSetFinite, FS_AddElement DEF CountInv
<1>2. ASSUME NEW t \in Threads, Leave(t) PROVE CountInv'
  <2>1. t \in CriticalSet /\ clients' = clients - 1
    BY <1>2 DEF Leave, Transition, CriticalSet, Critical, PushLabels
  <2>2. CriticalSet' = CriticalSet \ {t}
    BY <1>2 DEF Leave, Transition, CriticalSet, Critical, TypeOK
  <2>3. QED
    BY <2>1, <2>2, CriticalSetFinite, FS_RemoveElement DEF CountInv
<1>3. ASSUME NEW t \in Threads, Push(t) PROVE CriticalSet' = CriticalSet /\ clients' = clients
    BY <1>3
    DEF Push, PushAllocate, PushLoad, PushCas, PushRetry, PushCount, Transition,
        CriticalSet, Critical, PushLabels, TypeOK, coll
<1>4. ASSUME NEW t \in Threads, Pop(t), ~PopStart(t)
      PROVE  CriticalSet' = CriticalSet /\ clients' = clients
    BY <1>4
    DEF Pop, PopCount, PopLoad, PopReadNext, PopCas, PopRetry, PopTake, Transition,
        CriticalSet, Critical, PushLabels, TypeOK, coll
<1>5. ASSUME NEW t \in Threads, Clear(t), ~ClearStart(t)
      PROVE  CriticalSet' = CriticalSet /\ clients' = clients
    BY <1>5
    DEF Clear, ClearNothing, ClearDetach, ClearWalk, ClearTailFound, Transition,
        CriticalSet, Critical, PushLabels, TypeOK, coll
<1>6. ASSUME NEW t \in Threads, Collect(t), ~Leave(t)
      PROVE  CriticalSet' = CriticalSet /\ clients' = clients
    BY <1>6
    DEF Collect, CollectorLoad, CollectorCas, CollectorRetry, TryLoad, TryCheck, TryCas, TryGiveUp,
        TryDelete, TryDeleteEnd, Transition, CriticalSet, Critical, PushLabels, TypeOK, coll
<1>7. CASE UNCHANGED vars
    BY <1>7 DEF vars, coll, CountInv, CriticalSet, Critical
<1>8. QED
    BY <1>1, <1>2, <1>3, <1>4, <1>5, <1>6, <1>7 DEF Next, Step, Terminated, CountInv

LEMMA AloneWhenOne ==
    ASSUME CountInv, clients = 1,
           NEW t \in Threads, NEW u \in Threads, Critical(t), Critical(u)
    PROVE  t = u
<1>1. PICK x : CriticalSet = {x}
    BY CriticalSetFinite, FS_Singleton DEF CountInv
<1>2. t \in CriticalSet /\ u \in CriticalSet
    BY DEF CriticalSet
<1>3. QED
    BY <1>1, <1>2

LEMMA ThreeInside ==
    ASSUME CountInv, NEW t \in CriticalSet, NEW u \in CriticalSet, NEW v \in CriticalSet,
           t # u, u # v, v # t
    PROVE  clients > 2
<1>1. {t, u, v} \subseteq CriticalSet
    OBVIOUS
<1>2. IsFiniteSet({t}) /\ Cardinality({t}) = 1
    BY FS_Singleton
<1>3. IsFiniteSet({t, u}) /\ Cardinality({t, u}) = 2
  <2>1. {t, u} = {t} \cup {u} /\ u \notin {t}
    OBVIOUS
  <2>2. QED
    BY <1>2, <2>1, FS_AddElement
<1>4. IsFiniteSet({t, u, v}) /\ Cardinality({t, u, v}) = 3
  <2>1. {t, u, v} = {t, u} \cup {v} /\ v \notin {t, u}
    OBVIOUS
  <2>2. QED
    BY <1>3, <2>1, FS_AddElement
<1>6. Cardinality({t, u, v}) <= Cardinality(CriticalSet)
    BY <1>1, CriticalSetFinite, FS_Subset
<1>7. Cardinality(CriticalSet) \in Nat
    BY CriticalSetFinite, FS_CardinalityType
<1>8. QED
    BY <1>4, <1>6, <1>7 DEF CountInv

LEMMA SafeProgramTwo == ASSUME SafeProgram, CountInv PROVE TwoIfRecycled
<1>1. Cardinality(CriticalSet) <= Cardinality(Threads)
    BY ThreadsAssumption, FS_Subset DEF CriticalSet
<1>2. Cardinality(CriticalSet) \in Nat /\ Cardinality(Threads) \in Nat
    BY CriticalSetFinite, ThreadsAssumption, FS_CardinalityType
<1>3. QED
    BY <1>1, <1>2 DEF SafeProgram, TwoIfRecycled, CountInv

LEMMA NextReaper ==
    ASSUME TypeOK, CountInv, SingleReaper, [Next]_vars PROVE SingleReaper'
<1>1. ASSUME NEW t \in Threads, Push(t) \/ Pop(t) \/ Clear(t) \/ Destroy(t) PROVE SingleReaper'
  <2>1. CASE Push(t)
    BY <2>1
    DEF Push, PushAllocate, PushLoad, PushCas, PushRetry, PushCount, Transition,
        SingleReaper, TypeOK
  <2>2. CASE Pop(t)
    BY <2>2
    DEF Pop, PopStart, PopCount, PopLoad, PopReadNext, PopCas, PopRetry, PopTake, Transition,
        SingleReaper, TypeOK
  <2>3. CASE Clear(t) \/ Destroy(t)
    BY <2>3
    DEF Clear, ClearStart, ClearNothing, ClearDetach, ClearWalk, ClearTailFound, Destroy,
        Transition, SingleReaper, TypeOK
  <2>4. QED
    BY <1>1, <2>1, <2>2, <2>3
<1>2. ASSUME NEW t \in Threads, Collect(t), ~TryCheck(t) PROVE SingleReaper'
    BY <1>2
    DEF Collect, CollectorLoad, CollectorCas, CollectorRetry, TryLoad, TryCas, TryGiveUp,
        TryDelete, TryDeleteEnd, Leave, Transition, SingleReaper, TypeOK
<1>3. ASSUME NEW t \in Threads, TryCheck(t) PROVE SingleReaper'
  <2>1. CASE clients = 1
    <3>1. \A u \in Threads : pc[u] \in {"try_cas", "try_delete"} => u = t
        BY <1>3, <2>1, AloneWhenOne DEF TryCheck, Transition, Critical, PushLabels
    <3>2. QED
        BY <1>3, <3>1 DEF TryCheck, Transition, SingleReaper, TypeOK
  <2>2. CASE clients # 1
    BY <1>3, <2>2 DEF TryCheck, Transition, SingleReaper, TypeOK
  <2>3. QED
    BY <2>1, <2>2
<1>4. CASE UNCHANGED vars
    BY <1>4 DEF vars, SingleReaper
<1>5. QED
    BY <1>1, <1>2, <1>3, <1>4 DEF Next, Step, Terminated

LEMMA InitCount == Init => CountInv /\ SingleReaper
<1> SUFFICES ASSUME Init PROVE CountInv /\ SingleReaper
    OBVIOUS
<1>1. CriticalSet = {}
    BY DEF Init, CriticalSet, Critical
<1>2. QED
    BY <1>1, FS_EmptySet DEF Init, CountInv, SingleReaper

\* At most one thread at a time is between having found itself alone and the
\* deletion of its last node, with or without reuse of deleted blocks.
THEOREM OneReaper == Spec => []SingleReaper
<1>1. TypeOK /\ CountInv /\ SingleReaper /\ [Next]_vars => CountInv' /\ SingleReaper'
    BY NextCount, NextReaper
<1>2. QED
    BY <1>1, InitCount, TypeCorrect, PTL DEF Spec

-----------------------------------------------------------------------------
(* What each thread has for itself.                                        *)

LEMMA NextHold ==
    ASSUME TypeOK, NonNullInv, HoldInv, HeadInv, LinkInv, PopInv, [Next]_vars PROVE HoldInv'
<1>1. ASSUME NEW t \in Threads, PushCas(t) PROVE HoldInv'
    BY <1>1 DEF PushCas, Transition, HoldInv, Has, Chained, TypeOK, ghost, locals
<1>2. ASSUME NEW t \in Threads, PopCas(t) PROVE HoldInv'
  <2>1. /\ old[t] \in Nodes /\ where[old[t]] = "stack"
        /\ \A n \in Nodes : ~Has(t, n)
    BY <1>2 DEF PopCas, Transition, NonNullInv, HoldInv, HeadInv, Popping, Chained, TypeOK, Pointers
  <2>2. \A u \in Threads, n \in Nodes : Has(u, n)' <=> IF n = old[t] THEN u = t ELSE Has(u, n)
    BY <1>2, <2>1 DEF PopCas, Has, TypeOK
  <2>3. /\ first' = [first EXCEPT ![t] = old[t]]
        /\ last' = [last EXCEPT ![t] = old[t]]
        /\ pc' = [pc EXCEPT ![t] = "pop_take"]
    BY <1>2 DEF PopCas, Transition
  <2>4. \A u \in Threads : Has(u, old[t]) => FALSE
    BY <2>1 DEF Has
  <2>5. QED
    BY <2>1, <2>2, <2>3, <2>4 DEF HoldInv, Chained, TypeOK
<1>3. ASSUME NEW t \in Threads, ClearDetach(t) PROVE HoldInv'
    BY <1>3 DEF ClearDetach, Transition, HoldInv, HeadInv, Has, Chained, TypeOK, Pointers
<1>4. ASSUME NEW t \in Threads, ClearWalk(t) PROVE HoldInv'
  <2>1. pc[t] = "clear_tail" /\ last[t] \in Nodes /\ Has(t, last[t])
    BY <1>4 DEF ClearWalk, Transition, HoldInv, Chained
  <2>2. next[last[t]] \in Nodes /\ Has(t, next[last[t]])
    BY <1>4, <2>1 DEF ClearWalk, LinkInv, Linked, Has, TypeOK, Pointers
  <2>3. QED
    BY <1>4, <2>1, <2>2 DEF ClearWalk, Transition, HoldInv, Has, Chained, TypeOK, ghost
<1>5. ASSUME NEW t \in Threads, TryDelete(t) PROVE HoldInv'
  <2>1. collectable[t] \in Nodes /\ where[collectable[t]] = "doomed"
    BY <1>5 DEF TryDelete, Transition, HeadInv, TypeOK, Pointers
  <2>2. QED
    BY <1>5, <2>1 DEF TryDelete, Transition, HoldInv, Has, Chained, TypeOK
<1>6. ASSUME NEW t \in Threads, PushAllocate(t) PROVE HoldInv'
    BY <1>6 DEF PushAllocate, Transition, HoldInv, Has, Chained, TypeOK, ghost, locals
<1>7. ASSUME NEW t \in Threads, PushLoad(t) \/ PushRetry(t) \/ PushCount(t) PROVE HoldInv'
    BY <1>7 DEF PushLoad, PushRetry, PushCount, Transition, HoldInv, Has, Chained, TypeOK,
        ghost, locals
<1>8. ASSUME NEW t \in Threads, PopStart(t) \/ PopCount(t) \/ PopLoad(t) \/ PopReadNext(t) \/ PopRetry(t) \/ PopTake(t) PROVE HoldInv'
    BY <1>8 DEF PopStart, PopCount, PopLoad, PopReadNext, PopRetry, PopTake, Transition,
        HoldInv, Has, Chained, TypeOK, ghost, locals
<1>9. ASSUME NEW t \in Threads, ClearStart(t) \/ ClearNothing(t) \/ ClearTailFound(t) PROVE HoldInv'
    BY <1>9 DEF ClearStart, ClearNothing, ClearTailFound, Transition, HoldInv, Has, Chained,
        TypeOK, ghost, locals
<1>10. ASSUME NEW t \in Threads, CollectorLoad(t) \/ CollectorRetry(t) PROVE HoldInv'
    BY <1>10 DEF CollectorLoad, CollectorRetry, Transition, HoldInv, Has, Chained, TypeOK,
        ghost, locals
<1>11. ASSUME NEW t \in Threads, CollectorCas(t) PROVE HoldInv'
    BY <1>11 DEF CollectorCas, Transition, HoldInv, Has, Chained, TypeOK, ghost, locals
<1>12. ASSUME NEW t \in Threads, TryLoad(t) \/ TryCheck(t) \/ TryGiveUp(t) \/ TryDeleteEnd(t) \/ Leave(t) PROVE HoldInv'
    BY <1>12 DEF TryLoad, TryCheck, TryGiveUp, TryDeleteEnd, Leave, Transition, HoldInv,
        Has, Chained, TypeOK, ghost, locals
<1>13. ASSUME NEW t \in Threads, TryCas(t) PROVE HoldInv'
    BY <1>13 DEF TryCas, Transition, HoldInv, Has, Chained, TypeOK, ghost, locals
<1>14. ASSUME NEW t \in Threads, Destroy(t) PROVE HoldInv'
    BY <1>14 DEF Destroy, Transition, HoldInv, Has, Chained, TypeOK, ghost, locals
<1>15. CASE UNCHANGED vars
    BY <1>15 DEF vars, HoldInv, Has, Chained, ghost, locals
<1>16. QED
    BY <1>1, <1>2, <1>3, <1>4, <1>5, <1>6, <1>7, <1>8, <1>9, <1>10, <1>11, <1>12, <1>13,
        <1>14, <1>15 DEF Next, Step, Push, Pop, Clear, Collect, Terminated

-----------------------------------------------------------------------------
(* Where the heads of the lists lead.                                      *)

LEMMA NextHead ==
    ASSUME TypeOK, NonNullInv, HoldInv, HeadInv, LinkInv, PopInv, [Next]_vars PROVE HeadInv'
<1>1. ASSUME NEW t \in Threads, PushCas(t) PROVE HeadInv'
    BY <1>1 DEF PushCas, Transition, HeadInv, HoldInv, Has, TypeOK, Pointers, coll, locals
<1>2. ASSUME NEW t \in Threads, PopCas(t) PROVE HeadInv'
  <2>1. /\ old[t] \in Nodes /\ old[t] = head /\ where[old[t]] = "stack"
        /\ seen[t] = next[old[t]]
    BY <1>2, NullAssumption DEF PopCas, Transition, PopInv, HeadInv, Popping
  <2>2. seen[t] # NULL => where[seen[t]] = "stack" /\ seen[t] # old[t]
    BY <2>1 DEF LinkInv, Linked, IsHead
  <2>3. QED
    BY <1>2, <2>1, <2>2 DEF PopCas, Transition, HeadInv, TypeOK, Pointers, coll
<1>3. ASSUME NEW t \in Threads, ClearDetach(t) PROVE HeadInv'
    BY <1>3, NullAssumption DEF ClearDetach, Transition, HeadInv, TypeOK, Pointers, coll
<1>4. ASSUME NEW t \in Threads, CollectorCas(t) PROVE HeadInv'
    BY <1>4 DEF CollectorCas, Transition, HeadInv, HoldInv, Chained, Has, TypeOK, Pointers, heads, locals
<1>5. ASSUME NEW t \in Threads, TryCas(t) PROVE HeadInv'
    BY <1>5 DEF TryCas, Transition, HeadInv, TypeOK, Pointers, heads, locals
<1>6. ASSUME NEW t \in Threads, TryDelete(t) PROVE HeadInv'
  <2>1. /\ pc[t] = "try_delete" /\ collectable[t] \in Nodes
        /\ where[collectable[t]] = "doomed" /\ holder[collectable[t]] = t
    BY <1>6 DEF TryDelete, Transition, HeadInv, TypeOK, Pointers
  <2>2. next[collectable[t]] # NULL =>
            /\ where[next[collectable[t]]] = "doomed" /\ holder[next[collectable[t]]] = t
            /\ next[collectable[t]] # collectable[t]
    BY <2>1 DEF LinkInv, Linked, IsHead
  <2>3. QED
    BY <1>6, <2>1, <2>2 DEF TryDelete, Transition, HeadInv, TypeOK, Pointers, Places, heads, coll
<1>7. ASSUME NEW t \in Threads, PushAllocate(t) PROVE HeadInv'
    BY <1>7 DEF PushAllocate, Transition, HeadInv, TypeOK, Pointers, heads, coll
<1>8. ASSUME NEW t \in Threads, PushLoad(t) \/ PushRetry(t) \/ PushCount(t) PROVE HeadInv'
    BY <1>8 DEF PushLoad, PushRetry, PushCount, Transition, HeadInv, TypeOK, heads, coll,
        ghost, locals
<1>9. ASSUME NEW t \in Threads, PopStart(t) \/ PopCount(t) \/ PopLoad(t) \/ PopReadNext(t) \/ PopRetry(t) \/ PopTake(t) PROVE HeadInv'
    BY <1>9 DEF PopStart, PopCount, PopLoad, PopReadNext, PopRetry, PopTake, Transition,
        HeadInv, TypeOK, heads, coll, ghost, locals
<1>10. ASSUME NEW t \in Threads, ClearStart(t) \/ ClearNothing(t) \/ ClearWalk(t) \/ ClearTailFound(t) PROVE HeadInv'
    BY <1>10 DEF ClearStart, ClearNothing, ClearWalk, ClearTailFound, Transition, HeadInv,
        TypeOK, heads, coll, ghost, locals
<1>11. ASSUME NEW t \in Threads, CollectorLoad(t) \/ CollectorRetry(t) PROVE HeadInv'
    BY <1>11 DEF CollectorLoad, CollectorRetry, Transition, HeadInv, TypeOK, heads, coll,
        ghost, locals
<1>12. ASSUME NEW t \in Threads, TryLoad(t) \/ TryCheck(t) \/ TryGiveUp(t) \/ TryDeleteEnd(t) \/ Leave(t) PROVE HeadInv'
    BY <1>12 DEF TryLoad, TryCheck, TryGiveUp, TryDeleteEnd, Leave, Transition, HeadInv,
        TypeOK, heads, coll, ghost, locals
<1>13. ASSUME NEW t \in Threads, Destroy(t) PROVE HeadInv'
    BY <1>13 DEF Destroy, Transition, HeadInv, TypeOK, heads, coll, ghost, locals
<1>14. CASE UNCHANGED vars
    BY <1>14 DEF vars, HeadInv, heads, coll, ghost, locals
<1>15. QED
    BY <1>1, <1>2, <1>3, <1>4, <1>5, <1>6, <1>7, <1>8, <1>9, <1>10, <1>11, <1>12, <1>13,
        <1>14 DEF Next, Step, Push, Pop, Clear, Collect, Terminated

-----------------------------------------------------------------------------
(* The links of the lists.                                                 *)

\* A step that makes no new link and no new head keeps LinkInv if it moves the
\* two ends of each link to the same place.
LEMMA LinksKept ==
    ASSUME TypeOK, LinkInv,
           \A n \in Nodes : Linked(n)' => Linked(n) /\ next'[n] = next[n],
           \A n \in Nodes : IsHead(n)' => IsHead(n),
           \A n \in Nodes : Linked(n)' /\ next[n] # NULL =>
               where'[next[n]] = where'[n] /\ holder'[next[n]] = holder'[n]
    PROVE  LinkInv'
    BY DEF LinkInv, TypeOK, Pointers

\* The steps that move no node from one list to another.
LEMMA LinkLocal ==
    ASSUME TypeOK, HoldInv, HeadInv, LinkInv, NEW t \in Threads,
           PushLoad(t) \/ PushRetry(t) \/ PushCount(t) \/ PopStart(t) \/ PopCount(t) \/
               PopLoad(t) \/ PopReadNext(t) \/ PopRetry(t) \/ PopTake(t) \/ ClearStart(t) \/
               ClearNothing(t) \/ Destroy(t) \/ ClearWalk(t) \/ ClearTailFound(t) \/
               CollectorLoad(t) \/ CollectorRetry(t) \/ TryLoad(t) \/ TryCheck(t) \/
               TryGiveUp(t) \/ TryDeleteEnd(t) \/ Leave(t)
    PROVE  LinkInv'
<1>1. CASE PushLoad(t) \/ PushRetry(t)
  <2>1. \A n \in Nodes : Linked(n)' => Linked(n) /\ next'[n] = next[n]
    BY <1>1 DEF PushLoad, PushRetry, Transition, Linked, HoldInv, HeadInv, Has, Chained,
        TypeOK, memory, ghost, locals
  <2>2. \A n \in Nodes : IsHead(n)' => IsHead(n)
    BY <1>1 DEF PushLoad, PushRetry, Transition, IsHead, Chained, TypeOK, heads, coll,
        locals
  <2>3. UNCHANGED ghost
    BY <1>1 DEF PushLoad, PushRetry
  <2>4. QED
    BY <2>1, <2>2, <2>3, LinksKept DEF LinkInv, ghost
<1>2. CASE PushCount(t)
  <2>1. \A n \in Nodes : Linked(n)' => Linked(n) /\ next'[n] = next[n]
    BY <1>2 DEF PushCount, Transition, Linked, HoldInv, HeadInv, Has, Chained, TypeOK,
        memory, ghost, locals
  <2>2. \A n \in Nodes : IsHead(n)' => IsHead(n)
    BY <1>2 DEF PushCount, Transition, IsHead, Chained, TypeOK, heads, coll, locals
  <2>3. UNCHANGED ghost
    BY <1>2 DEF PushCount
  <2>4. QED
    BY <2>1, <2>2, <2>3, LinksKept DEF LinkInv, ghost
<1>3. CASE PopStart(t) \/ PopCount(t) \/ PopLoad(t) \/ PopReadNext(t)
  <2>1. \A n \in Nodes : Linked(n)' => Linked(n) /\ next'[n] = next[n]
    BY <1>3 DEF PopStart, PopCount, PopLoad, PopReadNext, Transition, Linked, HoldInv,
        HeadInv, Has, Chained, TypeOK, memory, ghost, locals
  <2>2. \A n \in Nodes : IsHead(n)' => IsHead(n)
    BY <1>3 DEF PopStart, PopCount, PopLoad, PopReadNext, Transition, IsHead, Chained,
        TypeOK, heads, coll, locals
  <2>3. UNCHANGED ghost
    BY <1>3 DEF PopStart, PopCount, PopLoad, PopReadNext
  <2>4. QED
    BY <2>1, <2>2, <2>3, LinksKept DEF LinkInv, ghost
<1>4. CASE PopRetry(t) \/ PopTake(t)
  <2>1. \A n \in Nodes : Linked(n)' => Linked(n) /\ next'[n] = next[n]
    BY <1>4 DEF PopRetry, PopTake, Transition, Linked, HoldInv, HeadInv, Has, Chained,
        TypeOK, memory, ghost, locals
  <2>2. \A n \in Nodes : IsHead(n)' => IsHead(n)
    BY <1>4 DEF PopRetry, PopTake, Transition, IsHead, Chained, TypeOK, heads, coll, locals
  <2>3. UNCHANGED ghost
    BY <1>4 DEF PopRetry, PopTake
  <2>4. QED
    BY <2>1, <2>2, <2>3, LinksKept DEF LinkInv, ghost
<1>5. CASE ClearStart(t) \/ ClearNothing(t) \/ Destroy(t)
  <2>1. \A n \in Nodes : Linked(n)' => Linked(n) /\ next'[n] = next[n]
    BY <1>5 DEF ClearStart, ClearNothing, Destroy, Transition, Linked, HoldInv, HeadInv,
        Has, Chained, TypeOK, memory, ghost, locals
  <2>2. \A n \in Nodes : IsHead(n)' => IsHead(n)
    BY <1>5 DEF ClearStart, ClearNothing, Destroy, Transition, IsHead, Chained, TypeOK,
        heads, coll, locals
  <2>3. UNCHANGED ghost
    BY <1>5 DEF ClearStart, ClearNothing, Destroy
  <2>4. QED
    BY <2>1, <2>2, <2>3, LinksKept DEF LinkInv, ghost
<1>6. CASE ClearWalk(t) \/ ClearTailFound(t)
  <2>1. \A n \in Nodes : Linked(n)' => Linked(n) /\ next'[n] = next[n]
    BY <1>6 DEF ClearWalk, ClearTailFound, Transition, Linked, HoldInv, HeadInv, Has,
        Chained, TypeOK, memory, ghost, locals
  <2>2. \A n \in Nodes : IsHead(n)' => IsHead(n)
    BY <1>6 DEF ClearWalk, ClearTailFound, Transition, IsHead, Chained, TypeOK, heads, coll,
        locals
  <2>3. UNCHANGED ghost
    BY <1>6 DEF ClearWalk, ClearTailFound
  <2>4. QED
    BY <2>1, <2>2, <2>3, LinksKept DEF LinkInv, ghost
<1>7. CASE CollectorLoad(t) \/ CollectorRetry(t)
  <2>1. \A n \in Nodes : Linked(n)' => Linked(n) /\ next'[n] = next[n]
    BY <1>7 DEF CollectorLoad, CollectorRetry, Transition, Linked, HoldInv, HeadInv, Has,
        Chained, TypeOK, memory, ghost, locals
  <2>2. \A n \in Nodes : IsHead(n)' => IsHead(n)
    BY <1>7 DEF CollectorLoad, CollectorRetry, Transition, IsHead, Chained, TypeOK, heads,
        coll, locals
  <2>3. UNCHANGED ghost
    BY <1>7 DEF CollectorLoad, CollectorRetry
  <2>4. QED
    BY <2>1, <2>2, <2>3, LinksKept DEF LinkInv, ghost
<1>8. CASE TryLoad(t) \/ TryCheck(t) \/ TryGiveUp(t) \/ TryDeleteEnd(t)
  <2>1. \A n \in Nodes : Linked(n)' => Linked(n) /\ next'[n] = next[n]
    BY <1>8 DEF TryLoad, TryCheck, TryGiveUp, TryDeleteEnd, Transition, Linked, HoldInv,
        HeadInv, Has, Chained, TypeOK, memory, ghost, locals
  <2>2. \A n \in Nodes : IsHead(n)' => IsHead(n)
    BY <1>8 DEF TryLoad, TryCheck, TryGiveUp, TryDeleteEnd, Transition, IsHead, Chained,
        TypeOK, heads, coll, locals
  <2>3. UNCHANGED ghost
    BY <1>8 DEF TryLoad, TryCheck, TryGiveUp, TryDeleteEnd
  <2>4. QED
    BY <2>1, <2>2, <2>3, LinksKept DEF LinkInv, ghost
<1>9. CASE Leave(t)
  <2>1. \A n \in Nodes : Linked(n)' => Linked(n) /\ next'[n] = next[n]
    BY <1>9 DEF Leave, Transition, Linked, HoldInv, HeadInv, Has, Chained, TypeOK, memory,
        ghost, locals
  <2>2. \A n \in Nodes : IsHead(n)' => IsHead(n)
    BY <1>9 DEF Leave, Transition, IsHead, Chained, TypeOK, heads, coll, locals
  <2>3. UNCHANGED ghost
    BY <1>9 DEF Leave
  <2>4. QED
    BY <2>1, <2>2, <2>3, LinksKept DEF LinkInv, ghost
<1>10. QED
    BY <1>1, <1>2, <1>3, <1>4, <1>5, <1>6, <1>7, <1>8, <1>9

\* A block that is free is on no list.
LEMMA LinkPushAllocate ==
    ASSUME TypeOK, HoldInv, HeadInv, LinkInv, NEW t \in Threads, PushAllocate(t)
    PROVE  LinkInv'
<1>1. PICK n \in Nodes : /\ where[n] = "free"
                         /\ where' = [where EXCEPT ![n] = "held"]
                         /\ holder' = [holder EXCEPT ![n] = t]
                         /\ first' = [first EXCEPT ![t] = n]
    BY DEF PushAllocate
<1>2. /\ pc[t] = "idle" /\ pc' = [pc EXCEPT ![t] = "push_load"]
      /\ UNCHANGED <<next, last, collectable, head, collHead>>
    BY DEF PushAllocate, Transition, heads, coll
<1>3. \A m \in Nodes : Linked(m)' => Linked(m) /\ m # n
    BY <1>1, <1>2 DEF Linked, HoldInv, HeadInv, Has, Chained, TypeOK
<1>4. \A m \in Nodes : IsHead(m)' => IsHead(m)
    BY <1>1, <1>2 DEF IsHead, Chained, TypeOK
<1>5. \A m \in Nodes : Linked(m) /\ next[m] # NULL => next[m] # n
    BY <1>1 DEF LinkInv, Linked
<1>6. \A m \in Nodes : Linked(m)' /\ next[m] # NULL =>
          where'[next[m]] = where'[m] /\ holder'[next[m]] = holder'[m]
    BY <1>1, <1>3, <1>5 DEF LinkInv, TypeOK, Pointers
<1>7. QED
    BY <1>2, <1>3, <1>4, <1>6, LinksKept

\* The pushed node becomes the only link to the former head.
LEMMA LinkPushCas ==
    ASSUME TypeOK, HoldInv, HeadInv, LinkInv, NEW t \in Threads, PushCas(t)
    PROVE  LinkInv'
<1>0. PICK f \in Nodes : f = first[t]
    BY DEF PushCas, Transition, HoldInv
<1>1. /\ pc[t] = "push_cas" /\ pc' = [pc EXCEPT ![t] = "push_count"]
      /\ head = next[f] /\ head' = f
      /\ where' = [where EXCEPT ![f] = "stack"]
      /\ holder' = [holder EXCEPT ![f] = NULL]
      /\ UNCHANGED <<next, first, last, collectable, collHead>>
    BY <1>0 DEF PushCas, Transition, coll, memory, locals
<1>2. /\ where[f] = "held" /\ holder[f] = t /\ ~Linked(f)
      /\ \A n \in Nodes : Linked(n) /\ next[n] # NULL => next[n] # f
    BY <1>0, <1>1 DEF HoldInv, Has, Linked, Chained, LinkInv
<1>3. \A n \in Nodes : Linked(n)' <=> Linked(n) \/ n = f
    BY <1>1, <1>2 DEF Linked, HoldInv, HeadInv, Has, Chained, TypeOK
<1>4. \A n \in Nodes : IsHead(n)' => (IsHead(n) /\ n # head) \/ n = f
    <2>1. \A u \in Threads : Chained(u) => first[u] # head \/ head = NULL
        BY DEF HoldInv, HeadInv, Has, Chained
    <2>2. \A u \in Threads : pc[u] = "try_delete" /\ collectable[u] # NULL => collectable[u] # head
        BY DEF HeadInv
    <2>3. collHead # NULL => collHead # head
        BY DEF HeadInv
    <2>4. QED
        BY <1>1, <2>1, <2>2, <2>3, NullAssumption DEF IsHead, Chained, TypeOK, Pointers
<1>5. next[f] # NULL => /\ next[f] \in Nodes /\ where[next[f]] = "stack" /\ holder[next[f]] = NULL
                        /\ next[f] # f /\ IsHead(next[f])
    BY <1>1, <1>2 DEF HeadInv, IsHead, TypeOK, Pointers
<1>6. ASSUME NEW n \in Nodes, Linked(n)', next[n] # NULL
      PROVE  /\ where'[next[n]] = where'[n] /\ holder'[next[n]] = holder'[n]
             /\ ~IsHead(next[n])'
             /\ \A m \in Nodes : Linked(m)' /\ next[m] = next[n] => m = n
  <2>1. CASE n = f
    <3>1. where'[next[f]] = where'[f] /\ holder'[next[f]] = holder'[f]
        BY <1>1, <1>2, <1>5, <1>6, <2>1 DEF TypeOK
    <3>2. ~IsHead(next[f])'
        BY <1>1, <1>4, <1>5, <1>6, <2>1
    <3>3. \A m \in Nodes : Linked(m)' /\ next[m] = next[f] => m = f
        BY <1>3, <1>5, <1>6, <2>1 DEF LinkInv
    <3>4. QED
        BY <1>1, <2>1, <3>1, <3>2, <3>3
  <2>2. CASE n # f
    <3>1. /\ Linked(n) /\ next[n] # f /\ next[n] \in Nodes
          /\ where[next[n]] = where[n] /\ holder[next[n]] = holder[n] /\ ~IsHead(next[n])
          /\ \A m \in Nodes : Linked(m) /\ next[m] = next[n] => m = n
        BY <1>2, <1>3, <1>6, <2>2 DEF LinkInv, TypeOK, Pointers
    <3>2. next[f] # next[n]
        BY <1>5, <1>6, <3>1
    <3>3. QED
        BY <1>1, <1>2, <1>3, <1>4, <2>2, <3>1, <3>2 DEF TypeOK
  <2>3. QED
    BY <2>1, <2>2
<1>7. QED
    BY <1>1, <1>6 DEF LinkInv

\* The unhooked node was the only link to the new head.
LEMMA LinkPopCas ==
    ASSUME TypeOK, HoldInv, HeadInv, LinkInv, PopInv, NEW t \in Threads, PopCas(t)
    PROVE  LinkInv'
<1>0. PICK o \in Nodes : o = old[t]
    BY DEF PopCas, Transition, PopInv, Popping
<1>1. /\ pc[t] = "pop_cas" /\ pc' = [pc EXCEPT ![t] = "pop_take"]
      /\ head = o /\ head' = next[o] /\ where[o] = "stack"
      /\ first' = [first EXCEPT ![t] = o] /\ last' = [last EXCEPT ![t] = o]
      /\ where' = [where EXCEPT ![o] = "held"]
      /\ holder' = [holder EXCEPT ![o] = t]
      /\ UNCHANGED <<next, collectable, collHead>>
    BY <1>0, NullAssumption DEF PopCas, Transition, coll, memory, PopInv, Popping, HeadInv
<1>2. \A n \in Nodes : Linked(n)' => Linked(n) /\ n # o
    BY <1>1 DEF Linked, HoldInv, HeadInv, Has, Chained, TypeOK
<1>3. Linked(o) /\ IsHead(o)
    BY <1>1 DEF Linked, IsHead
<1>4. \A n \in Nodes : IsHead(n)' => IsHead(n) \/ n = next[o]
    BY <1>1 DEF IsHead, Chained, TypeOK
<1>5. ASSUME NEW n \in Nodes, Linked(n)', next[n] # NULL
      PROVE  /\ where'[next[n]] = where'[n] /\ holder'[next[n]] = holder'[n]
             /\ ~IsHead(next[n])'
             /\ \A m \in Nodes : Linked(m)' /\ next[m] = next[n] => m = n
  <2>1. /\ Linked(n) /\ n # o /\ next[n] \in Nodes
        /\ where[next[n]] = where[n] /\ holder[next[n]] = holder[n] /\ ~IsHead(next[n])
        /\ \A m \in Nodes : Linked(m) /\ next[m] = next[n] => m = n
    BY <1>2, <1>5 DEF LinkInv, TypeOK, Pointers
  <2>2. next[n] # o /\ next[n] # next[o]
    BY <1>3, <2>1
  <2>3. QED
    BY <1>1, <1>2, <1>4, <2>1, <2>2 DEF TypeOK
<1>6. QED
    BY <1>1, <1>5 DEF LinkInv

\* The whole stack moves to the thread, links and head.
LEMMA LinkClearDetach ==
    ASSUME TypeOK, HoldInv, HeadInv, LinkInv, NEW t \in Threads, ClearDetach(t)
    PROVE  LinkInv'
<1>1. /\ pc[t] = "clear_detach" /\ pc' = [pc EXCEPT ![t] = "clear_tail"]
      /\ head # NULL /\ head' = NULL
      /\ first' = [first EXCEPT ![t] = head] /\ last' = [last EXCEPT ![t] = head]
      /\ where' = [n \in Nodes |-> IF where[n] = "stack" THEN "held" ELSE where[n]]
      /\ holder' = [n \in Nodes |-> IF where[n] = "stack" THEN t ELSE holder[n]]
      /\ UNCHANGED <<next, collectable, collHead>>
    BY DEF ClearDetach, Transition, coll, memory
<1>2. \A n \in Nodes : Linked(n)' => Linked(n)
    BY <1>1 DEF Linked, HoldInv, HeadInv, Has, Chained, TypeOK
<1>3. \A n \in Nodes : IsHead(n)' => IsHead(n)
    BY <1>1, NullAssumption DEF IsHead, Chained, TypeOK
<1>4. \A n \in Nodes : Linked(n)' /\ next[n] # NULL =>
          where'[next[n]] = where'[n] /\ holder'[next[n]] = holder'[n]
    BY <1>1, <1>2 DEF LinkInv, TypeOK, Pointers
<1>5. QED
    BY <1>1, <1>2, <1>3, <1>4, LinksKept

\* The chain moves to the collector, its last node the only link to the former head.
LEMMA LinkCollectorCas ==
    ASSUME TypeOK, HoldInv, HeadInv, LinkInv, NEW t \in Threads, CollectorCas(t)
    PROVE  LinkInv'
<1>0. PICK f \in Nodes, l \in Nodes : f = first[t] /\ l = last[t]
    BY DEF CollectorCas, Transition, HoldInv, Chained
<1>1. /\ pc[t] = "coll_cas" /\ pc' = [pc EXCEPT ![t] = "try_load"]
      /\ collHead = next[l] /\ collHead' = f
      /\ where' = [n \in Nodes |-> IF Has(t, n) THEN "dead" ELSE where[n]]
      /\ holder' = [n \in Nodes |-> IF Has(t, n) THEN NULL ELSE holder[n]]
      /\ UNCHANGED <<next, first, last, collectable, head>>
    BY <1>0 DEF CollectorCas, Transition, heads, memory, locals
<1>2. /\ Has(t, f) /\ Has(t, l) /\ ~Linked(l)
      /\ \A n \in Nodes : Has(t, n) /\ n # l => Linked(n)
    BY <1>0, <1>1 DEF HoldInv, Has, Linked, Chained
<1>3. \A n \in Nodes : Linked(n)' <=> Linked(n) \/ n = l
    BY <1>0, <1>1, <1>2 DEF Linked, HoldInv, HeadInv, Has, Chained, TypeOK
<1>4. \A n \in Nodes : IsHead(n)' => IsHead(n) /\ n # collHead
    <2>1. \A u \in Threads : Chained(u) => first[u] # collHead \/ collHead = NULL
        BY DEF HoldInv, HeadInv, Has, Chained
    <2>2. \A u \in Threads : pc[u] = "try_delete" /\ collectable[u] # NULL => collectable[u] # collHead
        BY DEF HeadInv
    <2>3. head # NULL => collHead # head
        BY DEF HeadInv
    <2>4. IsHead(f) /\ f # collHead
        BY <1>0, <1>1, <2>1, NullAssumption DEF IsHead, Chained
    <2>5. QED
        BY <1>1, <2>1, <2>2, <2>3, <2>4, NullAssumption DEF IsHead, Chained, TypeOK
<1>5. next[l] # NULL => next[l] \in Nodes /\ where[next[l]] = "dead" /\ holder[next[l]] = NULL
                        /\ IsHead(next[l])
    BY <1>1 DEF HeadInv, IsHead, TypeOK, Pointers
<1>6. ASSUME NEW n \in Nodes, Linked(n)', next[n] # NULL
      PROVE  /\ where'[next[n]] = where'[n] /\ holder'[next[n]] = holder'[n]
             /\ ~IsHead(next[n])'
             /\ \A m \in Nodes : Linked(m)' /\ next[m] = next[n] => m = n
  <2>1. CASE n = l
    <3>1. where'[next[l]] = where'[l] /\ holder'[next[l]] = holder'[l]
        BY <1>1, <1>2, <1>5, <1>6, <2>1 DEF Has, TypeOK
    <3>2. ~IsHead(next[l])'
        BY <1>1, <1>4, <1>5, <1>6, <2>1
    <3>3. \A m \in Nodes : Linked(m)' /\ next[m] = next[l] => m = l
        BY <1>3, <1>5, <1>6, <2>1 DEF LinkInv
    <3>4. QED
        BY <1>1, <2>1, <3>1, <3>2, <3>3
  <2>2. CASE n # l
    <3>1. /\ Linked(n) /\ next[n] \in Nodes
          /\ where[next[n]] = where[n] /\ holder[next[n]] = holder[n] /\ ~IsHead(next[n])
          /\ \A m \in Nodes : Linked(m) /\ next[m] = next[n] => m = n
        BY <1>3, <1>6, <2>2 DEF LinkInv, TypeOK, Pointers
    <3>2. next[l] # next[n]
        BY <1>5, <1>6, <3>1
    <3>3. QED
        BY <1>1, <1>3, <1>4, <2>2, <3>1, <3>2 DEF Has, TypeOK
  <2>3. QED
    BY <2>1, <2>2
<1>7. QED
    BY <1>1, <1>6 DEF LinkInv

\* The whole collection moves to the thread, links and head.
LEMMA LinkTryCas ==
    ASSUME TypeOK, HoldInv, HeadInv, LinkInv, NEW t \in Threads, TryCas(t)
    PROVE  LinkInv'
<1>1. /\ pc[t] = "try_cas" /\ pc' = [pc EXCEPT ![t] = "try_delete"]
      /\ collHead = collectable[t] /\ collHead' = NULL
      /\ where' = [n \in Nodes |-> IF where[n] = "dead" THEN "doomed" ELSE where[n]]
      /\ holder' = [n \in Nodes |-> IF where[n] = "dead" THEN t ELSE holder[n]]
      /\ UNCHANGED <<next, first, last, collectable, head>>
    BY DEF TryCas, Transition, heads, memory, locals
<1>2. \A n \in Nodes : Linked(n)' => Linked(n)
    BY <1>1 DEF Linked, HoldInv, HeadInv, Has, Chained, TypeOK
<1>3. \A n \in Nodes : IsHead(n)' => IsHead(n)
    BY <1>1, NullAssumption DEF IsHead, Chained, TypeOK
<1>4. \A n \in Nodes : Linked(n)' /\ next[n] # NULL =>
          where'[next[n]] = where'[n] /\ holder'[next[n]] = holder'[n]
    BY <1>1, <1>2 DEF LinkInv, TypeOK, Pointers
<1>5. QED
    BY <1>1, <1>2, <1>3, <1>4, LinksKept

\* The deleted node was the only link to the next one.
LEMMA LinkTryDelete ==
    ASSUME TypeOK, HoldInv, HeadInv, LinkInv, NEW t \in Threads, TryDelete(t)
    PROVE  LinkInv'
<1>0. PICK c \in Nodes : c = collectable[t]
    BY DEF TryDelete, TypeOK, Pointers
<1>1. /\ pc[t] = "try_delete" /\ UNCHANGED pc
      /\ collectable' = [collectable EXCEPT ![t] = next[c]]
      /\ where' = [where EXCEPT ![c] = IF Recycle THEN "free" ELSE "deleted"]
      /\ holder' = [holder EXCEPT ![c] = NULL]
      /\ UNCHANGED <<next, first, last, head, collHead>>
    BY <1>0 DEF TryDelete, Transition, heads, coll, memory, TypeOK
<1>2. where[c] = "doomed" /\ Linked(c) /\ IsHead(c)
    BY <1>0, <1>1, NullAssumption DEF HeadInv, Linked, IsHead
<1>3. \A n \in Nodes : Linked(n)' => Linked(n) /\ n # c
    BY <1>1, <1>2 DEF Linked, HeadInv, Chained, TypeOK
<1>4. \A n \in Nodes : IsHead(n)' => IsHead(n) \/ n = next[c]
    BY <1>1 DEF IsHead, Chained, TypeOK
<1>5. ASSUME NEW n \in Nodes, Linked(n)', next[n] # NULL
      PROVE  /\ where'[next[n]] = where'[n] /\ holder'[next[n]] = holder'[n]
             /\ ~IsHead(next[n])'
             /\ \A m \in Nodes : Linked(m)' /\ next[m] = next[n] => m = n
  <2>1. /\ Linked(n) /\ n # c /\ next[n] \in Nodes
        /\ where[next[n]] = where[n] /\ holder[next[n]] = holder[n] /\ ~IsHead(next[n])
        /\ \A m \in Nodes : Linked(m) /\ next[m] = next[n] => m = n
    BY <1>3, <1>5 DEF LinkInv, TypeOK, Pointers
  <2>2. next[n] # c /\ next[n] # next[c]
    BY <1>2, <2>1
  <2>3. QED
    BY <1>1, <1>3, <1>4, <2>1, <2>2 DEF TypeOK
<1>6. QED
    BY <1>1, <1>5 DEF LinkInv

LEMMA NextLink ==
    ASSUME TypeOK, HoldInv, HeadInv, LinkInv, PopInv, [Next]_vars PROVE LinkInv'
<1>1. ASSUME NEW t \in Threads, Push(t) PROVE LinkInv'
    BY <1>1, LinkLocal, LinkPushAllocate, LinkPushCas DEF Push
<1>2. ASSUME NEW t \in Threads, Pop(t) PROVE LinkInv'
    BY <1>2, LinkLocal, LinkPopCas DEF Pop
<1>3. ASSUME NEW t \in Threads, Clear(t) PROVE LinkInv'
    BY <1>3, LinkLocal, LinkClearDetach DEF Clear
<1>4. ASSUME NEW t \in Threads, Collect(t) PROVE LinkInv'
    BY <1>4, LinkLocal, LinkCollectorCas, LinkTryCas, LinkTryDelete DEF Collect
<1>5. ASSUME NEW t \in Threads, Destroy(t) PROVE LinkInv'
    BY <1>5, LinkLocal
<1>6. CASE UNCHANGED vars
    BY <1>6 DEF vars, LinkInv, Linked, IsHead, Chained, heads, coll, memory, ghost, locals
<1>7. QED
    BY <1>1, <1>2, <1>3, <1>4, <1>5, <1>6 DEF Next, Step, Terminated

-----------------------------------------------------------------------------
(* The nodes that pops and collectors look at.                             *)

LEMMA NextPop ==
    ASSUME TypeOK, HoldInv, HeadInv, PopInv, ArmedInv, [Next]_vars PROVE PopInv'
<1>1. ASSUME NEW t \in Threads, PushAllocate(t) PROVE PopInv'
    BY <1>1 DEF PushAllocate, Transition, PopInv, Popping, TypeOK, heads, memory, ghost,
        locals
<1>2. ASSUME NEW t \in Threads, PushLoad(t) \/ PushRetry(t) PROVE PopInv'
    BY <1>2 DEF PushLoad, PushRetry, Transition, PopInv, Popping, TypeOK, heads, memory,
        ghost, locals, HoldInv, HeadInv, Has, Chained, Pointers
<1>3. ASSUME NEW t \in Threads, PushCount(t) PROVE PopInv'
    BY <1>3 DEF PushCount, Transition, PopInv, Popping, TypeOK, heads, memory, ghost,
        locals, HoldInv, HeadInv, Has, Chained, Pointers
<1>4. ASSUME NEW t \in Threads, PushCas(t) PROVE PopInv'
    BY <1>4 DEF PushCas, Transition, PopInv, Popping, TypeOK, heads, memory, ghost, locals,
        HoldInv, Has
<1>5. ASSUME NEW t \in Threads, PopStart(t) \/ PopCount(t) \/ PopTake(t) PROVE PopInv'
    BY <1>5 DEF PopStart, PopCount, PopTake, Transition, PopInv, Popping, TypeOK, heads,
        memory, ghost, locals
<1>6. ASSUME NEW t \in Threads, PopLoad(t) \/ PopRetry(t) PROVE PopInv'
    BY <1>6 DEF PopLoad, PopRetry, Transition, PopInv, Popping, TypeOK, heads, memory,
        ghost, locals, HoldInv, HeadInv, Has, Chained, Pointers
<1>7. ASSUME NEW t \in Threads, PopReadNext(t) PROVE PopInv'
    BY <1>7 DEF PopReadNext, Transition, PopInv, Popping, TypeOK, heads, memory, ghost,
        locals, HoldInv, HeadInv, Has, Chained, Pointers
<1>8. ASSUME NEW t \in Threads, PopCas(t) PROVE PopInv'
    BY <1>8 DEF PopCas, Transition, PopInv, Popping, TypeOK, heads, memory, ghost, locals,
        HoldInv, HeadInv, Has, Chained, Pointers
<1>9. ASSUME NEW t \in Threads, ClearStart(t) \/ ClearNothing(t) \/ ClearWalk(t) \/
    ClearTailFound(t) \/ Destroy(t) PROVE PopInv'
    BY <1>9 DEF ClearStart, ClearNothing, ClearWalk, ClearTailFound, Destroy, Transition,
        PopInv, Popping, TypeOK, heads, memory, ghost, locals
<1>10. ASSUME NEW t \in Threads, ClearDetach(t) PROVE PopInv'
    BY <1>10 DEF ClearDetach, Transition, PopInv, Popping, TypeOK, heads, memory, ghost,
        locals, HoldInv, HeadInv, Has, Chained, Pointers
<1>11. ASSUME NEW t \in Threads, CollectorLoad(t) \/ CollectorRetry(t) PROVE PopInv'
    BY <1>11 DEF CollectorLoad, CollectorRetry, Transition, PopInv, Popping, TypeOK, heads,
        memory, ghost, locals, HoldInv, HeadInv, Has, Chained, Pointers
<1>12. ASSUME NEW t \in Threads, CollectorCas(t) PROVE PopInv'
    BY <1>12 DEF CollectorCas, Transition, PopInv, Popping, TypeOK, heads, memory, ghost,
        locals, HoldInv, HeadInv, Has, Chained, Pointers
<1>13. ASSUME NEW t \in Threads, TryLoad(t) \/ TryCheck(t) PROVE PopInv'
    BY <1>13 DEF TryLoad, TryCheck, Transition, PopInv, Popping, TypeOK, heads, memory,
        ghost, locals
<1>14. ASSUME NEW t \in Threads, TryGiveUp(t) \/ TryDeleteEnd(t) PROVE PopInv'
    BY <1>14 DEF TryGiveUp, TryDeleteEnd, Transition, PopInv, Popping, TypeOK, heads,
        memory, ghost, locals, HoldInv, HeadInv, Has, Chained, Pointers
<1>15. ASSUME NEW t \in Threads, Leave(t) PROVE PopInv'
    BY <1>15 DEF Leave, Transition, PopInv, Popping, TypeOK, heads, memory, ghost, locals,
        HoldInv, HeadInv, Has, Chained, Pointers
<1>16. ASSUME NEW t \in Threads, TryCas(t) PROVE PopInv'
    BY <1>16 DEF TryCas, Transition, PopInv, Popping, TypeOK, heads, memory, ghost, locals,
        ArmedInv
<1>17. ASSUME NEW t \in Threads, TryDelete(t) PROVE PopInv'
    BY <1>17 DEF TryDelete, Transition, PopInv, Popping, TypeOK, heads, memory, ghost,
        locals, HeadInv
<1>18. CASE UNCHANGED vars
    BY <1>18 DEF vars, PopInv, Popping, memory, ghost, locals
<1>19. QED
    BY <1>1, <1>2, <1>3, <1>4, <1>5, <1>6, <1>7, <1>8, <1>9, <1>10, <1>11, <1>12, <1>13,
        <1>14, <1>15, <1>16, <1>17, <1>18 DEF Next, Step, Push, Pop, Clear, Collect,
        Terminated

LEMMA NextCollectable ==
    ASSUME TypeOK, HoldInv, HeadInv, PopInv, CollectableInv, [Next]_vars PROVE
        CollectableInv'
<1>1. ASSUME NEW t \in Threads, PushAllocate(t) PROVE CollectableInv'
    BY <1>1 DEF PushAllocate, Transition, CollectableInv, TypeOK, Pointers, ghost, locals
<1>2. ASSUME NEW t \in Threads, PushLoad(t) \/ PushRetry(t) \/ PushCount(t) PROVE
    CollectableInv'
    BY <1>2 DEF PushLoad, PushRetry, PushCount, Transition, CollectableInv, TypeOK,
        Pointers, ghost, locals
<1>3. ASSUME NEW t \in Threads, PushCas(t) PROVE CollectableInv'
    BY <1>3 DEF PushCas, Transition, CollectableInv, TypeOK, Pointers, ghost, locals,
        HoldInv, Has
<1>4. ASSUME NEW t \in Threads, PopStart(t) \/ PopCount(t) \/ PopLoad(t) \/ PopReadNext(t)
    \/ PopRetry(t) \/ PopTake(t) PROVE CollectableInv'
    BY <1>4 DEF PopStart, PopCount, PopLoad, PopReadNext, PopRetry, PopTake, Transition,
        CollectableInv, TypeOK, Pointers, ghost, locals
<1>5. ASSUME NEW t \in Threads, PopCas(t) PROVE CollectableInv'
    BY <1>5, NullAssumption DEF PopCas, Transition, CollectableInv, TypeOK, Pointers, ghost,
        locals, PopInv, Popping, HeadInv
<1>6. ASSUME NEW t \in Threads, ClearStart(t) \/ ClearNothing(t) \/ ClearWalk(t) \/
    ClearTailFound(t) \/ Destroy(t) PROVE CollectableInv'
    BY <1>6 DEF ClearStart, ClearNothing, ClearWalk, ClearTailFound, Destroy, Transition,
        CollectableInv, TypeOK, Pointers, ghost, locals
<1>7. ASSUME NEW t \in Threads, ClearDetach(t) PROVE CollectableInv'
    BY <1>7 DEF ClearDetach, Transition, CollectableInv, TypeOK, Pointers, ghost, locals
<1>8. ASSUME NEW t \in Threads, CollectorLoad(t) \/ CollectorRetry(t) PROVE CollectableInv'
    BY <1>8 DEF CollectorLoad, CollectorRetry, Transition, CollectableInv, TypeOK, Pointers,
        ghost, locals
<1>9. ASSUME NEW t \in Threads, CollectorCas(t) PROVE CollectableInv'
    BY <1>9 DEF CollectorCas, Transition, CollectableInv, TypeOK, Pointers, ghost, locals,
        Has
<1>10. ASSUME NEW t \in Threads, TryLoad(t) PROVE CollectableInv'
    BY <1>10 DEF TryLoad, Transition, CollectableInv, TypeOK, Pointers, ghost, locals,
        HeadInv
<1>11. ASSUME NEW t \in Threads, TryCheck(t) \/ TryGiveUp(t) \/ TryDeleteEnd(t) \/ Leave(t)
    PROVE CollectableInv'
    BY <1>11 DEF TryCheck, TryGiveUp, TryDeleteEnd, Leave, Transition, CollectableInv,
        TypeOK, Pointers, ghost, locals
<1>12. ASSUME NEW t \in Threads, TryCas(t) PROVE CollectableInv'
    BY <1>12 DEF TryCas, Transition, CollectableInv, TypeOK, Pointers, ghost, locals
<1>13. ASSUME NEW t \in Threads, TryDelete(t) PROVE CollectableInv'
    BY <1>13 DEF TryDelete, Transition, CollectableInv, TypeOK, Pointers, ghost, locals,
        HeadInv, Places
<1>14. CASE UNCHANGED vars
    BY <1>14 DEF vars, CollectableInv, ghost, locals
<1>15. QED
    BY <1>1, <1>2, <1>3, <1>4, <1>5, <1>6, <1>7, <1>8, <1>9, <1>10, <1>11, <1>12, <1>13,
        <1>14 DEF Next, Step, Push, Pop, Clear, Collect, Terminated

LEMMA NextArmed ==
    ASSUME TwoIfRecycled, TypeOK, CountInv, SingleReaper, HoldInv, HeadInv, PopInv,
        CollectableInv, ArmedInv, [Next]_vars PROVE ArmedInv'
<1>1. ASSUME NEW t \in Threads, PushAllocate(t) PROVE ArmedInv'
    BY <1>1 DEF PushAllocate, Transition, ArmedInv, Popping, TypeOK, Pointers, coll, ghost,
        locals, PopInv
<1>2. ASSUME NEW t \in Threads, PushLoad(t) \/ PushRetry(t) PROVE ArmedInv'
    BY <1>2 DEF PushLoad, PushRetry, Transition, ArmedInv, Popping, TypeOK, Pointers, coll,
        ghost, locals
<1>3. ASSUME NEW t \in Threads, PushCount(t) PROVE ArmedInv'
    BY <1>3 DEF PushCount, Transition, ArmedInv, Popping, TypeOK, Pointers, coll, ghost,
        locals
<1>4. ASSUME NEW t \in Threads, PushCas(t) PROVE ArmedInv'
    BY <1>4 DEF PushCas, Transition, ArmedInv, Popping, TypeOK, Pointers, coll, ghost,
        locals, PopInv, HoldInv, Has
<1>5. ASSUME NEW t \in Threads, PopStart(t) \/ PopCount(t) PROVE ArmedInv'
    BY <1>5 DEF PopStart, PopCount, Transition, ArmedInv, Popping, TypeOK, Pointers, coll,
        ghost, locals
<1>6. ASSUME NEW t \in Threads, PopTake(t) \/ PopReadNext(t) PROVE ArmedInv'
    BY <1>6 DEF PopTake, PopReadNext, Transition, ArmedInv, Popping, TypeOK, Pointers, coll,
        ghost, locals
<1>7. ASSUME NEW t \in Threads, PopLoad(t) PROVE ArmedInv'
    BY <1>7, NullAssumption DEF PopLoad, Transition, ArmedInv, Popping, TypeOK, Pointers,
        coll, ghost, locals, HeadInv
<1>8. ASSUME NEW t \in Threads, PopRetry(t) PROVE ArmedInv'
    BY <1>8, NullAssumption DEF PopRetry, Transition, ArmedInv, Popping, TypeOK, Pointers,
        coll, ghost, locals, HeadInv
<1>9. ASSUME NEW t \in Threads, PopCas(t) PROVE ArmedInv'
    BY <1>9 DEF PopCas, Transition, ArmedInv, Popping, TypeOK, Pointers, coll, ghost,
        locals, PopInv
<1>10. ASSUME NEW t \in Threads, ClearStart(t) \/ ClearNothing(t) \/ ClearWalk(t) \/
    ClearTailFound(t) \/ Destroy(t) PROVE ArmedInv'
    BY <1>10 DEF ClearStart, ClearNothing, ClearWalk, ClearTailFound, Destroy, Transition,
        ArmedInv, Popping, TypeOK, Pointers, coll, ghost, locals
<1>11. ASSUME NEW t \in Threads, ClearDetach(t) PROVE ArmedInv'
    BY <1>11 DEF ClearDetach, Transition, ArmedInv, Popping, TypeOK, Pointers, coll, ghost,
        locals, PopInv
<1>12. ASSUME NEW t \in Threads, CollectorLoad(t) \/ CollectorRetry(t) PROVE ArmedInv'
    BY <1>12 DEF CollectorLoad, CollectorRetry, Transition, ArmedInv, Popping, TypeOK,
        Pointers, coll, ghost, locals
<1>13. ASSUME NEW t \in Threads, CollectorCas(t) PROVE ArmedInv'
  <2>1. /\ pc' = [pc EXCEPT ![t] = "try_load"] /\ pc[t] = "coll_cas"
        /\ collHead' = first[t] /\ UNCHANGED <<old, collectable>>
    BY <1>13 DEF CollectorCas, Transition, locals
  <2>2. first[t] \in Nodes /\ where[first[t]] = "held"
    BY <2>1 DEF HoldInv, Chained, Has
  <2>3. \A u \in Threads : ~Recycle /\ pc'[u] = "try_cas" => collectable[u] # first[t]
    BY <2>1, <2>2, NullAssumption DEF CollectableInv, TypeOK
  <2>4. CASE ~Recycle
    BY <2>1, <2>3, <2>4 DEF ArmedInv
  <2>5. CASE Recycle
    <3>1. ASSUME NEW u \in Threads, NEW v \in Threads, pc[u] = "try_cas", Popping(v)
          PROVE  FALSE
      <4>1. t \in CriticalSet /\ u \in CriticalSet /\ v \in CriticalSet
        BY <2>1, <3>1 DEF CriticalSet, Critical, Popping, PushLabels
      <4>2. t # u /\ u # v /\ v # t
        BY <2>1, <3>1 DEF Popping
      <4>3. clients > 2
        BY <4>1, <4>2, ThreeInside
      <4>4. QED
        BY <2>5, <4>3 DEF TwoIfRecycled, TypeOK
    <3>2. \A u \in Threads : pc'[u] = "try_cas" => pc[u] = "try_cas"
      BY <2>1 DEF TypeOK
    <3>3. \A u \in Threads : Popping(u)' => Popping(u)
      BY <2>1 DEF TypeOK, Popping
    <3>4. QED
      BY <3>1, <3>2, <3>3 DEF ArmedInv
  <2>6. QED
    BY <2>4, <2>5
<1>14. ASSUME NEW t \in Threads, TryLoad(t) \/ TryGiveUp(t) \/ TryDeleteEnd(t) \/ Leave(t)
    PROVE ArmedInv'
    BY <1>14 DEF TryLoad, TryGiveUp, TryDeleteEnd, Leave, Transition, ArmedInv, Popping,
        TypeOK, Pointers, coll, ghost, locals
<1>15. ASSUME NEW t \in Threads, TryCheck(t) PROVE ArmedInv'
  <2>1. CASE clients = 1
    <3>1. \A u \in Threads : pc[u] = "try_cas" \/ Popping(u) => u = t
        BY <1>15, <2>1, AloneWhenOne DEF TryCheck, Transition, Critical, Popping, PushLabels
    <3>2. QED
        BY <1>15, <3>1 DEF TryCheck, Transition, ArmedInv, Popping, TypeOK, coll, ghost, locals
  <2>2. CASE clients # 1
    BY <1>15, <2>2 DEF TryCheck, Transition, ArmedInv, Popping, TypeOK, coll, ghost, locals
  <2>3. QED
    BY <2>1, <2>2
<1>16. ASSUME NEW t \in Threads, TryCas(t) PROVE ArmedInv'
    BY <1>16 DEF TryCas, Transition, ArmedInv, Popping, TypeOK, Pointers, coll, ghost,
        locals, SingleReaper
<1>17. ASSUME NEW t \in Threads, TryDelete(t) PROVE ArmedInv'
    BY <1>17 DEF TryDelete, Transition, ArmedInv, Popping, TypeOK, Pointers, coll, ghost,
        locals, PopInv
<1>18. CASE UNCHANGED vars
    BY <1>18 DEF vars, ArmedInv, Popping, coll, ghost, locals
<1>19. QED
    BY <1>1, <1>2, <1>3, <1>4, <1>5, <1>6, <1>7, <1>8, <1>9, <1>10, <1>11, <1>12, <1>13,
        <1>14, <1>15, <1>16, <1>17, <1>18 DEF Next, Step, Push, Pop, Clear, Collect,
        Terminated

-----------------------------------------------------------------------------
(* The invariant and its consequences.                                     *)

LEMMA InitInv == Init => Inv
<1> SUFFICES ASSUME Init PROVE Inv
    OBVIOUS
<1>1. HoldInv /\ PopInv /\ CollectableInv /\ ArmedInv
    BY NullAssumption
    DEF Init, HoldInv, Has, Chained, PopInv, Popping, CollectableInv, ArmedInv
<1>2. HeadInv /\ LinkInv
    BY NullAssumption DEF Init, HeadInv, LinkInv
<1>3. QED
    BY <1>1, <1>2, InitType, InitCount, InitNonNull DEF Inv

LEMMA NextInv == ASSUME TwoIfRecycled, Inv, [Next]_vars PROVE Inv'
    BY NextType, NextNonNull, NextCount, NextReaper, NextHold, NextHead, NextLink, NextPop,
       NextCollectable, NextArmed
    DEF Inv

LEMMA InvSafeProgram == ASSUME SafeProgram, Inv PROVE TwoIfRecycled
    BY SafeProgramTwo DEF Inv

LEMMA InvIsInvariant == ASSUME SafeProgram PROVE Spec => []Inv
<1>1. Inv /\ [Next]_vars => Inv'
    BY NextInv, InvSafeProgram
<1>2. QED
    BY <1>1, InitInv, PTL DEF Spec

\* A node that somebody is about to read or write is not deleted.
LEMMA InvIsSafe == Inv => NoUseAfterFree
<1> SUFFICES ASSUME Inv, NEW t \in Threads, NEW n \in Touched(t)
             PROVE  where[n] \notin {"free", "deleted"}
    BY DEF NoUseAfterFree
<1> USE DEF Inv
<1>1. CASE pc[t] \in {"push_load", "push_cas", "pop_take"}
    BY <1>1 DEF Touched, HoldInv, Chained, Has
<1>2. CASE pc[t] = "pop_next"
    BY <1>2 DEF Touched, PopInv, Popping
<1>3. CASE pc[t] \in {"clear_tail", "coll_load", "coll_cas"}
    BY <1>3 DEF Touched, HoldInv, Chained, Has
<1>4. CASE pc[t] = "try_delete"
    BY <1>4 DEF Touched, HeadInv
<1>5. QED
    BY <1>1, <1>2, <1>3, <1>4 DEF Touched

\* The successor that a pop is about to install is the one its node has.
LEMMA InvNotStale == Inv => NoStaleSuccessor
    BY DEF Inv, NoStaleSuccessor, PopInv, Popping, HeadInv

\* If deleted blocks are not handed out again, or there are at most two threads,
\* then for any number of nodes and calls no step of push, pop, clear,
\* try_collect or the destructor reads or writes a deleted node.
THEOREM MemorySafety == ASSUME SafeProgram PROVE Spec => []NoUseAfterFree
    BY InvIsSafe, InvIsInvariant, PTL

\* Under the same condition a pop whose compare-and-swap succeeds installs the
\* current successor of the node it unhooks: there is no ABA on _head.
THEOREM NoAba == ASSUME SafeProgram PROVE Spec => []NoStaleSuccessor
    BY InvNotStale, InvIsInvariant, PTL

\* A node is detached for deletion by try_collect only, when no pop looks at it.
Reclaim ==
    \A n \in Nodes : where[n] = "dead" /\ where'[n] = "doomed" =>
        \A t \in Threads : pc[t] \in {"pop_next", "pop_cas"} => old[t] # n

LEMMA NextReclaim == ASSUME Inv, [Next]_vars PROVE Reclaim
<1> SUFFICES ASSUME NEW n \in Nodes, where[n] = "dead", where'[n] = "doomed",
                    NEW u \in Threads, Popping(u)
             PROVE  old[u] # n
    BY DEF Reclaim, Popping
<1>1. PICK t \in Threads : Step(t)
    BY DEF Next, Terminated, vars, ghost
<1>2. TryCas(t)
    BY <1>1
    DEF Inv, TypeOK, Step, ghost,
        Push, PushAllocate, PushLoad, PushCas, PushRetry, PushCount,
        Pop, PopStart, PopCount, PopLoad, PopReadNext, PopCas, PopRetry, PopTake,
        Clear, ClearStart, ClearNothing, ClearDetach, ClearWalk, ClearTailFound, Destroy,
        Collect, CollectorLoad, CollectorCas, CollectorRetry, TryLoad, TryCheck, TryGiveUp,
        TryDelete, TryDeleteEnd, Leave
<1>3. QED
    BY <1>2 DEF Inv, ArmedInv, TryCas, Transition

\* Under the same condition no node is taken for deletion under the eyes of a
\* pop that has loaded it from _head.
THEOREM SafeReclamation == ASSUME SafeProgram PROVE Spec => ReclaimIsSafe
<1>1. Inv /\ [Next]_vars => [Reclaim]_vars
    BY NextReclaim
<1>2. QED
    BY <1>1, InvIsInvariant, PTL DEF Spec, ReclaimIsSafe, Reclaim

-----------------------------------------------------------------------------
(* No node is lost: what the heads of the stack and of the collector lead  *)
(* to is all that belongs there, and the destructor leaves nothing.  A     *)
(* list is whole when no part of it that has its first node and is closed  *)
(* under the links leaves a node out.                                      *)

\* The nodes of each list, and those in the hands of a thread.
At(place)   == {n \in Nodes : where[n] = place}
HeldBy(t)   == {n \in Nodes : Has(t, n)}
DoomedBy(t) == {n \in Nodes : where[n] = "doomed" /\ holder[n] = t}

\* Who starts at p and follows the links does not leave S.
Leads(p, S) == p \in S \cup {NULL} /\ \A n \in S : next[n] \in S \cup {NULL}

\* No list has a node that its first one does not lead to.  It is said of each
\* part of the list, since there is no induction along the links.
StackWhole == \A S \in SUBSET At("stack") : Leads(head, S) => S = At("stack")
DeadWhole  == \A S \in SUBSET At("dead") : Leads(collHead, S) => S = At("dead")

\* The end of a chain is the node that has no successor; when the thread has
\* reached that node, its next field is for the collector.
Ends(t, n) == next[n] = NULL \/ (pc[t] # "clear_tail" /\ n = last[t])

ChainWhole(t) ==
    Chained(t) => \A S \in SUBSET HeldBy(t) :
        first[t] \in S /\ (\A n \in S : next[n] \in S \/ Ends(t, n)) => S = HeldBy(t)

DoomedWhole(t) ==
    IF pc[t] = "try_delete"
    THEN \A S \in SUBSET DoomedBy(t) : Leads(collectable[t], S) => S = DoomedBy(t)
    ELSE DoomedBy(t) = {}

WholeInv ==
    /\ StackWhole /\ DeadWhole
    /\ \A t \in Threads : ChainWhole(t) /\ DoomedWhole(t)
    /\ \A n \in At("doomed") : holder[n] \in Threads

-----------------------------------------------------------------------------
(* Steps that do not touch a list.                                         *)

LEMMA StackKept ==
    ASSUME StackWhole, At("stack")' = At("stack"), head' = head,
           \A n \in At("stack") : next'[n] = next[n]
    PROVE  StackWhole'
    BY DEF StackWhole, Leads

LEMMA DeadKept ==
    ASSUME DeadWhole, At("dead")' = At("dead"), collHead' = collHead,
           \A n \in At("dead") : next'[n] = next[n]
    PROVE  DeadWhole'
    BY DEF DeadWhole, Leads

LEMMA ChainKept ==
    ASSUME NEW t \in Threads, ChainWhole(t), Chained(t)' => Chained(t),
           HeldBy(t)' = HeldBy(t), first'[t] = first[t], pc'[t] = "clear_tail" <=> pc[t] = "clear_tail",
           pc[t] = "clear_tail" \/ last'[t] = last[t],
           \A n \in HeldBy(t) : next'[n] = next[n] \/ (pc[t] # "clear_tail" /\ n = last[t])
    PROVE  ChainWhole(t)'
    BY DEF ChainWhole, Ends

LEMMA DoomedKept ==
    ASSUME NEW t \in Threads, DoomedWhole(t), DoomedBy(t)' = DoomedBy(t),
           pc'[t] = "try_delete" <=> pc[t] = "try_delete",
           pc[t] = "try_delete" => collectable'[t] = collectable[t],
           \A n \in DoomedBy(t) : next'[n] = next[n]
    PROVE  DoomedWhole(t)'
    BY DEF DoomedWhole, Leads

\* What a thread does does not change what another one has.
LEMMA OthersKept ==
    ASSUME TypeOK, WholeInv, NEW t \in Threads, NEW u \in Threads \ {t},
           UNCHANGED <<pc[u], first[u], last[u], collectable[u]>>,
           HeldBy(u)' = HeldBy(u), DoomedBy(u)' = DoomedBy(u),
           \A n \in HeldBy(u) \cup DoomedBy(u) : next'[n] = next[n]
    PROVE  ChainWhole(u)' /\ DoomedWhole(u)'
<1>1. ChainWhole(u) /\ DoomedWhole(u) /\ (Chained(u)' <=> Chained(u))
    BY DEF WholeInv, Chained
<1>2. QED
    BY <1>1, ChainKept, DoomedKept

\* A step by one thread that moves no node and sets no link of a list.
LEMMA QuietKept ==
    ASSUME TypeOK, WholeInv, NEW t \in Threads,
           UNCHANGED <<where, holder, head, collHead>>,
           \A n \in Nodes : next'[n] = next[n] \/ Has(t, n),
           \A u \in Threads \ {t} : UNCHANGED <<pc[u], first[u], last[u], collectable[u]>>,
           ChainWhole(t)', DoomedWhole(t)'
    PROVE  WholeInv'
<1>1. /\ \A p \in Places : At(p)' = At(p)
      /\ \A u \in Threads : HeldBy(u)' = HeldBy(u) /\ DoomedBy(u)' = DoomedBy(u)
    BY DEF At, HeldBy, DoomedBy, Has
<1>2. \A n \in Nodes : where[n] # "held" => next'[n] = next[n]
    BY DEF Has
<1>3. StackWhole' /\ DeadWhole'
  <2>1. StackWhole /\ DeadWhole
    BY DEF WholeInv
  <2>2. At("stack")' = At("stack") /\ At("dead")' = At("dead")
    BY <1>1 DEF Places
  <2>3. \A n \in At("stack") \cup At("dead") : next'[n] = next[n]
    BY <1>2 DEF At
  <2>4. QED
    BY <2>1, <2>2, <2>3, StackKept, DeadKept
<1>4. ASSUME NEW u \in Threads \ {t} PROVE ChainWhole(u)' /\ DoomedWhole(u)'
  <2>1. \A n \in HeldBy(u) \cup DoomedBy(u) : next'[n] = next[n]
    BY <1>2 DEF HeldBy, DoomedBy, Has
  <2>2. QED
    BY <1>1, <1>4, <2>1, OthersKept
<1>5. \A n \in At("doomed")' : holder'[n] \in Threads
    BY DEF WholeInv, At
<1>6. QED
    BY <1>3, <1>4, <1>5 DEF WholeInv

\* Steps of a thread that is and will be outside of a chain.
LEMMA WholeOutside ==
    ASSUME Inv, WholeInv, NEW t \in Threads,
           \/ PushLoad(t) \/ PushRetry(t) \/ PushCount(t) \/ PopStart(t) \/ PopCount(t) \/ PopLoad(t)
           \/ PopReadNext(t) \/ PopRetry(t) \/ ClearStart(t) \/ ClearNothing(t) \/ TryLoad(t)
           \/ TryCheck(t) \/ TryGiveUp(t) \/ Leave(t) \/ Destroy(t)
    PROVE  WholeInv'
<1> USE DEF PushLoad, PushRetry, PushCount, PopStart, PopCount, PopLoad, PopReadNext, PopRetry, ClearStart,
        ClearNothing, TryLoad, TryCheck, TryGiveUp, Leave, Destroy, Transition, heads, coll, ghost,
        memory, locals, calls
<1>1. UNCHANGED <<where, holder, head, collHead>>
    OBVIOUS
<1>2. \A n \in Nodes : next'[n] = next[n] \/ Has(t, n)
    BY DEF Inv, HoldInv, TypeOK
<1>3. \A u \in Threads \ {t} : UNCHANGED <<pc[u], first[u], last[u], collectable[u]>>
    BY DEF Inv, TypeOK
<1>4. pc[t] # "try_delete" /\ pc'[t] # "try_delete" /\ ~Chained(t)'
    BY DEF Inv, TypeOK, Chained
<1>5. DoomedBy(t)' = {}
    BY <1>1, <1>4 DEF WholeInv, DoomedWhole, DoomedBy
<1>6. ChainWhole(t)' /\ DoomedWhole(t)'
    BY <1>4, <1>5 DEF ChainWhole, DoomedWhole
<1>7. QED
    BY <1>1, <1>2, <1>3, <1>6, QuietKept DEF Inv

\* Steps of a thread that has a chain, or a collection, and keeps it.
LEMMA WholeInside ==
    ASSUME Inv, WholeInv, NEW t \in Threads,
           \/ PopTake(t) \/ ClearWalk(t) \/ ClearTailFound(t) \/ CollectorLoad(t) \/ CollectorRetry(t)
    PROVE  WholeInv'
<1> USE DEF PopTake, ClearWalk, ClearTailFound, CollectorLoad, CollectorRetry, Transition, heads, coll, ghost,
        memory, locals, calls
<1>1. UNCHANGED <<where, holder, head, collHead>>
    OBVIOUS
<1>2. \A n \in Nodes : next'[n] = next[n] \/ (pc[t] \in {"coll_load", "coll_cas"} /\ n = last[t])
    BY DEF Inv, TypeOK
<1>3. Chained(t) /\ Has(t, last[t])
    BY DEF Inv, HoldInv, Chained
<1>4. \A u \in Threads \ {t} : UNCHANGED <<pc[u], first[u], last[u], collectable[u]>>
    BY DEF Inv, TypeOK
<1>5. pc[t] # "try_delete" /\ pc'[t] # "try_delete" /\ first'[t] = first[t] /\ HeldBy(t)' = HeldBy(t)
    BY <1>1 DEF Inv, TypeOK, HeldBy, Has
<1>6. DoomedWhole(t)'
    BY <1>1, <1>5 DEF WholeInv, DoomedWhole, DoomedBy
<1>7. ChainWhole(t)'
  <2>1. CASE ClearTailFound(t)
    <3>1. /\ pc[t] = "clear_tail" /\ next[last[t]] = NULL /\ pc'[t] = "coll_load"
          /\ UNCHANGED <<next, last>>
        BY <2>1 DEF Inv, TypeOK
    <3>2. \A n \in Nodes : Ends(t, n)' => Ends(t, n)
        BY <3>1 DEF Ends
    <3>3. SUFFICES ASSUME NEW S \in SUBSET HeldBy(t), first[t] \in S,
                          \A n \in S : next[n] \in S \/ Ends(t, n)'
                   PROVE  S = HeldBy(t)
        BY <1>5, <3>1 DEF ChainWhole
    <3>4. \A n \in S : next[n] \in S \/ Ends(t, n)
        BY <3>2, <3>3 DEF HeldBy
    <3>5. QED
        BY <1>3, <3>3, <3>4 DEF WholeInv, ChainWhole
  <2>2. CASE ~ClearTailFound(t)
    <3>1. ChainWhole(t) /\ (pc'[t] = "clear_tail" <=> pc[t] = "clear_tail")
          /\ (pc[t] = "clear_tail" \/ last'[t] = last[t])
        BY <2>2 DEF WholeInv, Inv, TypeOK
    <3>2. \A n \in HeldBy(t) : next'[n] = next[n] \/ (pc[t] # "clear_tail" /\ n = last[t])
        BY <1>2 DEF HeldBy
    <3>3. QED
        BY <1>3, <1>5, <3>1, <3>2, ChainKept
  <2>3. QED
    BY <2>1, <2>2
<1>8. \A n \in Nodes : next'[n] = next[n] \/ Has(t, n)
    BY <1>2, <1>3
<1>9. QED
    BY <1>1, <1>4, <1>6, <1>7, <1>8, QuietKept DEF Inv

-----------------------------------------------------------------------------
(* Steps that move nodes.                                                  *)

\* A block that is allocated was on no list.
LEMMA WholePushAllocate ==
    ASSUME Inv, WholeInv, NEW t \in Threads, PushAllocate(t) PROVE WholeInv'
<1>1. PICK n \in Nodes : /\ where[n] = "free"
                         /\ where' = [where EXCEPT ![n] = "held"]
                         /\ holder' = [holder EXCEPT ![n] = t]
                         /\ first' = [first EXCEPT ![t] = n]
    BY DEF PushAllocate
<1>2. /\ pc[t] = "idle" /\ pc' = [pc EXCEPT ![t] = "push_load"]
      /\ UNCHANGED <<next, last, collectable, head, collHead>>
    BY DEF PushAllocate, Transition, heads, coll
<1>3. At("stack")' = At("stack") /\ At("dead")' = At("dead") /\ At("doomed")' = At("doomed")
    BY <1>1 DEF At, Inv, TypeOK
<1>4. \A u \in Threads : DoomedBy(u)' = DoomedBy(u) /\ (u # t => HeldBy(u)' = HeldBy(u))
    BY <1>1 DEF DoomedBy, HeldBy, Has, Inv, TypeOK
<1>5. StackWhole' /\ DeadWhole'
    BY <1>2, <1>3, StackKept, DeadKept DEF WholeInv
<1>6. ASSUME NEW u \in Threads \ {t} PROVE ChainWhole(u)' /\ DoomedWhole(u)'
  <2>1. UNCHANGED <<pc[u], first[u], last[u], collectable[u]>>
    BY <1>1, <1>2 DEF Inv, TypeOK
  <2>2. QED
    BY <1>2, <1>4, <2>1, OthersKept DEF Inv
<1>7. pc'[t] = "push_load"
    BY <1>2 DEF Inv, TypeOK
<1>8. ChainWhole(t)' /\ DoomedWhole(t)'
    BY <1>2, <1>4, <1>7 DEF WholeInv, ChainWhole, DoomedWhole, Chained
<1>9. \A m \in At("doomed")' : holder'[m] \in Threads
    BY <1>1, <1>3 DEF WholeInv, At, Inv, TypeOK
<1>10. QED
    BY <1>5, <1>6, <1>8, <1>9 DEF WholeInv

\* The pushed node leads to the former first one.
LEMMA WholePushCas ==
    ASSUME Inv, WholeInv, NEW t \in Threads, PushCas(t) PROVE WholeInv'
<1>0. PICK f \in Nodes : f = first[t]
    BY DEF PushCas, Transition, Inv, HoldInv
<1>1. /\ pc[t] = "push_cas" /\ pc' = [pc EXCEPT ![t] = "push_count"]
      /\ head = next[f] /\ head' = f
      /\ where' = [where EXCEPT ![f] = "stack"]
      /\ holder' = [holder EXCEPT ![f] = NULL]
      /\ UNCHANGED <<next, first, last, collectable, collHead>>
    BY <1>0 DEF PushCas, Transition, coll, memory, locals
<1>2. Has(t, f)
    BY <1>0, <1>1 DEF Inv, HoldInv
<1>3. /\ At("stack")' = At("stack") \cup {f} /\ f \notin At("stack")
      /\ At("dead")' = At("dead") /\ At("doomed")' = At("doomed")
    BY <1>1, <1>2 DEF At, Has, Inv, TypeOK
<1>4. \A u \in Threads : DoomedBy(u)' = DoomedBy(u) /\ (u # t => HeldBy(u)' = HeldBy(u))
    BY <1>1, <1>2, NullAssumption DEF DoomedBy, HeldBy, Has, Inv, TypeOK
<1>5. StackWhole'
  <2>1. SUFFICES ASSUME NEW S \in SUBSET At("stack")', Leads(head, S)' PROVE S = At("stack")'
    BY DEF StackWhole
  <2> DEFINE R == S \ {f}
  <2>2. f \in S /\ \A n \in S : next[n] \in S \cup {NULL}
    BY <1>0, <1>1, <2>1, NullAssumption DEF Leads
  <2>3. \A n \in R : n \in At("stack") /\ next[n] # f
    BY <1>2, <1>3, NullAssumption DEF At, Has, Inv, LinkInv, Linked
  <2>4. R \in SUBSET At("stack") /\ Leads(head, R)
    <3>1. head # f
        BY <1>2, NullAssumption DEF Has, Inv, HeadInv
    <3>2. QED
        BY <1>1, <2>2, <2>3, <3>1 DEF Leads
  <2>5. R = At("stack")
    BY <2>4 DEF WholeInv, StackWhole
  <2>6. QED
    BY <1>3, <2>2, <2>5
<1>6. DeadWhole'
    BY <1>1, <1>3, DeadKept DEF WholeInv
<1>7. ASSUME NEW u \in Threads \ {t} PROVE ChainWhole(u)' /\ DoomedWhole(u)'
  <2>1. UNCHANGED <<pc[u], first[u], last[u], collectable[u]>>
    BY <1>1 DEF Inv, TypeOK
  <2>2. QED
    BY <1>1, <1>4, <2>1, OthersKept DEF Inv
<1>8. pc'[t] = "push_count"
    BY <1>1 DEF Inv, TypeOK
<1>9. ChainWhole(t)' /\ DoomedWhole(t)'
    BY <1>1, <1>4, <1>8 DEF WholeInv, ChainWhole, DoomedWhole, Chained
<1>10. \A m \in At("doomed")' : holder'[m] \in Threads
    BY <1>1, <1>2, <1>3 DEF WholeInv, At, Has, Inv, TypeOK
<1>11. QED
    BY <1>5, <1>6, <1>7, <1>9, <1>10 DEF WholeInv

\* The new first node was the successor of the one that is unhooked.
LEMMA WholePopCas ==
    ASSUME Inv, WholeInv, NEW t \in Threads, PopCas(t) PROVE WholeInv'
<1>0. PICK o \in Nodes : o = old[t]
    BY DEF PopCas, Transition, Inv, PopInv, Popping
<1>1. /\ pc[t] = "pop_cas" /\ pc' = [pc EXCEPT ![t] = "pop_take"]
      /\ head = o /\ head' = next[o] /\ where[o] = "stack"
      /\ first' = [first EXCEPT ![t] = o] /\ last' = [last EXCEPT ![t] = o]
      /\ where' = [where EXCEPT ![o] = "held"]
      /\ holder' = [holder EXCEPT ![o] = t]
      /\ UNCHANGED <<next, collectable, collHead>>
    BY <1>0, NullAssumption DEF PopCas, Transition, coll, memory, Inv, PopInv, Popping, HeadInv
<1>2. \A n \in Nodes : ~Has(t, n)
    BY <1>1 DEF Inv, HoldInv, Chained
<1>3. /\ At("stack")' = At("stack") \ {o} /\ o \in At("stack")
      /\ At("dead")' = At("dead") /\ At("doomed")' = At("doomed")
    BY <1>1 DEF At, Inv, TypeOK
<1>4. /\ \A u \in Threads : DoomedBy(u)' = DoomedBy(u) /\ (u # t => HeldBy(u)' = HeldBy(u))
      /\ HeldBy(t)' = {o}
    BY <1>1, <1>2 DEF DoomedBy, HeldBy, Has, Inv, TypeOK
<1>5. StackWhole'
  <2>1. SUFFICES ASSUME NEW S \in SUBSET At("stack")', Leads(head, S)' PROVE S = At("stack")'
    BY DEF StackWhole
  <2> DEFINE R == S \cup {o}
  <2>2. R \in SUBSET At("stack") /\ Leads(head, R)
    BY <1>1, <1>3, <2>1 DEF Leads
  <2>3. R = At("stack") /\ o \notin S
    BY <1>3, <2>1, <2>2 DEF WholeInv, StackWhole
  <2>4. QED
    BY <1>3, <2>3
<1>6. DeadWhole'
    BY <1>1, <1>3, DeadKept DEF WholeInv
<1>7. ASSUME NEW u \in Threads \ {t} PROVE ChainWhole(u)' /\ DoomedWhole(u)'
  <2>1. UNCHANGED <<pc[u], first[u], last[u], collectable[u]>>
    BY <1>1 DEF Inv, TypeOK
  <2>2. QED
    BY <1>1, <1>4, <2>1, OthersKept DEF Inv
<1>8. pc'[t] = "pop_take" /\ first'[t] = o
    BY <1>1 DEF Inv, TypeOK
<1>9. ChainWhole(t)' /\ DoomedWhole(t)'
  <2>1. ChainWhole(t)'
    BY <1>4, <1>8 DEF ChainWhole
  <2>2. DoomedWhole(t)'
    BY <1>1, <1>4, <1>8 DEF WholeInv, DoomedWhole
  <2>3. QED
    BY <2>1, <2>2
<1>10. \A m \in At("doomed")' : holder'[m] \in Threads
    BY <1>1, <1>3 DEF WholeInv, At, Inv, TypeOK
<1>11. QED
    BY <1>5, <1>6, <1>7, <1>9, <1>10 DEF WholeInv

\* The stack becomes the chain of the thread.
LEMMA WholeClearDetach ==
    ASSUME Inv, WholeInv, NEW t \in Threads, ClearDetach(t) PROVE WholeInv'
<1>1. /\ pc[t] = "clear_detach" /\ pc' = [pc EXCEPT ![t] = "clear_tail"]
      /\ head # NULL /\ head' = NULL
      /\ first' = [first EXCEPT ![t] = head] /\ last' = [last EXCEPT ![t] = head]
      /\ where' = [n \in Nodes |-> IF where[n] = "stack" THEN "held" ELSE where[n]]
      /\ holder' = [n \in Nodes |-> IF where[n] = "stack" THEN t ELSE holder[n]]
      /\ UNCHANGED <<next, collectable, collHead>>
    BY DEF ClearDetach, Transition, coll, memory
<1>2. \A n \in Nodes : ~Has(t, n)
    BY <1>1 DEF Inv, HoldInv, Chained
<1>3. /\ At("stack")' = {} /\ At("dead")' = At("dead") /\ At("doomed")' = At("doomed")
      /\ HeldBy(t)' = At("stack")
    BY <1>1, <1>2 DEF At, HeldBy, Has, Inv, TypeOK
<1>4. \A u \in Threads : DoomedBy(u)' = DoomedBy(u) /\ (u # t => HeldBy(u)' = HeldBy(u))
    BY <1>1 DEF DoomedBy, HeldBy, Has, Inv, TypeOK
<1>5. StackWhole' /\ DeadWhole'
    BY <1>1, <1>3, DeadKept DEF WholeInv, StackWhole
<1>6. ASSUME NEW u \in Threads \ {t} PROVE ChainWhole(u)' /\ DoomedWhole(u)'
  <2>1. UNCHANGED <<pc[u], first[u], last[u], collectable[u]>>
    BY <1>1 DEF Inv, TypeOK
  <2>2. QED
    BY <1>1, <1>4, <2>1, OthersKept DEF Inv
<1>7. pc'[t] = "clear_tail" /\ first'[t] = head
    BY <1>1 DEF Inv, TypeOK
<1>8. ChainWhole(t)'
  <2>1. SUFFICES ASSUME NEW S \in SUBSET At("stack"), head \in S,
                        \A n \in S : next[n] \in S \/ next[n] = NULL
                 PROVE  S = At("stack")
    BY <1>1, <1>3, <1>7 DEF ChainWhole, Ends
  <2>2. Leads(head, S)
    BY <2>1 DEF Leads
  <2>3. QED
    BY <2>2 DEF WholeInv, StackWhole
<1>9. DoomedWhole(t)'
    BY <1>1, <1>4, <1>7 DEF WholeInv, DoomedWhole
<1>10. \A m \in At("doomed")' : holder'[m] \in Threads
    BY <1>1, <1>3 DEF WholeInv, At, Inv, TypeOK
<1>11. QED
    BY <1>5, <1>6, <1>8, <1>9, <1>10 DEF WholeInv

\* The last node of the chain leads to the former first one of the collector.
LEMMA WholeCollectorCas ==
    ASSUME Inv, WholeInv, NEW t \in Threads, CollectorCas(t) PROVE WholeInv'
<1>0. PICK f \in Nodes, l \in Nodes : f = first[t] /\ l = last[t]
    BY DEF CollectorCas, Transition, Inv, HoldInv, Chained
<1>1. /\ pc[t] = "coll_cas" /\ pc' = [pc EXCEPT ![t] = "try_load"]
      /\ collHead = next[l] /\ collHead' = f
      /\ where' = [n \in Nodes |-> IF Has(t, n) THEN "dead" ELSE where[n]]
      /\ holder' = [n \in Nodes |-> IF Has(t, n) THEN NULL ELSE holder[n]]
      /\ UNCHANGED <<next, first, last, collectable, head>>
    BY <1>0 DEF CollectorCas, Transition, heads, memory, locals
<1>2. Has(t, f) /\ Has(t, l) /\ Chained(t)
    BY <1>0, <1>1 DEF Inv, HoldInv, Chained
<1>3. /\ At("dead")' = At("dead") \cup HeldBy(t) /\ At("dead") \cap HeldBy(t) = {}
      /\ At("stack")' = At("stack") /\ At("doomed")' = At("doomed")
    BY <1>1 DEF At, HeldBy, Has, Inv, TypeOK
<1>4. \A u \in Threads : DoomedBy(u)' = DoomedBy(u) /\ (u # t => HeldBy(u)' = HeldBy(u))
    BY <1>1, NullAssumption DEF DoomedBy, HeldBy, Has, Inv, TypeOK
<1>5. DeadWhole'
  <2>1. SUFFICES ASSUME NEW S \in SUBSET At("dead")', Leads(collHead, S)' PROVE S = At("dead")'
    BY DEF DeadWhole
  <2> DEFINE H == S \cap HeldBy(t)
             D == S \cap At("dead")
  <2>2. f \in S /\ \A n \in S : next[n] \in S \cup {NULL}
    BY <1>0, <1>1, <2>1, NullAssumption DEF Leads
  <2>3. ASSUME NEW n \in H PROVE next[n] \in H \/ Ends(t, n)
    <3>1. n # l /\ next[n] # NULL => Has(t, next[n])
        BY <1>0, <1>1, <1>2, <2>3 DEF HeldBy, Has, Inv, LinkInv, Linked
    <3>2. QED
        BY <1>0, <1>1, <2>2, <2>3, <3>1 DEF Ends, HeldBy, Inv, TypeOK, Pointers
  <2>4. H = HeldBy(t)
    BY <1>0, <1>2, <2>2, <2>3 DEF WholeInv, ChainWhole, HeldBy
  <2>5. Leads(collHead, D)
    BY <1>0, <1>1, <1>2, <2>2, <2>4 DEF Leads, HeldBy, At, Inv, HeadInv, LinkInv, Linked
  <2>6. D = At("dead")
    BY <2>5 DEF WholeInv, DeadWhole
  <2>7. QED
    BY <1>3, <2>4, <2>6
<1>6. StackWhole'
    BY <1>1, <1>3, StackKept DEF WholeInv
<1>7. ASSUME NEW u \in Threads \ {t} PROVE ChainWhole(u)' /\ DoomedWhole(u)'
  <2>1. UNCHANGED <<pc[u], first[u], last[u], collectable[u]>>
    BY <1>1 DEF Inv, TypeOK
  <2>2. QED
    BY <1>1, <1>4, <2>1, OthersKept DEF Inv
<1>8. pc'[t] = "try_load"
    BY <1>1 DEF Inv, TypeOK
<1>9. ChainWhole(t)' /\ DoomedWhole(t)'
    BY <1>1, <1>4, <1>8 DEF WholeInv, ChainWhole, DoomedWhole, Chained
<1>10. \A m \in At("doomed")' : holder'[m] \in Threads
    BY <1>1, <1>3 DEF WholeInv, At, Has, Inv, TypeOK
<1>11. QED
    BY <1>5, <1>6, <1>7, <1>9, <1>10 DEF WholeInv

\* The collection becomes that of the thread.
LEMMA WholeTryCas ==
    ASSUME Inv, WholeInv, NEW t \in Threads, TryCas(t) PROVE WholeInv'
<1>1. /\ pc[t] = "try_cas" /\ pc' = [pc EXCEPT ![t] = "try_delete"]
      /\ collHead = collectable[t] /\ collHead' = NULL
      /\ where' = [n \in Nodes |-> IF where[n] = "dead" THEN "doomed" ELSE where[n]]
      /\ holder' = [n \in Nodes |-> IF where[n] = "dead" THEN t ELSE holder[n]]
      /\ UNCHANGED <<next, first, last, collectable, head>>
    BY DEF TryCas, Transition, heads, memory, locals
<1>2. DoomedBy(t) = {}
    BY <1>1 DEF WholeInv, DoomedWhole
<1>3. /\ At("dead")' = {} /\ At("stack")' = At("stack") /\ DoomedBy(t)' = At("dead")
    BY <1>1, <1>2 DEF At, DoomedBy, Inv, TypeOK
<1>4. \A u \in Threads : (u # t => DoomedBy(u)' = DoomedBy(u)) /\ HeldBy(u)' = HeldBy(u)
    BY <1>1 DEF DoomedBy, HeldBy, Has, Inv, TypeOK
<1>5. StackWhole' /\ DeadWhole'
    BY <1>1, <1>3, StackKept DEF WholeInv, DeadWhole
<1>6. ASSUME NEW u \in Threads \ {t} PROVE ChainWhole(u)' /\ DoomedWhole(u)'
  <2>1. UNCHANGED <<pc[u], first[u], last[u], collectable[u]>>
    BY <1>1 DEF Inv, TypeOK
  <2>2. QED
    BY <1>1, <1>4, <2>1, OthersKept DEF Inv
<1>7. pc'[t] = "try_delete"
    BY <1>1 DEF Inv, TypeOK
<1>8. ChainWhole(t)'
    BY <1>7 DEF ChainWhole, Chained
<1>9. DoomedWhole(t)'
    BY <1>1, <1>3, <1>7 DEF WholeInv, DeadWhole, DoomedWhole, Leads
<1>10. \A m \in At("doomed")' : holder'[m] \in Threads
    BY <1>1 DEF WholeInv, At, Inv, TypeOK
<1>11. QED
    BY <1>5, <1>6, <1>8, <1>9, <1>10 DEF WholeInv

\* The next node to delete was the successor of the one that is deleted.
LEMMA WholeTryDelete ==
    ASSUME Inv, WholeInv, NEW t \in Threads, TryDelete(t) PROVE WholeInv'
<1>0. PICK c \in Nodes : c = collectable[t]
    BY DEF TryDelete, Inv, TypeOK, Pointers
<1>1. /\ pc[t] = "try_delete" /\ UNCHANGED pc
      /\ collectable' = [collectable EXCEPT ![t] = next[c]]
      /\ where' = [where EXCEPT ![c] = IF Recycle THEN "free" ELSE "deleted"]
      /\ holder' = [holder EXCEPT ![c] = NULL]
      /\ UNCHANGED <<next, first, last, head, collHead>>
    BY <1>0 DEF TryDelete, Transition, heads, coll, memory, Inv, TypeOK
<1>2. where[c] = "doomed" /\ holder[c] = t
    BY <1>0, <1>1, NullAssumption DEF Inv, HeadInv
<1>3. /\ At("dead")' = At("dead") /\ At("stack")' = At("stack") /\ At("doomed")' = At("doomed") \ {c}
      /\ DoomedBy(t)' = DoomedBy(t) \ {c} /\ c \in DoomedBy(t)
    BY <1>1, <1>2 DEF At, DoomedBy, Inv, TypeOK
<1>4. \A u \in Threads : (u # t => DoomedBy(u)' = DoomedBy(u)) /\ HeldBy(u)' = HeldBy(u)
    BY <1>1, <1>2 DEF DoomedBy, HeldBy, Has, Inv, TypeOK
<1>5. StackWhole' /\ DeadWhole'
    BY <1>1, <1>3, StackKept, DeadKept DEF WholeInv
<1>6. ASSUME NEW u \in Threads \ {t} PROVE ChainWhole(u)' /\ DoomedWhole(u)'
  <2>1. UNCHANGED <<pc[u], first[u], last[u], collectable[u]>>
    BY <1>1 DEF Inv, TypeOK
  <2>2. QED
    BY <1>1, <1>4, <2>1, OthersKept DEF Inv
<1>7. pc'[t] = "try_delete" /\ collectable'[t] = next[c]
    BY <1>1 DEF Inv, TypeOK
<1>8. ChainWhole(t)'
    BY <1>7 DEF ChainWhole, Chained
<1>9. DoomedWhole(t)'
  <2>1. SUFFICES ASSUME NEW S \in SUBSET (DoomedBy(t) \ {c}), next[c] \in S \cup {NULL},
                        \A n \in S : next[n] \in S \cup {NULL}
                 PROVE  S = DoomedBy(t) \ {c}
    BY <1>1, <1>3, <1>7 DEF DoomedWhole, Leads
  <2> DEFINE R == S \cup {c}
  <2>2. R \in SUBSET DoomedBy(t) /\ Leads(c, R)
    BY <1>3, <2>1 DEF Leads
  <2>3. R = DoomedBy(t)
    BY <1>0, <1>1, <2>2 DEF WholeInv, DoomedWhole
  <2>4. QED
    BY <2>1, <2>3
<1>10. \A m \in At("doomed")' : holder'[m] \in Threads
    BY <1>1, <1>3 DEF WholeInv, At, Inv, TypeOK
<1>11. QED
    BY <1>5, <1>6, <1>8, <1>9, <1>10 DEF WholeInv

\* The collection ends when there is no next node, and all nodes are deleted.
LEMMA WholeTryDeleteEnd ==
    ASSUME Inv, WholeInv, NEW t \in Threads, TryDeleteEnd(t) PROVE WholeInv'
<1>1. /\ pc[t] = "try_delete" /\ pc' = [pc EXCEPT ![t] = "leave"] /\ collectable[t] = NULL
      /\ UNCHANGED <<where, holder, head, collHead, next, first, last, collectable>>
    BY DEF TryDeleteEnd, Transition, heads, coll, memory, ghost, locals
<1>2. DoomedBy(t) = {}
  <2>1. Leads(collectable[t], {})
    BY <1>1 DEF Leads
  <2>2. QED
    BY <1>1, <2>1 DEF WholeInv, DoomedWhole
<1>3. /\ pc'[t] = "leave"
      /\ \A u \in Threads \ {t} : UNCHANGED <<pc[u], first[u], last[u], collectable[u]>>
    BY <1>1 DEF Inv, TypeOK
<1>4. ChainWhole(t)' /\ DoomedWhole(t)'
    BY <1>1, <1>2, <1>3 DEF ChainWhole, Chained, DoomedWhole, DoomedBy
<1>5. QED
    BY <1>1, <1>3, <1>4, QuietKept DEF Inv

LEMMA NextWhole == ASSUME Inv, WholeInv, [Next]_vars PROVE WholeInv'
<1>1. ASSUME NEW t \in Threads, Push(t) PROVE WholeInv'
    BY <1>1, WholeOutside, WholePushAllocate, WholePushCas DEF Push
<1>2. ASSUME NEW t \in Threads, Pop(t) PROVE WholeInv'
    BY <1>2, WholeOutside, WholeInside, WholePopCas DEF Pop
<1>3. ASSUME NEW t \in Threads, Clear(t) PROVE WholeInv'
    BY <1>3, WholeOutside, WholeInside, WholeClearDetach DEF Clear
<1>4. ASSUME NEW t \in Threads, Collect(t) PROVE WholeInv'
    BY <1>4, WholeOutside, WholeInside, WholeCollectorCas, WholeTryCas, WholeTryDelete,
       WholeTryDeleteEnd DEF Collect
<1>5. ASSUME NEW t \in Threads, Destroy(t) PROVE WholeInv'
    BY <1>5, WholeOutside
<1>6. CASE UNCHANGED vars
  <2>1. UNCHANGED <<head, collHead, next, where, holder, pc, first, last, collectable>>
    BY <1>6 DEF vars, heads, coll, memory, ghost, locals
  <2>2. StackWhole' /\ DeadWhole'
    BY <2>1, StackKept, DeadKept DEF WholeInv, At
  <2>3. ASSUME NEW t \in Threads PROVE ChainWhole(t)' /\ DoomedWhole(t)'
    <3>1. HeldBy(t)' = HeldBy(t) /\ DoomedBy(t)' = DoomedBy(t) /\ Chained(t)' = Chained(t)
        BY <2>1 DEF HeldBy, DoomedBy, Has, Chained
    <3>2. QED
        BY <2>1, <3>1, ChainKept, DoomedKept DEF WholeInv
  <2>4. \A n \in At("doomed")' : holder'[n] \in Threads
    BY <2>1 DEF WholeInv, At
  <2>5. QED
    BY <2>2, <2>3, <2>4 DEF WholeInv
<1>7. QED
    BY <1>1, <1>2, <1>3, <1>4, <1>5, <1>6 DEF Next, Step, Terminated

LEMMA InitWhole == Init => WholeInv
    BY DEF Init, WholeInv, StackWhole, DeadWhole, ChainWhole, DoomedWhole, At, DoomedBy, Chained

LEMMA WholeHolds == ASSUME SafeProgram PROVE Spec => [](Inv /\ WholeInv)
<1>1. Inv /\ WholeInv /\ [Next]_vars => WholeInv'
    BY NextWhole
<1>2. Init => WholeInv
    BY InitWhole
<1>3. QED
    BY <1>1, <1>2, InvIsInvariant, PTL DEF Spec

\* The nodes that a list of one place leads to, by the definition of the
\* module, are those of that place.
LEMMA WholeIsReachable ==
    ASSUME NEW p \in Pointers, NEW L \in SUBSET Nodes,
           p # NULL => p \in L, \A n \in L : next[n] \in L \cup {NULL},
           \A S \in SUBSET L : Leads(p, S) => S = L
    PROVE  L = IF p = NULL THEN {} ELSE Reachable(p)
<1>1. CASE p = NULL
  <2>1. Leads(p, {})
    BY <1>1 DEF Leads
  <2>2. QED
    BY <1>1, <2>1
<1>2. CASE p # NULL
  <2>1. ASSUME NEW n \in Reachable(p) PROVE n \in L
    BY <1>2, <2>1 DEF Reachable
  <2>2. ASSUME NEW n \in L, NEW S \in SUBSET Nodes, p \in S, \A m \in S : next[m] \in S \cup {NULL}
        PROVE  n \in S
    <3> DEFINE R == S \cap L
    <3>1. Leads(p, R)
        BY <1>2, <2>2 DEF Leads
    <3>2. R = L
        BY <3>1
    <3>3. QED
        BY <2>2, <3>2
  <2>3. L \subseteq Reachable(p)
    BY <2>2 DEF Reachable
  <2>4. QED
    BY <1>2, <2>1, <2>3
<1>3. QED
    BY <1>1, <1>2

LEMMA WholeListsIntact == ASSUME Inv, WholeInv PROVE ListsIntact
<1>1. /\ head \in Pointers /\ collHead \in Pointers
      /\ At("stack") \in SUBSET Nodes /\ At("dead") \in SUBSET Nodes
    BY DEF Inv, TypeOK, At
<1>2. /\ head # NULL => head \in At("stack")
      /\ collHead # NULL => collHead \in At("dead")
    BY DEF Inv, HeadInv, TypeOK, Pointers, At
<1>3. /\ \A n \in At("stack") : next[n] \in At("stack") \cup {NULL}
      /\ \A n \in At("dead") : next[n] \in At("dead") \cup {NULL}
    BY DEF Inv, LinkInv, Linked, TypeOK, Pointers, At
<1>4. At("stack") = IF head = NULL THEN {} ELSE Reachable(head)
    BY <1>1, <1>2, <1>3, WholeIsReachable DEF WholeInv, StackWhole
<1>5. At("dead") = IF collHead = NULL THEN {} ELSE Reachable(collHead)
    BY <1>1, <1>2, <1>3, WholeIsReachable DEF WholeInv, DeadWhole
<1>6. QED
    BY <1>4, <1>5 DEF ListsIntact, At

\* No interleaving of hooks and unhooks loses a node of the stack or of the
\* collector, or links one into both.
THEOREM ListsStayIntact == ASSUME SafeProgram PROVE Spec => []ListsIntact
<1>1. Inv /\ WholeInv => ListsIntact
    BY WholeListsIntact
<1>2. QED
    BY <1>1, WholeHolds, PTL

\* Although blocks are handed out again, any number of threads may use the stack
\* as long as no third one is inside pop, clear or try_collect with two others:
\* nothing deleted is touched, no pop installs a stale successor, no list loses
\* a node and none is taken for deletion that a pop looks at.
THEOREM TwoInsideAreSafe ==
    Spec /\ [](clients <= 2) =>
        [](NoUseAfterFree /\ NoStaleSuccessor /\ ListsIntact) /\ ReclaimIsSafe
<1>1. clients <= 2 => TwoIfRecycled
    BY DEF TwoIfRecycled
<1>2. TwoIfRecycled /\ Inv /\ WholeInv /\ [Next]_vars => Inv' /\ WholeInv' /\ [Reclaim]_vars
    BY NextInv, NextWhole, NextReclaim
<1>3. Inv /\ WholeInv => NoUseAfterFree /\ NoStaleSuccessor /\ ListsIntact
    BY InvIsSafe, InvNotStale, WholeListsIntact
<1>4. QED
    BY <1>1, <1>2, <1>3, InitInv, InitWhole, PTL DEF Spec, ReclaimIsSafe, Reclaim

-----------------------------------------------------------------------------
(* What the destructor has left to free, step by step.                     *)

Gone(places) == \A n \in Nodes : where[n] \notin places

\* The destructor is alone, so that what it has moved to the collector is all
\* that it finds there, and nothing keeps it from the deletion.
DestroyInv ==
    destroyed =>
        /\ \A t, u \in Threads : pc[t] # "idle" /\ pc[u] # "idle" => t = u
        /\ \A t \in Threads :
            /\ pc[t] \in {"idle"} \cup ClearLabels \cup CollectLabels
            /\ pc[t] \notin {"idle", "clear_detach"} => Gone({"stack"})
            /\ pc[t] \in {"try_check", "try_cas"} => collectable[t] = collHead
            /\ pc[t] \in {"try_delete", "leave"} => Gone({"held", "dead"})
            /\ pc[t] = "leave" => Gone({"doomed"})
        /\ AllIdle => Gone({"stack", "held", "dead", "doomed"})

\* A step of the destructor: the other threads are idle.
LEMMA DestroyAlone ==
    ASSUME Inv, DestroyInv, destroyed, NEW t \in Threads, pc[t] # "idle",
           pc'[t] \in {"idle"} \cup ClearLabels \cup CollectLabels,
           \A u \in Threads \ {t} : pc'[u] = pc[u],
           pc'[t] \notin {"idle", "clear_detach"} => Gone({"stack"})',
           pc'[t] \in {"try_check", "try_cas"} => collectable'[t] = collHead',
           pc'[t] \in {"try_delete", "leave"} => Gone({"held", "dead"})',
           pc'[t] = "leave" => Gone({"doomed"})',
           pc'[t] = "idle" => Gone({"stack", "held", "dead", "doomed"})'
    PROVE  DestroyInv'
<1>1. \A u \in Threads \ {t} : pc'[u] = "idle"
    BY DEF DestroyInv
<1>2. AllIdle' => pc'[t] = "idle"
    BY DEF AllIdle
<1>3. QED
    BY <1>1, <1>2 DEF DestroyInv

\* Where a thread does not work on a chain it has no node for itself.
LEMMA NoneHeld ==
    ASSUME Inv, DestroyInv, destroyed, NEW t \in Threads, pc[t] # "idle", ~Chained(t)
    PROVE  Gone({"held"})
<1> SUFFICES ASSUME NEW n \in Nodes, where[n] = "held" PROVE FALSE
    BY DEF Gone
<1>1. PICK u \in Threads : Has(u, n)
    BY DEF Inv, HeadInv, Has
<1>2. pc[u] \in {"push_load", "push_cas"} \/ Chained(u)
    BY <1>1 DEF Inv, HoldInv
<1>3. pc[u] # "idle"
    BY <1>2 DEF Chained
<1>4. u = t
    BY <1>3 DEF DestroyInv
<1>5. QED
    BY <1>2, <1>4 DEF DestroyInv, ClearLabels, CollectLabels

LEMMA DestroyClear ==
    ASSUME Inv, WholeInv, DestroyInv, destroyed, NEW t \in Threads,
           ClearNothing(t) \/ ClearDetach(t) \/ ClearWalk(t) \/ ClearTailFound(t) \/
               CollectorLoad(t) \/ CollectorRetry(t) \/ CollectorCas(t)
    PROVE  DestroyInv'
<1> USE DEF Transition
<1>1. /\ pc[t] \notin {"idle", "try_cas", "try_delete", "leave"}
      /\ pc'[t] \in {"clear_tail", "coll_load", "coll_cas", "try_load"}
      /\ \A u \in Threads \ {t} : pc'[u] = pc[u]
    BY DEF ClearNothing, ClearDetach, ClearWalk, ClearTailFound, CollectorLoad, CollectorRetry,
        CollectorCas, Inv, TypeOK
<1>2. Gone({"stack"})'
  <2>1. CASE ClearNothing(t)
    <3>1. Leads(head, {}) /\ where' = where
        BY <2>1 DEF ClearNothing, Leads, ghost
    <3>2. At("stack") = {}
        BY <3>1 DEF WholeInv, StackWhole
    <3>3. QED
        BY <3>1, <3>2 DEF At, Gone
  <2>2. CASE ClearDetach(t)
    BY <2>2 DEF ClearDetach, Gone, Inv, TypeOK
  <2>3. CASE CollectorCas(t)
    BY <2>3 DEF CollectorCas, Gone, DestroyInv, Inv, TypeOK
  <2>4. CASE ClearWalk(t) \/ ClearTailFound(t) \/ CollectorLoad(t) \/ CollectorRetry(t)
    <3>1. pc[t] \notin {"idle", "clear_detach"} /\ where' = where
        BY <2>4 DEF ClearWalk, ClearTailFound, CollectorLoad, CollectorRetry, ghost
    <3>2. QED
        BY <3>1 DEF DestroyInv, Gone
  <2>5. QED
    BY <2>1, <2>2, <2>3, <2>4
<1>3. QED
    BY <1>1, <1>2, DestroyAlone DEF ClearLabels, CollectLabels

LEMMA DestroyCollect ==
    ASSUME ~SpuriousFailure, Inv, WholeInv, DestroyInv, destroyed, NEW t \in Threads,
           TryLoad(t) \/ TryCheck(t) \/ TryCas(t) \/ TryGiveUp(t) \/ TryDelete(t) \/
               TryDeleteEnd(t) \/ Leave(t)
    PROVE  DestroyInv'
<1> USE DEF Transition
<1>1. /\ pc[t] \in {"try_load", "try_check", "try_cas", "try_delete", "leave"}
      /\ \A u \in Threads \ {t} : pc'[u] = pc[u]
    BY DEF TryLoad, TryCheck, TryCas, TryGiveUp, TryDelete, TryDeleteEnd, Leave, Inv, TypeOK
<1>2. Gone({"stack"}) /\ Gone({"held"}) /\ ~Chained(t)
    BY <1>1, NoneHeld DEF DestroyInv, Chained
<1>3. CASE TryLoad(t)
  <2>1. pc'[t] = "try_check" /\ collectable'[t] = collHead /\ UNCHANGED <<collHead, where>>
    BY <1>3 DEF TryLoad, Inv, TypeOK, coll, ghost
  <2>2. QED
    BY <1>1, <1>2, <2>1, DestroyAlone DEF CollectLabels, Gone
<1>4. CASE TryCheck(t)
  <2>1. CriticalSet = {t}
    <3>1. \A u \in Threads \ {t} : pc[u] = "idle"
        BY <1>1 DEF DestroyInv
    <3>2. QED
        BY <1>1, <3>1 DEF CriticalSet, Critical, PushLabels
  <2>2. clients = 1
    BY <2>1, FS_Singleton DEF Inv, CountInv
  <2>3. pc[t] = "try_check" /\ pc'[t] = "try_cas" /\ UNCHANGED <<collHead, where, collectable>>
    BY <1>4, <2>2 DEF TryCheck, Inv, TypeOK, coll, ghost, locals
  <2>4. QED
    BY <1>1, <1>2, <2>3, DestroyAlone DEF DestroyInv, CollectLabels, Gone
<1>5. CASE TryCas(t)
  <2>1. /\ pc'[t] = "try_delete"
        /\ where' = [n \in Nodes |-> IF where[n] = "dead" THEN "doomed" ELSE where[n]]
    BY <1>5 DEF TryCas, Inv, TypeOK
  <2>2. Gone({"stack"})' /\ Gone({"held", "dead"})'
    BY <1>2, <2>1 DEF Gone
  <2>3. QED
    BY <1>1, <2>1, <2>2, DestroyAlone DEF CollectLabels
<1>6. CASE TryGiveUp(t)
    BY <1>6 DEF TryGiveUp, CasFails, DestroyInv
<1>7. CASE TryDelete(t)
  <2>1. /\ pc[t] = "try_delete" /\ pc'[t] = "try_delete" /\ collectable[t] \in Nodes
        /\ where' = [where EXCEPT ![collectable[t]] = IF Recycle THEN "free" ELSE "deleted"]
    BY <1>7 DEF TryDelete, Inv, TypeOK, Pointers
  <2>2. Gone({"stack"})' /\ Gone({"held", "dead"})'
    BY <1>2, <2>1 DEF Gone, DestroyInv, Inv, TypeOK
  <2>3. QED
    BY <1>1, <2>1, <2>2, DestroyAlone DEF CollectLabels
<1>8. CASE TryDeleteEnd(t)
  <2>1. pc[t] = "try_delete" /\ pc'[t] = "leave" /\ collectable[t] = NULL /\ UNCHANGED where
    BY <1>8 DEF TryDeleteEnd, Inv, TypeOK, ghost
  <2>2. Leads(collectable[t], {})
    BY <2>1 DEF Leads
  <2>3. DoomedBy(t) = {}
    BY <2>1, <2>2 DEF WholeInv, DoomedWhole
  <2>4. \A u \in Threads \ {t} : DoomedBy(u) = {}
    <3>1. \A u \in Threads \ {t} : pc[u] = "idle"
        BY <2>1 DEF DestroyInv
    <3>2. QED
        BY <3>1 DEF WholeInv, DoomedWhole
  <2>5. Gone({"doomed"})
    BY <2>3, <2>4 DEF WholeInv, DoomedBy, At, Gone
  <2>6. Gone({"held", "dead"})
    BY <2>1 DEF DestroyInv
  <2>7. QED
    BY <1>1, <1>2, <2>1, <2>5, <2>6, DestroyAlone DEF CollectLabels, Gone
<1>9. CASE Leave(t)
  <2>1. pc[t] = "leave" /\ pc'[t] = "idle" /\ UNCHANGED where
    BY <1>9 DEF Leave, Inv, TypeOK, ghost
  <2>2. Gone({"stack", "held", "dead", "doomed"})'
    BY <1>2, <2>1 DEF DestroyInv, Gone
  <2>3. QED
    BY <1>1, <2>1, <2>2, DestroyAlone
<1>10. QED
    BY <1>3, <1>4, <1>5, <1>6, <1>7, <1>8, <1>9

LEMMA NextDestroy ==
    ASSUME ~SpuriousFailure, Inv, WholeInv, DestroyInv, [Next]_vars PROVE DestroyInv'
<1>1. ASSUME NEW t \in Threads, Destroy(t) PROVE DestroyInv'
  <2>1. pc'[t] = "clear_detach" /\ \A u \in Threads \ {t} : pc'[u] = "idle"
    BY <1>1 DEF Destroy, Transition, AllIdle, Inv, TypeOK
  <2>2. ~AllIdle'
    BY <2>1 DEF AllIdle
  <2>3. QED
    BY <2>1, <2>2 DEF DestroyInv, ClearLabels
<1>2. ASSUME NEW t \in Threads, Push(t) \/ Pop(t) \/ ClearStart(t) PROVE DestroyInv'
  <2>1. destroyed' = destroyed /\ ~(destroyed /\ pc[t] = "idle")
    BY <1>2 DEF Push, PushAllocate, PushLoad, PushCas, PushRetry, PushCount, Pop, PopStart, PopCount,
        PopLoad, PopReadNext, PopCas, PopRetry, PopTake, ClearStart, Transition, calls
  <2>2. pc[t] \in {"idle"} \cup PushLabels \cup PopLabels
    BY <1>2 DEF Push, PushAllocate, PushLoad, PushCas, PushRetry, PushCount, Pop, PopStart, PopCount,
        PopLoad, PopReadNext, PopCas, PopRetry, PopTake, ClearStart, Transition, PushLabels, PopLabels
  <2>3. ~destroyed
    BY <2>1, <2>2 DEF DestroyInv, PushLabels, PopLabels, ClearLabels, CollectLabels
  <2>4. QED
    BY <2>1, <2>3 DEF DestroyInv
<1>3. ASSUME NEW t \in Threads, Clear(t) \/ Collect(t), ~ClearStart(t) PROVE DestroyInv'
  <2>1. destroyed' = destroyed
    BY <1>3 DEF Clear, ClearNothing, ClearDetach, ClearWalk, ClearTailFound, Collect, CollectorLoad,
        CollectorCas, CollectorRetry, TryLoad, TryCheck, TryCas, TryGiveUp, TryDelete, TryDeleteEnd,
        Leave, calls
  <2>2. CASE destroyed
    BY <1>3, <2>2, DestroyClear, DestroyCollect DEF Clear, Collect
  <2>3. CASE ~destroyed
    BY <2>1, <2>3 DEF DestroyInv
  <2>4. QED
    BY <2>2, <2>3
<1>4. CASE UNCHANGED vars
    BY <1>4 DEF vars, heads, coll, memory, ghost, locals, calls, DestroyInv, AllIdle, Gone
<1>5. QED
    BY <1>1, <1>2, <1>3, <1>4 DEF Next, Step, Clear, Terminated

LEMMA DestroyFreesAll == Inv /\ DestroyInv => DestructorFreesAll
    BY DEF Inv, TypeOK, Places, DestroyInv, Gone, DestructorFreesAll

\* When the destructor has returned, every node has been deleted, those that
\* earlier calls left on the collector included.  It takes an exchange that
\* does not fail without cause: try_collect gives up when its exchange fails.
THEOREM DestructorLeavesNothing ==
    ASSUME SafeProgram, ~SpuriousFailure PROVE Spec => []DestructorFreesAll
<1>1. Init => DestroyInv
    BY DEF Init, DestroyInv
<1>2. Inv /\ WholeInv /\ DestroyInv /\ [Next]_vars => DestroyInv'
    BY NextDestroy
<1>3. Inv /\ DestroyInv => DestructorFreesAll
    BY DestroyFreesAll
<1>4. QED
    BY <1>1, <1>2, <1>3, WholeHolds, PTL DEF Spec

-----------------------------------------------------------------------------
(* The long running test: main hands out calls, the rest is the stack's.   *)

\* What the invariants speak of, beside the calls that are left.
NotTodo == <<heads, coll, memory, ghost, pc, locals, destroyed>>

\* Each step is one of the stack, or main gives the threads new calls.
LEMMA RunStep ==
    ASSUME [RunNext]_runVars
    PROVE  \/ [Next]_vars
           \/ UNCHANGED NotTodo /\ todo' \in [Threads -> [push : Nat, pop : Nat, clear : Nat]]
<1>1. CASE Dispatch
  <2>1. PICK racing \in SUBSET Threads : \E kind \in [racing -> {"push", "pop", "clear"}] :
            todo' = [t \in Threads |-> IF t \in racing THEN OneCall(kind[t]) ELSE NoCalls]
    BY <1>1 DEF Dispatch
  <2>2. \A k \in {"push", "pop", "clear"} : OneCall(k) \in [push : Nat, pop : Nat, clear : Nat]
    BY DEF OneCall, NoCalls
  <2>3. NoCalls \in [push : Nat, pop : Nat, clear : Nat]
    BY DEF NoCalls
  <2>4. todo' \in [Threads -> [push : Nat, pop : Nat, clear : Nat]]
    BY <2>1, <2>2, <2>3
  <2>5. QED
    BY <1>1, <2>4 DEF Dispatch, NotTodo
<1>2. CASE MainStart \/ MainRefuses \/ DispatchReturns \/ MainEnds \/ Exited \/ UNCHANGED runVars
    BY <1>2 DEF MainStart, MainRefuses, DispatchReturns, MainEnds, Exited, runVars
<1>3. ASSUME NEW t \in Threads, ThreadStep(t) PROVE Next
    BY <1>3 DEF ThreadStep, RacingStep, MainDestroys, DestructorStep, Next, Step
<1>4. QED
    BY <1>1, <1>2, <1>3 DEF RunNext, MainStep

\* New calls disturb nothing.
LEMMA DispatchKeeps ==
    ASSUME Inv, UNCHANGED NotTodo, todo' \in [Threads -> [push : Nat, pop : Nat, clear : Nat]]
    PROVE  Inv' /\ (WholeInv => WholeInv') /\ (DestroyInv => DestroyInv') /\ Reclaim
<1>1. UNCHANGED <<head, size, collHead, clients, next, value, where, holder, pc,
                  old, seen, first, last, collectable, result, destroyed>>
    BY DEF NotTodo, heads, coll, memory, ghost, locals
<1>2. TypeOK'
    BY <1>1 DEF Inv, TypeOK
<1>3. NonNullInv' /\ CountInv' /\ SingleReaper'
    BY <1>1 DEF Inv, NonNullInv, Popping, Chained, CountInv, CriticalSet, Critical, SingleReaper
<1>4. HoldInv' /\ HeadInv'
    BY <1>1 DEF Inv, HoldInv, HeadInv, Has, Chained
<1>5. LinkInv'
    BY <1>1 DEF Inv, LinkInv, Linked, IsHead, Chained
<1>6. PopInv' /\ CollectableInv' /\ ArmedInv'
    BY <1>1 DEF Inv, PopInv, Popping, CollectableInv, ArmedInv
<1>7. ASSUME WholeInv PROVE WholeInv'
  <2>1. StackWhole' /\ DeadWhole'
    BY <1>1, <1>7, StackKept, DeadKept DEF WholeInv, At
  <2>2. ASSUME NEW t \in Threads PROVE ChainWhole(t)' /\ DoomedWhole(t)'
    <3>1. HeldBy(t)' = HeldBy(t) /\ DoomedBy(t)' = DoomedBy(t) /\ Chained(t)' = Chained(t)
        BY <1>1 DEF HeldBy, DoomedBy, Has, Chained
    <3>2. QED
        BY <1>1, <1>7, <3>1, ChainKept, DoomedKept DEF WholeInv
  <2>3. QED
    BY <1>1, <1>7, <2>1, <2>2 DEF WholeInv, At
<1>8. ASSUME DestroyInv PROVE DestroyInv'
    BY <1>1, <1>8 DEF DestroyInv, Gone, AllIdle
<1>9. QED
    BY <1>1, <1>2, <1>3, <1>4, <1>5, <1>6, <1>7, <1>8 DEF Inv, Reclaim

\* What holds of the stack, holds of it in the test.
LEMMA RunKeeps ==
    ASSUME SafeProgram
    PROVE  RunSpec => [](Inv /\ WholeInv) /\ [][Reclaim]_vars
<1>1. RunInit => Inv /\ WholeInv
    BY InitInv, InitWhole DEF RunInit
<1>2. Inv /\ WholeInv /\ [RunNext]_runVars => Inv' /\ WholeInv' /\ [Reclaim]_vars
    BY RunStep, NextInv, InvSafeProgram, NextWhole, NextReclaim, DispatchKeeps
<1>3. QED
    BY <1>1, <1>2, PTL DEF RunSpec

\* In such a program, however many calls the rounds let race, no step reads or
\* writes a deleted node, no two of them empty the collector, and none takes a
\* node for deletion that another one has loaded.
THEOREM TestIsSafe ==
    ASSUME SafeProgram
    PROVE  RunSpec => []NoUseAfterFree /\ []SingleReaper /\ []ListsIntact /\ ReclaimIsSafe
<1>1. Inv => NoUseAfterFree /\ SingleReaper
    BY InvIsSafe DEF Inv
<1>2. Inv /\ WholeInv => ListsIntact
    BY WholeListsIntact
<1>3. QED
    BY <1>1, <1>2, RunKeeps, PTL DEF ReclaimIsSafe, Reclaim

\* When main of the test returns, every node of the stack has been given back.
THEOREM TestLeavesNothing ==
    ASSUME SafeProgram, ~SpuriousFailure PROVE RunSpec => []DestructorFreesAll
<1>1. RunInit => DestroyInv
    BY DEF RunInit, Init, DestroyInv
<1>2. Inv /\ WholeInv /\ DestroyInv /\ [RunNext]_runVars => DestroyInv'
    BY RunStep, NextDestroy, DispatchKeeps
<1>3. Inv /\ DestroyInv => DestructorFreesAll
    BY DestroyFreesAll
<1>4. QED
    BY <1>1, <1>2, <1>3, RunKeeps, PTL DEF RunSpec
=============================================================================
