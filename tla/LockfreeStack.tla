--------------------------- MODULE LockfreeStack ---------------------------
(***************************************************************************)
(* lf::stack (lockfree_stack.h): a linked stack whose head is moved by     *)
(* compare-and-swap, and a collector of unhooked nodes that is emptied by  *)
(* a thread that finds itself to be the only critical client.              *)
(*                                                                         *)
(* Threads call push, pop and clear in any order, and one thread runs the  *)
(* destructor when all calls have returned.  Every access to a shared      *)
(* atomic, and every read of the next field of a node another thread may   *)
(* own, is a step of its own; what a thread does to memory that only it    *)
(* can reach is part of the neighbouring step.  A compare_exchange is one  *)
(* step for success and one for failure.  Memory is sequentially           *)
(* consistent: the code is x86 only (it uses _mm_pause) and there each of  *)
(* its read-modify-writes is a full fence.                                 *)
(***************************************************************************)
EXTENDS Integers, FiniteSets

CONSTANTS
    Threads,         \* client threads
    Nodes,           \* the blocks the node allocator can hand out
    Values,          \* values of the stack
    NULL,            \* the null pointer, and the empty optional
    Recycle,         \* the allocator may hand out a block that was deleted
    SpuriousFailure, \* compare_exchange_weak may fail although it compares equal
    SizeModulus,     \* 2^w of std::size_t, the type of _size
    Budget           \* bound: the calls of each kind each thread makes

ASSUME ThreadsAssumption == IsFiniteSet(Threads)
ASSUME NullAssumption == NULL \notin Nodes /\ NULL \notin Values
ASSUME FlagsAssumption == Recycle \in BOOLEAN /\ SpuriousFailure \in BOOLEAN
ASSUME SizeAssumption == SizeModulus \in Nat \ {0}
ASSUME BudgetAssumption == Budget \in [Threads -> [push : Nat, pop : Nat, clear : Nat]]

VARIABLES
    head,        \* _impl._head
    size,        \* _impl._size
    collHead,    \* _collector._collection_head
    clients,     \* _collector._critical_clients
    next,        \* node::next of every block
    value,       \* the value in node::storage, NULL once it is destroyed
    where,       \* ghost: which structure each block belongs to
    holder,      \* ghost: the thread that has the block for itself, if any
    pc,          \* where each thread is in its call
    old,         \* pop: old_head
    seen,        \* pop: the old_head->next it read for the compare-and-swap
    first,       \* new_node of push, unhocked of pop, detached_list of clear
    last,        \* last node of the chain that goes to the collector
    collectable, \* try_collect: collectable
    result,      \* pop: result
    todo,        \* calls each thread may still make
    destroyed    \* ~stack has begun: no further call is made

heads  == <<head, size>>
coll   == <<collHead, clients>>
memory == <<next, value>>
ghost  == <<where, holder>>
locals == <<old, seen, first, last, collectable, result>>
calls  == <<todo, destroyed>>
vars   == <<heads, coll, memory, ghost, pc, locals, calls>>

Pointers == Nodes \cup {NULL}

PushLabels == {"push_load", "push_cas", "push_count"}
PopLabels  == {"pop_count", "pop_load", "pop_next", "pop_cas", "pop_take"}
ClearLabels == {"clear_detach", "clear_tail"}
CollectLabels == {"coll_load", "coll_cas", "try_load", "try_check", "try_cas", "try_delete", "leave"}
Labels == {"idle"} \cup PushLabels \cup PopLabels \cup ClearLabels \cup CollectLabels

Places == {"free", "held", "stack", "dead", "doomed", "deleted"}

TypeOK ==
    /\ head \in Pointers
    /\ size \in 0 .. SizeModulus - 1
    /\ collHead \in Pointers
    /\ clients \in Int
    /\ next \in [Nodes -> Pointers]
    /\ value \in [Nodes -> Values \cup {NULL}]
    /\ where \in [Nodes -> Places]
    /\ holder \in [Nodes -> Threads \cup {NULL}]
    /\ pc \in [Threads -> Labels]
    /\ old \in [Threads -> Pointers]
    /\ seen \in [Threads -> Pointers]
    /\ first \in [Threads -> Pointers]
    /\ last \in [Threads -> Pointers]
    /\ collectable \in [Threads -> Pointers]
    /\ result \in [Threads -> Values \cup {NULL}]
    /\ todo \in [Threads -> [push : Nat, pop : Nat, clear : Nat]]
    /\ destroyed \in BOOLEAN

Init ==
    /\ head = NULL
    /\ size = 0
    /\ collHead = NULL
    /\ clients = 0
    /\ next = [n \in Nodes |-> NULL]
    /\ value = [n \in Nodes |-> NULL]
    /\ where = [n \in Nodes |-> "free"]
    /\ holder = [n \in Nodes |-> NULL]
    /\ pc = [t \in Threads |-> "idle"]
    /\ old = [t \in Threads |-> NULL]
    /\ seen = [t \in Threads |-> NULL]
    /\ first = [t \in Threads |-> NULL]
    /\ last = [t \in Threads |-> NULL]
    /\ collectable = [t \in Threads |-> NULL]
    /\ result = [t \in Threads |-> NULL]
    /\ todo = Budget
    /\ destroyed = FALSE

Transition(t, from, to) ==
    /\ pc[t] = from
    /\ pc' = [pc EXCEPT ![t] = to]

\* A failed compare_exchange_weak: the values differ, or it failed spuriously.
CasFails(target, expected) == target # expected \/ SpuriousFailure

AllIdle == \A t \in Threads : pc[t] = "idle"

\* Only t can reach node n: it allocated it, or unhooked it.
Has(t, n) == where[n] = "held" /\ holder[n] = t

\* The threads between the construction and the destruction of a client_guard.
Critical(t) == pc[t] \notin {"idle"} \cup PushLabels

-----------------------------------------------------------------------------
(* push: stack::push, stack_impl::push and atomics::push on _head.  The    *)
(* allocator returns any block that is free.                               *)

PushAllocate(t) ==
    /\ Transition(t, "idle", "push_load")
    /\ ~destroyed
    /\ todo[t].push > 0
    /\ todo' = [todo EXCEPT ![t].push = @ - 1]
    /\ \E n \in Nodes, v \in Values :
        /\ where[n] = "free"
        /\ where' = [where EXCEPT ![n] = "held"]
        /\ holder' = [holder EXCEPT ![n] = t]
        /\ value' = [value EXCEPT ![n] = v]
        /\ first' = [first EXCEPT ![t] = n]
    /\ UNCHANGED <<heads, coll, next, old, seen, last, collectable, result, destroyed>>

PushLoad(t) ==
    /\ Transition(t, "push_load", "push_cas")
    /\ next' = [next EXCEPT ![first[t]] = head]
    /\ UNCHANGED <<heads, coll, value, ghost, locals, calls>>

\* Seeded defect: the head is stored without comparing it.
PushStore(t) ==
    /\ Transition(t, "push_cas", "push_count")
    /\ head' = first[t]
    /\ where' = [where EXCEPT ![first[t]] = "stack"]
    /\ holder' = [holder EXCEPT ![first[t]] = NULL]
    /\ UNCHANGED <<size, coll, memory, locals, calls>>

PushCas(t) ==
    /\ Transition(t, "push_cas", "push_count")
    /\ head = next[first[t]]
    /\ head' = first[t]
    /\ where' = [where EXCEPT ![first[t]] = "stack"]
    /\ holder' = [holder EXCEPT ![first[t]] = NULL]
    /\ UNCHANGED <<size, coll, memory, locals, calls>>

\* Seeded defect: the expected value is not refreshed, so no retry can succeed.
PushRetryUnchanged(t) ==
    /\ Transition(t, "push_cas", "push_cas")
    /\ CasFails(head, next[first[t]])
    /\ UNCHANGED <<heads, coll, memory, ghost, locals, calls>>

\* The failed compare-and-swap stores the current head in its expected value.
PushRetry(t) ==
    /\ Transition(t, "push_cas", "push_cas")
    /\ CasFails(head, next[first[t]])
    /\ next' = [next EXCEPT ![first[t]] = head]
    /\ UNCHANGED <<heads, coll, value, ghost, locals, calls>>

PushCount(t) ==
    /\ Transition(t, "push_count", "idle")
    /\ size' = (size + 1) % SizeModulus
    /\ first' = [first EXCEPT ![t] = NULL]
    /\ UNCHANGED <<head, coll, memory, ghost, old, seen, last, collectable, result, calls>>

-----------------------------------------------------------------------------
(* pop: stack::pop, stack_impl::pop and atomics::pop.                      *)

PopStart(t) ==
    /\ Transition(t, "idle", "pop_count")
    /\ ~destroyed
    /\ todo[t].pop > 0
    /\ todo' = [todo EXCEPT ![t].pop = @ - 1]
    /\ clients' = clients + 1
    /\ UNCHANGED <<heads, collHead, memory, ghost, locals, destroyed>>

\* Seeded defect: the counter is decremented as if it could be negative.
PopCountSigned(t) ==
    /\ Transition(t, "pop_count", "pop_load")
    /\ size' = size - 1
    /\ UNCHANGED <<head, coll, memory, ghost, locals, calls>>

\* _size is decremented before it is known whether there is a node to pop.
PopCount(t) ==
    /\ Transition(t, "pop_count", "pop_load")
    /\ size' = (size + SizeModulus - 1) % SizeModulus
    /\ UNCHANGED <<head, coll, memory, ghost, locals, calls>>

PopLoad(t) ==
    /\ Transition(t, "pop_load", IF head = NULL THEN "try_load" ELSE "pop_next")
    /\ old' = [old EXCEPT ![t] = head]
    /\ UNCHANGED <<heads, coll, memory, ghost, seen, first, last, collectable, result, calls>>

PopReadNext(t) ==
    /\ Transition(t, "pop_next", "pop_cas")
    /\ seen' = [seen EXCEPT ![t] = next[old[t]]]
    /\ UNCHANGED <<heads, coll, memory, ghost, old, first, last, collectable, result, calls>>

PopCas(t) ==
    /\ Transition(t, "pop_cas", "pop_take")
    /\ head = old[t]
    /\ head' = seen[t]
    /\ first' = [first EXCEPT ![t] = old[t]]
    /\ last' = [last EXCEPT ![t] = old[t]]
    /\ where' = [where EXCEPT ![old[t]] = "held"]
    /\ holder' = [holder EXCEPT ![old[t]] = t]
    /\ UNCHANGED <<size, coll, memory, old, seen, collectable, result, calls>>

\* Seeded defect: the retry installs the successor of the head seen before.
PopRetryWithoutRead(t) ==
    /\ Transition(t, "pop_cas", IF head = NULL THEN "try_load" ELSE "pop_cas")
    /\ CasFails(head, old[t])
    /\ old' = [old EXCEPT ![t] = head]
    /\ UNCHANGED <<heads, coll, memory, ghost, seen, first, last, collectable, result, calls>>

PopRetry(t) ==
    /\ Transition(t, "pop_cas", IF head = NULL THEN "try_load" ELSE "pop_next")
    /\ CasFails(head, old[t])
    /\ old' = [old EXCEPT ![t] = head]
    /\ UNCHANGED <<heads, coll, memory, ghost, seen, first, last, collectable, result, calls>>

\* The value is moved out of the unhooked node and destroyed.
PopTake(t) ==
    /\ Transition(t, "pop_take", "coll_load")
    /\ result' = [result EXCEPT ![t] = value[first[t]]]
    /\ value' = [value EXCEPT ![first[t]] = NULL]
    /\ UNCHANGED <<heads, coll, next, ghost, old, seen, first, last, collectable, calls>>

-----------------------------------------------------------------------------
(* clear: stack::clear, atomics::detach and atomics::find_tail.            *)

ClearStart(t) ==
    /\ Transition(t, "idle", "clear_detach")
    /\ ~destroyed
    /\ todo[t].clear > 0
    /\ todo' = [todo EXCEPT ![t].clear = @ - 1]
    /\ clients' = clients + 1
    /\ UNCHANGED <<heads, collHead, memory, ghost, locals, destroyed>>

ClearNothing(t) ==
    /\ Transition(t, "clear_detach", "try_load")
    /\ head = NULL
    /\ UNCHANGED <<heads, coll, memory, ghost, locals, calls>>

\* Seeded defect: the chain is pushed on the collector as if it were one node.
ClearDetachWithoutTail(t) ==
    /\ Transition(t, "clear_detach", "coll_load")
    /\ head # NULL
    /\ head' = NULL
    /\ first' = [first EXCEPT ![t] = head]
    /\ last' = [last EXCEPT ![t] = head]
    /\ where' = [n \in Nodes |-> IF where[n] = "stack" THEN "held" ELSE where[n]]
    /\ holder' = [n \in Nodes |-> IF where[n] = "stack" THEN t ELSE holder[n]]
    /\ UNCHANGED <<size, coll, memory, old, seen, collectable, result, calls>>

ClearDetach(t) ==
    /\ Transition(t, "clear_detach", "clear_tail")
    /\ head # NULL
    /\ head' = NULL
    /\ first' = [first EXCEPT ![t] = head]
    /\ last' = [last EXCEPT ![t] = head]
    /\ where' = [n \in Nodes |-> IF where[n] = "stack" THEN "held" ELSE where[n]]
    /\ holder' = [n \in Nodes |-> IF where[n] = "stack" THEN t ELSE holder[n]]
    /\ UNCHANGED <<size, coll, memory, old, seen, collectable, result, calls>>

\* find_tail advances one node
ClearWalk(t) ==
    /\ Transition(t, "clear_tail", "clear_tail")
    /\ next[last[t]] # NULL
    /\ last' = [last EXCEPT ![t] = next[last[t]]]
    /\ UNCHANGED <<heads, coll, memory, ghost, old, seen, first, collectable, result, calls>>

\* find_tail has reached the node without a successor
ClearTailFound(t) ==
    /\ Transition(t, "clear_tail", "coll_load")
    /\ next[last[t]] = NULL
    /\ UNCHANGED <<heads, coll, memory, ghost, locals, calls>>

-----------------------------------------------------------------------------
(* collector::push (both overloads): atomics::push of the chain first ..   *)
(* last on _collection_head.                                               *)

CollectorLoad(t) ==
    /\ Transition(t, "coll_load", "coll_cas")
    /\ next' = [next EXCEPT ![last[t]] = collHead]
    /\ UNCHANGED <<heads, coll, value, ghost, locals, calls>>

CollectorCas(t) ==
    /\ Transition(t, "coll_cas", "try_load")
    /\ collHead = next[last[t]]
    /\ collHead' = first[t]
    /\ where' = [n \in Nodes |-> IF Has(t, n) THEN "dead" ELSE where[n]]
    /\ holder' = [n \in Nodes |-> IF Has(t, n) THEN NULL ELSE holder[n]]
    /\ UNCHANGED <<heads, clients, memory, locals, calls>>

CollectorRetry(t) ==
    /\ Transition(t, "coll_cas", "coll_cas")
    /\ CasFails(collHead, next[last[t]])
    /\ next' = [next EXCEPT ![last[t]] = collHead]
    /\ UNCHANGED <<heads, coll, value, ghost, locals, calls>>

-----------------------------------------------------------------------------
(* collector::try_collect and the end of the call: ~client_guard.          *)

TryLoad(t) ==
    /\ Transition(t, "try_load", "try_check")
    /\ collectable' = [collectable EXCEPT ![t] = collHead]
    /\ UNCHANGED <<heads, coll, memory, ghost, old, seen, first, last, result, calls>>

\* Seeded defect: the thread does not ask whether it is alone.
TryCheckDropped(t) ==
    /\ Transition(t, "try_check", "try_cas")
    /\ UNCHANGED <<heads, coll, memory, ghost, locals, calls>>

\* Seeded defect: an off-by-one, one other client is tolerated.
TryCheckOffByOne(t) ==
    /\ Transition(t, "try_check", IF clients <= 2 THEN "try_cas" ELSE "leave")
    /\ UNCHANGED <<heads, coll, memory, ghost, locals, calls>>

TryCheck(t) ==
    /\ Transition(t, "try_check", IF clients = 1 THEN "try_cas" ELSE "leave")
    /\ UNCHANGED <<heads, coll, memory, ghost, locals, calls>>

\* Seeded defect: the collection is exchanged for null, whatever its head is.
TryExchange(t) ==
    /\ Transition(t, "try_cas", "try_delete")
    /\ collectable' = [collectable EXCEPT ![t] = collHead]
    /\ collHead' = NULL
    /\ where' = [n \in Nodes |-> IF where[n] = "dead" THEN "doomed" ELSE where[n]]
    /\ holder' = [n \in Nodes |-> IF where[n] = "dead" THEN t ELSE holder[n]]
    /\ UNCHANGED <<heads, clients, memory, old, seen, first, last, result, calls>>

TryCas(t) ==
    /\ Transition(t, "try_cas", "try_delete")
    /\ collHead = collectable[t]
    /\ collHead' = NULL
    /\ where' = [n \in Nodes |-> IF where[n] = "dead" THEN "doomed" ELSE where[n]]
    /\ holder' = [n \in Nodes |-> IF where[n] = "dead" THEN t ELSE holder[n]]
    /\ UNCHANGED <<heads, clients, memory, locals, calls>>

TryGiveUp(t) ==
    /\ Transition(t, "try_cas", "leave")
    /\ CasFails(collHead, collectable[t])
    /\ UNCHANGED <<heads, coll, memory, ghost, locals, calls>>

\* One turn of the loop: read the successor, delete the node, move on.
TryDelete(t) ==
    /\ Transition(t, "try_delete", "try_delete")
    /\ collectable[t] # NULL
    /\ collectable' = [collectable EXCEPT ![t] = next[collectable[t]]]
    /\ where' = [where EXCEPT ![collectable[t]] = IF Recycle THEN "free" ELSE "deleted"]
    /\ holder' = [holder EXCEPT ![collectable[t]] = NULL]
    /\ UNCHANGED <<heads, coll, memory, old, seen, first, last, result, calls>>

TryDeleteEnd(t) ==
    /\ Transition(t, "try_delete", "leave")
    /\ collectable[t] = NULL
    /\ UNCHANGED <<heads, coll, memory, ghost, locals, calls>>

\* The call returns; its local variables cease to exist.
Leave(t) ==
    /\ Transition(t, "leave", "idle")
    /\ clients' = clients - 1
    /\ old' = [old EXCEPT ![t] = NULL]
    /\ seen' = [seen EXCEPT ![t] = NULL]
    /\ first' = [first EXCEPT ![t] = NULL]
    /\ last' = [last EXCEPT ![t] = NULL]
    /\ collectable' = [collectable EXCEPT ![t] = NULL]
    /\ result' = [result EXCEPT ![t] = NULL]
    /\ UNCHANGED <<heads, collHead, memory, ghost, calls>>

\* Seeded defect: the destructor empties the collector but not the stack.
DestroyWithoutClear(t) ==
    /\ AllIdle
    /\ ~destroyed
    /\ destroyed' = TRUE
    /\ Transition(t, "idle", "try_load")
    /\ clients' = clients + 1
    /\ UNCHANGED <<heads, collHead, memory, ghost, locals, todo>>

\* ~stack is a last clear, by one thread, once every other call has returned.
Destroy(t) ==
    /\ AllIdle
    /\ ~destroyed
    /\ destroyed' = TRUE
    /\ Transition(t, "idle", "clear_detach")
    /\ clients' = clients + 1
    /\ UNCHANGED <<heads, collHead, memory, ghost, locals, todo>>

-----------------------------------------------------------------------------
Push(t) == PushAllocate(t) \/ PushLoad(t) \/ PushCas(t) \/ PushRetry(t) \/ PushCount(t)

Pop(t) ==
    \/ PopStart(t) \/ PopCount(t) \/ PopLoad(t) \/ PopReadNext(t)
    \/ PopCas(t) \/ PopRetry(t) \/ PopTake(t)

Clear(t) == ClearStart(t) \/ ClearNothing(t) \/ ClearDetach(t) \/ ClearWalk(t) \/ ClearTailFound(t)

Collect(t) ==
    \/ CollectorLoad(t) \/ CollectorCas(t) \/ CollectorRetry(t)
    \/ TryLoad(t) \/ TryCheck(t) \/ TryCas(t) \/ TryGiveUp(t)
    \/ TryDelete(t) \/ TryDeleteEnd(t) \/ Leave(t)

Step(t) == Push(t) \/ Pop(t) \/ Clear(t) \/ Collect(t) \/ Destroy(t)

\* The program has ended: the stack is destroyed and nobody is inside it.
Terminated == destroyed /\ AllIdle /\ UNCHANGED vars

Next == (\E t \in Threads : Step(t)) \/ Terminated

Spec == Init /\ [][Next]_vars

\* Every thread is scheduled; nothing is assumed of the order of their steps.
FairSpec == Spec /\ \A t \in Threads : WF_vars(Step(t))

-----------------------------------------------------------------------------
(* Properties.                                                             *)

\* The blocks whose fields the next step of t reads or writes.
Touched(t) ==
    CASE pc[t] \in {"push_load", "push_cas", "pop_take"} -> {first[t]}
      [] pc[t] = "pop_next" -> {old[t]}
      [] pc[t] \in {"clear_tail", "coll_load", "coll_cas"} -> {last[t]}
      [] pc[t] = "try_delete" -> {collectable[t]} \ {NULL}
      [] OTHER -> {}

\* No thread is about to read or write a node that has been deleted: this is
\* what client_guard and try_collect exist for (pop reads old_head->next of a
\* node that other threads may unhook and give to the collector meanwhile).
NoUseAfterFree ==
    \A t \in Threads : \A n \in Touched(t) : where[n] \notin {"free", "deleted"}

\* When the compare-and-swap of pop can succeed, the successor it installs is
\* the successor the node has now and not one it had in an earlier life.
NoStaleSuccessor ==
    \A t \in Threads :
        pc[t] = "pop_cas" /\ head = old[t] /\ head # NULL => seen[t] = next[old[t]]

\* Only one thread at a time is between the decision to empty the collector
\* and the deletion of its last node, although the decision rests on a counter
\* that was read in an earlier step.
SingleReaper ==
    \A t, u \in Threads :
        pc[t] \in {"try_cas", "try_delete"} /\ pc[u] \in {"try_cas", "try_delete"} => t = u

\* The blocks on the list that starts at pointer p.
Reachable(p) ==
    {n \in Nodes : \A S \in SUBSET Nodes :
        (p \in S /\ \A m \in S : next[m] \in S \cup {NULL}) => n \in S}

\* The list of _head holds each pushed node that is not unhooked and the list
\* of _collection_head each unhooked node that is not deleted: no interleaving
\* of hooks and unhooks loses a node or links one into both lists.
ListsIntact ==
    /\ {n \in Nodes : where[n] = "stack"} = IF head = NULL THEN {} ELSE Reachable(head)
    /\ {n \in Nodes : where[n] = "dead"} = IF collHead = NULL THEN {} ELSE Reachable(collHead)

\* try_collect takes a node for deletion only when no pop is between the load
\* of that node from _head and its own compare-and-swap.
ReclaimIsSafe ==
    [][\A n \in Nodes : where[n] = "dead" /\ where'[n] = "doomed" =>
            \A t \in Threads : pc[t] \in {"pop_next", "pop_cas"} => old[t] # n]_vars

\* When the destructor has returned every node has been given back to the
\* allocator, those that earlier calls left on the collector included.
DestructorFreesAll ==
    destroyed /\ AllIdle => \A n \in Nodes : where[n] \in {"free", "deleted"}

\* Whenever no call is in progress, size() is the number of stacked values.
SizeCountsValues ==
    AllIdle => size = Cardinality({n \in Nodes : where[n] = "stack"}) % SizeModulus

\* Every call returns although its compare-and-swaps may fail: each failure
\* of one thread is a success of another, and the calls are finitely many.
CallsReturn == \A t \in Threads : []<>(pc[t] = "idle")
=============================================================================
