------------------------------- MODULE GcHeap -------------------------------
(***************************************************************************)
(* collector_buddy of gc_prototype.cpp with its table of objects and       *)
(* references, the buddy page that holds the objects, and the handles      *)
(* gc_buddy<T> of a program: variables, which refer from the root, and one *)
(* handle inside each object, as in the benchmarks' demo types.            *)
(*                                                                         *)
(* The program is single-threaded.  A handle operation is one step.  A     *)
(* collection is a step that marks and a step for each object it deletes,  *)
(* and the program does nothing meanwhile.                                 *)
(***************************************************************************)
EXTENDS BuddyPage

CONSTANTS
    Vars,    \* the program's handle variables
    Objects, \* bound: the object nodes of the table
    MaxLost, \* bound: the references, each with its ends, that are lost
    Root,    \* _table.get_root()
    NULL,    \* the null pointer
    Nowhere  \* a null block

ASSUME NamesAssumption ==
    /\ IsFiniteSet(Objects)
    /\ MaxLost \in Nat
    /\ Vars \cap Objects = {}
    /\ Root \notin Objects
    /\ NULL \notin Objects
    /\ Nowhere \notin Offsets

VARIABLES
    objects, \* _objects of the table, the newest first
    ptr,     \* table_object::ptr: the object's block
    alive,   \* the variables that are in scope
    obj,     \* _obj of each handle
    ref,     \* the reference node that _ref of each handle points to
    lost,    \* the reference nodes that no _ref points to any longer
    doomed,  \* black_nodes: the unmarked objects that are still to be deleted
    pc       \* "idle", "sweep" during a collection, "crashed" by a null header

heapVars == <<objects, ptr, alive, obj, ref, lost, doomed, pc>>
vars == <<pageVars, heapVars>>

\* The handle inside an object has the name of the object.
Handles == Vars \cup Objects

\* _root: a handle is made while the object that contains it is the active
\* root; a variable is made outside of any object.
RootOf(h) == IF h \in Vars THEN Root ELSE h

\* A reference node: the object whose ref_chain it is in, and ref.to.
Reference(from, to) == [from |-> from, to |-> to]
NoReference == Reference(NULL, NULL)

TypeOK ==
    /\ PageTypeOK
    /\ objects \in Seq(Objects)
    /\ ptr \in [Objects -> Offsets \cup {Nowhere}]
    /\ alive \subseteq Vars
    /\ obj \in [Handles -> Objects \cup {NULL}]
    /\ ref \in [Handles -> [from : Objects \cup {Root}, to : Objects] \cup {NoReference}]
    /\ lost \subseteq [from : Objects \cup {Root}, to : Objects]
    /\ doomed \subseteq Objects
    /\ pc \in {"idle", "sweep", "crashed"}

Init ==
    /\ PageInit
    /\ objects = <<>>
    /\ ptr = [o \in Objects |-> Nowhere]
    /\ alive = {}
    /\ obj = [h \in Handles |-> NULL]
    /\ ref = [h \in Handles |-> NoReference]
    /\ lost = {}
    /\ doomed = {}
    /\ pc = "idle"

\* The objects that can be reached from a set of objects along edges.
Closure(from, edges) ==
    LET reach[k \in Nat] ==
            IF k = 0 THEN from
            ELSE reach[k - 1] \cup {e[2] : e \in {d \in edges : d[1] \in reach[k - 1]}}
    IN  reach[Cardinality(Objects)]

\* Where the handles lead from the variables, and from object to object.
Roots == {obj[v] : v \in alive} \ {NULL}
Edges == {<<o, obj[o]>> : o \in {p \in Objects : obj[p] # NULL}}

\* Where reference nodes lead from the root, and from object to object.
RootsOf(references) == {r.to : r \in {q \in references : q.from = Root}}
EdgesOf(references) == {<<r.from, r.to>> : r \in references}

\* The objects that the program can get at by following handles.
Reachable == Closure(Roots, Edges)

\* The objects that can be got at along lost references too.
Retained == Closure(Roots \cup RootsOf(lost), Edges \cup EdgesOf(lost))

\* The handles that the program can name.
Usable == alive \cup Reachable

-----------------------------------------------------------------------------
(* Handles.                                                                *)

\* node_pool::reserve, which zeroes the node.  Which of the unused nodes it is
\* makes no difference.
Unused == Objects \ ToSet(objects)

\* auto v = gc_buddy_new<T>(): the object's node, its block, its constructor,
\* which leaves its handle empty, and the reference from the root.
New(v, len) ==
    /\ pc = "idle" /\ v \in Vars \ alive
    /\ \E o \in Unused :
        /\ Allocate(len)
        /\ objects' = <<o>> \o objects
        /\ ptr' = [ptr EXCEPT ![o] = Found(LevelFor(len))]
        /\ obj' = [obj EXCEPT ![v] = o, ![o] = NULL]
        /\ ref' = [ref EXCEPT ![v] = Reference(Root, o), ![o] = NoReference]
    /\ alive' = alive \cup {v}
    /\ UNCHANGED <<lost, doomed, pc>>

\* The page throws when the node is already in the table; there is no handle.
NewFails(v, len) ==
    /\ pc = "idle" /\ v \in Vars \ alive
    /\ \E o \in Unused :
        /\ AllocateFails(len)
        /\ objects' = <<o>> \o objects
        /\ ptr' = [ptr EXCEPT ![o] = Nowhere]
        /\ obj' = [obj EXCEPT ![o] = NULL]
    /\ UNCHANGED <<alive, ref, lost, doomed, pc>>

\* A variable without an object.
Declare(v) ==
    /\ pc = "idle" /\ v \in Vars \ alive
    /\ alive' = alive \cup {v}
    /\ obj' = [obj EXCEPT ![v] = NULL]
    /\ ref' = [ref EXCEPT ![v] = NoReference]
    /\ UNCHANGED <<pageVars, objects, ptr, lost, doomed, pc>>

\* copy: the handle's own reference is removed and forgotten first, so that a
\* handle that is assigned to itself finds it gone.
CopyAssign(dst, src) ==
    /\ pc = "idle" /\ {dst, src} \subseteq Usable
    /\ IF ref[src] = NoReference \/ dst = src
       THEN /\ obj' = [obj EXCEPT ![dst] = NULL]
            /\ ref' = [ref EXCEPT ![dst] = NoReference]
       ELSE /\ obj' = [obj EXCEPT ![dst] = obj[src]]
            /\ ref' = [ref EXCEPT ![dst] = Reference(RootOf(dst), obj[src])]
    /\ UNCHANGED <<pageVars, objects, ptr, alive, lost, doomed, pc>>

\* The reference that a handle on object o registers.
Registered(h, o) == IF o = NULL THEN NoReference ELSE Reference(RootOf(h), o)

\* Seeded defect: the references are not registered anew.
MoveAssignKeepingReferences(dst, src) ==
    /\ pc = "idle" /\ {dst, src} \subseteq Usable /\ dst # src
    /\ obj' = [obj EXCEPT ![dst] = obj[src], ![src] = obj[dst]]
    /\ ref' = [ref EXCEPT ![dst] = ref[src], ![src] = ref[dst]]
    /\ UNCHANGED <<pageVars, objects, ptr, alive, lost, doomed, pc>>

\* swap registers both references anew: two for a handle that is moved to
\* itself, which keeps the second and loses the first.
MoveAssign(dst, src) ==
    /\ pc = "idle" /\ {dst, src} \subseteq Usable
    /\ obj' = [obj EXCEPT ![dst] = obj[src], ![src] = obj[dst]]
    /\ ref' = [ref EXCEPT ![dst] = Registered(dst, obj[src]), ![src] = Registered(src, obj[dst])]
    /\ lost' = lost \cup {r \in {Registered(dst, obj[dst])} : dst = src /\ r # NoReference}
    /\ Cardinality(lost') <= MaxLost
    /\ UNCHANGED <<pageVars, objects, ptr, alive, doomed, pc>>

\* ~gc_buddy of a variable
Leave(v) ==
    /\ pc = "idle" /\ v \in alive
    /\ alive' = alive \ {v}
    /\ obj' = [obj EXCEPT ![v] = NULL]
    /\ ref' = [ref EXCEPT ![v] = NoReference]
    /\ UNCHANGED <<pageVars, objects, ptr, lost, doomed, pc>>

-----------------------------------------------------------------------------
(* collect.                                                                *)

\* The reference nodes of the ref_chains.
Registry == ({ref[h] : h \in Handles} \ {NoReference}) \cup lost

\* Seeded defect: only what the root refers to is marked.
MarkedFromRoot == RootsOf(Registry)

\* The objects that the marking reaches from the root along reference nodes.
Marked == Closure(RootsOf(Registry), EdgesOf(Registry))

Mark ==
    /\ pc = "idle"
    /\ doomed' = ToSet(objects) \ Marked
    /\ pc' = "sweep"
    /\ UNCHANGED <<pageVars, objects, ptr, alive, obj, ref, lost>>

\* The next of them, in the order of the table.
NextDoomed == objects[Min({i \in DOMAIN objects : objects[i] \in doomed})]

\* Seeded defect: the block is freed and the node stays in the table.
SweepKeepingNode ==
    LET o == NextDoomed
    IN  /\ pc = "sweep" /\ doomed # {} /\ ptr[o] # Nowhere
        /\ Free(ptr[o])
        /\ doomed' = doomed \ {o}
        /\ UNCHANGED <<objects, ptr, alive, obj, ref, lost, pc>>

\* Seeded defect: the references of the node are not removed with it.
SweepKeepingReferences ==
    LET o == NextDoomed
    IN  /\ pc = "sweep" /\ doomed # {} /\ ptr[o] # Nowhere
        /\ Free(ptr[o])
        /\ objects' = Without(objects, o)
        /\ ptr' = [ptr EXCEPT ![o] = Nowhere]
        /\ obj' = [obj EXCEPT ![o] = NULL]
        /\ ref' = [h \in Handles |-> IF ref[h].from = o THEN NoReference ELSE ref[h]]
        /\ doomed' = doomed \ {o}
        /\ UNCHANGED <<alive, lost, pc>>

\* The object's destructor, the removal of its node and of its references,
\* and the release of its block.
Sweep ==
    LET o == NextDoomed
    IN  /\ pc = "sweep" /\ doomed # {} /\ ptr[o] # Nowhere
        /\ Free(ptr[o])
        /\ objects' = Without(objects, o)
        /\ ptr' = [ptr EXCEPT ![o] = Nowhere]
        /\ obj' = [obj EXCEPT ![o] = NULL]
        /\ ref' = [h \in Handles |-> IF ref[h].from = o THEN NoReference ELSE ref[h]]
        /\ lost' = {r \in lost : r.from # o}
        /\ doomed' = doomed \ {o}
        /\ UNCHANGED <<alive, pc>>

\* The node has no block: its header is looked for below the null pointer.
SweepCrashes ==
    /\ pc = "sweep" /\ doomed # {} /\ ptr[NextDoomed] = Nowhere
    /\ pc' = "crashed"
    /\ UNCHANGED <<pageVars, objects, ptr, alive, obj, ref, lost, doomed>>

SweepEnd ==
    /\ pc = "sweep" /\ doomed = {}
    /\ pc' = "idle"
    /\ UNCHANGED <<pageVars, objects, ptr, alive, obj, ref, lost, doomed>>

Crashed == pc = "crashed" /\ UNCHANGED vars

-----------------------------------------------------------------------------
Next ==
    \/ \E v \in Vars, len \in Lengths : New(v, len) \/ NewFails(v, len)
    \/ \E v \in Vars : Declare(v) \/ Leave(v)
    \/ \E dst, src \in Handles : CopyAssign(dst, src) \/ MoveAssign(dst, src)
    \/ Mark \/ Sweep \/ SweepCrashes \/ SweepEnd
    \/ Crashed

Spec == Init /\ [][Next]_vars

-----------------------------------------------------------------------------
\* Whatever the program can reach through its handles is still in the table
\* and has its block: no sequence of copies, moves and collections deletes an
\* object in use.
NoDanglingHandle ==
    \A o \in Reachable : o \in ToSet(objects) /\ ptr[o] \in live

\* After a collection, exactly the objects are left that the program can reach
\* through its handles, or by way of the references that handles lost when
\* they were moved to themselves (of which there are none in a program that
\* does not do that): garbage is found even when it is circular.
CollectIsExact ==
    [][pc = "sweep" /\ pc' = "idle" => ToSet(objects') = Retained']_vars

\* The blocks in use are those of the objects in the table, one each.
BlocksHaveObjects ==
    /\ live = {ptr[o] : o \in ToSet(objects)} \ {Nowhere}
    /\ \A o, p \in ToSet(objects) : ptr[o] = ptr[p] /\ ptr[o] # Nowhere => o = p

\* Each object of the table has its memory: what GC_DIAGNOSTICS checks in
\* table::add_obj_node.
TableHasMemory == \A o \in ToSet(objects) : ptr[o] # Nowhere
=============================================================================
