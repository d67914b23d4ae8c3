---------------------------- MODULE GcHeapProofs ------------------------------
(***************************************************************************)
(* Proofs about the collector, for any variables, any finite table of      *)
(* objects and any page.                                                   *)
(*                                                                         *)
(* The invariant of the page is kept by the steps that use it.  That of    *)
(* the heap says that the handles which are left are on objects with       *)
(* memory that are not about to be deleted, and have their references      *)
(* registered, and that lost references lead from what is left to what is  *)
(* left: so the marking, which follows references, finds what the program  *)
(* reaches by following handles and lost references.                       *)
(***************************************************************************)
EXTENDS GcHeap, BuddyPageProofs

(* The closure of a set under edges.                                       *)

\* One step along the edges, and a set that no edge leads out of.
Further(S, edges) == S \cup {e[2] : e \in {d \in edges : d[1] \in S}}
Closed(S, edges) == \A e \in edges : e[1] \in S => e[2] \in S

\* The sets of Closure.
Reach(from, edges) ==
    CHOOSE f : f = [k \in Nat |-> IF k = 0 THEN from ELSE Further(f[k - 1], edges)]

\* The edges lead to objects.
ToObjects(from, edges) == from \in SUBSET Objects /\ \A e \in edges : e[2] \in Objects

LEMMA ReachIs ==
    ASSUME NEW from, NEW edges, ToObjects(from, edges)
    PROVE  /\ Reach(from, edges) \in [Nat -> SUBSET Objects]
           /\ Reach(from, edges)[0] = from
           /\ \A n \in Nat : Reach(from, edges)[n + 1] = Further(Reach(from, edges)[n], edges)
<1> DEFINE X == SUBSET Objects
           F == [S \in X |-> Further(S, edges)]
           Along(f) == [k \in Nat |-> IF k = 0 THEN from ELSE Further(f[k - 1], edges)]
<1>1. from \in X
  BY DEF ToObjects
<1>2. \A S \in X : Further(S, edges) \in X
  BY DEF ToObjects, Further
<1>3. Iterable(F, X)
  BY <1>2 DEF Iterable
<1>4. PICK f \in [Nat -> X] : f[0] = from /\ \A n \in Nat : f[n + 1] = F[f[n]]
  <2> HIDE DEF F, X
  <2> QED
    BY <1>1, <1>3, RecursionExists
<1>5. f = Along(f)
  <2>1. ASSUME NEW k \in Nat PROVE f[k] = IF k = 0 THEN from ELSE Further(f[k - 1], edges)
    <3>1. CASE k = 0
      BY <1>4, <3>1
    <3>2. CASE k # 0
      <4>1. k - 1 \in Nat /\ (k - 1) + 1 = k
        BY <3>2
      <4>2. f[k] = F[f[k - 1]] /\ f[k - 1] \in X
        BY <1>4, <4>1
      <4> QED
        BY <3>2, <4>2
    <3> QED
      BY <3>1, <3>2
  <2> HIDE DEF X
  <2> QED
    BY <1>4, <2>1
<1>6. PICK r : r = Reach(from, edges)
  OBVIOUS
<1>7. r = CHOOSE g : g = Along(g)
  BY <1>6 DEF Reach
<1>8. r = Along(r)
  <2> HIDE DEF Along
  <2> QED
    BY <1>5, <1>7
<1>9. \A k \in Nat : r[k] = IF k = 0 THEN from ELSE Further(r[k - 1], edges)
  BY <1>8
<1>10. r[0] = from
  BY <1>9
<1>11. \A n \in Nat : r[n + 1] = Further(r[n], edges)
  <2> TAKE n \in Nat
  <2>1. n + 1 \in Nat /\ n + 1 # 0 /\ (n + 1) - 1 = n
    OBVIOUS
  <2> QED
    BY <1>9, <2>1
<1>12. \A n \in Nat : r[n] \in X
  <2> DEFINE S == {n \in Nat : r[n] \in X}
  <2>1. 0 \in S
    BY <1>1, <1>10
  <2>2. ASSUME NEW n \in Nat, n \in S PROVE n + 1 \in S
    BY <1>2, <1>11, <2>2
  <2> HIDE DEF S
  <2>3. \A n \in Nat : n \in S
    BY <2>1, <2>2, SetInduction
  <2> QED
    BY <2>3 DEF S
<1>13. r = [k \in Nat |-> r[k]]
  BY <1>8
<1>14. r \in [Nat -> X]
  BY <1>12, <1>13
<1> QED
  BY <1>6, <1>10, <1>11, <1>14

\* Closure is the smallest set that holds from and that no edge leads out of:
\* by as many steps as there are objects, nothing new can be found.
LEMMA ClosureIs ==
    ASSUME NEW from, NEW edges, ToObjects(from, edges)
    PROVE  /\ Closure(from, edges) \subseteq Objects
           /\ from \subseteq Closure(from, edges)
           /\ Closed(Closure(from, edges), edges)
           /\ \A S : from \subseteq S /\ Closed(S, edges) => Closure(from, edges) \subseteq S
<1>1. PICK r \in [Nat -> SUBSET Objects] :
        r = Reach(from, edges) /\ r[0] = from /\ \A n \in Nat : r[n + 1] = Further(r[n], edges)
  BY ReachIs
<1>2. PICK N \in Nat : N = Cardinality(Objects)
  BY NamesAssumption, FS_CardinalityType
<1>3. Closure(from, edges) = r[N]
  BY <1>1, <1>2 DEF Closure, Reach, Further
<1>4. IsFiniteSet(Objects) /\ \A S \in SUBSET Objects : IsFiniteSet(S) /\ Cardinality(S) \in Nat
  BY NamesAssumption, FS_Subset, FS_CardinalityType
<1>5. \A S : S \subseteq Further(S, edges) /\ (Closed(S, edges) <=> Further(S, edges) = S)
  BY DEF Further, Closed
<1>6. from \subseteq r[N]
  <2> DEFINE S == {n \in Nat : from \subseteq r[n]}
  <2>1. 0 \in S
    BY <1>1
  <2>2. ASSUME NEW n \in Nat, n \in S PROVE n + 1 \in S
    BY <1>1, <1>5, <2>2
  <2> HIDE DEF S
  <2>3. \A n \in Nat : n \in S
    BY <2>1, <2>2, SetInduction
  <2> QED
    BY <2>3 DEF S
<1>7. Closed(r[N], edges)
  <2> DEFINE S == {n \in Nat : Closed(r[n], edges) \/ n <= Cardinality(r[n])}
  <2>1. 0 \in S
    BY <1>1, <1>4
  <2>2. ASSUME NEW n \in Nat, n \in S PROVE n + 1 \in S
    <3>1. PICK A \in SUBSET Objects, B \in SUBSET Objects : A = r[n] /\ B = r[n + 1] /\ B = Further(A, edges)
      BY <1>1
    <3>2. CASE Closed(A, edges)
      <4>1. B = A
        BY <1>5, <3>1, <3>2
      <4>2. Closed(B, edges)
        BY <3>2, <4>1
      <4>3. Closed(r[n + 1], edges)
        BY <3>1, <4>2
      <4> QED
        BY <4>3
    <3>3. CASE ~Closed(A, edges) /\ n <= Cardinality(A)
      <4>1. A \subseteq B /\ A # B
        BY <1>5, <3>1, <3>3
      <4>2. Cardinality(A) <= Cardinality(B) /\ (Cardinality(B) = Cardinality(A) => B = A)
        BY <1>4, <4>1, FS_Subset
      <4>3. PICK a \in Nat, b \in Nat : a = Cardinality(A) /\ b = Cardinality(B)
        BY <1>4
      <4>4. n + 1 <= b
        BY <3>3, <4>1, <4>2, <4>3
      <4>5. n + 1 <= Cardinality(r[n + 1])
        BY <3>1, <4>3, <4>4
      <4> QED
        BY <4>5
    <3> QED
      BY <2>2, <3>1, <3>2, <3>3
  <2>3. \A n \in Nat : n \in S
    <3> HIDE DEF S
    <3> QED
      BY <2>1, <2>2, SetInduction
  <2>4. CASE N <= Cardinality(r[N])
    <3>1. PICK A \in SUBSET Objects : A = r[N]
      BY <1>1
    <3>2. Cardinality(A) \in Nat /\ Cardinality(A) <= N
      BY <1>2, <1>4, FS_Subset
    <3>3. A = Objects
      BY <1>2, <1>4, <2>4, <3>1, <3>2, FS_Subset
    <3> QED
      BY <3>1, <3>3 DEF Closed, ToObjects
  <2> QED
    BY <2>3, <2>4
<1>8. ASSUME NEW T, from \subseteq T, Closed(T, edges)
      PROVE  r[N] \subseteq T
  <2> DEFINE S == {n \in Nat : r[n] \subseteq T}
  <2>1. 0 \in S
    BY <1>1, <1>8
  <2>2. ASSUME NEW n \in Nat, n \in S PROVE n + 1 \in S
    BY <1>1, <1>8, <2>2 DEF Further, Closed
  <2> HIDE DEF S
  <2>3. \A n \in Nat : n \in S
    BY <2>1, <2>2, SetInduction
  <2> QED
    BY <2>3 DEF S
<1> QED
  BY <1>1, <1>2, <1>3, <1>6, <1>7, <1>8

-----------------------------------------------------------------------------
(* The invariant of the heap.                                              *)

References == [from : Objects \cup {Root}, to : Objects] \cup {NoReference}

\* The objects that are not about to be deleted, those of them that have
\* memory, and the handles that are or will be left.
Kept == ToSet(objects) \ doomed
Whole == {o \in Kept : ptr[o] # Nowhere}
Holders == alive \cup Kept

HeapType ==
    /\ objects \in Seq(Objects)
    /\ Once(objects)
    /\ ptr \in [Objects -> Offsets \cup {Nowhere}]
    /\ alive \subseteq Vars
    /\ obj \in [Handles -> Objects \cup {NULL}]
    /\ ref \in [Handles -> References]
    /\ lost \subseteq [from : Objects \cup {Root}, to : Objects]
    /\ doomed \subseteq ToSet(objects)
    /\ pc \in {"idle", "sweep", "crashed"}
    /\ pc = "idle" => doomed = {}

\* Each handle that is left is on a whole object or on none, and has its
\* reference registered; the others are on no object, or belong to objects
\* that are about to be deleted.
HandlesInv ==
    /\ \A h \in Holders : obj[h] \in Whole \cup {NULL} /\ ref[h] = Registered(h, obj[h])
    /\ \A h \in Handles : \/ ref[h] = NoReference
                          \/ ref[h].from = RootOf(h) /\ h \in alive \cup ToSet(objects)
    /\ \A o \in Objects : o \notin ToSet(objects) => obj[o] = NULL

\* Each lost reference is the root's or that of an object in the table, and
\* those of what is left lead to what is left.
LostInv ==
    \A r \in lost : /\ r.from \in {Root} \cup ToSet(objects)
                    /\ r.from \in {Root} \cup Kept => r.to \in Whole

HeapInv == HeapType /\ BlocksHaveObjects /\ HandlesInv /\ LostInv

\* A reference that is registered is on the object.
LEMMA RegisteredIs ==
    ASSUME NEW h \in Handles
    PROVE  /\ Registered(h, NULL) = NoReference
           /\ \A o \in Objects :
                /\ Registered(h, o) \in References
                /\ Registered(h, o).from = RootOf(h)
                /\ Registered(h, o).to = o
                /\ Registered(h, o) # NoReference
           /\ NoReference \in References
           /\ NoReference.from = NULL /\ NoReference.to = NULL
           /\ RootOf(h) \in Objects \cup {Root}
           /\ h \in Vars => RootOf(h) = Root
           /\ h \in Objects => RootOf(h) = h /\ RootOf(h) # Root
<1>1. Registered(h, NULL) = NoReference
  BY DEF Registered
<1>2. NoReference.from = NULL /\ NoReference.to = NULL /\ NoReference \in References
  BY DEF NoReference, Reference, References
<1>3. /\ RootOf(h) \in Objects \cup {Root}
      /\ h \in Vars => RootOf(h) = Root
      /\ h \in Objects => RootOf(h) = h /\ RootOf(h) # Root
  BY NamesAssumption DEF RootOf, Handles
<1>4. ASSUME NEW o \in Objects
      PROVE  /\ Registered(h, o) \in References
             /\ Registered(h, o).from = RootOf(h)
             /\ Registered(h, o).to = o
             /\ Registered(h, o) # NoReference
  <2>1. Registered(h, o) = [from |-> RootOf(h), to |-> o]
    BY NamesAssumption DEF Registered, Reference
  <2>2. o # NULL
    BY NamesAssumption
  <2> QED
    BY <1>2, <1>3, <2>1, <2>2 DEF References
<1> QED
  BY <1>1, <1>2, <1>3, <1>4

LEMMA HeapInvInit ==
    ASSUME Init
    PROVE  HeapInv
<1>1. /\ objects = <<>> /\ ptr = [o \in Objects |-> Nowhere] /\ alive = {}
      /\ obj = [h \in Handles |-> NULL] /\ ref = [h \in Handles |-> NoReference]
      /\ lost = {} /\ doomed = {} /\ pc = "idle" /\ live = {}
  BY DEF Init, PageInit
<1>2. objects \in Seq(Objects) /\ Once(objects) /\ ToSet(objects) = {}
  BY <1>1 DEF Once, ToSet
<1>3. HeapType
  BY <1>1, <1>2 DEF HeapType, References
<1>4. BlocksHaveObjects
  BY <1>1, <1>2 DEF BlocksHaveObjects
<1>5. Holders = {}
  BY <1>1, <1>2 DEF Holders, Kept
<1>6. HandlesInv
  BY <1>1, <1>2, <1>5, NamesAssumption DEF HandlesInv, Handles
<1>7. LostInv
  BY <1>1 DEF LostInv
<1> QED
  BY <1>3, <1>4, <1>6, <1>7 DEF HeapInv

\* Handles and lost references lead to objects.
LEMMA LeadToObjects ==
    ASSUME HeapType
    PROVE  /\ ToObjects(Roots, Edges)
           /\ ToObjects(Roots \cup RootsOf(lost), Edges \cup EdgesOf(lost))
<1>1. \A h \in Handles : obj[h] # NULL => obj[h] \in Objects
  BY DEF HeapType
<1>2. alive \subseteq Handles /\ Objects \subseteq Handles
  BY DEF HeapType, Handles
<1>3. Roots \in SUBSET Objects
  BY <1>1, <1>2 DEF Roots
<1>4. \A e \in Edges : e[2] \in Objects
  BY <1>1, <1>2 DEF Edges
<1>5. \A r \in lost : r.to \in Objects
  BY DEF HeapType
<1>6. RootsOf(lost) \in SUBSET Objects
  BY <1>5 DEF RootsOf
<1>7. \A e \in EdgesOf(lost) : e[2] \in Objects
  BY <1>5 DEF EdgesOf
<1> QED
  BY <1>3, <1>4, <1>6, <1>7 DEF ToObjects

\* The program can only get at whole objects, and only those are retained.
LEMMA ReachableWhole ==
    ASSUME HeapInv
    PROVE  /\ Reachable \subseteq Whole
           /\ Retained \subseteq Whole
           /\ Usable \subseteq Holders
           /\ NoDanglingHandle
<1>1. Roots \subseteq Whole
  BY DEF HeapInv, HandlesInv, Holders, Roots
<1>2. Closed(Whole, Edges)
  <2> SUFFICES ASSUME NEW e \in Edges, e[1] \in Whole PROVE e[2] \in Whole
    BY DEF Closed
  <2>1. e[1] \in Holders /\ e[2] = obj[e[1]] /\ e[2] # NULL
    BY DEF Edges, Holders, Whole
  <2> QED
    BY <2>1 DEF HeapInv, HandlesInv
<1>3. Reachable \subseteq Whole
  BY <1>1, <1>2, LeadToObjects, ClosureIs DEF HeapInv, Reachable
<1>4. RootsOf(lost) \subseteq Whole
  BY DEF HeapInv, LostInv, RootsOf
<1>5. Closed(Whole, EdgesOf(lost))
  <2> SUFFICES ASSUME NEW e \in EdgesOf(lost), e[1] \in Whole PROVE e[2] \in Whole
    BY DEF Closed
  <2>1. PICK r \in lost : e = <<r.from, r.to>>
    BY DEF EdgesOf
  <2>2. r.from \in Kept
    BY <2>1 DEF Whole
  <2> QED
    BY <2>1, <2>2 DEF HeapInv, LostInv
<1>6. Closed(Whole, Edges \cup EdgesOf(lost))
  BY <1>2, <1>5 DEF Closed
<1>7. Retained \subseteq Whole
  <2>1. Roots \cup RootsOf(lost) \subseteq Whole
    BY <1>1, <1>4
  <2> QED
    BY <1>6, <2>1, LeadToObjects, ClosureIs DEF HeapInv, Retained
<1>8. Usable \subseteq Holders
  BY <1>3 DEF Usable, Holders, Whole
<1>9. NoDanglingHandle
  BY <1>3 DEF NoDanglingHandle, Whole, Kept, HeapInv, BlocksHaveObjects
<1> QED
  BY <1>3, <1>7, <1>8, <1>9

-----------------------------------------------------------------------------
(* Handles.                                                                *)

\* The table and the blocks stay, and each handle too, or it leaves its object
\* and is registered anew.  What is lost is a reference of such a handle.
Reassigned ==
    /\ UNCHANGED <<live, objects, ptr, doomed, pc>>
    /\ alive' \subseteq Vars
    /\ DOMAIN obj' = Handles /\ obj' = [h \in Handles |-> obj'[h]]
    /\ DOMAIN ref' = Handles /\ ref' = [h \in Handles |-> ref'[h]]
    /\ \A h \in Handles :
          \/ obj'[h] = obj[h] /\ ref'[h] = ref[h] /\ (h \in alive' <=> h \in alive)
          \/ /\ obj'[h] \in Whole \cup {NULL}
             /\ ref'[h] = Registered(h, obj'[h])
             /\ obj'[h] = NULL \/ h \in alive' \cup ToSet(objects)
    /\ \A r \in lost' :
          \/ r \in lost
          \/ \E h \in alive \cup ToSet(objects), o \in Whole : h \in Handles /\ r = Registered(h, o)

LEMMA ReassignedKeeps ==
    ASSUME HeapInv, Reassigned
    PROVE  HeapInv'
<1>1. /\ live' = live /\ objects' = objects /\ ptr' = ptr /\ doomed' = doomed /\ pc' = pc
  BY DEF Reassigned
<1>2. Kept' = Kept /\ Whole' = Whole
  BY <1>1 DEF Kept, Whole
<1>3. \A h \in Handles : h \in Vars \/ h \in Objects
  BY DEF Handles
<1>4. Whole \subseteq Objects /\ ToSet(objects) \subseteq Objects
  BY DEF Whole, Kept, HeapInv, HeapType, ToSet
<1>5. ASSUME NEW h \in Handles PROVE obj'[h] \in Objects \cup {NULL} /\ ref'[h] \in References
  <2>1. obj[h] \in Objects \cup {NULL} /\ ref[h] \in References
    BY DEF HeapInv, HeapType
  <2>2. CASE obj'[h] \in Whole \cup {NULL} /\ ref'[h] = Registered(h, obj'[h])
    BY <1>4, <2>2, RegisteredIs
  <2> QED
    BY <2>1, <2>2 DEF Reassigned
<1>6. obj' \in [Handles -> Objects \cup {NULL}] /\ ref' \in [Handles -> References]
  BY <1>5 DEF Reassigned
<1>7. HeapType'
  <2>1. \A r \in lost : r \in [from : Objects \cup {Root}, to : Objects]
    BY DEF HeapInv, HeapType
  <2>2. ASSUME NEW h \in Handles, NEW o \in Whole
        PROVE  Registered(h, o) \in [from : Objects \cup {Root}, to : Objects]
    <3>1. o \in Objects
      BY <1>4
    <3> QED
      BY <3>1, RegisteredIs DEF References
  <2>3. lost' \subseteq [from : Objects \cup {Root}, to : Objects]
    BY <2>1, <2>2 DEF Reassigned
  <2> QED
    BY <1>1, <1>6, <2>3 DEF HeapInv, HeapType, Reassigned
<1>8. BlocksHaveObjects'
  BY <1>1 DEF HeapInv, BlocksHaveObjects
<1>9. Holders \subseteq Handles /\ Holders' = alive' \cup Kept /\ Kept \subseteq Handles /\ Holders = alive \cup Kept
  BY <1>2, <1>4 DEF Holders, Kept, HeapInv, HeapType, Handles
<1>10. alive' \subseteq Handles
  BY DEF Reassigned, Handles
<1>11. ASSUME NEW h \in Holders'
       PROVE  obj'[h] \in Whole \cup {NULL} /\ ref'[h] = Registered(h, obj'[h])
  <2>1. h \in Handles
    BY <1>9, <1>10
  <2>2. CASE obj'[h] = obj[h] /\ ref'[h] = ref[h] /\ (h \in alive' <=> h \in alive)
    <3>1. h \in Holders
      BY <1>9, <2>2
    <3> QED
      BY <2>2, <3>1 DEF HeapInv, HandlesInv
  <2> QED
    BY <2>1, <2>2 DEF Reassigned
<1>12. ASSUME NEW h \in Handles
       PROVE  \/ ref'[h] = NoReference
              \/ ref'[h].from = RootOf(h) /\ h \in alive' \cup ToSet(objects)
  <2>1. CASE obj'[h] = obj[h] /\ ref'[h] = ref[h] /\ (h \in alive' <=> h \in alive)
    BY <2>1 DEF HeapInv, HandlesInv
  <2>2. CASE /\ obj'[h] \in Whole \cup {NULL}
             /\ ref'[h] = Registered(h, obj'[h])
             /\ obj'[h] = NULL \/ h \in alive' \cup ToSet(objects)
    BY <1>4, <2>2, RegisteredIs
  <2> QED
    BY <2>1, <2>2 DEF Reassigned
<1>13. ASSUME NEW o \in Objects, o \notin ToSet(objects)
       PROVE  obj'[o] = NULL
  <2>1. o \in Handles /\ o \notin Vars
    BY NamesAssumption DEF Handles
  <2>2. obj[o] = NULL /\ o \notin alive'
    BY <1>13, <2>1 DEF HeapInv, HandlesInv, Reassigned
  <2> QED
    BY <1>13, <2>1, <2>2 DEF Reassigned
<1>14. HandlesInv'
  BY <1>1, <1>2, <1>11, <1>12, <1>13 DEF HandlesInv
<1>15. ASSUME NEW r \in lost'
       PROVE  /\ r.from \in {Root} \cup ToSet(objects)
              /\ r.from \in {Root} \cup Kept => r.to \in Whole
  <2>1. CASE r \in lost
    BY <2>1 DEF HeapInv, LostInv
  <2>2. CASE \E h \in alive \cup ToSet(objects), o \in Whole : h \in Handles /\ r = Registered(h, o)
    <3>1. PICK h \in alive \cup ToSet(objects), o \in Whole : h \in Handles /\ r = Registered(h, o)
      BY <2>2
    <3>2. o \in Objects /\ (h \in Vars \/ (h \in ToSet(objects) /\ h \in Objects))
      <4>1. alive \subseteq Vars
        BY DEF HeapInv, HeapType
      <4> QED
        BY <1>4, <3>1, <4>1
    <3>3. r.from = RootOf(h) /\ r.to = o
      BY <3>1, <3>2, RegisteredIs
    <3>4. RootOf(h) = Root \/ (RootOf(h) = h /\ h \in ToSet(objects))
      BY <3>1, <3>2, RegisteredIs
    <3> QED
      BY <3>1, <3>3, <3>4
  <2> QED
    BY <2>1, <2>2 DEF Reassigned
<1>16. LostInv'
  BY <1>1, <1>2, <1>15 DEF LostInv
<1> QED
  BY <1>7, <1>8, <1>14, <1>16 DEF HeapInv

LEMMA DeclareKeeps ==
    ASSUME HeapInv, NEW v \in Vars, Declare(v)
    PROVE  HeapInv'
<1>1. v \in Handles
  BY DEF Handles
<1>2. /\ alive' = alive \cup {v} /\ obj' = [obj EXCEPT ![v] = NULL] /\ ref' = [ref EXCEPT ![v] = NoReference]
      /\ UNCHANGED <<pageVars, objects, ptr, lost, doomed, pc>>
  BY DEF Declare
<1>3. obj \in [Handles -> Objects \cup {NULL}] /\ ref \in [Handles -> References] /\ alive \subseteq Vars
  BY DEF HeapInv, HeapType
<1>4. Registered(v, NULL) = NoReference
  BY <1>1, RegisteredIs
<1>5. Reassigned
  BY <1>1, <1>2, <1>3, <1>4 DEF Reassigned, pageVars
<1> QED
  BY <1>5, ReassignedKeeps

LEMMA LeaveKeeps ==
    ASSUME HeapInv, NEW v \in Vars, Leave(v)
    PROVE  HeapInv'
<1>1. v \in Handles
  BY DEF Handles
<1>2. /\ alive' = alive \ {v} /\ obj' = [obj EXCEPT ![v] = NULL] /\ ref' = [ref EXCEPT ![v] = NoReference]
      /\ UNCHANGED <<pageVars, objects, ptr, lost, doomed, pc>>
  BY DEF Leave
<1>3. obj \in [Handles -> Objects \cup {NULL}] /\ ref \in [Handles -> References] /\ alive \subseteq Vars
  BY DEF HeapInv, HeapType
<1>4. Registered(v, NULL) = NoReference
  BY <1>1, RegisteredIs
<1>5. Reassigned
  BY <1>1, <1>2, <1>3, <1>4 DEF Reassigned, pageVars
<1> QED
  BY <1>5, ReassignedKeeps

\* When nothing is being deleted, a handle that the program can name is on a
\* whole object or on none.
LEMMA UsableIs ==
    ASSUME HeapInv, pc = "idle", NEW h \in Usable
    PROVE  /\ h \in Handles
           /\ h \in alive \cup ToSet(objects)
           /\ obj[h] \in Whole \cup {NULL}
           /\ ref[h] = Registered(h, obj[h])
<1>1. h \in Holders
  BY ReachableWhole
<1>2. h \in alive \cup ToSet(objects)
  BY <1>1 DEF Holders, Kept
<1>3. h \in Handles
  BY <1>2 DEF Handles, HeapInv, HeapType, ToSet
<1> QED
  BY <1>1, <1>2, <1>3 DEF HeapInv, HandlesInv

LEMMA CopyAssignKeeps ==
    ASSUME HeapInv, NEW dst \in Handles, NEW src \in Handles, CopyAssign(dst, src)
    PROVE  HeapInv'
<1>1. pc = "idle" /\ dst \in Usable /\ src \in Usable
  BY DEF CopyAssign
<1>2. /\ dst \in alive \cup ToSet(objects)
      /\ obj[src] \in Whole \cup {NULL} /\ ref[src] = Registered(src, obj[src])
  BY <1>1, UsableIs
<1>3. obj \in [Handles -> Objects \cup {NULL}] /\ ref \in [Handles -> References] /\ alive \subseteq Vars
  BY DEF HeapInv, HeapType
<1>4. live' = live /\ objects' = objects /\ ptr' = ptr /\ alive' = alive /\ lost' = lost /\ doomed' = doomed /\ pc' = pc
  BY DEF CopyAssign, pageVars
<1>5. Registered(dst, NULL) = NoReference /\ Registered(src, NULL) = NoReference
  BY RegisteredIs
<1>6. CASE ref[src] = NoReference \/ dst = src
  <2>1. obj' = [obj EXCEPT ![dst] = NULL] /\ ref' = [ref EXCEPT ![dst] = NoReference]
    BY <1>6 DEF CopyAssign
  <2>2. Reassigned
    BY <1>3, <1>4, <1>5, <2>1 DEF Reassigned
  <2> QED
    BY <2>2, ReassignedKeeps
<1>7. CASE ~(ref[src] = NoReference \/ dst = src)
  <2>1. /\ obj' = [obj EXCEPT ![dst] = obj[src]]
        /\ ref' = [ref EXCEPT ![dst] = Reference(RootOf(dst), obj[src])]
    BY <1>7 DEF CopyAssign
  <2>2. obj[src] # NULL
    BY <1>2, <1>5, <1>7
  <2>3. Reference(RootOf(dst), obj[src]) = Registered(dst, obj[src])
    BY <2>2 DEF Registered
  <2>4. Reassigned
    BY <1>2, <1>3, <1>4, <2>1, <2>3 DEF Reassigned
  <2> QED
    BY <2>4, ReassignedKeeps
<1> QED
  BY <1>6, <1>7

LEMMA MoveAssignKeeps ==
    ASSUME HeapInv, NEW dst \in Handles, NEW src \in Handles, MoveAssign(dst, src)
    PROVE  HeapInv'
<1>1. pc = "idle" /\ dst \in Usable /\ src \in Usable
  BY DEF MoveAssign
<1>2. /\ dst \in alive \cup ToSet(objects) /\ src \in alive \cup ToSet(objects)
      /\ obj[src] \in Whole \cup {NULL} /\ obj[dst] \in Whole \cup {NULL}
  BY <1>1, UsableIs
<1>3. obj \in [Handles -> Objects \cup {NULL}] /\ ref \in [Handles -> References] /\ alive \subseteq Vars
  BY DEF HeapInv, HeapType
<1>4. live' = live /\ objects' = objects /\ ptr' = ptr /\ alive' = alive /\ doomed' = doomed /\ pc' = pc
  BY DEF MoveAssign, pageVars
<1>5. /\ obj' = [obj EXCEPT ![dst] = obj[src], ![src] = obj[dst]]
      /\ ref' = [ref EXCEPT ![dst] = Registered(dst, obj[src]), ![src] = Registered(src, obj[dst])]
      /\ lost' = lost \cup {r \in {Registered(dst, obj[dst])} : dst = src /\ r # NoReference}
  BY DEF MoveAssign
<1>6. /\ obj'[dst] = obj[src] /\ obj'[src] = obj[dst]
      /\ ref'[dst] = Registered(dst, obj'[dst]) /\ ref'[src] = Registered(src, obj'[src])
      /\ \A h \in Handles : h # dst /\ h # src => obj'[h] = obj[h] /\ ref'[h] = ref[h]
  <2>1. CASE dst = src
    BY <1>3, <1>5, <2>1
  <2>2. CASE dst # src
    BY <1>3, <1>5, <2>2
  <2> QED
    BY <2>1, <2>2
<1>7. DOMAIN obj' = Handles /\ obj' = [h \in Handles |-> obj'[h]]
  BY <1>3, <1>5
<1>8. DOMAIN ref' = Handles /\ ref' = [h \in Handles |-> ref'[h]]
  BY <1>3, <1>5
<1>9. ASSUME NEW r \in lost', r \notin lost
      PROVE  \E h \in alive \cup ToSet(objects), o \in Whole : h \in Handles /\ r = Registered(h, o)
  <2>1. r = Registered(dst, obj[dst]) /\ r # NoReference
    BY <1>5, <1>9
  <2>2. obj[dst] \in Whole
    BY <1>2, <2>1, RegisteredIs
  <2> QED
    BY <1>2, <2>1, <2>2
<1>10. Reassigned
  BY <1>2, <1>3, <1>4, <1>6, <1>7, <1>8, <1>9 DEF Reassigned
<1> QED
  BY <1>10, ReassignedKeeps

-----------------------------------------------------------------------------
(* New objects.                                                            *)

\* A node is taken for an object.
LEMMA UnusedIs ==
    ASSUME HeapInv, pc = "idle", NEW o \in Unused
    PROVE  /\ o \in Objects /\ o \in Handles /\ o \notin Vars
           /\ o \notin ToSet(objects) /\ o \notin Kept
           /\ <<o>> \o objects \in Seq(Objects)
           /\ ToSet(<<o>> \o objects) = ToSet(objects) \cup {o}
           /\ Once(<<o>> \o objects)
           /\ doomed = {} /\ Kept = ToSet(objects)
           /\ \A h \in Holders : h \in Handles /\ h # o
<1>1. /\ objects \in Seq(Objects) /\ Once(objects) /\ doomed = {} /\ alive \subseteq Vars
  BY DEF HeapInv, HeapType
<1>2. o \in Objects /\ o \notin ToSet(objects) /\ o \in Handles /\ o \notin Vars
  BY NamesAssumption DEF Unused, Handles
<1>3. /\ <<o>> \o objects \in Seq(Objects)
      /\ ToSet(<<o>> \o objects) = ToSet(objects) \cup {o}
      /\ Once(<<o>> \o objects)
  BY <1>1, <1>2, PrependRight
<1>4. Kept = ToSet(objects)
  BY <1>1 DEF Kept
<1>5. ToSet(objects) \subseteq Objects
  BY <1>1 DEF ToSet
<1>6. \A h \in Holders : h \in Handles /\ h # o
  BY <1>1, <1>2, <1>4, <1>5 DEF Holders, Handles
<1> QED
  BY <1>1, <1>2, <1>3, <1>4, <1>6

\* The lost references are not those of the new node.
LEMMA LostStays ==
    ASSUME HeapInv, lost' = lost, NEW o \in Objects, o \notin ToSet(objects),
           ToSet(objects) \subseteq ToSet(objects'), Kept' = Kept \cup {o}, Whole \subseteq Whole'
    PROVE  LostInv'
<1>1. ASSUME NEW r \in lost
      PROVE  /\ r.from \in {Root} \cup ToSet(objects')
             /\ r.from \in {Root} \cup Kept \cup {o} => r.to \in Whole'
  <2>1. r.from \in {Root} \cup ToSet(objects) /\ (r.from \in {Root} \cup Kept => r.to \in Whole)
    BY DEF HeapInv, LostInv
  <2>2. r.from # o
    BY <2>1, NamesAssumption
  <2> QED
    BY <2>1, <2>2
<1> QED
  BY <1>1 DEF LostInv

LEMMA NewKeeps ==
    ASSUME PageInv, HeapInv, NEW v \in Vars, NEW len \in Lengths, New(v, len)
    PROVE  HeapInv'
<1>1. pc = "idle" /\ v \notin alive
  BY DEF New
<1>2. PICK o \in Unused :
        /\ Allocate(len)
        /\ objects' = <<o>> \o objects
        /\ ptr' = [ptr EXCEPT ![o] = Found(LevelFor(len))]
        /\ obj' = [obj EXCEPT ![v] = o, ![o] = NULL]
        /\ ref' = [ref EXCEPT ![v] = Reference(Root, o), ![o] = NoReference]
  BY DEF New
<1>3. alive' = alive \cup {v} /\ lost' = lost /\ doomed' = doomed /\ pc' = pc
  BY DEF New
<1>4. PICK h : h = Found(LevelFor(len))
  OBVIOUS
<1>5. h \in Offsets /\ h \notin live /\ live' = live \cup {h}
  <2>1. PICK w \in Levels : \E L \in w .. TopLevel, g \in Offsets : Allocates(len, w, L, g)
    BY <1>2, AllocateKeeps
  <2>2. PICK L \in w .. TopLevel, g \in Offsets : Allocates(len, w, L, g)
    BY <2>1
  <2>3. g = h /\ live' = live \cup {g} /\ <<g, L>> \in FreeBlocks
    BY <1>4, <2>2 DEF Allocates
  <2>4. PICK b \in FreeBlocks : b = <<g, L>>
    BY <2>3
  <2>5. g \notin live
    BY <2>4, FreeOrLive
  <2> QED
    BY <2>3, <2>5
<1>6. /\ o \in Objects /\ o \in Handles /\ o \notin Vars
      /\ o \notin ToSet(objects) /\ o \notin Kept
      /\ objects' \in Seq(Objects)
      /\ ToSet(objects') = ToSet(objects) \cup {o}
      /\ Once(objects')
      /\ doomed = {} /\ Kept = ToSet(objects)
      /\ \A g \in Holders : g \in Handles /\ g # o
  BY <1>1, <1>2, UnusedIs
<1>7. v \in Handles /\ v # o
  BY <1>6 DEF Handles
<1>8. /\ ptr \in [Objects -> Offsets \cup {Nowhere}] /\ alive \subseteq Vars
      /\ lost \subseteq [from : Objects \cup {Root}, to : Objects]
      /\ obj \in [Handles -> Objects \cup {NULL}] /\ ref \in [Handles -> References]
  BY DEF HeapInv, HeapType
<1>9. /\ ptr'[o] = h /\ h # Nowhere /\ \A p \in Objects : p # o => ptr'[p] = ptr[p]
      /\ obj'[v] = o /\ obj'[o] = NULL /\ \A g \in Handles : g # o /\ g # v => obj'[g] = obj[g]
      /\ ref'[v] = Reference(Root, o) /\ ref'[o] = NoReference
      /\ \A g \in Handles : g # o /\ g # v => ref'[g] = ref[g]
  <2>1. ptr'[o] = h /\ h # Nowhere /\ \A p \in Objects : p # o => ptr'[p] = ptr[p]
    BY <1>2, <1>4, <1>5, <1>6, <1>8, NamesAssumption
  <2>2. obj'[v] = o /\ obj'[o] = NULL /\ \A g \in Handles : g # o /\ g # v => obj'[g] = obj[g]
    BY <1>2, <1>6, <1>7, <1>8
  <2>3. /\ ref'[v] = Reference(Root, o) /\ ref'[o] = NoReference
        /\ \A g \in Handles : g # o /\ g # v => ref'[g] = ref[g]
    BY <1>2, <1>6, <1>7, <1>8
  <2> QED
    BY <2>1, <2>2, <2>3
<1>10. /\ Registered(v, o) = Reference(Root, o) /\ Registered(v, o) \in References
       /\ Registered(v, o).from = RootOf(v)
       /\ Registered(o, NULL) = NoReference /\ NoReference \in References
  <2>1. RootOf(v) = Root /\ o # NULL
    BY <1>6, NamesAssumption DEF RootOf
  <2> QED
    BY <1>6, <1>7, <2>1, RegisteredIs DEF Registered
<1>11. ptr' \in [Objects -> Offsets \cup {Nowhere}]
  BY <1>2, <1>4, <1>5, <1>8
<1>12. obj' \in [Handles -> Objects \cup {NULL}]
  BY <1>2, <1>6, <1>7, <1>8
<1>13. ref' \in [Handles -> References]
  BY <1>2, <1>7, <1>8, <1>10
<1>14. HeapType'
  BY <1>1, <1>3, <1>6, <1>8, <1>11, <1>12, <1>13 DEF HeapType
<1>15. ToSet(objects) \subseteq Objects
  BY DEF HeapInv, HeapType, ToSet
<1>16. BlocksHaveObjects'
  <2>1. /\ live = {ptr[p] : p \in ToSet(objects)} \ {Nowhere}
        /\ \A p, q \in ToSet(objects) : ptr[p] = ptr[q] /\ ptr[p] # Nowhere => p = q
    BY DEF HeapInv, BlocksHaveObjects
  <2>2. \A p \in ToSet(objects) : ptr'[p] = ptr[p] /\ ptr[p] # h
    BY <1>5, <1>6, <1>9, <1>15, <2>1, NamesAssumption
  <2>3. live' = {ptr'[p] : p \in ToSet(objects')} \ {Nowhere}
    BY <1>5, <1>6, <1>9, <2>1, <2>2
  <2>4. \A p, q \in ToSet(objects') : ptr'[p] = ptr'[q] /\ ptr'[p] # Nowhere => p = q
    BY <1>6, <1>9, <2>1, <2>2
  <2> QED
    BY <2>3, <2>4 DEF BlocksHaveObjects
<1>17. Kept' = Kept \cup {o} /\ Whole' = Whole \cup {o} /\ Holders' = Holders \cup {o, v}
  <2>1. Kept' = Kept \cup {o}
    BY <1>3, <1>6 DEF Kept
  <2>2. Whole' = Whole \cup {o}
    BY <1>6, <1>9, <1>15, <2>1 DEF Whole
  <2> QED
    BY <1>3, <2>1, <2>2 DEF Holders
<1>18. ASSUME NEW g \in Holders'
       PROVE  obj'[g] \in Whole' \cup {NULL} /\ ref'[g] = Registered(g, obj'[g])
  <2>1. CASE g = o
    BY <1>9, <1>10, <2>1
  <2>2. CASE g = v
    BY <1>9, <1>10, <1>17, <2>2
  <2>3. CASE g # o /\ g # v
    <3>1. g \in Holders /\ g \in Handles
      BY <1>6, <1>17, <2>3
    <3>2. obj[g] \in Whole \cup {NULL} /\ ref[g] = Registered(g, obj[g])
      BY <3>1 DEF HeapInv, HandlesInv
    <3> QED
      BY <1>9, <1>17, <2>3, <3>1, <3>2
  <2> QED
    BY <2>1, <2>2, <2>3
<1>19. ASSUME NEW g \in Handles
       PROVE  \/ ref'[g] = NoReference
              \/ ref'[g].from = RootOf(g) /\ g \in alive' \cup ToSet(objects')
  <2>1. CASE g = o
    BY <1>9, <2>1
  <2>2. CASE g = v
    BY <1>3, <1>9, <1>10, <2>2
  <2>3. CASE g # o /\ g # v
    BY <1>3, <1>6, <1>9, <2>3 DEF HeapInv, HandlesInv
  <2> QED
    BY <2>1, <2>2, <2>3
<1>20. ASSUME NEW p \in Objects, p \notin ToSet(objects')
       PROVE  obj'[p] = NULL
  <2>1. p # o /\ p # v /\ p \in Handles
    BY <1>6, <1>20, NamesAssumption DEF Handles
  <2> QED
    BY <1>6, <1>9, <1>20, <2>1 DEF HeapInv, HandlesInv
<1>21. HandlesInv'
  BY <1>18, <1>19, <1>20 DEF HandlesInv
<1>22. LostInv'
  BY <1>3, <1>6, <1>17, LostStays
<1> QED
  BY <1>14, <1>16, <1>21, <1>22 DEF HeapInv

LEMMA NewFailsKeeps ==
    ASSUME HeapInv, NEW v \in Vars, NEW len \in Lengths, NewFails(v, len)
    PROVE  HeapInv'
<1>1. pc = "idle"
  BY DEF NewFails
<1>2. PICK o \in Unused :
        /\ AllocateFails(len)
        /\ objects' = <<o>> \o objects
        /\ ptr' = [ptr EXCEPT ![o] = Nowhere]
        /\ obj' = [obj EXCEPT ![o] = NULL]
  BY DEF NewFails
<1>3. alive' = alive /\ ref' = ref /\ lost' = lost /\ doomed' = doomed /\ pc' = pc /\ live' = live
  BY <1>2 DEF NewFails, AllocateFails
<1>4. /\ o \in Objects /\ o \in Handles /\ o \notin Vars
      /\ o \notin ToSet(objects) /\ o \notin Kept
      /\ objects' \in Seq(Objects)
      /\ ToSet(objects') = ToSet(objects) \cup {o}
      /\ Once(objects')
      /\ doomed = {} /\ Kept = ToSet(objects)
      /\ \A g \in Holders : g \in Handles /\ g # o
  BY <1>1, <1>2, UnusedIs
<1>5. /\ ptr \in [Objects -> Offsets \cup {Nowhere}] /\ alive \subseteq Vars
      /\ lost \subseteq [from : Objects \cup {Root}, to : Objects]
      /\ obj \in [Handles -> Objects \cup {NULL}] /\ ref \in [Handles -> References]
  BY DEF HeapInv, HeapType
<1>6. /\ ptr'[o] = Nowhere /\ \A p \in Objects : p # o => ptr'[p] = ptr[p]
      /\ obj'[o] = NULL /\ \A g \in Handles : g # o => obj'[g] = obj[g]
  BY <1>2, <1>4, <1>5
<1>7. ptr' \in [Objects -> Offsets \cup {Nowhere}] /\ obj' \in [Handles -> Objects \cup {NULL}]
  BY <1>2, <1>5
<1>8. HeapType'
  BY <1>1, <1>3, <1>4, <1>5, <1>7 DEF HeapType
<1>9. ToSet(objects) \subseteq Objects
  BY DEF HeapInv, HeapType, ToSet
<1>10. BlocksHaveObjects'
  <2>1. /\ live = {ptr[p] : p \in ToSet(objects)} \ {Nowhere}
        /\ \A p, q \in ToSet(objects) : ptr[p] = ptr[q] /\ ptr[p] # Nowhere => p = q
    BY DEF HeapInv, BlocksHaveObjects
  <2>2. \A p \in ToSet(objects) : ptr'[p] = ptr[p]
    BY <1>4, <1>6, <1>9
  <2>3. live' = {ptr'[p] : p \in ToSet(objects')} \ {Nowhere}
    BY <1>3, <1>4, <1>6, <2>1, <2>2
  <2>4. \A p, q \in ToSet(objects') : ptr'[p] = ptr'[q] /\ ptr'[p] # Nowhere => p = q
    BY <1>4, <1>6, <2>1, <2>2
  <2> QED
    BY <2>3, <2>4 DEF BlocksHaveObjects
<1>11. Kept' = Kept \cup {o} /\ Whole' = Whole /\ Holders' = Holders \cup {o}
  <2>1. Kept' = Kept \cup {o}
    BY <1>3, <1>4 DEF Kept
  <2>2. Whole' = Whole
    BY <1>4, <1>6, <1>9, <2>1 DEF Whole
  <2> QED
    BY <1>3, <2>1, <2>2 DEF Holders
<1>12. ref[o] = NoReference /\ Registered(o, NULL) = NoReference
  <2>1. o \notin alive
    BY <1>4, <1>5
  <2> QED
    BY <1>4, <2>1, RegisteredIs DEF HeapInv, HandlesInv
<1>13. ASSUME NEW g \in Holders'
       PROVE  obj'[g] \in Whole' \cup {NULL} /\ ref'[g] = Registered(g, obj'[g])
  <2>1. CASE g = o
    BY <1>3, <1>6, <1>12, <2>1
  <2>2. CASE g # o
    <3>1. g \in Holders /\ g \in Handles
      BY <1>4, <1>11, <2>2
    <3>2. obj[g] \in Whole \cup {NULL} /\ ref[g] = Registered(g, obj[g])
      BY <3>1 DEF HeapInv, HandlesInv
    <3> QED
      BY <1>3, <1>6, <1>11, <2>2, <3>1, <3>2
  <2> QED
    BY <2>1, <2>2
<1>14. \A g \in Handles : \/ ref'[g] = NoReference
                          \/ ref'[g].from = RootOf(g) /\ g \in alive' \cup ToSet(objects')
  BY <1>3, <1>4 DEF HeapInv, HandlesInv
<1>15. ASSUME NEW p \in Objects, p \notin ToSet(objects')
       PROVE  obj'[p] = NULL
  <2>1. p # o /\ p \in Handles
    BY <1>4, <1>15 DEF Handles
  <2> QED
    BY <1>4, <1>6, <1>15, <2>1 DEF HeapInv, HandlesInv
<1>16. HandlesInv'
  BY <1>13, <1>14, <1>15 DEF HandlesInv
<1>17. LostInv'
  BY <1>3, <1>4, <1>11, LostStays
<1> QED
  BY <1>8, <1>10, <1>16, <1>17 DEF HeapInv

-----------------------------------------------------------------------------
(* Collections.                                                            *)

\* The references that handles point to.
Held == {ref[h] : h \in Handles} \ {NoReference}

\* They lead where the handles lead.
LEMMA HeldIs ==
    ASSUME HeapInv, pc = "idle"
    PROVE  /\ RootsOf(Held) = Roots
           /\ Edges \subseteq EdgesOf(Held)
           /\ \A e \in EdgesOf(Held) : e[2] \in Objects /\ (e[1] = Root \/ e \in Edges)
<1>1. /\ obj \in [Handles -> Objects \cup {NULL}] /\ ref \in [Handles -> References]
      /\ alive \subseteq Vars /\ Holders = alive \cup ToSet(objects)
  BY DEF HeapInv, HeapType, Holders, Kept
<1>2. \A h \in Handles : h \in Vars \/ h \in Objects
  BY DEF Handles
<1>3. ASSUME NEW r \in Held
      PROVE  \E h \in Holders : /\ h \in Handles /\ r = ref[h] /\ r.from = RootOf(h)
                                /\ obj[h] # NULL /\ obj[h] \in Objects /\ r.to = obj[h]
  <2>1. PICK h \in Handles : r = ref[h] /\ r # NoReference
    BY DEF Held
  <2>2. r.from = RootOf(h) /\ h \in Holders
    BY <1>1, <2>1 DEF HeapInv, HandlesInv
  <2>3. r = Registered(h, obj[h])
    BY <2>1, <2>2 DEF HeapInv, HandlesInv
  <2>4. obj[h] # NULL /\ obj[h] \in Objects
    BY <1>1, <2>1, <2>3, RegisteredIs
  <2>5. r.to = obj[h]
    BY <2>1, <2>3, <2>4, RegisteredIs
  <2> QED
    BY <2>1, <2>2, <2>4, <2>5
<1>4. ASSUME NEW h \in Holders, h \in Handles, obj[h] # NULL
      PROVE  ref[h] \in Held /\ ref[h].from = RootOf(h) /\ ref[h].to = obj[h]
  <2>1. ref[h] = Registered(h, obj[h]) /\ obj[h] \in Objects
    BY <1>1, <1>4 DEF HeapInv, HandlesInv
  <2>2. ref[h].from = RootOf(h) /\ ref[h].to = obj[h] /\ ref[h] # NoReference
    BY <1>4, <2>1, RegisteredIs
  <2> QED
    BY <1>4, <2>2 DEF Held
<1>5. ASSUME NEW x \in RootsOf(Held) PROVE x \in Roots
  <2>1. PICK r \in Held : r.from = Root /\ x = r.to
    BY DEF RootsOf
  <2>2. PICK h \in Holders : /\ h \in Handles /\ r = ref[h] /\ r.from = RootOf(h)
                             /\ obj[h] # NULL /\ obj[h] \in Objects /\ r.to = obj[h]
    BY <1>3
  <2>3. h \in Vars
    BY <1>2, <2>1, <2>2, RegisteredIs
  <2>4. h \in alive
    BY <1>1, <2>2, <2>3, NamesAssumption DEF HeapInv, HeapType, ToSet
  <2> QED
    BY <2>1, <2>2, <2>4 DEF Roots
<1>6. ASSUME NEW x \in Roots PROVE x \in RootsOf(Held)
  <2>1. PICK v \in alive : x = obj[v] /\ obj[v] # NULL
    BY DEF Roots
  <2>2. v \in Holders /\ v \in Handles /\ RootOf(v) = Root
    BY <1>1 DEF Handles, RootOf
  <2>3. ref[v] \in Held /\ ref[v].from = Root /\ ref[v].to = x
    BY <1>4, <2>1, <2>2
  <2> QED
    BY <2>3 DEF RootsOf
<1>7. ASSUME NEW e \in Edges PROVE e \in EdgesOf(Held)
  <2>1. PICK o \in Objects : obj[o] # NULL /\ e = <<o, obj[o]>>
    BY DEF Edges
  <2>2. o \in ToSet(objects) /\ o \in Handles
    BY <2>1 DEF HeapInv, HandlesInv, Handles
  <2>3. RootOf(o) = o
    BY <2>2, RegisteredIs
  <2>4. ref[o] \in Held /\ ref[o].from = o /\ ref[o].to = obj[o]
    BY <1>1, <1>4, <2>1, <2>2, <2>3
  <2> QED
    BY <2>1, <2>4 DEF EdgesOf
<1>8. ASSUME NEW e \in EdgesOf(Held) PROVE e[2] \in Objects /\ (e[1] = Root \/ e \in Edges)
  <2>1. PICK r \in Held : e = <<r.from, r.to>>
    BY DEF EdgesOf
  <2>2. PICK h \in Holders : /\ h \in Handles /\ r = ref[h] /\ r.from = RootOf(h)
                             /\ obj[h] # NULL /\ obj[h] \in Objects /\ r.to = obj[h]
    BY <1>3
  <2>3. CASE h \in Vars
    BY <2>1, <2>2, <2>3, RegisteredIs
  <2>4. CASE h \in Objects
    <3>1. e = <<h, obj[h]>>
      BY <2>1, <2>2, <2>4, RegisteredIs
    <3> QED
      BY <2>2, <2>4, <3>1 DEF Edges
  <2> QED
    BY <1>2, <2>2, <2>3, <2>4
<1> QED
  BY <1>5, <1>6, <1>7, <1>8

\* The marking finds exactly what handles and lost references lead to.
LEMMA MarkedIs ==
    ASSUME HeapInv, pc = "idle"
    PROVE  Marked = Retained
<1>1. PICK F, E, F0, E0 :
        /\ F = RootsOf(Registry) /\ E = EdgesOf(Registry)
        /\ F0 = Roots \cup RootsOf(lost) /\ E0 = Edges \cup EdgesOf(lost)
  OBVIOUS
<1>2. Marked = Closure(F, E) /\ Retained = Closure(F0, E0) /\ ToObjects(F0, E0)
  BY <1>1, LeadToObjects DEF Marked, Retained, HeapInv
<1>3. Registry = Held \cup lost
  BY DEF Registry, Held
<1>4. F = F0
  <2>1. F = RootsOf(Held) \cup RootsOf(lost)
    BY <1>1, <1>3 DEF RootsOf
  <2> QED
    BY <1>1, <2>1, HeldIs
<1>5. E = EdgesOf(Held) \cup EdgesOf(lost)
  BY <1>1, <1>3 DEF EdgesOf
<1>6. E0 \subseteq E
  BY <1>1, <1>5, HeldIs
<1>7. \A e \in E : e[2] \in Objects /\ (e[1] = Root \/ e \in E0)
  <2> TAKE e \in E
  <2>1. CASE e \in EdgesOf(Held)
    BY <1>1, <2>1, HeldIs
  <2>2. CASE e \in EdgesOf(lost)
    BY <1>1, <1>2, <2>2 DEF ToObjects
  <2> QED
    BY <1>5, <2>1, <2>2
<1>8. ToObjects(F, E)
  BY <1>2, <1>4, <1>7 DEF ToObjects
<1>9. /\ Closure(F, E) \subseteq Objects /\ F \subseteq Closure(F, E) /\ Closed(Closure(F, E), E)
      /\ \A S : F \subseteq S /\ Closed(S, E) => Closure(F, E) \subseteq S
  BY <1>8, ClosureIs
<1>10. /\ Closure(F0, E0) \subseteq Objects /\ F0 \subseteq Closure(F0, E0) /\ Closed(Closure(F0, E0), E0)
       /\ \A S : F0 \subseteq S /\ Closed(S, E0) => Closure(F0, E0) \subseteq S
  BY <1>2, ClosureIs
<1>11. Closed(Closure(F, E), E0)
  BY <1>6, <1>9 DEF Closed
<1>12. Closed(Closure(F0, E0), E)
  BY <1>7, <1>10, NamesAssumption DEF Closed
<1>13. Closure(F0, E0) \subseteq Closure(F, E)
  BY <1>4, <1>9, <1>10, <1>11
<1>14. Closure(F, E) \subseteq Closure(F0, E0)
  BY <1>4, <1>9, <1>10, <1>12
<1> QED
  BY <1>2, <1>13, <1>14

\* During a collection, what stays is what is retained.
Exact == pc = "sweep" => Kept = Retained

\* What is retained leads to what is retained.
LEMMA RetainedClosed ==
    ASSUME HeapInv
    PROVE  /\ Retained \subseteq Objects
           /\ \A v \in alive : obj[v] \in Retained \cup {NULL}
           /\ \A o \in Retained : obj[o] \in Retained \cup {NULL}
           /\ \A r \in lost : r.from \in {Root} \cup Retained => r.to \in Retained
<1>1. PICK F, E : F = Roots \cup RootsOf(lost) /\ E = Edges \cup EdgesOf(lost)
  OBVIOUS
<1>2. Retained = Closure(F, E) /\ ToObjects(F, E)
  BY <1>1, LeadToObjects DEF Retained, HeapInv
<1>3. Retained \subseteq Objects /\ F \subseteq Retained /\ Closed(Retained, E)
  BY <1>2, ClosureIs
<1>4. \A v \in alive : obj[v] \in Retained \cup {NULL}
  BY <1>1, <1>3 DEF Roots
<1>5. ASSUME NEW o \in Retained, obj[o] # NULL PROVE obj[o] \in Retained
  <2>1. PICK e \in E : e = <<o, obj[o]>>
    BY <1>1, <1>3, <1>5 DEF Edges
  <2>2. e[1] = o /\ e[2] = obj[o]
    BY <2>1
  <2> QED
    BY <1>3, <2>2 DEF Closed
<1>6. ASSUME NEW r \in lost, r.from = Root PROVE r.to \in Retained
  BY <1>1, <1>3, <1>6 DEF RootsOf
<1>7. ASSUME NEW r \in lost, r.from \in Retained PROVE r.to \in Retained
  <2>1. PICK e \in E : e = <<r.from, r.to>>
    BY <1>1 DEF EdgesOf
  <2>2. e[1] = r.from /\ e[2] = r.to
    BY <2>1
  <2> QED
    BY <1>3, <1>7, <2>2 DEF Closed
<1> QED
  BY <1>3, <1>4, <1>5, <1>6, <1>7

LEMMA MarkKeeps ==
    ASSUME HeapInv, Mark
    PROVE  HeapInv' /\ Exact'
<1>1. /\ pc = "idle" /\ pc' = "sweep" /\ doomed' = ToSet(objects) \ Retained
      /\ live' = live /\ objects' = objects /\ ptr' = ptr /\ alive' = alive /\ obj' = obj /\ ref' = ref /\ lost' = lost
  <2>1. pc = "idle" /\ doomed' = ToSet(objects) \ Marked
    BY DEF Mark
  <2> QED
    BY <2>1, MarkedIs DEF Mark, pageVars
<1>2. Retained \subseteq Whole
  BY ReachableWhole
<1>3. Kept' = Retained
  BY <1>1, <1>2 DEF Kept, Whole
<1>4. Whole' = Retained
  BY <1>1, <1>2, <1>3 DEF Whole
<1>5. HeapType'
  BY <1>1 DEF HeapInv, HeapType
<1>6. BlocksHaveObjects'
  BY <1>1 DEF HeapInv, BlocksHaveObjects
<1>7. ASSUME NEW h \in Holders'
      PROVE  obj'[h] \in Whole' \cup {NULL} /\ ref'[h] = Registered(h, obj'[h])
  <2>1. h \in alive \cup Retained
    BY <1>1, <1>3, <1>7 DEF Holders
  <2>2. obj[h] \in Retained \cup {NULL}
    BY <2>1, RetainedClosed
  <2>3. h \in Holders
    BY <1>2, <2>1 DEF Holders, Whole
  <2> QED
    BY <1>1, <1>4, <2>2, <2>3 DEF HeapInv, HandlesInv
<1>8. HandlesInv'
  BY <1>1, <1>7 DEF HeapInv, HandlesInv
<1>9. Retained' = Retained
  BY <1>1 DEF Retained, Roots, Edges, RootsOf, EdgesOf
<1>10. Exact'
  BY <1>3, <1>9 DEF Exact
<1>11. LostInv'
  <2>1. \A r \in lost : /\ r.from \in {Root} \cup ToSet(objects)
                        /\ r.from \in {Root} \cup Retained => r.to \in Retained
    BY RetainedClosed DEF HeapInv, LostInv
  <2>2. \A r \in lost' : /\ r.from \in {Root} \cup ToSet(objects')
                         /\ r.from \in {Root} \cup Kept' => r.to \in Whole'
    BY <1>1, <1>3, <1>4, <2>1
  <2> QED
    BY <2>2 DEF LostInv
<1> QED
  BY <1>5, <1>6, <1>8, <1>10, <1>11 DEF HeapInv

\* The next object that is deleted.
LEMMA NextDoomedIs ==
    ASSUME HeapInv, doomed # {}
    PROVE  NextDoomed \in doomed
<1> DEFINE S == {i \in DOMAIN objects : objects[i] \in doomed}
<1>1. DOMAIN objects \subseteq Nat /\ doomed \subseteq ToSet(objects)
  BY DEF HeapInv, HeapType
<1>2. S \in SUBSET Nat /\ S # {}
  BY <1>1 DEF ToSet
<1>3. Min(S) \in S
  <2> HIDE DEF S
  <2> QED
    BY <1>2, MinIs
<1> QED
  BY <1>3 DEF NextDoomed

LEMMA SweepKeeps ==
    ASSUME PageInv, HeapInv, Exact, Sweep
    PROVE  HeapInv' /\ Exact'
<1>1. PICK o : o = NextDoomed
  OBVIOUS
<1>2. /\ pc = "sweep" /\ ptr[o] # Nowhere /\ Free(ptr[o])
      /\ objects' = Without(objects, o)
      /\ ptr' = [ptr EXCEPT ![o] = Nowhere]
      /\ obj' = [obj EXCEPT ![o] = NULL]
      /\ ref' = [h \in Handles |-> IF ref[h].from = o THEN NoReference ELSE ref[h]]
      /\ lost' = {r \in lost : r.from # o}
      /\ doomed' = doomed \ {o}
      /\ alive' = alive /\ pc' = pc
  BY <1>1 DEF Sweep
<1>3. o \in doomed
  BY <1>1, NextDoomedIs DEF Sweep
<1>4. /\ objects \in Seq(Objects) /\ Once(objects) /\ doomed \subseteq ToSet(objects)
      /\ ptr \in [Objects -> Offsets \cup {Nowhere}] /\ alive \subseteq Vars
      /\ obj \in [Handles -> Objects \cup {NULL}] /\ ref \in [Handles -> References]
      /\ lost \subseteq [from : Objects \cup {Root}, to : Objects]
  BY DEF HeapInv, HeapType
<1>5. o \in ToSet(objects) /\ o \in Objects /\ o \in Handles /\ o \notin alive /\ o \notin Kept /\ o # Root /\ o # NULL
  <2>1. o \in ToSet(objects) /\ o \in Objects
    BY <1>3, <1>4 DEF ToSet
  <2> QED
    BY <1>3, <1>4, <2>1, NamesAssumption DEF Handles, Kept
<1>6. objects' \in Seq(Objects) /\ ToSet(objects') = ToSet(objects) \ {o} /\ Once(objects')
  <2>1. /\ Without(objects, o) \in Seq(Objects)
        /\ ToSet(Without(objects, o)) = ToSet(objects) \ {o}
        /\ Once(Without(objects, o))
    BY <1>4, <1>5, WithoutRight
  <2> QED
    BY <1>2, <2>1
<1>7. live' = live \ {ptr[o]}
  BY <1>2 DEF Free
<1>8. /\ ptr'[o] = Nowhere /\ \A p \in Objects : p # o => ptr'[p] = ptr[p]
      /\ obj'[o] = NULL /\ \A h \in Handles : h # o => obj'[h] = obj[h]
      /\ \A h \in Handles : ref'[h] = IF ref[h].from = o THEN NoReference ELSE ref[h]
  BY <1>2, <1>4, <1>5
<1>9. ptr' \in [Objects -> Offsets \cup {Nowhere}] /\ obj' \in [Handles -> Objects \cup {NULL}]
  BY <1>2, <1>4
<1>10. ref' \in [Handles -> References]
  <2>1. NoReference \in References
    BY DEF References
  <2>2. \A h \in Handles : ref'[h] \in References
    BY <1>4, <1>8, <2>1
  <2>3. ref' = [h \in Handles |-> ref'[h]]
    BY <1>2
  <2> QED
    BY <2>2, <2>3
<1>11. doomed' \subseteq ToSet(objects')
  BY <1>2, <1>4, <1>6
<1>12. HeapType'
  <2>1. lost' \subseteq [from : Objects \cup {Root}, to : Objects]
    BY <1>2, <1>4
  <2> QED
    BY <1>2, <1>4, <1>6, <1>9, <1>10, <1>11, <2>1 DEF HeapType
<1>13. ToSet(objects) \subseteq Objects
  BY <1>4 DEF ToSet
<1>14. BlocksHaveObjects'
  <2>1. /\ live = {ptr[p] : p \in ToSet(objects)} \ {Nowhere}
        /\ \A p, q \in ToSet(objects) : ptr[p] = ptr[q] /\ ptr[p] # Nowhere => p = q
    BY DEF HeapInv, BlocksHaveObjects
  <2>2. \A p \in ToSet(objects') : p \in ToSet(objects) /\ p # o /\ ptr'[p] = ptr[p] /\ ptr[p] # ptr[o]
    BY <1>2, <1>5, <1>6, <1>8, <1>13, <2>1
  <2>3. \A p \in ToSet(objects) : p = o \/ p \in ToSet(objects')
    BY <1>6
  <2>4. live' = {ptr'[p] : p \in ToSet(objects')} \ {Nowhere}
    BY <1>7, <2>1, <2>2, <2>3
  <2>5. \A p, q \in ToSet(objects') : ptr'[p] = ptr'[q] /\ ptr'[p] # Nowhere => p = q
    BY <2>1, <2>2
  <2> QED
    BY <2>4, <2>5 DEF BlocksHaveObjects
<1>15. Kept' = Kept /\ Whole' = Whole /\ Holders' = Holders
  <2>1. Kept' = Kept
    BY <1>2, <1>3, <1>6 DEF Kept
  <2>2. \A p \in Kept : p \in Objects /\ p # o
    BY <1>5, <1>13 DEF Kept
  <2>3. Whole' = Whole
    BY <1>8, <2>1, <2>2 DEF Whole
  <2> QED
    BY <1>2, <2>1, <2>3 DEF Holders
<1>16. \A h \in Holders : h \in Handles /\ h # o
  BY <1>4, <1>5, <1>13 DEF Holders, Handles, Kept
<1>17. \A h \in Handles : ref[h].from = o => h = o
  <2> SUFFICES ASSUME NEW h \in Handles, ref[h].from = o PROVE h = o
    OBVIOUS
  <2>1. ref[h].from = RootOf(h)
    <3>1. ref[h] # NoReference
      BY <1>5, RegisteredIs
    <3> QED
      BY <3>1 DEF HeapInv, HandlesInv
  <2>2. h \in Vars \/ h \in Objects
    BY DEF Handles
  <2> QED
    BY <1>5, <2>1, <2>2, RegisteredIs
<1>18. ASSUME NEW h \in Holders'
       PROVE  obj'[h] \in Whole' \cup {NULL} /\ ref'[h] = Registered(h, obj'[h])
  <2>1. h \in Holders /\ h \in Handles /\ h # o
    BY <1>15, <1>16
  <2>2. obj[h] \in Whole \cup {NULL} /\ ref[h] = Registered(h, obj[h])
    BY <2>1 DEF HeapInv, HandlesInv
  <2> QED
    BY <1>8, <1>15, <1>17, <2>1, <2>2
<1>19. ASSUME NEW h \in Handles
       PROVE  \/ ref'[h] = NoReference
              \/ ref'[h].from = RootOf(h) /\ h \in alive' \cup ToSet(objects')
  <2>1. CASE ref[h].from = o
    BY <1>8, <2>1
  <2>2. CASE ref[h].from # o
    <3>1. ref'[h] = ref[h]
      BY <1>8, <2>2
    <3>2. CASE ref[h].from = RootOf(h) /\ h \in alive \cup ToSet(objects)
      <4>1. h # o
        BY <1>5, <2>2, <3>2, RegisteredIs
      <4> QED
        BY <1>2, <1>6, <3>1, <3>2, <4>1
    <3> QED
      BY <3>1, <3>2 DEF HeapInv, HandlesInv
  <2> QED
    BY <2>1, <2>2
<1>20. ASSUME NEW p \in Objects, p \notin ToSet(objects')
       PROVE  obj'[p] = NULL
  <2>1. p \in Handles
    BY DEF Handles
  <2>2. CASE p = o
    BY <1>8, <2>2
  <2>3. CASE p # o
    BY <1>6, <1>8, <1>20, <2>1, <2>3 DEF HeapInv, HandlesInv
  <2> QED
    BY <2>2, <2>3
<1>21. HandlesInv'
  BY <1>18, <1>19, <1>20 DEF HandlesInv
<1>22. LostInv'
  <2>1. \A r \in lost' : r \in lost /\ r.from # o
    BY <1>2
  <2> QED
    BY <1>6, <1>15, <2>1 DEF HeapInv, LostInv
<1>23. HeapInv'
  BY <1>12, <1>14, <1>21, <1>22 DEF HeapInv
<1>24. Retained' = Retained
  <2>1. PICK F, E, E1 : /\ F = Roots \cup RootsOf(lost) /\ E = Edges \cup EdgesOf(lost)
                        /\ E1 = Edges' \cup EdgesOf(lost')
    OBVIOUS
  <2>2. Retained = Closure(F, E) /\ ToObjects(F, E)
    BY <2>1, LeadToObjects DEF Retained, HeapInv
  <2>3. Roots' = Roots
    <3>1. \A v \in alive : obj'[v] = obj[v]
      BY <1>4, <1>5, <1>8 DEF Handles
    <3> QED
      BY <1>2, <3>1 DEF Roots
  <2>4. RootsOf(lost') = RootsOf(lost)
    BY <1>2, <1>5 DEF RootsOf
  <2>5. Retained' = Closure(F, E1)
    <3>1. Retained' = Closure(Roots' \cup RootsOf(lost'), Edges' \cup EdgesOf(lost'))
      BY DEF Retained
    <3> QED
      BY <2>1, <2>3, <2>4, <3>1
  <2>6. \A p \in Objects : p # o => obj'[p] = obj[p]
    BY <1>8 DEF Handles
  <2>7. E1 \subseteq E
    <3>1. ASSUME NEW e \in Edges' PROVE e \in Edges
      <4>1. PICK p \in Objects : obj'[p] # NULL /\ e = <<p, obj'[p]>>
        BY DEF Edges
      <4>2. obj'[p] = obj[p]
        BY <1>8, <2>6, <4>1
      <4> QED
        BY <4>1, <4>2 DEF Edges
    <3>2. EdgesOf(lost') \subseteq EdgesOf(lost)
      BY <1>2 DEF EdgesOf
    <3> QED
      BY <2>1, <3>1, <3>2
  <2>8. ASSUME NEW e \in E, e[1] # o PROVE e \in E1
    <3>1. CASE e \in Edges
      <4>1. PICK p \in Objects : obj[p] # NULL /\ e = <<p, obj[p]>>
        BY <3>1 DEF Edges
      <4>2. obj'[p] = obj[p]
        BY <2>6, <2>8, <4>1
      <4>3. e \in Edges'
        BY <4>1, <4>2 DEF Edges
      <4> QED
        BY <2>1, <4>3
    <3>2. CASE e \in EdgesOf(lost)
      <4>1. PICK r \in lost : e = <<r.from, r.to>>
        BY <3>2 DEF EdgesOf
      <4>2. r \in lost'
        BY <1>2, <2>8, <4>1
      <4>3. e \in EdgesOf(lost')
        BY <4>1, <4>2 DEF EdgesOf
      <4> QED
        BY <2>1, <4>3
    <3> QED
      BY <2>1, <3>1, <3>2
  <2>9. ToObjects(F, E1)
    BY <2>2, <2>7 DEF ToObjects
  <2>10. o \notin Closure(F, E)
    BY <1>2, <1>5, <2>2 DEF Exact
  <2>11. /\ F \subseteq Closure(F, E) /\ Closed(Closure(F, E), E)
         /\ F \subseteq Closure(F, E1) /\ Closed(Closure(F, E1), E1)
         /\ \A S : F \subseteq S /\ Closed(S, E) => Closure(F, E) \subseteq S
         /\ \A S : F \subseteq S /\ Closed(S, E1) => Closure(F, E1) \subseteq S
    BY <2>2, <2>9, ClosureIs
  <2>12. Closed(Closure(F, E), E1)
    BY <2>7, <2>11 DEF Closed
  <2>13. Closure(F, E1) \subseteq Closure(F, E)
    BY <2>11, <2>12
  <2>14. Closed(Closure(F, E1), E)
    BY <2>8, <2>10, <2>11, <2>13 DEF Closed
  <2>15. Closure(F, E) \subseteq Closure(F, E1)
    BY <2>11, <2>14
  <2> QED
    BY <2>2, <2>5, <2>13, <2>15
<1>25. Exact'
  BY <1>2, <1>15, <1>24 DEF Exact
<1> QED
  BY <1>23, <1>25

-----------------------------------------------------------------------------
(* The theorems.                                                           *)

RefusedType == refused \in {2^l : l \in Levels} \cup {0}

\* The inductive invariant.
GcInv == PageInv /\ NoBuddies /\ RefusedType /\ HeapInv /\ Exact

\* What the page does in a step, as the abstract allocator sees it.
PageStep ==
    \/ Abstract!Next
    \/ UNCHANGED Abstract!vars

LEMMA GcInvInit ==
    ASSUME Init
    PROVE  GcInv /\ Abstract!Init
<1>1. PageInit
  BY DEF Init
<1>2. PageInv /\ NoBuddies /\ Abstract!Init
  BY <1>1, PageInvInit, InitRefines
<1>3. RefusedType
  BY <1>1 DEF PageInit, RefusedType
<1>4. HeapInv
  BY HeapInvInit
<1>5. Exact
  BY DEF Init, Exact
<1> QED
  BY <1>2, <1>3, <1>4, <1>5 DEF GcInv

\* Steps that leave the page and the collection alone.
LEMMA QuietStep ==
    ASSUME GcInv, UNCHANGED pageVars, HeapInv', Exact'
    PROVE  GcInv' /\ PageStep
<1>1. PageInv' /\ NoBuddies' /\ UNCHANGED Abstract!vars
  BY PageStays DEF GcInv
<1>2. RefusedType'
  BY DEF GcInv, RefusedType, pageVars
<1> QED
  BY <1>1, <1>2 DEF GcInv, PageStep

\* A collection that pauses, ends or fails does nothing to the heap.
LEMMA HeapStays ==
    ASSUME HeapInv, UNCHANGED <<live, objects, ptr, alive, obj, ref, lost, doomed>>,
           pc' \in {"idle", "sweep", "crashed"}, pc' = "idle" => doomed = {}
    PROVE  HeapInv' /\ Retained' = Retained /\ Kept' = Kept
<1>1. /\ live' = live /\ objects' = objects /\ ptr' = ptr /\ alive' = alive
      /\ obj' = obj /\ ref' = ref /\ lost' = lost /\ doomed' = doomed
  OBVIOUS
<1>2. HeapType'
  BY <1>1 DEF HeapInv, HeapType
<1>3. BlocksHaveObjects'
  BY <1>1 DEF HeapInv, BlocksHaveObjects
<1>4. Kept' = Kept
  BY <1>1 DEF Kept
<1>5. Whole' = Whole /\ Holders' = Holders
  BY <1>1, <1>4 DEF Whole, Holders
<1>6. HandlesInv'
  BY <1>1, <1>5 DEF HeapInv, HandlesInv
<1>7. Retained' = Retained
  BY <1>1 DEF Retained, Roots, Edges, RootsOf, EdgesOf
<1>8. LostInv'
  BY <1>1, <1>4, <1>5 DEF HeapInv, LostInv
<1> QED
  BY <1>2, <1>3, <1>4, <1>6, <1>7, <1>8 DEF HeapInv

LEMMA GcInvNext ==
    ASSUME GcInv, [Next]_vars
    PROVE  GcInv' /\ PageStep
<1>1. PageInv /\ NoBuddies /\ RefusedType /\ HeapInv /\ Exact
  BY DEF GcInv
<1>2. pc' # "sweep" => Exact'
  BY DEF Exact
<1>3. ASSUME NEW v \in Vars, NEW len \in Lengths, New(v, len)
      PROVE  GcInv' /\ PageStep
  <2>1. Allocate(len) /\ pc' # "sweep"
    BY <1>3 DEF New
  <2>2. PageInv' /\ NoBuddies' /\ Abstract!Allocate
    BY <1>1, <2>1, AllocateRefines
  <2>3. RefusedType'
    BY <2>1 DEF Allocate, RefusedType
  <2>4. HeapInv'
    BY <1>1, <1>3, NewKeeps
  <2> QED
    BY <1>2, <2>1, <2>2, <2>3, <2>4 DEF GcInv, PageStep, Abstract!Next
<1>4. ASSUME NEW v \in Vars, NEW len \in Lengths, NewFails(v, len)
      PROVE  GcInv' /\ PageStep
  <2>1. AllocateFails(len) /\ pc' # "sweep"
    BY <1>4 DEF NewFails
  <2>2. Abstract!Refuse
    BY <1>1, <2>1, RefuseRefines
  <2>3. header' = header /\ freeLevels' = freeLevels /\ live' = live
    BY <2>1 DEF AllocateFails
  <2>4. FreeBlocks' = FreeBlocks /\ LiveBlocks' = LiveBlocks /\ Tiles' = Tiles
    BY <2>3 DEF FreeBlocks, LiveBlocks, Tiles
  <2>5. PageInv' /\ NoBuddies'
    BY <1>1, <2>3, <2>4 DEF PageInv, NoBuddies
  <2>6. RefusedType'
    BY <2>1, LevelForType DEF AllocateFails, RefusedType
  <2>7. HeapInv'
    BY <1>1, <1>4, NewFailsKeeps
  <2> QED
    BY <1>2, <2>1, <2>2, <2>5, <2>6, <2>7 DEF GcInv, PageStep, Abstract!Next
<1>5. ASSUME NEW v \in Vars, Declare(v) \/ Leave(v)
      PROVE  GcInv' /\ PageStep
  <2>1. UNCHANGED pageVars /\ pc' # "sweep"
    BY <1>5 DEF Declare, Leave
  <2>2. HeapInv'
    BY <1>1, <1>5, DeclareKeeps, LeaveKeeps
  <2> QED
    BY <1>2, <2>1, <2>2, QuietStep
<1>6. ASSUME NEW dst \in Handles, NEW src \in Handles, CopyAssign(dst, src) \/ MoveAssign(dst, src)
      PROVE  GcInv' /\ PageStep
  <2>1. UNCHANGED pageVars /\ pc' # "sweep"
    BY <1>6 DEF CopyAssign, MoveAssign
  <2>2. HeapInv'
    BY <1>1, <1>6, CopyAssignKeeps, MoveAssignKeeps
  <2> QED
    BY <1>2, <2>1, <2>2, QuietStep
<1>7. CASE Mark
  <2>1. UNCHANGED pageVars
    BY <1>7 DEF Mark
  <2>2. HeapInv' /\ Exact'
    BY <1>1, <1>7, MarkKeeps
  <2> QED
    BY <2>1, <2>2, QuietStep
<1>8. CASE Sweep
  <2>1. PICK h : h = ptr[NextDoomed] /\ Free(h)
    BY <1>8 DEF Sweep
  <2>2. PageInv' /\ NoBuddies' /\ Abstract!Release
    BY <1>1, <2>1, FreeRefines
  <2>3. RefusedType'
    BY <2>1 DEF Free, RefusedType
  <2>4. HeapInv' /\ Exact'
    BY <1>1, <1>8, SweepKeeps
  <2> QED
    BY <2>2, <2>3, <2>4 DEF GcInv, PageStep, Abstract!Next
<1>9. CASE SweepCrashes \/ SweepEnd \/ Crashed \/ UNCHANGED vars
  <2>1. UNCHANGED pageVars /\ UNCHANGED <<objects, ptr, alive, obj, ref, lost, doomed>>
    BY <1>9 DEF SweepCrashes, SweepEnd, Crashed, vars, heapVars
  <2>2. UNCHANGED <<live, objects, ptr, alive, obj, ref, lost, doomed>>
    BY <2>1 DEF pageVars
  <2>3. pc' \in {"idle", "sweep", "crashed"} /\ (pc' = "idle" => doomed = {}) /\ (pc' = "sweep" => pc = "sweep")
    BY <1>1, <1>9 DEF SweepCrashes, SweepEnd, Crashed, vars, heapVars, HeapInv, HeapType
  <2>4. HeapInv' /\ Retained' = Retained /\ Kept' = Kept
    BY <1>1, <2>2, <2>3, HeapStays
  <2>5. Exact'
    BY <1>1, <2>3, <2>4 DEF Exact
  <2> QED
    BY <2>1, <2>4, <2>5, QuietStep
<1> QED
  BY <1>3, <1>4, <1>5, <1>6, <1>7, <1>8, <1>9 DEF Next

LEMMA GcInvHolds == Spec => []GcInv
<1>1. Init => GcInv
  BY GcInvInit
<1>2. GcInv /\ [Next]_vars => GcInv'
  BY GcInvNext
<1> QED
  BY <1>1, <1>2, PTL DEF Spec

\* The variables of the heap and of its page keep their types, through splits,
\* merges and collections that were cut short.
THEOREM TypesHold == Spec => []TypeOK
<1>1. GcInv => TypeOK
  <2> SUFFICES ASSUME GcInv PROVE TypeOK
    OBVIOUS
  <2>1. PageTypeOK
    BY DEF GcInv, PageInv, RefusedType, HeaderSet, PageTypeOK
  <2>2. doomed \subseteq Objects
    BY DEF GcInv, HeapInv, HeapType, ToSet
  <2> QED
    BY <2>1, <2>2 DEF GcInv, HeapInv, HeapType, References, TypeOK
<1> QED
  BY <1>1, GcInvHolds, PTL

\* The blocks of the page, those given out and those of the free lists, tile it:
\* no byte belongs to two of them and none is lost, whatever page::allocate
\* splits and page::free merges.
THEOREM PageTiles == Spec => []BlocksTile
<1>1. GcInv => BlocksTile
  BY PageInvTiles DEF GcInv
<1> QED
  BY <1>1, GcInvHolds, PTL

\* The blocks that are given out are those of the objects of the table, one
\* each: collector_buddy::collect frees what it deletes, and nothing else.
THEOREM BlocksInUse == Spec => []BlocksHaveObjects
<1>1. GcInv => BlocksHaveObjects
  BY DEF GcInv, HeapInv
<1> QED
  BY <1>1, GcInvHolds, PTL

\* No handle that the program can name is on an object whose memory was freed:
\* what the collector deletes, nothing leads to, however handles were copied
\* and moved between the objects.
THEOREM NothingDangles == Spec => []NoDanglingHandle
<1>1. GcInv => NoDanglingHandle
  BY ReachableWhole DEF GcInv
<1> QED
  BY <1>1, GcInvHolds, PTL

\* A collection deletes exactly the objects that the program cannot reach, but
\* for those that references lead to which a handle lost when it was moved to
\* itself: the references that gc_buddy registers say where its handles lead.
THEOREM CollectsExactly == Spec => CollectIsExact
<1>1. GcInv /\ [Next]_vars => [pc = "sweep" /\ pc' = "idle" => ToSet(objects') = Retained']_vars
  <2> SUFFICES ASSUME GcInv, Next, pc = "sweep", pc' = "idle" PROVE ToSet(objects') = Retained'
    OBVIOUS
  <2>1. SweepEnd
    BY DEF Next, New, NewFails, Declare, Leave, CopyAssign, MoveAssign, Mark, Sweep, SweepCrashes, Crashed, vars, heapVars
  <2>2. /\ doomed = {} /\ objects' = objects /\ alive' = alive /\ obj' = obj /\ lost' = lost
    BY <2>1 DEF SweepEnd
  <2>3. Retained' = Retained
    BY <2>2 DEF Retained, Roots, Edges, RootsOf, EdgesOf
  <2>4. Kept = ToSet(objects)
    BY <2>2 DEF Kept
  <2> QED
    BY <2>2, <2>3, <2>4 DEF GcInv, Exact
<1> QED
  BY <1>1, GcInvHolds, PTL DEF Spec, CollectIsExact

\* The page implements the allocator that hands out unused stretches: splitting
\* and merging cannot be seen from outside, and a request is refused only when
\* no stretch of its size is unused at a multiple of it.
THEOREM PageAllocates == Spec => IsAllocator
<1>1. Init => Abstract!Init
  BY GcInvInit
<1>2. GcInv /\ [Next]_vars => [Abstract!Next]_(Abstract!vars)
  BY GcInvNext DEF PageStep
<1> QED
  BY <1>1, <1>2, GcInvHolds, PTL DEF Spec, IsAllocator, Abstract!Spec
===============================================================================
