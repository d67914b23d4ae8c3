----------------------- MODULE LockfreeStackRefinement ----------------------
(***************************************************************************)
(* lf::stack implements AbstractStack: the refinement mapping.  A push     *)
(* takes effect with its successful compare-and-swap on _head, a pop with  *)
(* its successful one or with the read that finds _head null, a clear with *)
(* the exchange of _head.                                                  *)
(***************************************************************************)
EXTENDS LockfreeStack, Sequences

\* Memory is finite.
ASSUME NodesAssumption == IsFiniteSet(Nodes)

\* The values on the first k nodes of the list that starts at q, for all k and
\* q, when the nodes have these next fields and these values.
ValuesAlong(links, stored) ==
    LET values[k \in Nat] ==
            [q \in Pointers |->
                IF k = 0 \/ q = NULL THEN <<>> ELSE <<stored[q]>> \o values[k - 1][links[q]]]
    IN  values

\* The values on the list that starts at p.  It has at most as many nodes as
\* there are blocks; the bound makes sense of a broken list that is circular.
ListValues(p) == ValuesAlong(next, value)[Cardinality(Nodes)][p]

Call(t) ==
    CASE pc[t] = "idle" -> "none"
      [] pc[t] \in {"push_load", "push_cas"} -> "push"
      [] pc[t] \in {"pop_count", "pop_load", "pop_next", "pop_cas"} -> "pop"
      [] pc[t] = "clear_detach" -> "clear"
      [] OTHER -> "done"

\* The argument of a push before it takes effect, the result of a pop after.
Answer(t) ==
    IF pc[t] \in {"push_load", "push_cas", "pop_take"} THEN value[first[t]] ELSE result[t]

Abstract == INSTANCE AbstractStack WITH
    NoValue <- NULL,
    contents <- ListValues(head),
    call <- [t \in Threads |-> Call(t)],
    answer <- [t \in Threads |-> Answer(t)]

\* Each behaviour of the lock-free stack is one of a last-in first-out stack
\* whose calls are atomic: no value is lost, returned twice, invented or
\* returned out of order, and pop answers "empty" only when the stack was.
IsAtomicStack == Abstract!Spec
=============================================================================
