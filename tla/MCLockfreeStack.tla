-------------------------- MODULE MCLockfreeStack --------------------------
(* Instances of LockfreeStack for TLC: budgets of calls per thread.        *)
EXTENDS LockfreeStackRefinement, TLC

CONSTANTS t1, t2, t3

Calls(pushes, pops, clears) == [push |-> pushes, pop |-> pops, clear |-> clears]

\* Two threads, each with every kind of call.
BudgetPair == (t1 :> Calls(2, 2, 0)) @@ (t2 :> Calls(1, 1, 1))

\* Three threads that each push, pop or clear once.
BudgetMixed == (t1 :> Calls(1, 1, 0)) @@ (t2 :> Calls(1, 1, 0)) @@ (t3 :> Calls(0, 0, 1))

\* Three threads: one that pushes and pops twice, two that pop once.
BudgetRecycle == (t1 :> Calls(2, 2, 0)) @@ (t2 :> Calls(0, 1, 0)) @@ (t3 :> Calls(0, 1, 0))
=============================================================================
