----------------------------- MODULE MCStackRun -----------------------------
(* The long running test with two rounds: two calls, then three.           *)
EXTENDS LockfreeStackRun, TLC

BudgetNone == [t \in Threads |-> NoCalls]

FewIterations == ("small" :> 3) @@ ("medium" :> 4)

=============================================================================
