-------------------------- MODULE LockfreeStackRun --------------------------
(***************************************************************************)
(* lockfree_stack_run.cpp: the long running test of lf::stack.  main reads *)
(* how long to run from its arguments, then lets ever more calls race on   *)
(* one stack, round after round, until the stack is destroyed at its end.  *)
(*                                                                         *)
(* las::test::concurrent_stress_tester is external: dispatch (actions, n)  *)
(* is taken to make n calls, each of any of the three kinds and on a       *)
(* thread of its own, and to return when they have returned.               *)
(***************************************************************************)
EXTENDS LockfreeStack

CONSTANTS
    First,     \* the calls of the first round
    Durations, \* the words of run_duration
    Default,   \* run_duration::small
    Iterations \* map_duration_to_iterations: the round before which main ends

ASSUME DurationsAssumption ==
    /\ First \in Nat
    /\ Default \in Durations
    /\ Iterations \in [Durations -> Nat]

VARIABLES
    main,  \* where main is: "args", "loop", "dispatch", "destroy", "exit"
    limit, \* *OPT_ITER
    round, \* i
    code   \* the exit code

mainVars == <<main, limit, round, code>>
runVars  == <<vars, mainVars>>

RunInit ==
    /\ Init
    /\ main = "args"
    /\ limit = 0
    /\ round = First
    /\ code = 0

\* A word that is not a duration is complained about, and then ignored.
DurationOf(word) == IF word \in Durations THEN word ELSE Default
IterationsOf(word) == Iterations[DurationOf(word)]

\* No argument, or one that is a duration or some other word.
MainStart ==
    /\ main = "args"
    /\ \E word \in Durations \cup {"other"} : limit' = IterationsOf(word)
    /\ main' = "loop"
    /\ UNCHANGED <<vars, round, code>>

\* More than one argument.
MainRefuses ==
    /\ main = "args"
    /\ main' = "exit"
    /\ code' = 1
    /\ UNCHANGED <<vars, limit, round>>

NoCalls == [push |-> 0, pop |-> 0, clear |-> 0]
OneCall(kind) == [NoCalls EXCEPT ![kind] = 1]

\* Bound: no more pushes than there are blocks that were never handed out.
Affordable(pushers) == Cardinality(pushers) <= Cardinality({n \in Nodes : where[n] = "free"})

Dispatch ==
    /\ main = "loop" /\ round < limit
    /\ \E racing \in {T \in SUBSET Threads : Cardinality(T) = round} :
       \E kind \in [racing -> {"push", "pop", "clear"}] :
        /\ Affordable({t \in racing : kind[t] = "push"})
        /\ todo' = [t \in Threads |-> IF t \in racing THEN OneCall(kind[t]) ELSE NoCalls]
    /\ main' = "dispatch"
    /\ UNCHANGED <<heads, coll, memory, ghost, pc, locals, destroyed, limit, round, code>>

\* Seeded defect: the round is not counted.
DispatchReturnsUncounted ==
    /\ main = "dispatch"
    /\ AllIdle /\ \A t \in Threads : todo[t] = NoCalls
    /\ main' = "loop"
    /\ UNCHANGED <<vars, limit, round, code>>

DispatchReturns ==
    /\ main = "dispatch"
    /\ AllIdle /\ \A t \in Threads : todo[t] = NoCalls
    /\ main' = "loop"
    /\ round' = round + 1
    /\ UNCHANGED <<vars, limit, code>>

\* A call of the current round.
RacingStep(t) ==
    /\ main = "dispatch"
    /\ Push(t) \/ Pop(t) \/ Clear(t) \/ Collect(t)
    /\ UNCHANGED mainVars

\* main leaves its block: the tester is gone before the stack is destroyed.
MainDestroys(t) ==
    /\ main = "loop" /\ round >= limit
    /\ Destroy(t)
    /\ main' = "destroy"
    /\ UNCHANGED <<limit, round, code>>

DestructorStep(t) ==
    /\ main = "destroy"
    /\ Clear(t) \/ Collect(t)
    /\ UNCHANGED mainVars

MainEnds ==
    /\ main = "destroy" /\ AllIdle
    /\ main' = "exit"
    /\ UNCHANGED <<vars, limit, round, code>>

Exited == main = "exit" /\ UNCHANGED runVars

MainStep == MainStart \/ MainRefuses \/ Dispatch \/ DispatchReturns \/ MainEnds

ThreadStep(t) == RacingStep(t) \/ MainDestroys(t) \/ DestructorStep(t)

RunNext == MainStep \/ (\E t \in Threads : ThreadStep(t)) \/ Exited

RunSpec == RunInit /\ [][RunNext]_runVars

\* The threads and main are scheduled.
FairRunSpec ==
    /\ RunSpec
    /\ WF_runVars(MainStep)
    /\ \A t \in Threads : WF_runVars(ThreadStep(t))

-----------------------------------------------------------------------------
\* The test ends, whatever its calls do to each other.
MainReturns == <>(main = "exit")
=============================================================================
