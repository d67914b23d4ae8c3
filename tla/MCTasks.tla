------------------------------ MODULE MCTasks ------------------------------
(***************************************************************************)
(* Two executors of streaming_tasks.cpp for TLC: proto_g of TaskExecutor,  *)
(* and proto_e of TaskLanes with the same worker threads.  Each behaviour  *)
(* is that of a program that uses one of them: they share nothing.         *)
(***************************************************************************)
EXTENDS TaskExecutor

CONSTANTS JobDiv, MaxRuns, MaxStarts \* of TaskLanes

ASSUME LanesAssumption ==
    /\ Owner \notin Workers
    /\ JobDiv \in Nat \ {0} /\ MaxRuns \in Nat /\ MaxStarts \in Nat

VARIABLES
    used, \* the executor of this program
    tasks, index, job, unresolvedChildren, flag, lanePc, current, partsRan, calls, starts, late

Lanes == INSTANCE TaskLanes
    WITH Helpers <- Workers, Main <- Owner, unresolved <- unresolvedChildren, ran <- partsRan

lanesVars ==
    <<tasks, index, job, unresolvedChildren, flag, lanePc, current, partsRan, calls, starts, late>>
tasksVars == <<used, vars, lanesVars>>

TasksInit == used \in {"proto_e", "proto_g"} /\ Init /\ Lanes!Init

InExecutor == used = "proto_g" /\ UNCHANGED <<used, lanesVars>>
InLanes    == used = "proto_e" /\ UNCHANGED <<used, vars>>

ExecutorNext == InExecutor /\ Next
LanesNext    == InLanes /\ Lanes!Next

\* Threads are scheduled; nobody has to make a call.
TasksSpec ==
    /\ TasksInit /\ [][ExecutorNext \/ LanesNext]_tasksVars
    /\ \A w \in Workers :
        /\ WF_tasksVars(InExecutor /\ WorkerStep(w))
        /\ WF_tasksVars(InLanes /\ Lanes!WorkerStep(w))
    /\ \A c \in Clients : WF_tasksVars(InExecutor /\ ClientStep(c))
    /\ WF_tasksVars(InExecutor /\ DestructorStep)
    /\ WF_tasksVars(InLanes /\ Lanes!MainStep)

-----------------------------------------------------------------------------
\* After run_parallel every part was worked on exactly once.
PartsRunOnce == Lanes!PartsRunOnce

\* The buffer of task objects starts over only when no task of it is in use.
BufferUnused == Lanes!BufferUnused

\* run_parallel of the lanes returns.
RunParallelReturns == Lanes!RunParallelReturns

\* stop returns unless a worker set its flag after stop had cleared it.
StopReturns == Lanes!StopReturns
=============================================================================
