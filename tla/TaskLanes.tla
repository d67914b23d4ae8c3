----------------------------- MODULE TaskLanes -----------------------------
(***************************************************************************)
(* proto_e::executor of streaming_tasks.cpp: each thread has a lane, which *)
(* is a ring of tasks under a spin mutex.  The thread that owns a lane     *)
(* takes the newest task, the others steal the oldest.  The task objects   *)
(* are elements of a buffer that starts over after each run_parallel.      *)
(*                                                                         *)
(* One thread, Main, uses the executor.  It is not a worker, so that its   *)
(* lane is lanes[0], and all tasks are allocated and pushed there.  A      *)
(* critical section of a lane's mutex is one step.  running is a plain     *)
(* bool that two threads write; the loop reads it anew each time, because  *)
(* it takes a mutex in between.                                            *)
(***************************************************************************)
EXTENDS Integers, Sequences, FiniteSets

CONSTANTS
    Helpers,  \* the worker threads
    Main,     \* the thread that uses the executor, not one of them
    JobDiv,   \* job_div: into how many tasks a call is divided, at least one
    MaxRuns,  \* bound: calls of run_parallel
    MaxStarts \* bound: calls of run that start the workers

\* Each thread has a lane, named by the thread.
Lanes == Helpers \cup {Main}

\* The elements of lanes[0].task_buffer.  alloc increments before it returns,
\* so that element 0 is never used: here it stands for nullptr.
Slots == 1 .. JobDiv + 1
Null  == 0

VARIABLES
    tasks,      \* lane::tasks, from front to back
    index,      \* task_buffer_index of lanes[0]; no other lane allocates
    job,        \* what the callback of each task object works on
    unresolved, \* task::unresolved_children
    flag,       \* lane::running
    lanePc,     \* where each thread is
    current,    \* t, the task in the hands of each thread
    ran,        \* ghost: how often each part of each call was worked on
    calls,      \* ghost: the calls of run_parallel so far
    starts,     \* ghost: the calls of run that started workers
    late        \* ghost: a worker set its flag after stop had cleared it

buffer == <<index, job, unresolved>>
ghosts == <<ran, calls, starts, late>>
lanesVars == <<tasks, buffer, flag, lanePc, current, ghosts>>

Jobs == (1 .. MaxRuns) \X (1 .. JobDiv)

\* The first object that a call allocates counts the other ones.
Parent == 1

Init ==
    /\ tasks = [l \in Lanes |-> <<>>]
    /\ index = 0
    /\ job = [s \in Slots |-> <<0, 0>>]
    /\ unresolved = [s \in Slots |-> 0]
    /\ flag = [l \in Lanes |-> FALSE]
    /\ lanePc = [l \in Lanes |-> IF l = Main THEN "idle" ELSE "none"]
    /\ current = [l \in Lanes |-> Null]
    /\ ran = [j \in Jobs |-> 0]
    /\ calls = 0
    /\ starts = 0
    /\ late = FALSE

Goes(l, from, to) ==
    /\ lanePc[l] = from
    /\ lanePc' = [lanePc EXCEPT ![l] = to]

-----------------------------------------------------------------------------
(* run_lane, by a worker in its loop or by Main in wait_for.               *)

Loop(l) == IF l = Main THEN "wait" ELSE "check"

\* pop: the newest task of the own lane.
Pop(l) ==
    /\ tasks[l] # <<>>
    /\ Goes(l, "pop", "call")
    /\ current' = [current EXCEPT ![l] = tasks[l][Len(tasks[l])]]
    /\ tasks' = [tasks EXCEPT ![l] = SubSeq(@, 1, Len(@) - 1)]
    /\ UNCHANGED <<buffer, flag, ghosts>>

PopNothing(l) ==
    /\ tasks[l] = <<>>
    /\ Goes(l, "pop", "steal")
    /\ UNCHANGED <<tasks, buffer, flag, current, ghosts>>

\* Seeded defect: front is not advanced.
StealCopy(l, victim) ==
    /\ victim # l /\ tasks[victim] # <<>>
    /\ Goes(l, "steal", "call")
    /\ current' = [current EXCEPT ![l] = Head(tasks[victim])]
    /\ UNCHANGED <<tasks, buffer, flag, ghosts>>

\* steal: the oldest task of the lane that the clock chose.
Steal(l, victim) ==
    /\ victim # l /\ tasks[victim] # <<>>
    /\ Goes(l, "steal", "call")
    /\ current' = [current EXCEPT ![l] = Head(tasks[victim])]
    /\ tasks' = [tasks EXCEPT ![victim] = Tail(@)]
    /\ UNCHANGED <<buffer, flag, ghosts>>

\* The chosen lane is empty, or it is the own one: yield.
StealNothing(l, victim) ==
    /\ victim = l \/ tasks[victim] = <<>>
    /\ Goes(l, "steal", Loop(l))
    /\ UNCHANGED <<tasks, buffer, flag, current, ghosts>>

\* task::call: the callback ...
Call(l) ==
    /\ Goes(l, "call", "resolve")
    /\ ran' = [ran EXCEPT ![job[current[l]]] = @ + 1]
    /\ UNCHANGED <<tasks, buffer, flag, current, calls, starts, late>>

\* Seeded defect: the parent is not told.
ResolveForgotten(l) ==
    /\ Goes(l, "resolve", Loop(l))
    /\ current' = [current EXCEPT ![l] = Null]
    /\ UNCHANGED <<tasks, buffer, flag, ghosts>>

\* ... and --(parent->unresolved_children).
Resolve(l) ==
    /\ Goes(l, "resolve", Loop(l))
    /\ unresolved' = [unresolved EXCEPT ![Parent] = @ - 1]
    /\ current' = [current EXCEPT ![l] = Null]
    /\ UNCHANGED <<tasks, index, job, flag, ghosts>>

RunLane(l) ==
    \/ Pop(l) \/ PopNothing(l) \/ Call(l) \/ Resolve(l)
    \/ \E victim \in Lanes : Steal(l, victim) \/ StealNothing(l, victim)

-----------------------------------------------------------------------------
(* Workers.                                                                *)

\* The thread's first statement after its affinity: lane.running = true.
WorkerStarts(w) ==
    /\ Goes(w, "created", "check")
    /\ flag' = [flag EXCEPT ![w] = TRUE]
    /\ late' = (late \/ lanePc[Main] = "join")
    /\ UNCHANGED <<tasks, buffer, current, ran, calls, starts>>

WorkerChecks(w) ==
    /\ Goes(w, "check", IF flag[w] THEN "pop" ELSE "ended")
    /\ UNCHANGED <<tasks, buffer, flag, current, ghosts>>

-----------------------------------------------------------------------------
(* Main.                                                                   *)

\* run: nothing happens if it was called before.
Run ==
    /\ lanePc[Main] = "idle" /\ starts < MaxStarts
    /\ ~flag[Main]
    /\ flag' = [flag EXCEPT ![Main] = TRUE]
    /\ lanePc' = [l \in Lanes |-> IF l = Main THEN "idle" ELSE "created"]
    /\ starts' = starts + 1
    /\ UNCHANGED <<tasks, buffer, current, ran, calls, late>>

\* run_parallel and run_parallel_many: the parent, then a task for each part.
RunParallel ==
    /\ calls < MaxRuns
    /\ Goes(Main, "idle", "push")
    /\ calls' = calls + 1
    /\ index' = index + 1
    /\ unresolved' = [unresolved EXCEPT ![index + 1] = JobDiv]
    /\ UNCHANGED <<tasks, job, flag, current, ran, starts, late>>

PushPart ==
    /\ Goes(Main, "push", IF index = JobDiv THEN "wait" ELSE "push")
    /\ index' = index + 1
    /\ job' = [job EXCEPT ![index + 1] = <<calls, index>>]
    /\ tasks' = [tasks EXCEPT ![Main] = Append(@, index + 1)]
    /\ UNCHANGED <<unresolved, flag, current, ghosts>>

WaitGoesOn ==
    /\ unresolved[Parent] # 0
    /\ Goes(Main, "wait", "pop")
    /\ UNCHANGED <<tasks, buffer, flag, current, ghosts>>

\* Seeded defect: the wait ends when the last task has been taken.
WaitEndsEarly ==
    /\ tasks[Main] = <<>>
    /\ Goes(Main, "wait", "idle")
    /\ index' = 0
    /\ UNCHANGED <<tasks, job, unresolved, flag, current, ghosts>>

\* wait_for returns, and the buffer starts over.
WaitEnds ==
    /\ unresolved[Parent] = 0
    /\ Goes(Main, "wait", "idle")
    /\ index' = 0
    /\ UNCHANGED <<tasks, job, unresolved, flag, current, ghosts>>

\* Seeded defect: only the first lane is told to stop.
StopFirst ==
    /\ Goes(Main, "idle", "join")
    /\ flag' = [flag EXCEPT ![Main] = FALSE]
    /\ UNCHANGED <<tasks, buffer, current, ghosts>>

\* stop, also called by the destructor.
Stop ==
    /\ Goes(Main, "idle", "join")
    /\ flag' = [l \in Lanes |-> FALSE]
    /\ UNCHANGED <<tasks, buffer, current, ghosts>>

\* Every worker that was started has ended.
Join ==
    /\ lanePc[Main] = "join"
    /\ \A w \in Helpers : lanePc[w] \in {"none", "ended"}
    /\ lanePc' = [l \in Lanes |-> IF l = Main THEN "idle" ELSE "none"]
    /\ UNCHANGED <<tasks, buffer, flag, current, ghosts>>

-----------------------------------------------------------------------------
WorkerStep(w) == WorkerStarts(w) \/ WorkerChecks(w) \/ RunLane(w)
MainStep == PushPart \/ WaitGoesOn \/ WaitEnds \/ Join \/ RunLane(Main)

Next == (\E w \in Helpers : WorkerStep(w)) \/ MainStep \/ Run \/ RunParallel \/ Stop

Spec == Init /\ [][Next]_lanesVars

-----------------------------------------------------------------------------
InCall == lanePc[Main] \in {"push", "wait", "pop", "steal", "call", "resolve"}

\* When run_parallel has returned, every part of every call so far was worked
\* on exactly once, by whichever thread took it; meanwhile none was twice.
PartsRunOnce ==
    \A j \in Jobs : ran[j] <= 1 /\ (~InCall /\ j[1] <= calls => ran[j] = 1)

\* The buffer starts over only when no lane holds and no thread calls one of
\* its tasks.
BufferUnused ==
    index = 0 => \A l \in Lanes : tasks[l] = <<>> /\ current[l] = Null

\* run_parallel returns, with or without workers.
RunParallelReturns == (lanePc[Main] = "push") ~> (lanePc[Main] = "idle")

\* stop returns, unless a worker was so late that it set its flag after stop
\* had cleared it: it is then joined for ever.
StopReturns == (lanePc[Main] = "join") ~> (lanePc[Main] = "idle" \/ late)
=============================================================================
