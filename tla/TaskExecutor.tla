---------------------------- MODULE TaskExecutor ----------------------------
(***************************************************************************)
(* proto_g::executor of streaming_tasks.cpp: workers that take tasks from  *)
(* one queue under a spin mutex and sleep on a condition variable, clients *)
(* that push tasks and busy-wait for their token by running tasks          *)
(* themselves, and a destructor that stops and joins the workers.          *)
(*                                                                         *)
(* The queue is only used under the mutex.  A critical section is one step *)
(* that needs the mutex to be free, except the worker's: it keeps the      *)
(* mutex between the evaluation of the wait's predicate and the sleep,     *)
(* while _is_running may be written, since that needs no mutex.            *)
(***************************************************************************)
EXTENDS Integers, Sequences, FiniteSets

CONSTANTS
    Workers,       \* the worker threads
    Clients,       \* threads that use the executor
    Owner,         \* the client that destroys it
    Parts,         \* job_div, the number of tasks of push_parallel
    MaxPushes,     \* bound: pushes of each client
    MaxWakeups     \* bound: the times a worker is woken without a notification

ASSUME WorkersAssumption == Workers # {} /\ Workers \cap Clients = {}
ASSUME ClientsAssumption == Owner \in Clients /\ Parts \in Nat \ {0} /\ MaxPushes \in Nat /\ MaxWakeups \in Nat

VARIABLES
    queue,      \* _task_queue
    keeper,     \* the worker that keeps _mutex until it sleeps, if any
    running,    \* _is_running
    unresolved, \* sync_token::_unresolved of each token
    pc,         \* where each thread is
    task,       \* current_task of each thread
    token,      \* the token each client got last
    ran,        \* ghost: how often each task's callback was run
    wakeups     \* spurious wakeups that may still happen

data == <<queue, keeper, running, unresolved, task, token, ran>>
vars == <<data, pc, wakeups>>

Threads == Workers \cup Clients

\* The tokens of the clients' pushes, and the tasks they count.  A task that
\* was moved from, or not assigned yet, has no callback: NoTask.
Tokens == Clients \X (1 .. MaxPushes)
Tasks  == [token : Tokens, part : 1 .. Parts]
NoTask == [part |-> 0]
Nobody == "nobody"
NoToken(c) == <<c, 0>>

WorkerLabels == {"lock", "block", "asleep", "run", "resolve", "ended"}
ClientLabels == {"idle", "notify", "wait", "busy", "run", "resolve", "stop", "notify_stop", "join", "gone"}

TypeOK ==
    /\ queue \in Seq(Tasks \cup {NoTask})
    /\ keeper \in Workers \cup {Nobody}
    /\ running \in BOOLEAN
    /\ unresolved \in [Tokens -> 0 .. Parts]
    /\ pc \in [Threads -> WorkerLabels \cup ClientLabels]
    /\ task \in [Threads -> Tasks \cup {NoTask}]
    /\ token \in [Clients -> Clients \X (0 .. MaxPushes)]
    /\ ran \in [Tasks -> Nat]
    /\ wakeups \in 0 .. MaxWakeups

Init ==
    /\ queue = <<>>
    /\ keeper = Nobody
    /\ running = TRUE
    /\ unresolved = [k \in Tokens |-> 0]
    /\ pc = [t \in Threads |-> IF t \in Workers THEN "lock" ELSE "idle"]
    /\ task = [t \in Threads |-> NoTask]
    /\ token = [c \in Clients |-> NoToken(c)]
    /\ ran = [k \in Tasks |-> 0]
    /\ wakeups = MaxWakeups

Transition(t, from, to) ==
    /\ pc[t] = from
    /\ pc' = [pc EXCEPT ![t] = to]

\* What notify_all does to pc; woken threads take the mutex again.
AllWoken(p) == [t \in Threads |-> IF p[t] = "asleep" THEN "lock" ELSE p[t]]

-----------------------------------------------------------------------------
(* Workers.                                                                *)

\* Seeded defect: a worker ends as soon as it is told to, tasks or not.
WorkerTakeIfRunning(w) ==
    /\ queue # <<>> /\ keeper = Nobody
    /\ Transition(w, "lock", IF running THEN "run" ELSE "ended")
    /\ task' = [task EXCEPT ![w] = IF running THEN Head(queue) ELSE NoTask]
    /\ queue' = IF running THEN Tail(queue) ELSE queue
    /\ UNCHANGED <<keeper, running, unresolved, token, ran, wakeups>>

\* The predicate holds and the queue has a task.
WorkerTake(w) ==
    /\ Transition(w, "lock", "run")
    /\ keeper = Nobody
    /\ queue # <<>>
    /\ task' = [task EXCEPT ![w] = Head(queue)]
    /\ queue' = Tail(queue)
    /\ UNCHANGED <<keeper, running, unresolved, token, ran, wakeups>>

\* The predicate holds because the executor stops: the thread function returns.
WorkerEnd(w) ==
    /\ Transition(w, "lock", "ended")
    /\ keeper = Nobody
    /\ queue = <<>> /\ ~running
    /\ UNCHANGED <<data, wakeups>>

\* The predicate does not hold ...
WorkerFindsNothing(w) ==
    /\ Transition(w, "lock", "block")
    /\ keeper = Nobody
    /\ queue = <<>> /\ running
    /\ keeper' = w
    /\ UNCHANGED <<queue, running, unresolved, task, token, ran, wakeups>>

\* ... and the wait releases the mutex and sleeps, in one step.
WorkerSleep(w) ==
    /\ Transition(w, "block", "asleep")
    /\ keeper' = Nobody
    /\ UNCHANGED <<queue, running, unresolved, task, token, ran, wakeups>>

WorkerWakesSpuriously(w) ==
    /\ wakeups > 0
    /\ wakeups' = wakeups - 1
    /\ Transition(w, "asleep", "lock")
    /\ UNCHANGED data

-----------------------------------------------------------------------------
(* task::invoke, by a worker or by a client in busy_wait_for.  A callback  *)
(* that throws ends like one that returns: invoke catches the exception    *)
(* and the guard resolves the token.                                       *)

AfterTask(t) == IF t \in Workers THEN "lock" ELSE "wait"

RunNothing(t) ==
    /\ task[t] = NoTask
    /\ Transition(t, "run", AfterTask(t))
    /\ UNCHANGED <<data, wakeups>>

\* Seeded defect: the token is resolved before the callback has been run.
RunResolved(t) ==
    /\ task[t] # NoTask
    /\ Transition(t, "run", "resolve")
    /\ unresolved' = [unresolved EXCEPT ![task[t].token] = @ - 1]
    /\ UNCHANGED <<queue, keeper, running, task, token, ran, wakeups>>

Run(t) ==
    /\ task[t] # NoTask
    /\ Transition(t, "run", "resolve")
    /\ ran' = [ran EXCEPT ![task[t]] = @ + 1]
    /\ UNCHANGED <<queue, keeper, running, unresolved, task, token, wakeups>>

\* Seeded defect: the token is not resolved, as if the guard were missing.
ResolveForgotten(t) ==
    /\ Transition(t, "resolve", AfterTask(t))
    /\ task' = [task EXCEPT ![t] = NoTask]
    /\ UNCHANGED <<queue, keeper, running, unresolved, token, ran, wakeups>>

Resolve(t) ==
    /\ Transition(t, "resolve", AfterTask(t))
    /\ unresolved' = [unresolved EXCEPT ![task[t].token] = @ - 1]
    /\ task' = [task EXCEPT ![t] = NoTask]
    /\ UNCHANGED <<queue, keeper, running, token, ran, wakeups>>

-----------------------------------------------------------------------------
(* Clients.                                                                *)

\* The token of the next push of c, and its first n tasks in order.
NextToken(c) == <<c, token[c][2] + 1>>
TasksOf(k, n) == [i \in 1 .. n |-> [token |-> k, part |-> i]]

CanCall(c) == pc[c] = "idle" /\ pc[Owner] \notin {"stop", "notify_stop", "join", "gone"}

\* make(n) and the tasks' push_back under the mutex.
Enqueue(c, n) ==
    /\ CanCall(c)
    /\ token[c][2] < MaxPushes
    /\ keeper = Nobody
    /\ queue' = queue \o TasksOf(NextToken(c), n)
    /\ unresolved' = [unresolved EXCEPT ![NextToken(c)] = n]
    /\ token' = [token EXCEPT ![c] = NextToken(c)]
    /\ UNCHANGED <<keeper, running, task, ran, wakeups>>

\* Seeded defect: nobody is notified.
PushSilently(c) == Enqueue(c, 1) /\ UNCHANGED pc

\* push notifies after it has given the mutex back.
Push(c) == Enqueue(c, 1) /\ pc' = [pc EXCEPT ![c] = "notify"]

NotifyOne(c) ==
    /\ IF \E w \in Workers : pc[w] = "asleep"
       THEN \E w \in Workers :
                pc[w] = "asleep" /\ pc[c] = "notify"
                /\ pc' = [pc EXCEPT ![c] = "idle", ![w] = "lock"]
       ELSE Transition(c, "notify", "idle")
    /\ UNCHANGED <<data, wakeups>>

\* push_parallel notifies all workers before it gives the mutex back.
PushParallel(c) == Enqueue(c, Parts) /\ pc' = AllWoken(pc)

WaitStart(c) ==
    /\ CanCall(c) /\ token[c] # NoToken(c)
    /\ pc' = [pc EXCEPT ![c] = "wait"]
    /\ UNCHANGED <<data, wakeups>>

\* busy_wait_for returns when the token is done ...
WaitCheck(c) ==
    /\ Transition(c, "wait", IF unresolved[token[c]] = 0 THEN "idle" ELSE "busy")
    /\ UNCHANGED <<data, wakeups>>

\* Seeded defect: the task is copied, not moved, out of the queue.
WaitCopy(c) ==
    /\ Transition(c, "busy", "run")
    /\ keeper = Nobody
    /\ task' = [task EXCEPT ![c] = IF queue # <<>> THEN Head(queue) ELSE NoTask]
    /\ UNCHANGED <<queue, keeper, running, unresolved, token, ran, wakeups>>

\* ... and runs the first task meanwhile.  The task is moved from but stays in
\* the queue, without a callback, until a worker removes it.
WaitTake(c) ==
    /\ Transition(c, "busy", "run")
    /\ keeper = Nobody
    /\ IF queue # <<>>
       THEN /\ task' = [task EXCEPT ![c] = Head(queue)]
            /\ queue' = [queue EXCEPT ![1] = NoTask]
       ELSE /\ task' = [task EXCEPT ![c] = NoTask]
            /\ UNCHANGED queue
    /\ UNCHANGED <<keeper, running, unresolved, token, ran, wakeups>>

-----------------------------------------------------------------------------
(* ~executor, when every client has returned.                              *)

Destroy ==
    /\ \A c \in Clients : pc[c] = "idle"
    /\ Transition(Owner, "idle", "stop")
    /\ UNCHANGED <<data, wakeups>>

Stop ==
    /\ Transition(Owner, "stop", "notify_stop")
    /\ running' = FALSE
    /\ UNCHANGED <<queue, keeper, unresolved, task, token, ran, wakeups>>

NotifyStop ==
    /\ pc[Owner] = "notify_stop"
    /\ pc' = [AllWoken(pc) EXCEPT ![Owner] = "join"]
    /\ UNCHANGED <<data, wakeups>>

Join ==
    /\ Transition(Owner, "join", "gone")
    /\ \A w \in Workers : pc[w] = "ended"
    /\ UNCHANGED <<data, wakeups>>

Terminated == pc[Owner] = "gone" /\ UNCHANGED vars

-----------------------------------------------------------------------------
Invoke(t) == RunNothing(t) \/ Run(t) \/ Resolve(t)

WorkerStep(w) == WorkerTake(w) \/ WorkerEnd(w) \/ WorkerFindsNothing(w) \/ WorkerSleep(w) \/ Invoke(w)

\* A call that has begun goes on.
ClientStep(c) == NotifyOne(c) \/ WaitCheck(c) \/ WaitTake(c) \/ Invoke(c)

DestructorStep == Stop \/ NotifyStop \/ Join

Next ==
    \/ \E w \in Workers : WorkerStep(w) \/ WorkerWakesSpuriously(w)
    \/ \E c \in Clients : Push(c) \/ PushParallel(c) \/ WaitStart(c) \/ ClientStep(c)
    \/ Destroy \/ DestructorStep
    \/ Terminated

Spec == Init /\ [][Next]_vars

\* Threads are scheduled; nobody has to make a call, and no worker may count on
\* being woken but by a notification.
FairSpec ==
    /\ Spec
    /\ \A w \in Workers : WF_vars(WorkerStep(w))
    /\ \A c \in Clients : WF_vars(ClientStep(c))
    /\ WF_vars(DestructorStep)

-----------------------------------------------------------------------------
Made(k) == token[k[1]][2] >= k[2]

\* The tasks of token k that are in the queue, and the threads that have taken
\* one of them and not seen its callback end.
Queued(k) == {i \in DOMAIN queue : queue[i] # NoTask /\ queue[i].token = k}
Taken(k)  == {t \in Threads : task[t] # NoTask /\ task[t].token = k}

\* No task is run twice, by two workers or by a worker and a waiting client.
RunOnce == \A k \in Tasks : ran[k] <= 1

\* A token counts the tasks that are queued or being run, so it is done only
\* when each of its tasks has been run to its end.
TokenCountsTasks ==
    \A k \in Tokens : Made(k) => unresolved[k] = Cardinality(Queued(k)) + Cardinality(Taken(k))

\* "executor destroyed with pending tasks" is never printed: the workers run
\* every task that was pushed before the destructor began.
DestroyedDrained ==
    pc[Owner] = "gone" => queue = <<>> /\ \A k \in Tokens : unresolved[k] = 0

\* A task that is in the queue is not left there by sleeping workers.
TasksAreRun == \A k \in Tokens : (unresolved[k] > 0) ~> (unresolved[k] = 0)

\* busy_wait_for returns.
WaitReturns == \A c \in Clients : (pc[c] = "wait") ~> (pc[c] = "idle")

\* The destructor returns: each worker sees that _is_running is false.
DestructorReturns == (pc[Owner] = "stop") ~> (pc[Owner] = "gone")
=============================================================================
