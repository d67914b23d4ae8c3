----------------------------- MODULE TasksProofs -----------------------------
(***************************************************************************)
(* Theorems about the executor of proto_g, for any workers, clients, parts *)
(* of a call and bounds of the model, then about the lanes of proto_e; and *)
(* what both say of MCTasks, the programs that the runs check.             *)
(***************************************************************************)
EXTENDS MCTasks, FiniteSetTheorems, TLAPS

\* Each thread is where it can be, and a client's token is its own.
ThreadInv ==
    /\ \A w \in Workers : pc[w] \in WorkerLabels
    /\ \A c \in Clients : pc[c] \in ClientLabels /\ token[c][1] = c

\* A thread has a task only while it runs it.
HoldInv ==
    \A t \in Threads :
        /\ task[t] # NoTask => pc[t] \in {"run", "resolve"}
        /\ pc[t] = "resolve" => task[t] # NoTask

\* A task is in one place of the queue or in the hands of one thread.
OneCopyInv ==
    /\ \A i, j \in DOMAIN queue : queue[i] = queue[j] /\ i # j => queue[i] = NoTask
    /\ \A t, u \in Threads : task[t] = task[u] /\ t # u => task[t] = NoTask
    /\ \A i \in DOMAIN queue, t \in Threads : queue[i] = task[t] => task[t] = NoTask

\* Where a task is that has been run, or has not.
RanInv ==
    /\ \A k \in Tasks : ran[k] \in {0, 1} /\ (ran[k] = 1 => Made(k.token))
    /\ \A i \in DOMAIN queue : queue[i] # NoTask => Made(queue[i].token) /\ ran[queue[i]] = 0
    /\ \A t \in Threads : task[t] # NoTask =>
            Made(task[t].token) /\ (pc[t] = "run" => ran[task[t]] = 0)

\* The parts of token k that are queued or taken.
Open(k) ==
    {p \in 1 .. Parts :
        \/ \E i \in DOMAIN queue : queue[i] = [token |-> k, part |-> p]
        \/ \E t \in Threads : task[t] = [token |-> k, part |-> p]}

CountInv == \A k \in Tokens : unresolved[k] = Cardinality(Open(k))

\* When the destructor has begun, no client pushes any more; a worker ends only
\* after that, when the queue is empty.
StopInv ==
    /\ pc[Owner] \in {"stop", "notify_stop", "join", "gone"} =>
            \A c \in Clients \ {Owner} : pc[c] = "idle"
    /\ ~running => pc[Owner] \in {"notify_stop", "join", "gone"}
    /\ (\E w \in Workers : pc[w] = "ended") => ~running /\ queue = <<>>
    /\ pc[Owner] = "gone" => \A w \in Workers : pc[w] = "ended"

Inv ==
    /\ TypeOK
    /\ ThreadInv
    /\ HoldInv
    /\ OneCopyInv
    /\ RanInv
    /\ CountInv
    /\ StopInv
-----------------------------------------------------------------------------
(* Facts about the constants and the operators.                            *)

LEMMA ConstantFacts ==
    /\ Owner \in Threads /\ Owner \notin Workers
    /\ Workers \subseteq Threads /\ Clients \subseteq Threads
    /\ \A t \in Threads : t \in Workers <=> t \notin Clients
    /\ \E w \in Workers : TRUE
    BY WorkersAssumption, ClientsAssumption DEF Threads

LEMMA NoTaskIsNone == NoTask \notin Tasks
<1>1. \A k \in Tasks : k.part # 0
    BY ClientsAssumption DEF Tasks
<1>2. NoTask.part = 0
    BY DEF NoTask
<1>3. QED
    BY <1>1, <1>2

\* A task is given by its token and its part.
LEMMA TaskIs ==
    \A k \in Tasks : /\ k.token \in Tokens /\ k.part \in 1 .. Parts
                     /\ k = [token |-> k.token, part |-> k.part]
    BY DEF Tasks

LEMMA TaskMade ==
    ASSUME NEW k \in Tokens, NEW p \in 1 .. Parts
    PROVE  /\ [token |-> k, part |-> p] \in Tasks
           /\ [token |-> k, part |-> p].token = k /\ [token |-> k, part |-> p].part = p
    BY DEF Tasks

\* The number of a token's open parts.
LEMMA OpenFinite ==
    ASSUME NEW k
    PROVE  /\ IsFiniteSet(Open(k)) /\ Cardinality(Open(k)) \in 0 .. Parts
           /\ Open(k) = {} <=> Cardinality(Open(k)) = 0
<1>1. IsFiniteSet(1 .. Parts) /\ Cardinality(1 .. Parts) = Parts
    BY FS_Interval, ClientsAssumption
<1>2. IsFiniteSet(Open(k)) /\ Cardinality(Open(k)) <= Parts
    BY <1>1, FS_Subset DEF Open
<1>3. QED
    BY <1>2, FS_CardinalityType, FS_EmptySet, ClientsAssumption

-----------------------------------------------------------------------------
(* The first state.                                                        *)

LEMMA InitInv == Init => Inv
<1> SUFFICES ASSUME Init PROVE Inv
    OBVIOUS
<1> USE DEF Init
<1>1. TypeOK
  <2>1. pc \in [Threads -> WorkerLabels \cup ClientLabels]
    BY DEF WorkerLabels, ClientLabels
  <2>2. token \in [Clients -> Clients \X (0 .. MaxPushes)]
    BY ClientsAssumption DEF NoToken
  <2>3. unresolved \in [Tokens -> 0 .. Parts] /\ wakeups \in 0 .. MaxWakeups
    BY ClientsAssumption
  <2>4. queue \in Seq(Tasks \cup {NoTask})
    OBVIOUS
  <2>5. QED
    BY <2>1, <2>2, <2>3, <2>4 DEF TypeOK
<1>2. ThreadInv
    BY ConstantFacts DEF ThreadInv, WorkerLabels, ClientLabels, NoToken
<1>3. HoldInv
    BY DEF HoldInv
<1>4. DOMAIN queue = {}
    OBVIOUS
<1>5. OneCopyInv /\ RanInv
    BY <1>4, NoTaskIsNone DEF OneCopyInv, RanInv
<1>6. CountInv
  <2>1. SUFFICES ASSUME NEW k \in Tokens PROVE Cardinality(Open(k)) = 0
    BY DEF CountInv
  <2>2. Open(k) = {}
    BY <1>4, TaskMade, NoTaskIsNone DEF Open
  <2>3. QED
    BY <2>2, OpenFinite
<1>7. StopInv
    BY ConstantFacts DEF StopInv
<1>8. QED
    BY <1>1, <1>2, <1>3, <1>5, <1>6, <1>7 DEF Inv

-----------------------------------------------------------------------------
(* Steps that move threads and leave queue, tasks and tokens alone.        *)

TasksUnchanged == UNCHANGED <<queue, unresolved, task, token, ran>>

LEMMA KeepsTasks ==
    ASSUME Inv, TasksUnchanged,
           \A t \in Threads : pc'[t] = "run" => pc[t] = "run" \/ task[t] = NoTask
    PROVE  OneCopyInv' /\ RanInv' /\ CountInv'
    BY DEF Inv, TasksUnchanged, OneCopyInv, RanInv, CountInv, Open, Made

LEMMA WorkerEndInv == ASSUME Inv, NEW w \in Workers, WorkerEnd(w) PROVE Inv'
<1> USE ConstantFacts DEF WorkerEnd, Transition, data
<1>1. OneCopyInv' /\ RanInv' /\ CountInv'
    BY KeepsTasks DEF TasksUnchanged, Inv, TypeOK
<1>2. TypeOK'
  <2>1. pc' \in [Threads -> WorkerLabels \cup ClientLabels]
    BY DEF Inv, TypeOK, WorkerLabels
  <2>2. UNCHANGED <<queue, keeper, running, unresolved, task, token, ran, wakeups>>
    OBVIOUS
  <2>3. QED
    BY <2>1, <2>2 DEF Inv, TypeOK
<1>3. ThreadInv' /\ HoldInv'
    BY DEF Inv, TypeOK, ThreadInv, HoldInv, WorkerLabels
<1>4. StopInv'
    BY DEF Inv, TypeOK, StopInv
<1>5. QED
    BY <1>1, <1>2, <1>3, <1>4 DEF Inv

LEMMA WorkerWaitInv ==
    ASSUME Inv, NEW w \in Workers,
           WorkerFindsNothing(w) \/ WorkerSleep(w) \/ WorkerWakesSpuriously(w)
    PROVE  Inv'
<1> USE ConstantFacts DEF WorkerFindsNothing, WorkerSleep, WorkerWakesSpuriously, Transition, data
<1>1. OneCopyInv' /\ RanInv' /\ CountInv'
    BY KeepsTasks DEF TasksUnchanged, Inv, TypeOK
<1>2. TypeOK'
  <2>1. pc' \in [Threads -> WorkerLabels \cup ClientLabels]
    BY DEF Inv, TypeOK, WorkerLabels
  <2>2. keeper' \in Workers \cup {Nobody}
    BY DEF Inv, TypeOK
  <2>3. wakeups' \in 0 .. MaxWakeups
    BY ClientsAssumption DEF Inv, TypeOK
  <2>4. UNCHANGED <<queue, running, unresolved, task, token, ran>>
    OBVIOUS
  <2>5. QED
    BY <2>1, <2>2, <2>3, <2>4 DEF Inv, TypeOK
<1>3. ThreadInv' /\ HoldInv'
  <2>1. PICK from \in {"lock", "block", "asleep"}, to \in {"lock", "block", "asleep"} :
            pc[w] = from /\ pc' = [pc EXCEPT ![w] = to]
    OBVIOUS
  <2>2. UNCHANGED <<task, token>>
    OBVIOUS
  <2>3. ThreadInv'
    BY <2>1, <2>2 DEF Inv, TypeOK, ThreadInv, WorkerLabels
  <2>4. HoldInv'
    BY <2>1, <2>2 DEF Inv, TypeOK, HoldInv
  <2>5. QED
    BY <2>3, <2>4
<1>4. StopInv'
    BY DEF Inv, TypeOK, StopInv
<1>5. QED
    BY <1>1, <1>2, <1>3, <1>4 DEF Inv

LEMMA RunNothingInv == ASSUME Inv, NEW t \in Threads, RunNothing(t) PROVE Inv'
<1> USE ConstantFacts DEF RunNothing, AfterTask, Transition, data
<1>1. OneCopyInv' /\ RanInv' /\ CountInv'
    BY KeepsTasks DEF TasksUnchanged, Inv, TypeOK
<1>2. TypeOK'
  <2>1. pc' \in [Threads -> WorkerLabels \cup ClientLabels]
    BY DEF Inv, TypeOK, WorkerLabels, ClientLabels
  <2>2. UNCHANGED <<queue, keeper, running, unresolved, task, token, ran, wakeups>>
    OBVIOUS
  <2>3. QED
    BY <2>1, <2>2 DEF Inv, TypeOK
<1>3. ThreadInv' /\ HoldInv'
    BY DEF Inv, TypeOK, ThreadInv, HoldInv, WorkerLabels, ClientLabels
<1>4. StopInv'
    BY DEF Inv, TypeOK, StopInv
<1>5. QED
    BY <1>1, <1>2, <1>3, <1>4 DEF Inv

LEMMA NotifyOneInv == ASSUME Inv, NEW c \in Clients, NotifyOne(c) PROVE Inv'
<1> USE ConstantFacts DEF NotifyOne, Transition, data
<1>1. OneCopyInv' /\ RanInv' /\ CountInv'
    BY KeepsTasks DEF TasksUnchanged, Inv, TypeOK
<1>2. TypeOK'
  <2>1. PICK w \in Threads : pc' = [pc EXCEPT ![c] = "idle", ![w] = "lock"] \/ pc' = [pc EXCEPT ![c] = "idle"]
    OBVIOUS
  <2>2. pc' \in [Threads -> WorkerLabels \cup ClientLabels]
    BY <2>1 DEF Inv, TypeOK, WorkerLabels, ClientLabels
  <2>3. UNCHANGED <<queue, keeper, running, unresolved, task, token, ran, wakeups>>
    OBVIOUS
  <2>4. QED
    BY <2>2, <2>3 DEF Inv, TypeOK
<1>3. /\ pc[c] = "notify" /\ pc'[c] = "idle"
      /\ \A t \in Threads \ {c} : pc'[t] = pc[t] \/ (pc[t] = "asleep" /\ pc'[t] = "lock")
  <2>1. CASE \E w \in Workers : pc[w] = "asleep"
    BY <2>1 DEF Inv, TypeOK
  <2>2. CASE ~\E w \in Workers : pc[w] = "asleep"
    BY <2>2 DEF Inv, TypeOK
  <2>3. QED
    BY <2>1, <2>2
<1>4. UNCHANGED <<queue, running, task, token>>
    OBVIOUS
<1>5. ThreadInv' /\ HoldInv'
    BY <1>3, <1>4 DEF Inv, ThreadInv, HoldInv, WorkerLabels, ClientLabels
<1>6. StopInv'
    BY <1>3, <1>4 DEF Inv, StopInv
<1>7. QED
    BY <1>1, <1>2, <1>5, <1>6 DEF Inv

LEMMA WaitStartInv == ASSUME Inv, NEW c \in Clients, WaitStart(c) PROVE Inv'
<1> USE ConstantFacts DEF WaitStart, CanCall, data
<1>1. OneCopyInv' /\ RanInv' /\ CountInv'
    BY KeepsTasks DEF TasksUnchanged, Inv, TypeOK
<1>2. TypeOK'
  <2>1. pc' \in [Threads -> WorkerLabels \cup ClientLabels]
    BY DEF Inv, TypeOK, ClientLabels
  <2>2. UNCHANGED <<queue, keeper, running, unresolved, task, token, ran, wakeups>>
    OBVIOUS
  <2>3. QED
    BY <2>1, <2>2 DEF Inv, TypeOK
<1>3. ThreadInv' /\ HoldInv'
    BY DEF Inv, TypeOK, ThreadInv, HoldInv, ClientLabels
<1>4. StopInv'
    BY DEF Inv, TypeOK, StopInv
<1>5. QED
    BY <1>1, <1>2, <1>3, <1>4 DEF Inv

LEMMA WaitCheckInv == ASSUME Inv, NEW c \in Clients, WaitCheck(c) PROVE Inv'
<1> USE ConstantFacts DEF WaitCheck, Transition, data
<1>1. OneCopyInv' /\ RanInv' /\ CountInv'
    BY KeepsTasks DEF TasksUnchanged, Inv, TypeOK
<1>2. TypeOK'
  <2>1. pc' \in [Threads -> WorkerLabels \cup ClientLabels]
    BY DEF Inv, TypeOK, ClientLabels
  <2>2. UNCHANGED <<queue, keeper, running, unresolved, task, token, ran, wakeups>>
    OBVIOUS
  <2>3. QED
    BY <2>1, <2>2 DEF Inv, TypeOK
<1>3. ThreadInv' /\ HoldInv'
    BY DEF Inv, TypeOK, ThreadInv, HoldInv, ClientLabels
<1>4. StopInv'
    BY DEF Inv, TypeOK, StopInv
<1>5. QED
    BY <1>1, <1>2, <1>3, <1>4 DEF Inv

LEMMA DestructorInv == ASSUME Inv, Destroy \/ DestructorStep PROVE Inv'
<1> USE ConstantFacts DEF Destroy, DestructorStep, Stop, NotifyStop, AllWoken, Join, Transition, data
<1>1. OneCopyInv' /\ RanInv' /\ CountInv'
    BY KeepsTasks DEF TasksUnchanged, Inv, TypeOK
<1>2. TypeOK'
  <2>1. pc' \in [Threads -> WorkerLabels \cup ClientLabels] /\ running' \in BOOLEAN
    BY DEF Inv, TypeOK, WorkerLabels, ClientLabels
  <2>2. UNCHANGED <<queue, keeper, unresolved, task, token, ran, wakeups>>
    OBVIOUS
  <2>3. QED
    BY <2>1, <2>2 DEF Inv, TypeOK
<1>3. ThreadInv' /\ HoldInv'
  <2>1. UNCHANGED <<task, token>> /\ pc[Owner] \in ClientLabels \ {"run", "resolve"}
    BY DEF ClientLabels
  <2>2. /\ pc'[Owner] \in ClientLabels \ {"run", "resolve"}
        /\ \A t \in Threads \ {Owner} :
              pc'[t] = pc[t] \/ (pc[t] = "asleep" /\ pc'[t] = "lock")
    BY DEF Inv, TypeOK, ClientLabels
  <2>3. QED
    BY <2>1, <2>2 DEF Inv, ThreadInv, HoldInv, WorkerLabels, ClientLabels
<1>4. StopInv'
  <2>1. CASE Destroy
    BY <2>1 DEF Inv, TypeOK, StopInv
  <2>2. CASE Stop
    BY <2>2 DEF Inv, TypeOK, StopInv
  <2>3. CASE NotifyStop
    BY <2>3 DEF Inv, TypeOK, StopInv
  <2>4. CASE Join
    BY <2>4 DEF Inv, TypeOK, StopInv
  <2>5. QED
    BY <2>1, <2>2, <2>3, <2>4
<1>5. QED
    BY <1>1, <1>2, <1>3, <1>4 DEF Inv

-----------------------------------------------------------------------------
(* A task changes hands: from the front of the queue to a thread.          *)

\* What a thread that had no task gets from the queue, which loses the task
\* with its place, or keeps the place without the task.
Takes(t) ==
    /\ queue # <<>> /\ task[t] = NoTask /\ pc'[t] = "run"
    /\ task' = [task EXCEPT ![t] = Head(queue)]
    /\ queue' = Tail(queue) \/ queue' = [queue EXCEPT ![1] = NoTask]
    /\ \A u \in Threads \ {t} : pc'[u] = pc[u]
    /\ UNCHANGED <<running, unresolved, token, ran, wakeups>>

\* Each place of the queue, after it was taken from, and the one it was before.
LEMMA PlacesKept ==
    ASSUME TypeOK, NEW t \in Threads, Takes(t)
    PROVE  /\ Head(queue) = queue[1] /\ 1 \in DOMAIN queue
           /\ queue' \in Seq(Tasks \cup {NoTask})
           /\ \A i \in DOMAIN queue' : queue'[i] # NoTask =>
                IF queue' = Tail(queue)
                THEN i + 1 \in DOMAIN queue /\ i + 1 # 1 /\ queue'[i] = queue[i + 1]
                ELSE i \in DOMAIN queue /\ i # 1 /\ queue'[i] = queue[i]
           /\ \A i \in DOMAIN queue : i # 1 => \E j \in DOMAIN queue' : queue'[j] = queue[i]
<1> DEFINE S == Tasks \cup {NoTask}
<1>1. queue \in Seq(S) /\ queue # <<>>
    BY DEF TypeOK, Takes
<1>2. Head(queue) = queue[1] /\ Len(queue) \in Nat \ {0} /\ DOMAIN queue = 1 .. Len(queue)
    BY <1>1
<1>3. CASE queue' = Tail(queue)
  <2>1. /\ queue' \in Seq(S) /\ Len(queue') = Len(queue) - 1 /\ DOMAIN queue' = 1 .. Len(queue) - 1
        /\ \A i \in 1 .. Len(queue) - 1 : queue'[i] = queue[i + 1]
    BY <1>1, <1>2, <1>3
  <2>2. ASSUME NEW i \in DOMAIN queue, i # 1 PROVE \E j \in DOMAIN queue' : queue'[j] = queue[i]
    <3>1. i - 1 \in 1 .. Len(queue) - 1 /\ (i - 1) + 1 = i
        BY <1>2, <2>2
    <3>2. QED
        BY <2>1, <3>1
  <2>3. QED
    BY <1>2, <1>3, <2>1, <2>2
<1>4. CASE queue' # Tail(queue)
  <2>1. queue' = [queue EXCEPT ![1] = NoTask]
    BY <1>4 DEF Takes
  <2>2. queue' \in Seq(S) /\ DOMAIN queue' = DOMAIN queue /\ queue'[1] = NoTask
    BY <1>1, <1>2, <2>1
  <2>3. \A i \in DOMAIN queue : i # 1 => queue'[i] = queue[i]
    BY <1>2, <2>1
  <2>4. \A i \in DOMAIN queue' : queue'[i] # NoTask => i # 1
    BY <2>2
  <2>5. 1 \in DOMAIN queue
    BY <1>2
  <2>6. QED
    BY <1>2, <1>4, <2>2, <2>3, <2>4, <2>5
<1>5. QED
    BY <1>3, <1>4

LEMMA TakesKeepsTasks ==
    ASSUME Inv, NEW t \in Threads, Takes(t) PROVE OneCopyInv' /\ RanInv' /\ CountInv'
<1> USE DEF Inv
<1>1. /\ Head(queue) = queue[1] /\ 1 \in DOMAIN queue
      /\ queue' \in Seq(Tasks \cup {NoTask})
      /\ \A i \in DOMAIN queue' : queue'[i] # NoTask =>
            IF queue' = Tail(queue)
            THEN i + 1 \in DOMAIN queue /\ i + 1 # 1 /\ queue'[i] = queue[i + 1]
            ELSE i \in DOMAIN queue /\ i # 1 /\ queue'[i] = queue[i]
      /\ \A i \in DOMAIN queue : i # 1 => \E j \in DOMAIN queue' : queue'[j] = queue[i]
    BY PlacesKept
<1>2. /\ task'[t] = queue[1] /\ task[t] = NoTask
      /\ \A u \in Threads \ {t} : task'[u] = task[u]
    BY <1>1 DEF Takes, TypeOK
<1>3. \A i \in DOMAIN queue' : queue'[i] # NoTask =>
            \E o \in DOMAIN queue : o # 1 /\ queue'[i] = queue[o]
    BY <1>1
<1>4. DOMAIN queue' \subseteq Int
    BY <1>1
<1>5. OneCopyInv'
  <2>1. ASSUME NEW i \in DOMAIN queue', NEW j \in DOMAIN queue', queue'[i] = queue'[j], i # j
        PROVE  queue'[i] = NoTask
    <3>1. SUFFICES ASSUME queue'[i] # NoTask PROVE FALSE
        OBVIOUS
    <3>2. PICK o, r \in DOMAIN queue : o # r /\ queue[o] = queue'[i] /\ queue[r] = queue'[j]
      <4>1. CASE queue' = Tail(queue)
        <5>1. i + 1 # j + 1
            BY <2>1, <1>4
        <5>2. i + 1 \in DOMAIN queue /\ j + 1 \in DOMAIN queue
              /\ queue'[i] = queue[i + 1] /\ queue'[j] = queue[j + 1]
            BY <1>1, <2>1, <3>1, <4>1
        <5>3. QED
            BY <5>1, <5>2
      <4>2. CASE queue' # Tail(queue)
        <5>1. i \in DOMAIN queue /\ j \in DOMAIN queue /\ queue'[i] = queue[i] /\ queue'[j] = queue[j]
            BY <1>1, <2>1, <3>1, <4>2
        <5>2. QED
            BY <5>1, <2>1
      <4>3. QED
        BY <4>1, <4>2
    <3>3. QED
        BY <2>1, <3>1, <3>2 DEF OneCopyInv
  <2>2. \A u, v \in Threads : task'[u] = task'[v] /\ u # v => task'[u] = NoTask
    BY <1>1, <1>2 DEF OneCopyInv
  <2>3. \A i \in DOMAIN queue', u \in Threads : queue'[i] = task'[u] => task'[u] = NoTask
    BY <1>1, <1>2, <1>3 DEF OneCopyInv
  <2>4. QED
    BY <2>1, <2>2, <2>3 DEF OneCopyInv
<1>6. RanInv'
  <2>1. UNCHANGED <<ran, token>> /\ \A k : Made(k)' = Made(k)
    BY DEF Takes, Made
  <2>2. \A i \in DOMAIN queue' : queue'[i] # NoTask => Made(queue'[i].token) /\ ran[queue'[i]] = 0
    BY <1>3 DEF RanInv
  <2>3. \A u \in Threads : task'[u] # NoTask =>
            Made(task'[u].token) /\ (pc'[u] = "run" => ran[task'[u]] = 0)
    BY <1>1, <1>2 DEF RanInv, Takes
  <2>4. QED
    BY <2>1, <2>2, <2>3 DEF RanInv
<1>7. CountInv'
  <2>1. ASSUME NEW k \in Tokens PROVE Open(k)' = Open(k)
    <3>1. ASSUME NEW p \in 1 .. Parts PROVE p \in Open(k)' <=> p \in Open(k)
      <4> DEFINE r == [token |-> k, part |-> p]
      <4> HIDE DEF r
      <4>1. r # NoTask
        BY <2>1, <3>1, TaskMade, NoTaskIsNone DEF r
      <4>2. (\E i \in DOMAIN queue' : queue'[i] = r) \/ (\E u \in Threads : task'[u] = r)
                <=> (\E i \in DOMAIN queue : queue[i] = r) \/ (\E u \in Threads : task[u] = r)
        BY <4>1, <1>1, <1>2, <1>3
      <4>3. QED
        BY <4>2 DEF Open, r
    <3>2. QED
        BY <3>1 DEF Open
  <2>2. unresolved' = unresolved
    BY DEF Takes
  <2>3. QED
    BY <2>1, <2>2 DEF CountInv
<1>8. QED
    BY <1>5, <1>6, <1>7

LEMMA WorkerTakeInv == ASSUME Inv, NEW w \in Workers, WorkerTake(w) PROVE Inv'
<1> USE ConstantFacts DEF WorkerTake, Transition
<1>1. Takes(w)
    BY DEF Inv, TypeOK, HoldInv, Takes
<1>2. OneCopyInv' /\ RanInv' /\ CountInv'
    BY <1>1, TakesKeepsTasks
<1>3. queue' \in Seq(Tasks \cup {NoTask}) /\ Head(queue) \in Tasks \cup {NoTask}
    BY <1>1, PlacesKept DEF Inv, TypeOK
<1>4. TypeOK'
  <2>1. pc' \in [Threads -> WorkerLabels \cup ClientLabels]
    BY DEF Inv, TypeOK, WorkerLabels
  <2>2. task' \in [Threads -> Tasks \cup {NoTask}]
    BY <1>3 DEF Inv, TypeOK
  <2>3. UNCHANGED <<keeper, running, unresolved, token, ran, wakeups>>
    OBVIOUS
  <2>4. QED
    BY <1>3, <2>1, <2>2, <2>3 DEF Inv, TypeOK
<1>5. ThreadInv' /\ HoldInv'
    BY DEF Inv, TypeOK, ThreadInv, HoldInv, WorkerLabels
<1>6. StopInv'
    BY DEF Inv, TypeOK, StopInv
<1>7. QED
    BY <1>2, <1>4, <1>5, <1>6 DEF Inv

LEMMA WaitTakeInv == ASSUME Inv, NEW c \in Clients, WaitTake(c) PROVE Inv'
<1> USE ConstantFacts DEF WaitTake, Transition
<1>1. CASE queue = <<>>
  <2>1. UNCHANGED <<queue, task>>
    <3>1. task[c] = NoTask
        BY DEF Inv, HoldInv
    <3>2. QED
        BY <1>1, <3>1 DEF Inv, TypeOK
  <2>2. OneCopyInv' /\ RanInv' /\ CountInv'
    BY <2>1, KeepsTasks DEF TasksUnchanged, Inv, TypeOK, HoldInv
  <2>3. TypeOK'
    <3>1. pc' \in [Threads -> WorkerLabels \cup ClientLabels]
        BY DEF Inv, TypeOK, ClientLabels
    <3>2. UNCHANGED <<queue, keeper, running, unresolved, task, token, ran, wakeups>>
        BY <2>1
    <3>3. QED
        BY <3>1, <3>2 DEF Inv, TypeOK
  <2>4. ThreadInv' /\ HoldInv'
    BY <2>1 DEF Inv, TypeOK, ThreadInv, HoldInv, ClientLabels
  <2>5. StopInv'
    BY <2>1 DEF Inv, TypeOK, StopInv
  <2>6. QED
    BY <2>2, <2>3, <2>4, <2>5 DEF Inv
<1>2. CASE queue # <<>>
  <2>1. Takes(c)
    BY <1>2 DEF Inv, TypeOK, HoldInv, Takes
  <2>2. OneCopyInv' /\ RanInv' /\ CountInv'
    BY <2>1, TakesKeepsTasks
  <2>3. queue' \in Seq(Tasks \cup {NoTask}) /\ Head(queue) \in Tasks \cup {NoTask}
    BY <2>1, PlacesKept DEF Inv, TypeOK
  <2>4. TypeOK'
    <3>1. pc' \in [Threads -> WorkerLabels \cup ClientLabels]
        BY DEF Inv, TypeOK, ClientLabels
    <3>2. task' \in [Threads -> Tasks \cup {NoTask}]
        BY <1>2, <2>3 DEF Inv, TypeOK
    <3>3. UNCHANGED <<keeper, running, unresolved, token, ran, wakeups>>
        OBVIOUS
    <3>4. QED
        BY <2>3, <3>1, <3>2, <3>3 DEF Inv, TypeOK
  <2>5. ThreadInv' /\ HoldInv'
    BY <1>2 DEF Inv, TypeOK, ThreadInv, HoldInv, ClientLabels
  <2>6. StopInv'
    BY <1>2 DEF Inv, TypeOK, StopInv
  <2>7. QED
    BY <2>2, <2>4, <2>5, <2>6 DEF Inv
<1>3. QED
    BY <1>1, <1>2

-----------------------------------------------------------------------------
(* A task is run, and its token resolved.                                  *)

LEMMA RunInv == ASSUME Inv, NEW t \in Threads, Run(t) PROVE Inv'
<1> USE ConstantFacts DEF Run, Transition
<1> DEFINE k == task[t]
<1>1. k \in Tasks /\ k # NoTask /\ pc[t] = "run"
    BY DEF Inv, TypeOK
<1>2. ran[k] = 0 /\ Made(k.token) /\ ran' = [ran EXCEPT ![k] = 1]
  <2>1. ran[k] = 0 /\ Made(k.token)
    BY <1>1 DEF Inv, RanInv
  <2>2. QED
    BY <2>1
<1>3. TypeOK'
  <2>1. ran' \in [Tasks -> Nat]
    BY <1>1, <1>2 DEF Inv, TypeOK
  <2>2. pc' \in [Threads -> WorkerLabels \cup ClientLabels]
    BY DEF Inv, TypeOK, WorkerLabels
  <2>3. UNCHANGED <<queue, keeper, running, unresolved, task, token, wakeups>>
    OBVIOUS
  <2>4. QED
    BY <2>1, <2>2, <2>3 DEF Inv, TypeOK
<1>4. ThreadInv' /\ HoldInv'
    BY <1>1 DEF Inv, TypeOK, ThreadInv, HoldInv, WorkerLabels, ClientLabels
<1>5. OneCopyInv' /\ CountInv'
    BY DEF Inv, OneCopyInv, CountInv, Open
<1>6. RanInv'
  <2>1. \A j : Made(j)' = Made(j)
    BY DEF Made
  <2>2. \A j \in Tasks : ran'[j] = IF j = k THEN 1 ELSE ran[j]
    BY <1>1, <1>2 DEF Inv, TypeOK
  <2>3. \A j \in Tasks : ran'[j] \in {0, 1} /\ (ran'[j] = 1 => Made(j.token))
    BY <2>2, <1>2 DEF Inv, RanInv
  <2>4. ASSUME NEW i \in DOMAIN queue, queue[i] # NoTask
        PROVE  Made(queue[i].token) /\ ran'[queue[i]] = 0
    <3>1. queue[i] \in Tasks /\ queue[i] # k
        BY <2>4, <1>1 DEF Inv, TypeOK, OneCopyInv
    <3>2. QED
        BY <2>2, <2>4, <3>1 DEF Inv, RanInv
  <2>5. ASSUME NEW u \in Threads, task[u] # NoTask
        PROVE  Made(task[u].token) /\ (pc'[u] = "run" => ran'[task[u]] = 0)
    <3>1. CASE u = t
        BY <3>1, <1>2 DEF Inv, TypeOK
    <3>2. CASE u # t
      <4>1. task[u] \in Tasks /\ task[u] # k /\ pc'[u] = pc[u]
        BY <2>5, <3>2, <1>1 DEF Inv, TypeOK, OneCopyInv
      <4>2. QED
        BY <2>2, <2>5, <4>1 DEF Inv, RanInv
    <3>3. QED
        BY <3>1, <3>2
  <2>6. QED
    BY <2>1, <2>3, <2>4, <2>5 DEF RanInv
<1>7. StopInv'
    BY <1>1 DEF Inv, TypeOK, StopInv
<1>8. QED
    BY <1>3, <1>4, <1>5, <1>6, <1>7 DEF Inv

LEMMA ResolveInv == ASSUME Inv, NEW t \in Threads, Resolve(t) PROVE Inv'
<1> USE ConstantFacts DEF Resolve, Transition, AfterTask
<1> DEFINE k == task[t].token
           p == task[t].part
<1>1. /\ pc[t] = "resolve" /\ task[t] # NoTask /\ task[t] \in Tasks
      /\ k \in Tokens /\ p \in 1 .. Parts /\ task[t] = [token |-> k, part |-> p]
    BY TaskIs DEF Inv, TypeOK, HoldInv
<1>2. /\ task'[t] = NoTask /\ \A u \in Threads \ {t} : task'[u] = task[u] /\ task[u] # task[t]
      /\ \A i \in DOMAIN queue : queue[i] # task[t]
    BY <1>1 DEF Inv, TypeOK, OneCopyInv
<1>3. p \in Open(k) /\ unresolved[k] = Cardinality(Open(k)) /\ unresolved[k] \in 1 .. Parts
  <2>1. p \in Open(k) /\ unresolved[k] = Cardinality(Open(k))
    BY <1>1 DEF Open, Inv, CountInv
  <2>2. QED
    BY <2>1, OpenFinite
<1>4. unresolved' = [unresolved EXCEPT ![k] = unresolved[k] - 1]
    OBVIOUS
<1>5. TypeOK'
  <2>1. unresolved' \in [Tokens -> 0 .. Parts]
    BY <1>1, <1>3, <1>4, ClientsAssumption DEF Inv, TypeOK
  <2>2. pc' \in [Threads -> WorkerLabels \cup ClientLabels] /\ task' \in [Threads -> Tasks \cup {NoTask}]
    BY DEF Inv, TypeOK, WorkerLabels, ClientLabels
  <2>3. UNCHANGED <<queue, keeper, running, token, ran, wakeups>>
    OBVIOUS
  <2>4. QED
    BY <2>1, <2>2, <2>3 DEF Inv, TypeOK
<1>6. ThreadInv' /\ HoldInv'
    BY <1>1, <1>2 DEF Inv, TypeOK, ThreadInv, HoldInv, WorkerLabels, ClientLabels
<1>7. OneCopyInv'
    BY <1>2 DEF Inv, OneCopyInv
<1>8. RanInv'
  <2>1. \A j : Made(j)' = Made(j)
    BY DEF Made
  <2>2. \A u \in Threads : task'[u] # NoTask => task'[u] = task[u] /\ pc'[u] = pc[u]
    BY <1>2 DEF Inv, TypeOK
  <2>3. QED
    BY <2>1, <2>2 DEF Inv, RanInv
<1>9. CountInv'
  <2>1. ASSUME NEW j \in Tokens PROVE Open(j)' = IF j = k THEN Open(k) \ {p} ELSE Open(j)
    <3>1. ASSUME NEW q \in 1 .. Parts
          PROVE  q \in Open(j)' <=> q \in Open(j) /\ ~(j = k /\ q = p)
      <4> DEFINE r == [token |-> j, part |-> q]
      <4>1. r # NoTask /\ (r = task[t] <=> j = k /\ q = p)
        BY <1>1, <2>1, <3>1, TaskMade, NoTaskIsNone
      <4> HIDE DEF r, k, p
      <4>2. (\E u \in Threads : task'[u] = r) <=> r # task[t] /\ \E u \in Threads : task[u] = r
        BY <4>1, <1>2
      <4>3. (\E i \in DOMAIN queue : queue[i] = r) => r # task[t]
        BY <1>2
      <4>4. QED
        BY <4>1, <4>2, <4>3 DEF Open, r
    <3> HIDE DEF k, p
    <3>2. QED
        BY <3>1 DEF Open
  <2> HIDE DEF k, p
  <2>2. Cardinality(Open(k) \ {p}) = Cardinality(Open(k)) - 1
    BY <1>3, OpenFinite, FS_RemoveElement
  <2>3. \A j \in Tokens : unresolved'[j] = IF j = k THEN unresolved[k] - 1 ELSE unresolved[j]
    BY <1>1, <1>4 DEF Inv, TypeOK
  <2>4. QED
    BY <2>1, <2>2, <2>3, <1>3 DEF Inv, CountInv
<1>10. StopInv'
    BY <1>1 DEF Inv, TypeOK, StopInv
<1>11. QED
    BY <1>5, <1>6, <1>7, <1>8, <1>9, <1>10 DEF Inv

-----------------------------------------------------------------------------
(* A client makes a token and pushes its tasks.                            *)

LEMMA NextTokenNew ==
    ASSUME Inv, NEW c \in Clients, NEW n \in 1 .. Parts, Enqueue(c, n)
    PROVE  /\ NextToken(c) \in Tokens /\ ~Made(NextToken(c))
           /\ token' \in [Clients -> Clients \X (0 .. MaxPushes)]
           /\ \A d \in Clients : token'[d][1] = d
           /\ \A k \in Tokens : Made(k)' <=> Made(k) \/ k = NextToken(c)
<1>1. PICK m \in 0 .. MaxPushes - 1 : token[c] = <<c, m>>
  <2>1. token[c] \in Clients \X (0 .. MaxPushes) /\ token[c][1] = c /\ token[c][2] < MaxPushes
    BY DEF Inv, TypeOK, ThreadInv, Enqueue
  <2>2. QED
    BY <2>1, ClientsAssumption
<1>2. NextToken(c) = <<c, m + 1>> /\ m + 1 \in 1 .. MaxPushes
    BY <1>1, ClientsAssumption DEF NextToken
<1>3. token' = [token EXCEPT ![c] = <<c, m + 1>>]
    BY <1>2 DEF Enqueue
<1>4. NextToken(c) \in Tokens /\ ~Made(NextToken(c))
    BY <1>1, <1>2 DEF Tokens, Made
<1>5. token' \in [Clients -> Clients \X (0 .. MaxPushes)] /\ \A d \in Clients : token'[d][1] = d
    BY <1>2, <1>3 DEF Inv, TypeOK, ThreadInv
<1>6. ASSUME NEW k \in Tokens PROVE Made(k)' <=> Made(k) \/ k = NextToken(c)
  <2>1. PICK d \in Clients, i \in 1 .. MaxPushes : k = <<d, i>>
    BY DEF Tokens
  <2>2. CASE d # c
    BY <1>2, <1>3, <2>1, <2>2 DEF Made, Inv, TypeOK
  <2>3. CASE d = c
    <3>1. token'[c][2] = m + 1 /\ token[c][2] = m
        BY <1>1, <1>3 DEF Inv, TypeOK
    <3>2. QED
        BY <1>2, <2>1, <2>3, <3>1 DEF Made
  <2>4. QED
    BY <2>2, <2>3
<1>7. QED
    BY <1>4, <1>5, <1>6

\* The places of the queue after a push: those before, then one for each part.
LEMMA Pushed ==
    ASSUME Inv, NEW c \in Clients, NEW n \in 1 .. Parts, Enqueue(c, n)
    PROVE  /\ Len(queue) \in Nat /\ DOMAIN queue = 1 .. Len(queue)
           /\ queue' \in Seq(Tasks \cup {NoTask}) /\ DOMAIN queue' = 1 .. Len(queue) + n
           /\ \A i \in 1 .. Len(queue) : queue'[i] = queue[i]
           /\ \A i \in 1 .. n :
                queue'[Len(queue) + i] = [token |-> NextToken(c), part |-> i]
<1> DEFINE S == Tasks \cup {NoTask}
           new == TasksOf(NextToken(c), n)
<1>1. queue \in Seq(S) /\ Len(queue) \in Nat /\ DOMAIN queue = 1 .. Len(queue)
    BY DEF Inv, TypeOK
<1>2. n \in Nat /\ \A i \in 1 .. n : i \in 1 .. Parts
    BY ClientsAssumption
<1>3. new \in Seq(S) /\ Len(new) = n /\ \A i \in 1 .. n : new[i] = [token |-> NextToken(c), part |-> i]
  <2>1. \A i \in 1 .. n : [token |-> NextToken(c), part |-> i] \in S
    BY <1>2, NextTokenNew, TaskMade
  <2>2. QED
    BY <1>2, <2>1 DEF TasksOf
<1>4. queue' = queue \o new
    BY DEF Enqueue
<1> HIDE DEF new, S
<1>5. queue' \in Seq(S) /\ Len(queue') = Len(queue) + n
  <2>1. new \in Seq(S) /\ Len(new) = n
    BY <1>3
  <2>2. queue \o new \in Seq(S)
    BY <1>1, <2>1
  <2>3. Len(queue \o new) = Len(queue) + Len(new)
    BY <1>1, <2>1
  <2>4. QED
    BY <1>4, <2>1, <2>2, <2>3
<1>6. DOMAIN queue' = 1 .. Len(queue) + n
    BY <1>5
<1>7. \A i \in 1 .. Len(queue) : queue'[i] = queue[i]
    BY <1>1, <1>2, <1>3, <1>4
<1>8. ASSUME NEW i \in 1 .. n PROVE queue'[Len(queue) + i] = new[i]
  <2>1. /\ Len(queue) + i \in 1 .. Len(queue) + Len(new)
        /\ Len(queue) + i > Len(queue) /\ (Len(queue) + i) - Len(queue) = i
    BY <1>1, <1>2, <1>3
  <2>2. QED
    BY <1>1, <1>3, <1>4, <2>1
<1>9. QED
    BY <1>1, <1>3, <1>5, <1>6, <1>7, <1>8 DEF S

LEMMA EnqueueKeepsTasks ==
    ASSUME Inv, NEW c \in Clients, NEW n \in 1 .. Parts, Enqueue(c, n),
           \A t \in Threads : pc'[t] = "run" => pc[t] = "run"
    PROVE  OneCopyInv' /\ RanInv' /\ CountInv'
<1>0. PICK k \in Tokens : k = NextToken(c)
    BY NextTokenNew
<1> DEFINE new(p) == [token |-> k, part |-> p]
<1>1. ~Made(k) /\ \A j \in Tokens : Made(j)' <=> Made(j) \/ j = k
    BY <1>0, NextTokenNew
<1>2. \A p \in 1 .. Parts : new(p) \in Tasks /\ new(p) # NoTask /\ new(p).token = k /\ new(p).part = p
    BY <1>1, TaskMade, NoTaskIsNone
<1>3. n \in Nat /\ 1 .. n \subseteq 1 .. Parts
    BY ClientsAssumption
<1>4. /\ DOMAIN queue = 1 .. Len(queue) /\ Len(queue) \in Nat
      /\ DOMAIN queue' = 1 .. Len(queue) + n
      /\ \A i \in 1 .. Len(queue) : queue'[i] = queue[i]
      /\ \A p \in 1 .. n : queue'[Len(queue) + p] = new(p)
    BY <1>0, Pushed
<1>5. /\ UNCHANGED <<task, ran>>
      /\ unresolved' = [unresolved EXCEPT ![k] = n]
    BY <1>0 DEF Enqueue
<1> HIDE DEF new
<1>6. \A i \in DOMAIN queue' :
        \/ i \in DOMAIN queue /\ queue'[i] = queue[i]
        \/ \E p \in 1 .. n : i = Len(queue) + p /\ i \notin DOMAIN queue /\ queue'[i] = new(p)
  <2>1. SUFFICES ASSUME NEW i \in DOMAIN queue', i \notin DOMAIN queue
                 PROVE  \E p \in 1 .. n : i = Len(queue) + p /\ queue'[i] = new(p)
    BY <1>4
  <2>2. i - Len(queue) \in 1 .. n /\ i = Len(queue) + (i - Len(queue))
    BY <2>1, <1>3, <1>4
  <2>3. QED
    BY <2>2, <1>4
<1>7. \A i \in DOMAIN queue : queue[i] # NoTask => queue[i].token # k
    BY <1>1 DEF Inv, RanInv
<1>8. \A t \in Threads : task[t] # NoTask => task[t].token # k
    BY <1>1 DEF Inv, RanInv
<1>9. OneCopyInv'
  <2>1. ASSUME NEW i \in DOMAIN queue', NEW j \in DOMAIN queue', queue'[i] = queue'[j], i # j
        PROVE  queue'[i] = NoTask
    <3>1. CASE i \in DOMAIN queue /\ j \in DOMAIN queue
        BY <2>1, <3>1, <1>4 DEF Inv, OneCopyInv
    <3>2. CASE i \notin DOMAIN queue /\ j \notin DOMAIN queue
        BY <2>1, <3>2, <1>2, <1>3, <1>6
    <3>3. CASE (i \in DOMAIN queue) # (j \in DOMAIN queue)
        BY <2>1, <3>3, <1>2, <1>3, <1>6, <1>7
    <3>4. QED
        BY <3>1, <3>2, <3>3
  <2>2. \A t, u \in Threads : task'[t] = task'[u] /\ t # u => task'[t] = NoTask
    BY <1>5 DEF Inv, OneCopyInv
  <2>3. \A i \in DOMAIN queue', t \in Threads : queue'[i] = task'[t] => task'[t] = NoTask
    BY <1>2, <1>3, <1>5, <1>6, <1>8 DEF Inv, OneCopyInv
  <2>4. QED
    BY <2>1, <2>2, <2>3 DEF OneCopyInv
<1>10. RanInv'
  <2>1. \A j \in Tasks : ran'[j] \in {0, 1} /\ (ran'[j] = 1 => Made(j.token)')
    BY <1>1, <1>5, TaskIs DEF Inv, RanInv
  <2>2. ASSUME NEW i \in DOMAIN queue', queue'[i] # NoTask
        PROVE  \E r \in Tasks : r = queue'[i] /\ Made(r.token)' /\ ran'[r] = 0
    <3>1. CASE i \in DOMAIN queue
      <4>1. PICK r \in Tasks : r = queue'[i] /\ r = queue[i] /\ r.token \in Tokens
        BY <2>2, <3>1, <1>4, TaskIs DEF Inv, TypeOK
      <4>2. Made(r.token) /\ ran[r] = 0
        BY <2>2, <3>1, <4>1 DEF Inv, RanInv
      <4>3. QED
        BY <4>1, <4>2, <1>1, <1>5
    <3>2. CASE i \notin DOMAIN queue
      <4>1. PICK p \in 1 .. n : queue'[i] = new(p)
        BY <3>2, <1>6
      <4>2. new(p) \in Tasks /\ new(p).token = k /\ ~Made(new(p).token)
        BY <1>1, <1>2, <1>3
      <4>3. ran[new(p)] = 0
        BY <4>2 DEF Inv, RanInv
      <4>4. Made(new(p).token)'
        BY <4>2, <1>1
      <4>5. QED
        BY <4>1, <4>2, <4>3, <4>4, <1>5
    <3>3. QED
        BY <3>1, <3>2
  <2>3. ASSUME NEW t \in Threads, task'[t] # NoTask
        PROVE  \E r \in Tasks : r = task'[t] /\ Made(r.token)' /\ (pc'[t] = "run" => ran'[r] = 0)
    <3>1. PICK r \in Tasks : r = task'[t] /\ r = task[t] /\ r.token \in Tokens
        BY <2>3, <1>5, TaskIs DEF Inv, TypeOK
    <3>2. Made(r.token) /\ (pc'[t] = "run" => ran[r] = 0)
        BY <2>3, <3>1, <1>5 DEF Inv, RanInv
    <3>3. QED
        BY <3>1, <3>2, <1>1, <1>5
  <2>4. QED
    BY <2>1, <2>2, <2>3 DEF RanInv, Made
<1>11. CountInv'
  <2>1. ASSUME NEW j \in Tokens, j # k PROVE Open(j)' = Open(j)
    <3>1. ASSUME NEW p \in 1 .. Parts
          PROVE  (\E i \in DOMAIN queue' : queue'[i] = [token |-> j, part |-> p])
                    <=> \E i \in DOMAIN queue : queue[i] = [token |-> j, part |-> p]
      <4>1. [token |-> j, part |-> p].token # k
        BY <2>1, <3>1, TaskMade
      <4> DEFINE r == [token |-> j, part |-> p]
      <4> HIDE DEF r
      <4>2. r.token # k
        BY <4>1 DEF r
      <4>3. (\E i \in DOMAIN queue' : queue'[i] = r) <=> \E i \in DOMAIN queue : queue[i] = r
        BY <4>2, <1>2, <1>3, <1>4, <1>6
      <4>4. QED
        BY <4>3 DEF r
    <3>2. QED
        BY <3>1, <1>5 DEF Open
  <2>2. Open(k)' = 1 .. n
    <3>1. ASSUME NEW p \in 1 .. Parts
          PROVE  (\E i \in DOMAIN queue' : queue'[i] = new(p)) <=> p \in 1 .. n
      <4>1. ASSUME NEW i \in DOMAIN queue', queue'[i] = new(p) PROVE p \in 1 .. n
        BY <4>1, <3>1, <1>2, <1>3, <1>6, <1>7
      <4>2. p \in 1 .. n => Len(queue) + p \in DOMAIN queue'
        BY <1>3, <1>4
      <4>3. QED
        BY <4>1, <4>2, <1>4
    <3>2. \A p \in 1 .. Parts, t \in Threads : task'[t] # new(p)
        BY <1>2, <1>5, <1>8
    <3>3. QED
        BY <3>1, <3>2, <1>3 DEF Open, new
  <2>3. Cardinality(1 .. n) = n
    BY FS_Interval, ClientsAssumption
  <2>4. \A j \in Tokens : unresolved'[j] = IF j = k THEN n ELSE unresolved[j]
    BY <1>1, <1>5 DEF Inv, TypeOK
  <2>5. QED
    BY <2>1, <2>2, <2>3, <2>4 DEF Inv, CountInv
<1>12. QED
    BY <1>9, <1>10, <1>11

LEMMA PushInv == ASSUME Inv, NEW c \in Clients, Push(c) \/ PushParallel(c) PROVE Inv'
<1> USE ConstantFacts DEF Push, PushParallel, AllWoken
<1>1. PICK n \in 1 .. Parts : Enqueue(c, n)
    BY ClientsAssumption
<1>2. /\ pc[c] = "idle" /\ pc'[c] \in {"idle", "notify"}
      /\ \A t \in Threads \ {c} : pc'[t] = pc[t] \/ (pc[t] = "asleep" /\ pc'[t] = "lock")
      /\ pc[Owner] \notin {"stop", "notify_stop", "join", "gone"}
    BY DEF Enqueue, CanCall, Inv, TypeOK
<1>3. OneCopyInv' /\ RanInv' /\ CountInv'
  <2>1. \A t \in Threads : pc'[t] = "run" => pc[t] = "run"
    BY <1>2
  <2>2. QED
    BY <1>1, <2>1, EnqueueKeepsTasks
<1>4. TypeOK'
  <2>1. pc' \in [Threads -> WorkerLabels \cup ClientLabels]
    BY DEF Inv, TypeOK, WorkerLabels, ClientLabels
  <2>2. unresolved' \in [Tokens -> 0 .. Parts]
    <3>1. n \in 0 .. Parts /\ unresolved \in [Tokens -> 0 .. Parts]
        BY ClientsAssumption DEF Inv, TypeOK
    <3>2. QED
        BY <1>1, <3>1 DEF Enqueue
  <2>3. queue' \in Seq(Tasks \cup {NoTask}) /\ token' \in [Clients -> Clients \X (0 .. MaxPushes)]
    BY <1>1, Pushed, NextTokenNew
  <2>4. UNCHANGED <<keeper, running, task, ran, wakeups>>
    BY <1>1 DEF Enqueue
  <2>5. QED
    BY <2>1, <2>2, <2>3, <2>4 DEF Inv, TypeOK
<1>5. ThreadInv'
  <2>1. \A d \in Clients : token'[d][1] = d
    BY <1>1, NextTokenNew
  <2>2. QED
    BY <1>2, <2>1 DEF Inv, ThreadInv, WorkerLabels, ClientLabels
<1>6. HoldInv'
    BY <1>2 DEF Inv, HoldInv, Enqueue
<1>7. StopInv'
    BY <1>2 DEF Inv, StopInv, Enqueue
<1>8. QED
    BY <1>3, <1>4, <1>5, <1>6, <1>7 DEF Inv

LEMMA NextInv == ASSUME Inv, [Next]_vars PROVE Inv'
<1>1. ASSUME NEW w \in Workers, WorkerStep(w) \/ WorkerWakesSpuriously(w) PROVE Inv'
    BY <1>1, ConstantFacts, WorkerTakeInv, WorkerEndInv, WorkerWaitInv, RunNothingInv, RunInv, ResolveInv
    DEF WorkerStep, Invoke
<1>2. ASSUME NEW c \in Clients, Push(c) \/ PushParallel(c) \/ WaitStart(c) \/ ClientStep(c) PROVE Inv'
    BY <1>2, ConstantFacts, PushInv, WaitStartInv, NotifyOneInv, WaitCheckInv, WaitTakeInv,
       RunNothingInv, RunInv, ResolveInv
    DEF ClientStep, Invoke
<1>3. CASE UNCHANGED vars
  <2>1. OneCopyInv' /\ RanInv' /\ CountInv'
    BY <1>3, KeepsTasks DEF vars, data, TasksUnchanged
  <2>2. TypeOK' /\ ThreadInv' /\ HoldInv' /\ StopInv'
    BY <1>3 DEF Inv, TypeOK, ThreadInv, HoldInv, StopInv, vars, data
  <2>3. QED
    BY <2>1, <2>2 DEF Inv
<1>4. QED
    BY <1>1, <1>2, <1>3, DestructorInv DEF Next, Terminated

-----------------------------------------------------------------------------
(* What the invariant says of tasks and tokens.                            *)

\* Where each task is in one place, the open parts of a token are as many as
\* the places and threads that have them.
LEMMA OpenCounted ==
    ASSUME Inv, NEW k \in Tokens
    PROVE  Cardinality(Open(k)) = Cardinality(Queued(k)) + Cardinality(Taken(k))
<1> DEFINE Q == {p \in 1 .. Parts : \E i \in DOMAIN queue : queue[i] = [token |-> k, part |-> p]}
           T == {p \in 1 .. Parts : \E t \in Threads : task[t] = [token |-> k, part |-> p]}
           fq == [i \in Queued(k) |-> queue[i].part]
           ft == [t \in Taken(k) |-> task[t].part]
<1>1. Open(k) = Q \cup T
    BY DEF Open
<1>2. IsFiniteSet(Q) /\ IsFiniteSet(T)
  <2>1. IsFiniteSet(1 .. Parts)
    BY FS_Interval, ClientsAssumption
  <2>2. QED
    BY <2>1, FS_Subset
<1>3. Q \cap T = {}
    BY TaskMade, NoTaskIsNone DEF Inv, OneCopyInv
<1>4. \A i \in Queued(k) : queue[i] \in Tasks /\ queue[i].part \in Q
                           /\ queue[i] = [token |-> k, part |-> queue[i].part]
    BY TaskIs DEF Queued, Inv, TypeOK
<1>5. \A t \in Taken(k) : task[t] \in Tasks /\ task[t].part \in T
                          /\ task[t] = [token |-> k, part |-> task[t].part]
    BY TaskIs DEF Taken, Inv, TypeOK
<1>6. fq \in Injection(Queued(k), Q)
  <2>1. fq \in [Queued(k) -> Q]
    BY <1>4
  <2>2. ASSUME NEW i \in Queued(k), NEW j \in Queued(k), fq[i] = fq[j] PROVE i = j
    <3>1. queue[i] = queue[j]
        BY <2>2, <1>4
    <3>2. QED
        BY <3>1 DEF Queued, Inv, OneCopyInv
  <2>3. QED
    BY <2>1, <2>2 DEF Injection, IsInjective
<1>7. fq \in Surjection(Queued(k), Q)
  <2>1. fq \in [Queued(k) -> Q]
    BY <1>4
  <2>2. ASSUME NEW p \in Q PROVE \E i \in Queued(k) : fq[i] = p
    <3>1. PICK i \in DOMAIN queue : queue[i] = [token |-> k, part |-> p]
        BY <2>2
    <3>2. i \in Queued(k) /\ queue[i].part = p
        BY <3>1, TaskMade, NoTaskIsNone DEF Queued
    <3>3. QED
        BY <3>2
  <2>3. QED
    BY <2>1, <2>2 DEF Surjection
<1>8. ft \in Injection(Taken(k), T)
  <2>1. ft \in [Taken(k) -> T]
    BY <1>5
  <2>2. ASSUME NEW t \in Taken(k), NEW u \in Taken(k), ft[t] = ft[u] PROVE t = u
    <3>1. task[t] = task[u]
        BY <2>2, <1>5
    <3>2. QED
        BY <3>1 DEF Taken, Inv, OneCopyInv
  <2>3. QED
    BY <2>1, <2>2 DEF Injection, IsInjective
<1>9. ft \in Surjection(Taken(k), T)
  <2>1. ft \in [Taken(k) -> T]
    BY <1>5
  <2>2. ASSUME NEW p \in T PROVE \E t \in Taken(k) : ft[t] = p
    <3>1. PICK t \in Threads : task[t] = [token |-> k, part |-> p]
        BY <2>2
    <3>2. t \in Taken(k) /\ task[t].part = p
        BY <3>1, TaskMade, NoTaskIsNone DEF Taken
    <3>3. QED
        BY <3>2
  <2>3. QED
    BY <2>1, <2>2 DEF Surjection
<1> HIDE DEF Q, T, fq, ft
<1>10. Cardinality(Queued(k)) = Cardinality(Q) /\ Cardinality(Taken(k)) = Cardinality(T)
    BY <1>2, <1>6, <1>7, <1>8, <1>9, FS_Injection
<1>11. Cardinality(Q \cup T) = Cardinality(Q) + Cardinality(T)
  <2>1. Cardinality(Q \cup T) = Cardinality(Q) + Cardinality(T) - Cardinality(Q \cap T)
    BY <1>2, FS_Union
  <2>2. Cardinality(Q \cap T) = 0 /\ Cardinality(Q) \in Nat /\ Cardinality(T) \in Nat
    BY <1>2, <1>3, FS_EmptySet, FS_CardinalityType
  <2>3. QED
    BY <2>1, <2>2
<1>12. QED
    BY <1>1, <1>10, <1>11

LEMMA InvRunOnce == Inv => RunOnce
    BY DEF Inv, RanInv, RunOnce

LEMMA InvTokens == Inv => TokenCountsTasks
    BY OpenCounted DEF Inv, CountInv, TokenCountsTasks

\* When the workers have been joined no thread has a task and the queue is
\* empty, so that no part of a token is open.
LEMMA InvDrained == Inv => DestroyedDrained
<1> SUFFICES ASSUME Inv, pc[Owner] = "gone"
             PROVE  queue = <<>> /\ \A k \in Tokens : unresolved[k] = 0
    BY DEF DestroyedDrained
<1> USE DEF Inv
<1>1. queue = <<>> /\ DOMAIN queue = {}
    BY ConstantFacts DEF StopInv
<1>2. ASSUME NEW t \in Threads PROVE task[t] = NoTask
    BY ConstantFacts DEF StopInv, HoldInv
<1>3. ASSUME NEW k \in Tokens PROVE unresolved[k] = 0
  <2>1. Open(k) = {}
    BY <1>1, <1>2, TaskMade, NoTaskIsNone DEF Open
  <2>2. QED
    BY <2>1, OpenFinite DEF CountInv
<1>4. QED
    BY <1>1, <1>3

LEMMA InvHolds == Spec => []Inv
    BY InitInv, NextInv, PTL DEF Spec

\* The variables keep their types; a token never counts below zero or above
\* the number of its tasks.
THEOREM TypeCorrect == Spec => []TypeOK
    BY InvHolds, PTL DEF Inv

\* Two workers, or a worker and a client in busy_wait_for, never run the same
\* task.
THEOREM TasksRunOnce == Spec => []RunOnce
    BY InvHolds, InvRunOnce, PTL

\* sync_token::_unresolved is the number of tasks that are queued or taken, so
\* busy_wait_for returns only when each of its tasks has ended.
THEOREM TokensCount == Spec => []TokenCountsTasks
    BY InvHolds, InvTokens, PTL

\* The destructor leaves no task in the queue and no token unresolved.
THEOREM Drained == Spec => []DestroyedDrained
    BY InvHolds, InvDrained, PTL
-----------------------------------------------------------------------------
(* The lanes of proto_e.                                                    *)

\* The slots of the tasks, behind that of the parent.
PartSlots == 2 .. JobDiv + 1

LaneLabels ==
    {"none", "created", "check", "ended", "idle", "join", "push", "wait", "pop", "steal", "call", "resolve"}

CallLabels == {"push", "wait", "pop", "steal", "call", "resolve"}

LanesTypeOK ==
    /\ tasks \in [Lanes!Lanes -> Seq(PartSlots)]
    /\ index \in 0 .. JobDiv + 1
    /\ job \in [Lanes!Slots -> Nat \X Nat]
    /\ unresolvedChildren \in [Lanes!Slots -> Int]
    /\ lanePc \in [Lanes!Lanes -> LaneLabels]
    /\ current \in [Lanes!Lanes -> 0 .. JobDiv + 1]
    /\ partsRan \in [Lanes!Jobs -> Nat]
    /\ calls \in 0 .. MaxRuns

\* How far the buffer is filled where Main is.
IndexInv ==
    /\ lanePc[Owner] \in {"idle", "join"} \cup CallLabels
    /\ lanePc[Owner] \in {"idle", "join"} => index = 0
    /\ lanePc[Owner] = "push" => index \in 1 .. JobDiv
    /\ lanePc[Owner] \in CallLabels \ {"push"} => index = JobDiv + 1
    /\ lanePc[Owner] \in CallLabels => calls > 0

\* A task that was pushed is in one place of Main's lane or in the hands of one
\* thread; no other lane ever has one.
PlaceInv ==
    /\ \A l \in Workers : tasks[l] = <<>>
    /\ \A i \in DOMAIN tasks[Owner] : tasks[Owner][i] <= index
    /\ \A i, j \in DOMAIN tasks[Owner] : tasks[Owner][i] = tasks[Owner][j] => i = j
    /\ \A l \in Lanes!Lanes :
        /\ IF lanePc[l] \in {"call", "resolve"} THEN current[l] \in 2 .. index ELSE current[l] = 0
        /\ \A m \in Lanes!Lanes : current[l] # 0 /\ current[m] = current[l] => l = m
        /\ \A i \in DOMAIN tasks[Owner] : tasks[Owner][i] # current[l]

JobInv == \A s \in 2 .. index : job[s] = <<calls, s - 1>>

\* The tasks of this call that are not yet pushed, that lie in the lane, or
\* that a thread has and has not called or has not resolved.
Idle      == {s \in PartSlots : s > index \/ \E i \in DOMAIN tasks[Owner] : tasks[Owner][i] = s}
Uncalled  == Idle \cup {s \in PartSlots : \E l \in Lanes!Lanes : current[l] = s /\ lanePc[l] = "call"}
Unsettled == Idle \cup {s \in PartSlots : \E l \in Lanes!Lanes : current[l] = s}

PartsInv ==
    \A j \in Lanes!Jobs :
        partsRan[j] = IF j[1] > calls \/ (Lanes!InCall /\ j[1] = calls /\ j[2] + 1 \in Uncalled)
                      THEN 0 ELSE 1

ChildrenInv == Lanes!InCall => unresolvedChildren[1] = Cardinality(Unsettled)

LanesInv == LanesTypeOK /\ IndexInv /\ PlaceInv /\ JobInv /\ PartsInv /\ ChildrenInv

LEMMA LaneFacts ==
    /\ Lanes!Lanes = Workers \cup {Owner} /\ Owner \notin Workers
    /\ JobDiv \in Nat \ {0} /\ MaxRuns \in Nat
    /\ 1 \in Lanes!Slots /\ Lanes!Slots = 1 .. JobDiv + 1
    BY LanesAssumption DEF Lanes!Lanes, Lanes!Slots

\* The tasks that are not settled are finitely many.
LEMMA UnsettledFinite ==
    /\ IsFiniteSet(Unsettled) /\ Cardinality(Unsettled) \in Nat
    /\ Cardinality(Unsettled) = 0 => Unsettled = {}
<1>1. IsFiniteSet(PartSlots)
    BY FS_Interval, LaneFacts DEF PartSlots
<1>2. Unsettled \subseteq PartSlots
    BY DEF Unsettled, Idle
<1>3. IsFiniteSet(Unsettled)
    BY <1>1, <1>2, FS_Subset
<1>4. QED
    BY <1>3, FS_CardinalityType, FS_EmptySet

\* Between two calls the buffer is empty, and so is every lane and every hand.
LEMMA Between ==
    ASSUME LanesInv, ~Lanes!InCall
    PROVE  index = 0 /\ \A l \in Lanes!Lanes : tasks[l] = <<>> /\ current[l] = 0
<1> USE LaneFacts DEF LanesInv
<1>1. index = 0
    BY DEF IndexInv, CallLabels, Lanes!InCall
<1>2. \A l \in Lanes!Lanes : current[l] = 0
    BY <1>1 DEF PlaceInv
<1>3. DOMAIN tasks[Owner] = {}
  <2>1. SUFFICES ASSUME NEW i \in DOMAIN tasks[Owner] PROVE FALSE
    OBVIOUS
  <2>2. tasks[Owner] \in Seq(PartSlots)
    BY DEF LanesTypeOK
  <2>3. tasks[Owner][i] \in PartSlots
    BY <2>2
  <2>4. tasks[Owner][i] <= 0
    BY <1>1, <2>1 DEF PlaceInv
  <2>5. QED
    BY <2>3, <2>4 DEF PartSlots
<1>4. tasks[Owner] = <<>>
  <2>1. tasks[Owner] \in Seq(PartSlots)
    BY DEF LanesTypeOK
  <2>2. Len(tasks[Owner]) \in Nat /\ DOMAIN tasks[Owner] = 1 .. Len(tasks[Owner])
    BY <2>1
  <2>3. 1 \notin 1 .. Len(tasks[Owner])
    BY <1>3, <2>2
  <2>4. Len(tasks[Owner]) = 0
    BY <2>2, <2>3
  <2>5. QED
    BY <2>1, <2>4
<1>5. QED
    BY <1>1, <1>2, <1>4 DEF PlaceInv

LEMMA LanesInitInv == Lanes!Init => LanesInv
<1> SUFFICES ASSUME Lanes!Init PROVE LanesInv
    OBVIOUS
<1> USE LaneFacts DEF Lanes!Init
<1>1. /\ tasks \in [Lanes!Lanes -> Seq(PartSlots)] /\ index \in 0 .. JobDiv + 1
      /\ current \in [Lanes!Lanes -> 0 .. JobDiv + 1] /\ calls \in 0 .. MaxRuns
    BY DEF Lanes!Null
<1>2. job \in [Lanes!Slots -> Nat \X Nat] /\ unresolvedChildren \in [Lanes!Slots -> Int]
    OBVIOUS
<1>3. lanePc \in [Lanes!Lanes -> LaneLabels] /\ partsRan \in [Lanes!Jobs -> Nat]
    BY DEF LaneLabels
<1>4. LanesTypeOK
    BY <1>1, <1>2, <1>3 DEF LanesTypeOK
<1>5. IndexInv /\ ~Lanes!InCall
    BY DEF IndexInv, CallLabels, Lanes!InCall
<1>6. PlaceInv /\ JobInv
    BY DEF PlaceInv, JobInv, Lanes!Null
<1>7. PartsInv
  <2>1. \A j \in Lanes!Jobs : j[1] > 0
    BY DEF Lanes!Jobs
  <2>2. QED
    BY <2>1, <1>5 DEF PartsInv
<1>8. QED
    BY <1>4, <1>5, <1>6, <1>7 DEF LanesInv, ChildrenInv

-----------------------------------------------------------------------------
(* Steps that leave the tasks where they are.                              *)

LEMMA KeepsParts ==
    ASSUME LanesInv, UNCHANGED <<tasks, index, job, unresolvedChildren, current, partsRan, calls>>,
           Lanes!InCall' = Lanes!InCall,
           \A l \in Lanes!Lanes : /\ lanePc'[l] = "call" <=> lanePc[l] = "call"
                                  /\ lanePc'[l] = "resolve" <=> lanePc[l] = "resolve"
    PROVE  PlaceInv' /\ JobInv' /\ PartsInv' /\ ChildrenInv'
<1> USE DEF LanesInv
<1>1. PlaceInv' /\ JobInv'
    BY DEF PlaceInv, JobInv
<1>2. Uncalled' = Uncalled /\ Unsettled' = Unsettled
    BY DEF Uncalled, Unsettled, Idle
<1>3. PartsInv' /\ ChildrenInv'
    BY <1>2 DEF PartsInv, ChildrenInv
<1>4. QED
    BY <1>1, <1>3

\* A thread that finds nothing to take, a worker that starts, and Main's wait.
LEMMA LanesIdleInv ==
    ASSUME LanesInv, NEW l \in Lanes!Lanes,
           \/ Lanes!PopNothing(l) \/ \E victim \in Lanes!Lanes : Lanes!StealNothing(l, victim)
           \/ l \in Workers /\ (Lanes!WorkerStarts(l) \/ Lanes!WorkerChecks(l))
           \/ l = Owner /\ Lanes!WaitGoesOn
    PROVE  LanesInv'
<1> USE LaneFacts DEF Lanes!PopNothing, Lanes!StealNothing, Lanes!WorkerStarts, Lanes!WorkerChecks,
        Lanes!WaitGoesOn, Lanes!Goes, Lanes!Loop, Lanes!buffer, Lanes!ghosts
<1>1. UNCHANGED <<tasks, index, job, unresolvedChildren, current, partsRan, calls>>
    OBVIOUS
<1>2. PICK to \in LaneLabels \ {"call", "resolve", "push", "idle", "join"} :
            /\ lanePc' = [lanePc EXCEPT ![l] = to]
            /\ lanePc[l] \notin {"call", "resolve", "push", "idle", "join"}
            /\ l = Owner => {lanePc[l], to} \subseteq CallLabels
    BY DEF LaneLabels, CallLabels
<1>3. /\ lanePc'[l] = to /\ \A m \in Lanes!Lanes \ {l} : lanePc'[m] = lanePc[m]
      /\ lanePc' \in [Lanes!Lanes -> LaneLabels]
    BY <1>2 DEF LanesInv, LanesTypeOK
<1>4. LanesTypeOK'
    BY <1>1, <1>3 DEF LanesInv, LanesTypeOK
<1>5. IndexInv' /\ Lanes!InCall' = Lanes!InCall
    BY <1>1, <1>2, <1>3 DEF LanesInv, IndexInv, CallLabels, Lanes!InCall
<1>6. PlaceInv' /\ JobInv' /\ PartsInv' /\ ChildrenInv'
    BY <1>1, <1>2, <1>3, <1>5, KeepsParts
<1>7. QED
    BY <1>4, <1>5, <1>6 DEF LanesInv

\* Main starts, stops and joins the workers between its calls.
LEMMA LanesStartStopInv ==
    ASSUME LanesInv, Lanes!Run \/ Lanes!Stop \/ Lanes!Join PROVE LanesInv'
<1> USE LaneFacts
<1>1. UNCHANGED <<tasks, index, job, unresolvedChildren, current, partsRan, calls>>
    BY DEF Lanes!Run, Lanes!Stop, Lanes!Join, Lanes!buffer, Lanes!ghosts
<1>2. /\ lanePc[Owner] \in {"idle", "join"} /\ lanePc'[Owner] \in {"idle", "join"}
      /\ lanePc' \in [Lanes!Lanes -> LaneLabels]
      /\ \A w \in Workers : lanePc'[w] = lanePc[w] \/ lanePc'[w] \in {"created", "none"}
    BY DEF Lanes!Run, Lanes!Stop, Lanes!Join, Lanes!Goes, LanesInv, LanesTypeOK, LaneLabels
<1>3. ~Lanes!InCall /\ Lanes!InCall' = Lanes!InCall
    BY <1>2 DEF Lanes!InCall
<1>4. \A l \in Lanes!Lanes : lanePc[l] \notin {"call", "resolve"} /\ lanePc'[l] \notin {"call", "resolve"}
    BY <1>2, <1>3, Between DEF LanesInv, PlaceInv
<1>5. LanesTypeOK'
    BY <1>1, <1>2 DEF LanesInv, LanesTypeOK
<1>6. IndexInv'
  <2>1. index' = 0
    BY <1>1, <1>3, Between
  <2>2. QED
    BY <1>2, <2>1 DEF IndexInv, CallLabels
<1>7. PlaceInv' /\ JobInv' /\ PartsInv' /\ ChildrenInv'
    BY <1>1, <1>3, <1>4, KeepsParts
<1>8. QED
    BY <1>5, <1>6, <1>7 DEF LanesInv

-----------------------------------------------------------------------------
(* A task goes from Main's lane to a thread.                               *)

\* What becomes of the lane: it loses the task at place k and no other.
Loses(k) ==
    /\ tasks'[Owner] \in Seq(PartSlots)
    /\ \A i \in DOMAIN tasks'[Owner] :
          \E o \in DOMAIN tasks[Owner] : o # k /\ tasks'[Owner][i] = tasks[Owner][o]
    /\ \A o \in DOMAIN tasks[Owner] :
          o # k => \E i \in DOMAIN tasks'[Owner] : tasks'[Owner][i] = tasks[Owner][o]
    /\ \A i, j \in DOMAIN tasks'[Owner] : tasks'[Owner][i] = tasks'[Owner][j] => i = j

LEMMA PopLoses ==
    ASSUME LanesInv, tasks[Owner] # <<>>,
           tasks'[Owner] = SubSeq(tasks[Owner], 1, Len(tasks[Owner]) - 1)
    PROVE  Len(tasks[Owner]) \in DOMAIN tasks[Owner] /\ Loses(Len(tasks[Owner]))
<1> DEFINE q == tasks[Owner]
           n == Len(q)
<1>1. q \in Seq(PartSlots) /\ n \in Nat \ {0} /\ DOMAIN q = 1 .. n
    BY LaneFacts DEF LanesInv, LanesTypeOK
<1>2. \A i, j \in DOMAIN q : q[i] = q[j] => i = j
    BY DEF LanesInv, PlaceInv
<1>3. tasks'[Owner] = SubSeq(q, 1, n - 1)
    OBVIOUS
<1> HIDE DEF q, n
<1>4. /\ tasks'[Owner] \in Seq(PartSlots) /\ DOMAIN tasks'[Owner] = 1 .. n - 1
      /\ \A i \in 1 .. n - 1 : tasks'[Owner][i] = q[i]
    BY <1>1, <1>3
<1>5. \A i \in 1 .. n - 1 : i \in DOMAIN q /\ i # n
    BY <1>1
<1>6. \A o \in DOMAIN q : o # n => o \in 1 .. n - 1
    BY <1>1
<1>7. n \in DOMAIN q
    BY <1>1
<1>8. QED
    BY <1>2, <1>4, <1>5, <1>6, <1>7 DEF Loses, q, n

LEMMA StealLoses ==
    ASSUME LanesInv, tasks[Owner] # <<>>, tasks'[Owner] = Tail(tasks[Owner])
    PROVE  1 \in DOMAIN tasks[Owner] /\ Head(tasks[Owner]) = tasks[Owner][1] /\ Loses(1)
<1> DEFINE q == tasks[Owner]
           n == Len(q)
<1>1. q \in Seq(PartSlots) /\ n \in Nat \ {0} /\ DOMAIN q = 1 .. n /\ Head(q) = q[1]
    BY LaneFacts DEF LanesInv, LanesTypeOK
<1>2. \A i, j \in DOMAIN q : q[i] = q[j] => i = j
    BY DEF LanesInv, PlaceInv
<1>3. tasks'[Owner] = Tail(q)
    OBVIOUS
<1> HIDE DEF q, n
<1>4. /\ tasks'[Owner] \in Seq(PartSlots) /\ DOMAIN tasks'[Owner] = 1 .. n - 1
      /\ \A i \in 1 .. n - 1 : tasks'[Owner][i] = q[i + 1]
  <2>1. q # <<>> /\ Len(q) = n
    BY DEF q, n
  <2>2. Tail(q) \in Seq(PartSlots) /\ Len(Tail(q)) = n - 1
    BY <1>1, <2>1
  <2>3. \A i \in 1 .. n - 1 : Tail(q)[i] = q[i + 1]
    BY <1>1, <2>1
  <2>4. DOMAIN Tail(q) = 1 .. n - 1
    BY <2>2
  <2>5. QED
    BY <1>3, <2>2, <2>3, <2>4
<1>5. \A i \in 1 .. n - 1 : i + 1 \in DOMAIN q /\ i + 1 # 1
    BY <1>1
<1>6. \A o \in DOMAIN q : o # 1 => o - 1 \in 1 .. n - 1 /\ (o - 1) + 1 = o
    BY <1>1
<1>7. 1 \in DOMAIN q
    BY <1>1
<1>8. \A i, j \in 1 .. n - 1 : q[i + 1] = q[j + 1] => i = j
  <2>1. SUFFICES ASSUME NEW i \in 1 .. n - 1, NEW j \in 1 .. n - 1, q[i + 1] = q[j + 1] PROVE i = j
    OBVIOUS
  <2>2. i + 1 = j + 1
    BY <1>2, <1>5, <2>1
  <2>3. QED
    BY <1>1, <2>2
<1>9. Loses(1)
  <2>1. \A i \in DOMAIN tasks'[Owner] : \E o \in DOMAIN q : o # 1 /\ tasks'[Owner][i] = q[o]
    BY <1>4, <1>5
  <2>2. \A o \in DOMAIN q : o # 1 => \E i \in DOMAIN tasks'[Owner] : tasks'[Owner][i] = q[o]
    BY <1>4, <1>6
  <2>3. \A i, j \in DOMAIN tasks'[Owner] : tasks'[Owner][i] = tasks'[Owner][j] => i = j
    BY <1>4, <1>8
  <2>4. tasks'[Owner] \in Seq(PartSlots)
    BY <1>4
  <2> USE DEF q
  <2>5. QED
    BY <2>1, <2>2, <2>3, <2>4 DEF Loses
<1>10. QED
    BY <1>1, <1>7, <1>9 DEF q

\* A thread without a task takes the one at place k.
LEMMA TakesInv ==
    ASSUME LanesInv, NEW l \in Lanes!Lanes, NEW k \in DOMAIN tasks[Owner], Loses(k),
           lanePc[l] \in {"pop", "steal"}, lanePc' = [lanePc EXCEPT ![l] = "call"],
           current' = [current EXCEPT ![l] = tasks[Owner][k]],
           \A m \in Workers : tasks'[m] = tasks[m], tasks' \in [Lanes!Lanes -> Seq(PartSlots)],
           UNCHANGED <<index, job, unresolvedChildren, partsRan, calls>>
    PROVE  LanesInv'
<1> USE LaneFacts
<1> DEFINE s == tasks[Owner][k]
<1>1. s \in PartSlots /\ s \in 2 .. index
  <2>1. tasks[Owner] \in Seq(PartSlots) /\ index \in Int
    BY DEF LanesInv, LanesTypeOK
  <2>2. s \in PartSlots
    BY <2>1
  <2>3. s <= index
    BY DEF LanesInv, PlaceInv
  <2>4. QED
    BY <2>1, <2>2, <2>3 DEF PartSlots
<1>2. /\ current'[l] = s /\ lanePc'[l] = "call" /\ current[l] = 0
      /\ \A m \in Lanes!Lanes \ {l} : current'[m] = current[m] /\ lanePc'[m] = lanePc[m]
      /\ \A m \in Lanes!Lanes : current[m] # s
    BY DEF LanesInv, LanesTypeOK, PlaceInv
<1>3. LanesTypeOK'
  <2>1. tasks' \in [Lanes!Lanes -> Seq(PartSlots)]
    OBVIOUS
  <2>2. lanePc' \in [Lanes!Lanes -> LaneLabels]
    BY DEF LanesInv, LanesTypeOK, LaneLabels
  <2>3. s \in 0 .. JobDiv + 1
    BY <1>1 DEF PartSlots
  <2> HIDE DEF s
  <2>4. current' \in [Lanes!Lanes -> 0 .. JobDiv + 1]
    BY <2>3 DEF LanesInv, LanesTypeOK, s
  <2>5. QED
    BY <2>1, <2>2, <2>4 DEF LanesInv, LanesTypeOK
<1>4. IndexInv' /\ Lanes!InCall' = Lanes!InCall
    BY <1>2 DEF LanesInv, IndexInv, CallLabels, Lanes!InCall
<1>5. PlaceInv'
  <2>1. \A m \in Workers : tasks'[m] = <<>>
    BY DEF LanesInv, LanesTypeOK, PlaceInv
  <2>2. \A i \in DOMAIN tasks'[Owner] : tasks'[Owner][i] <= index /\ tasks'[Owner][i] # s
    BY DEF LanesInv, PlaceInv, Loses
  <2>3. \A m \in Lanes!Lanes :
            IF lanePc'[m] \in {"call", "resolve"} THEN current'[m] \in 2 .. index ELSE current'[m] = 0
    BY <1>1, <1>2 DEF LanesInv, PlaceInv
  <2>4. \A m, r \in Lanes!Lanes : current'[m] # 0 /\ current'[r] = current'[m] => m = r
    BY <1>2 DEF LanesInv, PlaceInv
  <2>5. \A m \in Lanes!Lanes, i \in DOMAIN tasks'[Owner] : tasks'[Owner][i] # current'[m]
    BY <1>2, <2>2 DEF LanesInv, PlaceInv, Loses
  <2>6. \A i, j \in DOMAIN tasks'[Owner] : tasks'[Owner][i] = tasks'[Owner][j] => i = j
    BY DEF Loses
  <2>7. QED
    BY <2>1, <2>2, <2>3, <2>4, <2>5, <2>6 DEF PlaceInv
<1>6. JobInv'
    BY DEF LanesInv, JobInv
<1> HIDE DEF s
<1>7. \A r \in PartSlots : (\E i \in DOMAIN tasks[Owner] : tasks[Owner][i] = r)
            <=> r = s \/ \E i \in DOMAIN tasks'[Owner] : tasks'[Owner][i] = r
    BY DEF Loses, s
<1>8. Uncalled' = Uncalled /\ Unsettled' = Unsettled
  <2>1. \A r \in PartSlots : (\E m \in Lanes!Lanes : current'[m] = r)
            <=> r = s \/ \E m \in Lanes!Lanes : current[m] = r
    BY <1>2 DEF PartSlots
  <2>2. \A r \in PartSlots : (\E m \in Lanes!Lanes : current'[m] = r /\ lanePc'[m] = "call")
            <=> r = s \/ \E m \in Lanes!Lanes : current[m] = r /\ lanePc[m] = "call"
    BY <1>2 DEF PartSlots
  <2>3. QED
    BY <1>7, <2>1, <2>2 DEF Uncalled, Unsettled, Idle
<1>9. PartsInv' /\ ChildrenInv'
    BY <1>4, <1>8 DEF LanesInv, PartsInv, ChildrenInv
<1>10. QED
    BY <1>3, <1>4, <1>5, <1>6, <1>9 DEF LanesInv

LEMMA PopStealInv ==
    ASSUME LanesInv, NEW l \in Lanes!Lanes,
           Lanes!Pop(l) \/ \E victim \in Lanes!Lanes : Lanes!Steal(l, victim)
    PROVE  LanesInv'
<1> USE LaneFacts DEF Lanes!Pop, Lanes!Steal, Lanes!Goes, Lanes!buffer, Lanes!ghosts
<1>1. CASE Lanes!Pop(l)
  <2>1. l = Owner
    BY <1>1 DEF LanesInv, PlaceInv
  <2>2. tasks'[Owner] = SubSeq(tasks[Owner], 1, Len(tasks[Owner]) - 1)
    BY <1>1, <2>1 DEF LanesInv, LanesTypeOK
  <2>3. Len(tasks[Owner]) \in DOMAIN tasks[Owner] /\ Loses(Len(tasks[Owner]))
    BY <1>1, <2>1, <2>2, PopLoses
  <2>4. tasks' \in [Lanes!Lanes -> Seq(PartSlots)] /\ \A m \in Workers : tasks'[m] = tasks[m]
    <3>1. tasks \in [Lanes!Lanes -> Seq(PartSlots)]
        BY DEF LanesInv, LanesTypeOK
    <3>2. tasks' = [tasks EXCEPT ![Owner] = tasks'[Owner]]
        BY <1>1, <2>1, <3>1
    <3>3. tasks'[Owner] \in Seq(PartSlots)
        BY <2>3 DEF Loses
    <3>4. QED
        BY <3>1, <3>2, <3>3
  <2>5. QED
    BY <1>1, <2>1, <2>3, <2>4, TakesInv
<1>2. ASSUME NEW victim \in Lanes!Lanes, Lanes!Steal(l, victim) PROVE LanesInv'
  <2>1. victim = Owner
    BY <1>2 DEF LanesInv, PlaceInv
  <2>2. tasks'[Owner] = Tail(tasks[Owner])
    BY <1>2, <2>1 DEF LanesInv, LanesTypeOK
  <2>3. 1 \in DOMAIN tasks[Owner] /\ Head(tasks[Owner]) = tasks[Owner][1] /\ Loses(1)
    BY <1>2, <2>1, <2>2, StealLoses
  <2>4. tasks' \in [Lanes!Lanes -> Seq(PartSlots)] /\ \A m \in Workers : tasks'[m] = tasks[m]
    BY <1>2, <2>1, <2>2, <2>3 DEF LanesInv, LanesTypeOK, Loses
  <2>5. QED
    BY <1>2, <2>1, <2>3, <2>4, TakesInv
<1>3. QED
    BY <1>1, <1>2

-----------------------------------------------------------------------------
(* A task is called, and its parent told.                                  *)

LEMMA CallInv == ASSUME LanesInv, NEW l \in Lanes!Lanes, Lanes!Call(l) PROVE LanesInv'
<1> USE LaneFacts
<1> DEFINE s == current[l]
           j == <<calls, s - 1>>
<1>1. /\ lanePc[l] = "call" /\ lanePc' = [lanePc EXCEPT ![l] = "resolve"]
      /\ partsRan' = [partsRan EXCEPT ![job[s]] = partsRan[job[s]] + 1]
      /\ UNCHANGED <<tasks, index, job, unresolvedChildren, current, calls>>
    BY DEF Lanes!Call, Lanes!Goes, Lanes!buffer
<1>2. s \in 2 .. index /\ s \in PartSlots /\ job[s] = j
  <2>1. s \in 2 .. index /\ index \in 0 .. JobDiv + 1
    BY <1>1 DEF LanesInv, LanesTypeOK, PlaceInv
  <2>2. QED
    BY <2>1 DEF LanesInv, JobInv, PartSlots
<1>3. Lanes!InCall /\ calls > 0
  <2>1. index # 0
    BY <1>2 DEF LanesInv, LanesTypeOK
  <2>2. lanePc[Owner] \in CallLabels
    BY <2>1 DEF LanesInv, IndexInv
  <2>3. QED
    BY <2>2 DEF LanesInv, IndexInv, CallLabels, Lanes!InCall
<1>4. j \in Lanes!Jobs /\ j[1] = calls /\ j[2] + 1 = s
  <2>1. calls \in 1 .. MaxRuns
    BY <1>3 DEF LanesInv, LanesTypeOK
  <2>2. s - 1 \in 1 .. JobDiv /\ (s - 1) + 1 = s
    BY <1>2 DEF PartSlots
  <2>3. QED
    BY <2>1, <2>2 DEF Lanes!Jobs
<1>5. /\ lanePc'[l] = "resolve"
      /\ \A m \in Lanes!Lanes \ {l} : lanePc'[m] = lanePc[m] /\ current[m] # s
      /\ \A i \in DOMAIN tasks[Owner] : tasks[Owner][i] # s
  <2>1. s # 0
    BY <1>2
  <2>2. QED
    BY <1>1, <2>1 DEF LanesInv, LanesTypeOK, PlaceInv
<1>6. s \in Uncalled /\ partsRan[j] = 0
  <2>1. s \in Uncalled
    BY <1>1, <1>2 DEF Uncalled
  <2>2. QED
    BY <1>3, <1>4, <2>1 DEF LanesInv, PartsInv
<1> HIDE DEF s, j
<1>7. partsRan' = [partsRan EXCEPT ![j] = 1]
    BY <1>1, <1>2, <1>6
<1>8. LanesTypeOK'
  <2>1. partsRan' \in [Lanes!Jobs -> Nat]
    BY <1>7 DEF LanesInv, LanesTypeOK
  <2>2. lanePc' \in [Lanes!Lanes -> LaneLabels]
    BY <1>1 DEF LanesInv, LanesTypeOK, LaneLabels
  <2>3. QED
    BY <1>1, <2>1, <2>2 DEF LanesInv, LanesTypeOK
<1>9. IndexInv' /\ Lanes!InCall'
    BY <1>1, <1>3, <1>5 DEF LanesInv, IndexInv, CallLabels, Lanes!InCall
<1>10. PlaceInv'
    BY <1>1, <1>5 DEF LanesInv, PlaceInv
<1>11. JobInv'
    BY <1>1 DEF LanesInv, JobInv
<1>12. Unsettled' = Unsettled /\ Uncalled' = Uncalled \ {s}
  <2>1. Idle' = Idle /\ s \notin Idle
    BY <1>1, <1>2, <1>5 DEF Idle, LanesInv, LanesTypeOK, PartSlots
  <2>2. \A r \in PartSlots : (\E m \in Lanes!Lanes : current[m] = r /\ lanePc'[m] = "call")
            <=> r # s /\ \E m \in Lanes!Lanes : current[m] = r /\ lanePc[m] = "call"
    BY <1>1, <1>5 DEF s
  <2>3. QED
    BY <1>1, <2>1, <2>2 DEF Uncalled, Unsettled
<1>13. PartsInv'
  <2>1. SUFFICES ASSUME NEW i \in Lanes!Jobs
                 PROVE  partsRan'[i] = IF i[1] > calls \/ (i[1] = calls /\ i[2] + 1 \in Uncalled')
                                       THEN 0 ELSE 1
    BY <1>1, <1>9 DEF PartsInv
  <2>2. i = j <=> i[1] = calls /\ i[2] + 1 = s
    BY <1>4 DEF Lanes!Jobs, j
  <2>3. partsRan'[i] = IF i = j THEN 1 ELSE partsRan[i]
    BY <1>4, <1>7 DEF LanesInv, LanesTypeOK
  <2>4. partsRan[i] = IF i[1] > calls \/ (i[1] = calls /\ i[2] + 1 \in Uncalled) THEN 0 ELSE 1
    BY <1>3 DEF LanesInv, PartsInv
  <2>5. calls \in Int /\ i[1] \in Int
    BY DEF LanesInv, LanesTypeOK, Lanes!Jobs
  <2>6. QED
    BY <2>2, <2>3, <2>4, <2>5, <1>12
<1>14. ChildrenInv'
    BY <1>1, <1>3, <1>12 DEF LanesInv, ChildrenInv
<1>15. QED
    BY <1>8, <1>9, <1>10, <1>11, <1>13, <1>14 DEF LanesInv

LEMMA LaneResolveInv == ASSUME LanesInv, NEW l \in Lanes!Lanes, Lanes!Resolve(l) PROVE LanesInv'
<1> USE LaneFacts
<1> DEFINE s == current[l]
<1>1. PICK to \in {"wait", "check"} :
        /\ to = "wait" <=> l = Owner
        /\ lanePc[l] = "resolve" /\ lanePc' = [lanePc EXCEPT ![l] = to]
    BY DEF Lanes!Resolve, Lanes!Goes, Lanes!Loop
<1>2. /\ unresolvedChildren' = [unresolvedChildren EXCEPT ![1] = unresolvedChildren[1] - 1]
      /\ current' = [current EXCEPT ![l] = 0]
      /\ UNCHANGED <<tasks, index, job, partsRan, calls>>
    BY DEF Lanes!Resolve, Lanes!Parent, Lanes!Null, Lanes!ghosts
<1>3. s \in 2 .. index /\ s \in PartSlots
  <2>1. s \in 2 .. index /\ index \in 0 .. JobDiv + 1
    BY <1>1 DEF LanesInv, LanesTypeOK, PlaceInv
  <2>2. QED
    BY <2>1 DEF PartSlots
<1>4. /\ lanePc'[l] = to /\ current'[l] = 0
      /\ \A m \in Lanes!Lanes \ {l} : lanePc'[m] = lanePc[m] /\ current'[m] = current[m] /\ current[m] # s
      /\ \A i \in DOMAIN tasks[Owner] : tasks[Owner][i] # s
  <2>1. s # 0
    BY <1>3
  <2>2. QED
    BY <1>1, <1>2, <2>1 DEF LanesInv, LanesTypeOK, PlaceInv
<1> HIDE DEF s
<1>5. Lanes!InCall /\ IndexInv' /\ Lanes!InCall'
    BY <1>1, <1>2, <1>3, <1>4 DEF LanesInv, IndexInv, CallLabels, Lanes!InCall
<1>6. LanesTypeOK'
  <2>1. /\ unresolvedChildren \in [Lanes!Slots -> Int]
        /\ lanePc \in [Lanes!Lanes -> LaneLabels]
        /\ current \in [Lanes!Lanes -> 0 .. JobDiv + 1]
    BY DEF LanesInv, LanesTypeOK
  <2>2. unresolvedChildren' \in [Lanes!Slots -> Int]
    BY <1>2, <2>1
  <2>3. to \in LaneLabels /\ 0 \in 0 .. JobDiv + 1
    BY DEF LaneLabels
  <2>4. lanePc' \in [Lanes!Lanes -> LaneLabels]
    BY <1>1, <2>1, <2>3
  <2>5. current' \in [Lanes!Lanes -> 0 .. JobDiv + 1]
    BY <1>2, <2>1, <2>3
  <2>6. QED
    BY <1>2, <2>2, <2>4, <2>5 DEF LanesInv, LanesTypeOK
<1>7. PlaceInv'
  <2>1. \A i \in DOMAIN tasks[Owner] : tasks[Owner][i] # 0
    <3>1. SUFFICES ASSUME NEW i \in DOMAIN tasks[Owner] PROVE tasks[Owner][i] \in PartSlots
        BY DEF PartSlots
    <3>2. QED
        BY DEF LanesInv, LanesTypeOK
  <2>2. QED
    BY <1>1, <1>2, <1>4, <2>1 DEF LanesInv, PlaceInv
<1>8. JobInv'
    BY <1>2 DEF LanesInv, JobInv
<1>9. Uncalled' = Uncalled /\ Unsettled' = Unsettled \ {s} /\ s \in Unsettled
  <2>1. Idle' = Idle /\ s \notin Idle
    BY <1>2, <1>3, <1>4 DEF Idle, LanesInv, LanesTypeOK, PartSlots
  <2>2. \A r \in PartSlots : (\E m \in Lanes!Lanes : current'[m] = r /\ lanePc'[m] = "call")
            <=> \E m \in Lanes!Lanes : current[m] = r /\ lanePc[m] = "call"
    BY <1>1, <1>4
  <2>3. \A r \in PartSlots : (\E m \in Lanes!Lanes : current'[m] = r)
            <=> r # s /\ \E m \in Lanes!Lanes : current[m] = r
    BY <1>4 DEF s, PartSlots
  <2>4. s \in Unsettled
    BY <1>3 DEF Unsettled, s
  <2>5. QED
    BY <2>1, <2>2, <2>3, <2>4 DEF Uncalled, Unsettled
<1>10. PartsInv'
    BY <1>2, <1>5, <1>9 DEF LanesInv, PartsInv
<1>11. ChildrenInv'
  <2>1. Cardinality(Unsettled \ {s}) = Cardinality(Unsettled) - 1
    BY <1>9, UnsettledFinite, FS_RemoveElement
  <2>2. unresolvedChildren'[1] = unresolvedChildren[1] - 1
    BY <1>2 DEF LanesInv, LanesTypeOK
  <2>3. QED
    BY <2>1, <2>2, <1>5, <1>9 DEF LanesInv, ChildrenInv
<1>12. QED
    BY <1>5, <1>6, <1>7, <1>8, <1>10, <1>11 DEF LanesInv

-----------------------------------------------------------------------------
(* Main begins a call, pushes its tasks and ends it.                       *)

LEMMA RunParallelInv == ASSUME LanesInv, Lanes!RunParallel PROVE LanesInv'
<1> USE LaneFacts
<1>1. lanePc[Owner] = "idle" /\ lanePc' = [lanePc EXCEPT ![Owner] = "push"] /\ calls < MaxRuns
    BY DEF Lanes!RunParallel, Lanes!Goes
<1>2. ~Lanes!InCall
    BY <1>1 DEF Lanes!InCall
<1>3. index = 0 /\ \A l \in Lanes!Lanes : tasks[l] = <<>> /\ current[l] = 0
    BY <1>2, Between
<1>4. /\ calls' = calls + 1 /\ index' = 1
      /\ unresolvedChildren' = [unresolvedChildren EXCEPT ![1] = JobDiv]
      /\ UNCHANGED <<tasks, job, current, partsRan>>
    BY <1>3 DEF Lanes!RunParallel
<1>5. /\ lanePc'[Owner] = "push"
      /\ \A l \in Workers : lanePc'[l] = lanePc[l] /\ lanePc[l] \notin {"call", "resolve"}
  <2>1. \A l \in Workers : lanePc[l] \notin {"call", "resolve"}
    BY <1>3 DEF LanesInv, PlaceInv
  <2>2. QED
    BY <1>1, <2>1 DEF LanesInv, LanesTypeOK
<1>6. calls' \in 1 .. MaxRuns /\ calls \in Nat
    BY <1>1, <1>4 DEF LanesInv, LanesTypeOK
<1>7. LanesTypeOK'
  <2>1. unresolvedChildren' \in [Lanes!Slots -> Int]
    BY <1>4 DEF LanesInv, LanesTypeOK
  <2>2. lanePc' \in [Lanes!Lanes -> LaneLabels]
    BY <1>1 DEF LanesInv, LanesTypeOK, LaneLabels
  <2>3. index' \in 0 .. JobDiv + 1 /\ calls' \in 0 .. MaxRuns
    BY <1>4, <1>6
  <2>4. QED
    BY <1>4, <2>1, <2>2, <2>3 DEF LanesInv, LanesTypeOK
<1>8. IndexInv' /\ Lanes!InCall'
    BY <1>4, <1>5, <1>6 DEF IndexInv, CallLabels, Lanes!InCall
<1>9. PlaceInv'
    BY <1>3, <1>4, <1>5 DEF PlaceInv
<1>10. JobInv'
    BY <1>4 DEF JobInv
<1>11. Uncalled' = PartSlots /\ Unsettled' = PartSlots
  <2>1. Idle' = PartSlots
    BY <1>4 DEF Idle, PartSlots
  <2>2. QED
    BY <2>1 DEF Uncalled, Unsettled
<1>12. PartsInv'
  <2>1. SUFFICES ASSUME NEW j \in Lanes!Jobs PROVE partsRan[j] = IF j[1] > calls + 1 \/ j[1] = calls + 1 THEN 0 ELSE 1
    <3>1. \A j \in Lanes!Jobs : j[2] + 1 \in PartSlots
        BY DEF Lanes!Jobs, PartSlots
    <3>2. QED
        BY <3>1, <1>4, <1>8, <1>11 DEF PartsInv
  <2>2. j[1] \in Int
    BY DEF Lanes!Jobs
  <2>3. partsRan[j] = IF j[1] > calls THEN 0 ELSE 1
    BY <1>2 DEF LanesInv, PartsInv
  <2>4. QED
    BY <2>2, <2>3, <1>6
<1>13. ChildrenInv'
  <2>1. Cardinality(PartSlots) = JobDiv
    BY FS_Interval DEF PartSlots
  <2>2. unresolvedChildren'[1] = JobDiv
    BY <1>4 DEF LanesInv, LanesTypeOK
  <2>3. QED
    BY <2>1, <2>2, <1>11 DEF ChildrenInv
<1>14. QED
    BY <1>7, <1>8, <1>9, <1>10, <1>12, <1>13 DEF LanesInv

LEMMA PushPartInv == ASSUME LanesInv, Lanes!PushPart PROVE LanesInv'
<1> USE LaneFacts
<1> DEFINE q == tasks[Owner]
           s == index + 1
<1>1. /\ lanePc[Owner] = "push"
      /\ lanePc' = [lanePc EXCEPT ![Owner] = IF index = JobDiv THEN "wait" ELSE "push"]
      /\ index' = s /\ job' = [job EXCEPT ![s] = <<calls, index>>]
      /\ tasks' = [tasks EXCEPT ![Owner] = Append(q, s)]
      /\ UNCHANGED <<unresolvedChildren, current, partsRan, calls>>
    BY DEF Lanes!PushPart, Lanes!Goes, Lanes!ghosts
<1>2. index \in 1 .. JobDiv /\ Lanes!InCall /\ Lanes!InCall' /\ calls > 0
  <2>1. index \in 1 .. JobDiv /\ calls > 0
    BY <1>1 DEF LanesInv, IndexInv, CallLabels
  <2>2. lanePc'[Owner] \in {"push", "wait"}
    BY <1>1 DEF LanesInv, LanesTypeOK
  <2>3. QED
    BY <1>1, <2>1, <2>2 DEF Lanes!InCall
<1>3. s \in PartSlots /\ s \in Lanes!Slots /\ s \in 0 .. JobDiv + 1
    BY <1>2 DEF PartSlots
<1>4. q \in Seq(PartSlots) /\ Len(q) \in Nat /\ DOMAIN q = 1 .. Len(q)
    BY DEF LanesInv, LanesTypeOK
<1>5. /\ tasks'[Owner] = Append(q, s) /\ \A l \in Workers : tasks'[l] = tasks[l]
      /\ tasks' \in [Lanes!Lanes -> Seq(PartSlots)]
  <2> HIDE DEF q, s
  <2>1. Append(q, s) \in Seq(PartSlots)
    BY <1>3, <1>4
  <2>2. tasks \in [Lanes!Lanes -> Seq(PartSlots)]
    BY DEF LanesInv, LanesTypeOK
  <2>3. /\ tasks'[Owner] = Append(q, s) /\ \A l \in Workers : tasks'[l] = tasks[l]
        /\ tasks' \in [Lanes!Lanes -> Seq(PartSlots)]
    BY <1>1, <2>1, <2>2
  <2>4. QED
    BY <2>3
<1> HIDE DEF q, s
<1>6. /\ DOMAIN tasks'[Owner] = 1 .. Len(q) + 1
      /\ \A i \in 1 .. Len(q) : tasks'[Owner][i] = q[i]
      /\ tasks'[Owner][Len(q) + 1] = s
    BY <1>3, <1>4, <1>5
<1>7. \A i \in DOMAIN tasks'[Owner] :
        (i \in DOMAIN q /\ tasks'[Owner][i] = q[i]) \/ (i = Len(q) + 1 /\ tasks'[Owner][i] = s)
    BY <1>4, <1>6
<1>8. DOMAIN q \subseteq DOMAIN tasks'[Owner] /\ Len(q) + 1 \in DOMAIN tasks'[Owner]
    BY <1>4, <1>6
<1>9. /\ \A i \in DOMAIN q : q[i] <= index /\ q[i] \in PartSlots /\ q[i] # s
      /\ \A l \in Lanes!Lanes : current[l] # s
  <2>1. \A i \in DOMAIN q : q[i] <= index /\ q[i] \in PartSlots
    BY <1>4 DEF LanesInv, PlaceInv, q
  <2>2. \A l \in Lanes!Lanes : current[l] = 0 \/ current[l] \in 2 .. index
    BY DEF LanesInv, PlaceInv
  <2>3. QED
    BY <2>1, <2>2, <1>2 DEF s, PartSlots
<1>10. LanesTypeOK'
  <2>1. job' \in [Lanes!Slots -> Nat \X Nat]
    <3>1. calls \in Nat /\ index \in Nat /\ job \in [Lanes!Slots -> Nat \X Nat]
        BY DEF LanesInv, LanesTypeOK
    <3>2. <<calls, index>> \in Nat \X Nat
        BY <3>1
    <3>3. QED
        BY <1>1, <1>3, <3>1, <3>2
  <2>2. lanePc' \in [Lanes!Lanes -> LaneLabels]
    BY <1>1 DEF LanesInv, LanesTypeOK, LaneLabels
  <2>3. QED
    BY <1>1, <1>3, <1>5, <2>1, <2>2 DEF LanesInv, LanesTypeOK
<1>11. /\ lanePc'[Owner] = (IF index = JobDiv THEN "wait" ELSE "push")
       /\ \A l \in Workers : lanePc'[l] = lanePc[l]
    BY <1>1 DEF LanesInv, LanesTypeOK
<1>12. IndexInv'
  <2>1. index = JobDiv => index' = JobDiv + 1
    BY <1>1 DEF s
  <2>2. index # JobDiv => index' \in 1 .. JobDiv
    BY <1>1, <1>2 DEF s
  <2>3. QED
    BY <2>1, <2>2, <1>1, <1>2, <1>11 DEF IndexInv, CallLabels
<1>13. PlaceInv'
  <2>1. \A l \in Workers : tasks'[l] = <<>>
    BY <1>5 DEF LanesInv, PlaceInv
  <2>2. \A i \in DOMAIN tasks'[Owner] : tasks'[Owner][i] <= index'
    BY <1>1, <1>2, <1>7, <1>9 DEF s, PartSlots
  <2>3. ASSUME NEW i \in DOMAIN tasks'[Owner], NEW j \in DOMAIN tasks'[Owner],
               tasks'[Owner][i] = tasks'[Owner][j]
        PROVE  i = j
    BY <2>3, <1>7, <1>9 DEF LanesInv, PlaceInv, q
  <2>4. \A l \in Lanes!Lanes : lanePc'[l] \in {"call", "resolve"} <=> lanePc[l] \in {"call", "resolve"}
    BY <1>1, <1>11
  <2>5. ASSUME NEW l \in Lanes!Lanes
        PROVE  IF lanePc'[l] \in {"call", "resolve"} THEN current'[l] \in 2 .. index' ELSE current'[l] = 0
    <3>1. 2 .. index \subseteq 2 .. index'
        BY <1>1, <1>2 DEF s
    <3>2. QED
        BY <1>1, <2>4, <3>1 DEF LanesInv, PlaceInv
  <2>6. \A l \in Lanes!Lanes, i \in DOMAIN tasks'[Owner] : tasks'[Owner][i] # current'[l]
    BY <1>1, <1>7, <1>9 DEF LanesInv, PlaceInv, q
  <2>7. \A l, m \in Lanes!Lanes : current'[l] # 0 /\ current'[m] = current'[l] => l = m
    BY <1>1 DEF LanesInv, PlaceInv
  <2>8. QED
    BY <2>1, <2>2, <2>3, <2>5, <2>6, <2>7 DEF PlaceInv
<1>14. JobInv'
  <2>1. SUFFICES ASSUME NEW r \in 2 .. s PROVE job'[r] = <<calls, r - 1>>
    BY <1>1 DEF JobInv
  <2>2. CASE r = s
    BY <2>2, <1>1, <1>2, <1>3 DEF LanesInv, LanesTypeOK, s
  <2>3. CASE r # s
    <3>1. r \in 2 .. index
        BY <2>3, <1>2 DEF s
    <3>2. QED
        BY <2>3, <3>1, <1>1 DEF LanesInv, LanesTypeOK, JobInv
  <2>4. QED
    BY <2>2, <2>3
<1>15. Uncalled' = Uncalled /\ Unsettled' = Unsettled
  <2>1. Idle' = Idle
    <3>1. ASSUME NEW r \in PartSlots
          PROVE  (r > s \/ \E i \in DOMAIN tasks'[Owner] : tasks'[Owner][i] = r)
                    <=> (r > index \/ \E i \in DOMAIN q : q[i] = r)
      <4>1. (\E i \in DOMAIN tasks'[Owner] : tasks'[Owner][i] = r)
                <=> r = s \/ \E i \in DOMAIN q : q[i] = r
        BY <1>4, <1>6, <1>7, <1>8
      <4>2. r > index <=> r > s \/ r = s
        BY <1>2 DEF PartSlots, s
      <4>3. QED
        BY <4>1, <4>2
    <3>2. QED
        BY <3>1, <1>1 DEF Idle, q
  <2>2. \A l \in Lanes!Lanes : lanePc'[l] = "call" <=> lanePc[l] = "call"
    BY <1>1, <1>11
  <2>3. QED
    BY <2>1, <2>2, <1>1 DEF Uncalled, Unsettled
<1>16. PartsInv' /\ ChildrenInv'
    BY <1>1, <1>2, <1>15 DEF LanesInv, PartsInv, ChildrenInv
<1>17. QED
    BY <1>10, <1>12, <1>13, <1>14, <1>16 DEF LanesInv

\* When the parent has no unresolved child, every task has been settled.
LEMMA AllSettled ==
    ASSUME LanesInv, lanePc[Owner] = "wait", unresolvedChildren[1] = 0
    PROVE  /\ Unsettled = {} /\ Uncalled = {}
           /\ \A l \in Lanes!Lanes : tasks[l] = <<>> /\ current[l] = 0
<1> USE LaneFacts
<1>1. Unsettled = {}
    BY UnsettledFinite DEF LanesInv, ChildrenInv, Lanes!InCall
<1>2. Uncalled = {}
    BY <1>1 DEF Uncalled, Unsettled
<1>3. index = JobDiv + 1
    BY DEF LanesInv, IndexInv, CallLabels
<1>4. \A l \in Lanes!Lanes : current[l] = 0
    BY <1>1, <1>3 DEF Unsettled, PartSlots, LanesInv, PlaceInv
<1>5. tasks[Owner] \in Seq(PartSlots) /\ Len(tasks[Owner]) \in Nat
    BY DEF LanesInv, LanesTypeOK
<1>6. 1 \notin 1 .. Len(tasks[Owner])
  <2>1. SUFFICES ASSUME 1 \in DOMAIN tasks[Owner] PROVE FALSE
    BY <1>5
  <2>2. tasks[Owner][1] \in Unsettled
    BY <1>5, <2>1 DEF Unsettled, Idle
  <2>3. QED
    BY <1>1, <2>2
<1>7. Len(tasks[Owner]) = 0
    BY <1>5, <1>6
<1>8. tasks[Owner] = <<>>
    BY <1>5, <1>7
<1>9. QED
    BY <1>1, <1>2, <1>4, <1>8 DEF LanesInv, PlaceInv

LEMMA WaitEndsInv == ASSUME LanesInv, Lanes!WaitEnds PROVE LanesInv'
<1> USE LaneFacts
<1>1. /\ lanePc[Owner] = "wait" /\ lanePc' = [lanePc EXCEPT ![Owner] = "idle"]
      /\ unresolvedChildren[1] = 0 /\ index' = 0
      /\ UNCHANGED <<tasks, job, unresolvedChildren, current, partsRan, calls>>
    BY DEF Lanes!WaitEnds, Lanes!Goes, Lanes!Parent, Lanes!ghosts
<1>2. Uncalled = {} /\ \A l \in Lanes!Lanes : tasks[l] = <<>> /\ current[l] = 0
    BY <1>1, AllSettled
<1>3. lanePc'[Owner] = "idle" /\ \A l \in Workers : lanePc'[l] = lanePc[l]
    BY <1>1 DEF LanesInv, LanesTypeOK
<1>4. Lanes!InCall /\ ~Lanes!InCall'
    BY <1>1, <1>3 DEF Lanes!InCall
<1>5. LanesTypeOK'
  <2>1. lanePc' \in [Lanes!Lanes -> LaneLabels] /\ index' \in 0 .. JobDiv + 1
    BY <1>1 DEF LanesInv, LanesTypeOK, LaneLabels
  <2>2. QED
    BY <1>1, <2>1 DEF LanesInv, LanesTypeOK
<1>6. IndexInv'
    BY <1>1, <1>3 DEF IndexInv, CallLabels
<1>7. PlaceInv'
  <2>1. \A l \in Lanes!Lanes : lanePc'[l] \notin {"call", "resolve"}
    BY <1>2, <1>3 DEF LanesInv, PlaceInv
  <2>2. QED
    BY <1>1, <1>2, <2>1 DEF PlaceInv
<1>8. JobInv'
    BY <1>1 DEF JobInv
<1>9. PartsInv'
    BY <1>1, <1>2, <1>4 DEF LanesInv, PartsInv
<1>10. QED
    BY <1>4, <1>5, <1>6, <1>7, <1>8, <1>9 DEF LanesInv, ChildrenInv

-----------------------------------------------------------------------------
LEMMA LanesNextInv == ASSUME LanesInv, [Lanes!Next]_(Lanes!lanesVars) PROVE LanesInv'
<1> USE LaneFacts
<1>1. ASSUME NEW l \in Lanes!Lanes, Lanes!RunLane(l) PROVE LanesInv'
    BY <1>1, LanesIdleInv, PopStealInv, CallInv, LaneResolveInv DEF Lanes!RunLane
<1>2. ASSUME NEW w \in Workers, Lanes!WorkerStep(w) PROVE LanesInv'
    BY <1>1, <1>2, LanesIdleInv DEF Lanes!WorkerStep
<1>3. CASE Lanes!MainStep
  <2>1. CASE Lanes!WaitGoesOn
    BY <2>1, LanesIdleInv
  <2>2. QED
    BY <1>1, <1>3, <2>1, PushPartInv, WaitEndsInv, LanesStartStopInv DEF Lanes!MainStep
<1>4. CASE Lanes!Run \/ Lanes!Stop \/ Lanes!RunParallel
    BY <1>4, LanesStartStopInv, RunParallelInv
<1>5. CASE UNCHANGED Lanes!lanesVars
  <2>1. /\ UNCHANGED <<tasks, index, job, unresolvedChildren, current, partsRan, calls, lanePc>>
        /\ Lanes!InCall' = Lanes!InCall
    BY <1>5 DEF Lanes!lanesVars, Lanes!buffer, Lanes!ghosts, Lanes!InCall
  <2>2. PlaceInv' /\ JobInv' /\ PartsInv' /\ ChildrenInv'
    BY <2>1, KeepsParts
  <2>3. LanesTypeOK' /\ IndexInv'
    BY <2>1 DEF LanesInv, LanesTypeOK, IndexInv
  <2>4. QED
    BY <2>2, <2>3 DEF LanesInv
<1>6. QED
    BY <1>2, <1>3, <1>4, <1>5 DEF Lanes!Next

LEMMA LanesInvHolds == Lanes!Spec => []LanesInv
    BY LanesInitInv, LanesNextInv, PTL DEF Lanes!Spec

LEMMA LanesInvParts == LanesInv => PartsRunOnce
<1> SUFFICES ASSUME LanesInv, NEW j \in Lanes!Jobs
             PROVE  partsRan[j] <= 1 /\ (~Lanes!InCall /\ j[1] <= calls => partsRan[j] = 1)
    BY DEF PartsRunOnce, Lanes!PartsRunOnce
<1>1. j[1] \in Int /\ calls \in Int
    BY DEF LanesInv, LanesTypeOK, Lanes!Jobs
<1>2. partsRan[j] \in {0, 1} /\ (~Lanes!InCall /\ ~(j[1] > calls) => partsRan[j] = 1)
    BY DEF LanesInv, PartsInv
<1>3. QED
    BY <1>1, <1>2

LEMMA LanesInvBuffer == LanesInv => BufferUnused
<1> SUFFICES ASSUME LanesInv, index = 0
             PROVE  \A l \in Lanes!Lanes : tasks[l] = <<>> /\ current[l] = Lanes!Null
    BY DEF BufferUnused, Lanes!BufferUnused
<1>1. ~Lanes!InCall
    BY LaneFacts DEF LanesInv, IndexInv, CallLabels, Lanes!InCall
<1>2. QED
    BY <1>1, Between DEF Lanes!Null

\* However the lanes' tasks are popped and stolen, none is worked on twice, and
\* each part of a call has been worked on when run_parallel returns.
THEOREM LanesPartsOnce == Lanes!Spec => []PartsRunOnce
    BY LanesInvHolds, LanesInvParts, PTL

\* alloc starts over only when no lane holds and no thread calls a task of the
\* buffer.
THEOREM LanesBuffer == Lanes!Spec => []BufferUnused
    BY LanesInvHolds, LanesInvBuffer, PTL

-----------------------------------------------------------------------------
(* The programs of the runs, which use one of the executors.               *)

LEMMA TasksInitInv == TasksInit => Inv /\ LanesInv
    BY InitInv, LanesInitInv DEF TasksInit

LEMMA TasksNextInv ==
    ASSUME Inv, LanesInv, [ExecutorNext \/ LanesNext]_tasksVars PROVE Inv' /\ LanesInv'
<1>1. [Next]_vars
    BY DEF ExecutorNext, LanesNext, InExecutor, InLanes, tasksVars
<1>2. [Lanes!Next]_(Lanes!lanesVars)
    BY DEF ExecutorNext, LanesNext, InExecutor, InLanes, tasksVars, lanesVars, Lanes!lanesVars, Lanes!buffer, Lanes!ghosts
<1>3. QED
    BY <1>1, <1>2, NextInv, LanesNextInv

\* In those programs both executors keep their promises.
THEOREM TasksSafe ==
    TasksSpec => [](/\ TypeOK /\ RunOnce /\ TokenCountsTasks /\ DestroyedDrained
                    /\ PartsRunOnce /\ BufferUnused)
<1>1. Inv => TypeOK
    BY DEF Inv
<1>2. TasksSpec => [](Inv /\ LanesInv)
    BY TasksInitInv, TasksNextInv, PTL DEF TasksSpec
<1>3. QED
    BY <1>1, <1>2, InvRunOnce, InvTokens, InvDrained, LanesInvParts, LanesInvBuffer, PTL
=============================================================================
