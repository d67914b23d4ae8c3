------------------------------ MODULE SpinMutex -----------------------------
(***************************************************************************)
(* The spin mutex of the benchmarks (spinlock_benchmark.cpp demo_c, and    *)
(* the same code in binalloc, streaming_tasks and others): an exchange     *)
(* that is retried after a wait on plain loads, and a try_lock that loads  *)
(* before it exchanges.  Threads take it with lock or try_lock, again and  *)
(* again, as the benchmarks do with lock_guard.                            *)
(***************************************************************************)
CONSTANTS Threads, Nobody

ASSUME NobodyAssumption == Nobody \notin Threads

VARIABLES
    locked, \* _lock
    pc      \* where each thread is: in lock, in try_lock or in its section

vars == <<locked, pc>>

Labels == {"idle", "exchange", "spin", "try_load", "try_exchange", "critical"}

TypeOK ==
    /\ locked \in BOOLEAN
    /\ pc \in [Threads -> Labels]

Init ==
    /\ locked = FALSE
    /\ pc = [t \in Threads |-> "idle"]

Transition(t, from, to) ==
    /\ pc[t] = from
    /\ pc' = [pc EXCEPT ![t] = to]

Lock(t) ==
    /\ Transition(t, "idle", "exchange")
    /\ UNCHANGED locked

Exchange(t) ==
    /\ Transition(t, "exchange", IF locked THEN "spin" ELSE "critical")
    /\ locked' = TRUE

\* Seeded defect: the wait on plain loads is taken for the lock.
SpinEndOwns(t) ==
    /\ Transition(t, "spin", "critical")
    /\ ~locked
    /\ UNCHANGED locked

\* The inner loop ends: the load has found the mutex free.
SpinEnd(t) ==
    /\ Transition(t, "spin", "exchange")
    /\ ~locked
    /\ UNCHANGED locked

TryLock(t) ==
    /\ Transition(t, "idle", "try_load")
    /\ UNCHANGED locked

TryLoad(t) ==
    /\ Transition(t, "try_load", IF locked THEN "idle" ELSE "try_exchange")
    /\ UNCHANGED locked

\* Seeded defect: the load is trusted and the exchange not looked at.
TryExchangeTrusting(t) ==
    /\ Transition(t, "try_exchange", "critical")
    /\ locked' = TRUE

TryExchange(t) ==
    /\ Transition(t, "try_exchange", IF locked THEN "idle" ELSE "critical")
    /\ locked' = TRUE

\* Seeded defect: the mutex is left locked.
UnlockForgotten(t) ==
    /\ Transition(t, "critical", "idle")
    /\ UNCHANGED locked

Unlock(t) ==
    /\ Transition(t, "critical", "idle")
    /\ locked' = FALSE

Step(t) ==
    \/ Lock(t) \/ Exchange(t) \/ SpinEnd(t)
    \/ TryLock(t) \/ TryLoad(t) \/ TryExchange(t)
    \/ Unlock(t)

Next == \E t \in Threads : Step(t)

Spec == Init /\ [][Next]_vars

\* Every thread that is inside lock, try_lock or its section keeps running.
Advance(t) == Exchange(t) \/ SpinEnd(t) \/ TryLoad(t) \/ TryExchange(t) \/ Unlock(t)

FairSpec == Spec /\ \A t \in Threads : WF_vars(Advance(t))

-----------------------------------------------------------------------------
\* Two threads are never between lock or a successful try_lock and unlock.
MutualExclusion ==
    \A t, u \in Threads : pc[t] = "critical" /\ pc[u] = "critical" => t = u

\* The spinning threads do not wait for each other: while a thread is in lock,
\* some thread gets the mutex again and again.  (The one that waits may starve.)
SomeoneGetsIt ==
    (\E t \in Threads : pc[t] \in {"exchange", "spin"}) ~> (\E t \in Threads : pc[t] = "critical")

Owner == IF \E t \in Threads : pc[t] = "critical"
         THEN CHOOSE t \in Threads : pc[t] = "critical"
         ELSE Nobody

Abstract == INSTANCE AbstractLock WITH
    owner <- Owner,
    asking <- {t \in Threads : pc[t] \in {"exchange", "spin", "try_load", "try_exchange"}}

\* The spin mutex is a mutex: only the owner's unlock frees it, and a thread
\* gets it only after it asked and while nobody has it.
IsLock == Abstract!Spec
=============================================================================
