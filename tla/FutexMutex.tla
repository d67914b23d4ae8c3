------------------------------ MODULE FutexMutex ----------------------------
(***************************************************************************)
(* demo_futex::futex of spinlock_benchmark.cpp.  las::futex_wait and       *)
(* las::futex_wake_one are not part of the repository; as they are used    *)
(* here, a wait sleeps only if the word has the given value, and answers   *)
(* awake only when a wake ended it.                                        *)
(***************************************************************************)
EXTENDS Integers

CONSTANTS Threads

VARIABLES
    word, \* _flag
    pc    \* where each thread is; "asleep" is the wait set of the futex

vars == <<word, pc>>

Labels == {"idle", "exchange", "wait", "asleep", "critical", "wake"}

TypeOK ==
    /\ word \in {0, 1}
    /\ pc \in [Threads -> Labels]

Init ==
    /\ word = 0
    /\ pc = [t \in Threads |-> "idle"]

Transition(t, from, to) ==
    /\ pc[t] = from
    /\ pc' = [pc EXCEPT ![t] = to]

Lock(t) == Transition(t, "idle", "exchange") /\ UNCHANGED word

Exchange(t) ==
    /\ Transition(t, "exchange", IF word = 0 THEN "critical" ELSE "wait")
    /\ word' = 1

\* Seeded defect: what the exchange returns is not looked at.
TryLockTrusting(t) ==
    /\ Transition(t, "idle", "critical")
    /\ word' = 1

TryLock(t) ==
    /\ Transition(t, "idle", IF word = 0 THEN "critical" ELSE "idle")
    /\ word' = 1

\* futex_wait with the word still 1: the thread goes to sleep.
WaitSleeps(t) ==
    /\ Transition(t, "wait", "asleep")
    /\ word = 1
    /\ UNCHANGED word

\* futex_wait answers something else than awake - the word is not 1, or the
\* sleep was interrupted - and is called again: the word is not tried.
WaitRepeats(t) ==
    /\ \/ Transition(t, "wait", "wait") /\ word # 1
       \/ Transition(t, "asleep", "wait")
    /\ UNCHANGED word

\* Seeded defect: nobody is woken.
UnlockSilently(t) ==
    /\ Transition(t, "critical", "idle")
    /\ word' = 0

Unlock(t) ==
    /\ Transition(t, "critical", "wake")
    /\ word' = 0

\* futex_wake_one: one sleeper, if there is one, returns awake and tries again.
WakeOne(t) ==
    /\ IF \E u \in Threads : pc[u] = "asleep"
       THEN \E u \in Threads :
                pc[u] = "asleep" /\ pc[t] = "wake"
                /\ pc' = [pc EXCEPT ![t] = "idle", ![u] = "exchange"]
       ELSE Transition(t, "wake", "idle")
    /\ UNCHANGED word

Step(t) ==
    \/ Lock(t) \/ Exchange(t) \/ TryLock(t) \/ WaitSleeps(t) \/ WaitRepeats(t)
    \/ Unlock(t) \/ WakeOne(t)

Next == \E t \in Threads : Step(t)

Spec == Init /\ [][Next]_vars

\* A thread that is not asleep goes on; no interruption is relied on.
Advance(t) == Exchange(t) \/ WaitSleeps(t) \/ Unlock(t) \/ WakeOne(t)

FairSpec == Spec /\ \A t \in Threads : WF_vars(Advance(t))

-----------------------------------------------------------------------------
\* Two threads are never between lock or a successful try_lock and unlock.
MutualExclusion ==
    \A t, u \in Threads : pc[t] = "critical" /\ pc[u] = "critical" => t = u

\* No thread sleeps beside a free mutex unless another one is about to wake a
\* sleeper or to take the mutex.
NoLostWakeup ==
    word = 0 /\ (\E t \in Threads : pc[t] = "asleep") =>
        \E u \in Threads : pc[u] \in {"exchange", "wake"}

\* While a thread is in lock, some thread gets the mutex again and again.
SomeoneGetsIt ==
    (\E t \in Threads : pc[t] \in {"exchange", "wait", "asleep"})
        ~> (\E t \in Threads : pc[t] = "critical")
=============================================================================
