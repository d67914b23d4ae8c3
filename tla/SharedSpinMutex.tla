--------------------------- MODULE SharedSpinMutex --------------------------
(***************************************************************************)
(* demo_b::shared_spin_mutex of spinlock_benchmark.cpp: a word that is -1  *)
(* for a writer and otherwise the number of readers.  lock is modelled as  *)
(* it is written: it returns when its compare_exchange FAILS.              *)
(***************************************************************************)
EXTENDS Integers, FiniteSets

CONSTANTS
    Threads,
    SpuriousFailure \* compare_exchange_weak may fail although it compares equal

VARIABLES
    flag,     \* _flag
    pc,       \* where each thread is
    expected, \* the value shared_lock and shared_unlock loaded
    calls     \* how the threads of this program enter; never changed

vars == <<flag, pc, expected, calls>>

Labels == {"idle", "lock", "lock_wait", "try_lock", "shared_lock", "shared_cas", "shared_wait",
           "writing", "reading", "shared_unlock", "shared_unlock_cas"}

TypeOK ==
    /\ flag \in -1 .. Cardinality(Threads)
    /\ pc \in [Threads -> Labels]
    /\ expected \in [Threads -> 0 .. Cardinality(Threads)]
    /\ calls \subseteq {"lock", "try_lock", "shared_lock"}

Init ==
    /\ flag = 0
    /\ pc = [t \in Threads |-> "idle"]
    /\ expected = [t \in Threads |-> 0]
    /\ calls \in (SUBSET {"lock", "try_lock", "shared_lock"}) \ {{}}

Transition(t, from, to) ==
    /\ pc[t] = from
    /\ pc' = [pc EXCEPT ![t] = to]

\* The outcomes of compare_exchange_weak on _flag.
CasSucceeds(old, new) == flag = old /\ flag' = new
CasFails(old) == (flag # old \/ SpuriousFailure) /\ UNCHANGED flag

Enter(t) ==
    /\ \E call \in calls : Transition(t, "idle", call)
    /\ UNCHANGED <<flag, expected>>

\* lock takes the word and then waits for it to become free again ...
LockTakes(t) ==
    /\ Transition(t, "lock", "lock_wait")
    /\ CasSucceeds(0, -1)
    /\ UNCHANGED expected

\* ... and returns if it could not take it.
LockReturns(t) ==
    /\ Transition(t, "lock", "writing")
    /\ CasFails(0)
    /\ UNCHANGED expected

LockWaitEnd(t) ==
    /\ Transition(t, "lock_wait", "lock")
    /\ flag = 0
    /\ UNCHANGED <<flag, expected>>

\* Seeded defect: only another writer is looked for.
TryLockOverReaders(t) ==
    \/ Transition(t, "try_lock", "writing") /\ flag # -1 /\ flag' = -1 /\ UNCHANGED expected
    \/ Transition(t, "try_lock", "idle") /\ CasFails(0) /\ UNCHANGED expected

TryLock(t) ==
    \/ Transition(t, "try_lock", "writing") /\ CasSucceeds(0, -1) /\ UNCHANGED expected
    \/ Transition(t, "try_lock", "idle") /\ CasFails(0) /\ UNCHANGED expected

\* Seeded defect: the expected value is that of a reader.
UnlockReader(t) ==
    /\ Transition(t, "writing", "idle")
    /\ CasSucceeds(1, 0) \/ CasFails(1)
    /\ UNCHANGED expected

\* Seeded defect: the writer's -1 is taken back without comparing.
UnlockAdds(t) ==
    /\ Transition(t, "writing", "idle")
    /\ flag' = flag + 1
    /\ UNCHANGED expected

\* unlock makes one attempt: a word that is not -1 stays as it is.
Unlock(t) ==
    /\ Transition(t, "writing", "idle")
    /\ CasSucceeds(-1, 0) \/ CasFails(-1)
    /\ UNCHANGED expected

SharedLoad(t) ==
    /\ IF flag >= 0
       THEN /\ Transition(t, "shared_lock", "shared_cas")
            /\ expected' = [expected EXCEPT ![t] = flag]
       ELSE /\ Transition(t, "shared_lock", "shared_wait")
            /\ UNCHANGED expected
    /\ UNCHANGED flag

\* Seeded defect: load and store in place of a compare-and-swap.
SharedStore(t) ==
    /\ Transition(t, "shared_cas", "reading")
    /\ flag' = expected[t] + 1
    /\ expected' = [expected EXCEPT ![t] = 0]

SharedCas(t) ==
    /\ \/ Transition(t, "shared_cas", "reading") /\ CasSucceeds(expected[t], expected[t] + 1)
       \/ Transition(t, "shared_cas", "shared_wait") /\ CasFails(expected[t])
    /\ expected' = [expected EXCEPT ![t] = 0]

SharedWaitEnd(t) ==
    /\ Transition(t, "shared_wait", "shared_lock")
    /\ flag >= 0
    /\ UNCHANGED <<flag, expected>>

SharedUnlock(t) ==
    /\ Transition(t, "reading", "shared_unlock")
    /\ UNCHANGED <<flag, expected>>

SharedUnlockLoad(t) ==
    /\ IF flag > 0
       THEN /\ Transition(t, "shared_unlock", "shared_unlock_cas")
            /\ expected' = [expected EXCEPT ![t] = flag]
       ELSE /\ Transition(t, "shared_unlock", "idle")
            /\ UNCHANGED expected
    /\ UNCHANGED flag

SharedUnlockCas(t) ==
    /\ \/ Transition(t, "shared_unlock_cas", "idle") /\ CasSucceeds(expected[t], expected[t] - 1)
       \/ Transition(t, "shared_unlock_cas", "shared_unlock") /\ CasFails(expected[t])
    /\ expected' = [expected EXCEPT ![t] = 0]

Advance(t) ==
    \/ LockTakes(t) \/ LockReturns(t) \/ LockWaitEnd(t) \/ TryLock(t) \/ Unlock(t)
    \/ SharedLoad(t) \/ SharedCas(t) \/ SharedWaitEnd(t)
    \/ SharedUnlock(t) \/ SharedUnlockLoad(t) \/ SharedUnlockCas(t)

Next == (\E t \in Threads : Enter(t) \/ Advance(t)) /\ UNCHANGED calls

Spec == Init /\ [][Next]_vars

\* A thread that has entered goes on.
FairSpec == Spec /\ \A t \in Threads : WF_vars(Advance(t) /\ UNCHANGED calls)

-----------------------------------------------------------------------------
\* While a thread is between lock or try_lock and unlock, no other thread is,
\* and none is between shared_lock and shared_unlock.
WritersExclude ==
    \A t, u \in Threads : t # u /\ pc[t] = "writing" => pc[u] \notin {"writing", "reading"}

\* The same, in a program that enters by try_lock and shared_lock only.
TryLockExcludes == "lock" \notin calls => WritersExclude

\* A word that is not negative is the number of readers that have not given
\* their share back, and a negative word means there is none: a reader's
\* increment or decrement is never lost and never applied to another value.
ReadersAreCounted ==
    Cardinality({t \in Threads : pc[t] \in {"reading", "shared_unlock", "shared_unlock_cas"}})
        = IF flag > 0 THEN flag ELSE 0

\* In such a program, a thread that asks for its share is not kept out by
\* threads that have left.
ReaderOrWriterEnters ==
    ("lock" \notin calls /\ \E t \in Threads : pc[t] \in {"shared_lock", "shared_cas", "shared_wait"})
        ~> (\E t \in Threads : pc[t] \in {"reading", "writing"})
=============================================================================
