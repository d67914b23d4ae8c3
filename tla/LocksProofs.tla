----------------------------- MODULE LocksProofs -----------------------------
(***************************************************************************)
(* Theorems about the spin mutex, the shared spin mutex and the futex      *)
(* mutex, for any finite set of threads and whether or not a compare-and-  *)
(* swap may fail spuriously; and what they say of MCLocks, the programs    *)
(* that the runs check.                                                    *)
(***************************************************************************)
EXTENDS MCLocks, FiniteSetTheorems, TLAPS

-----------------------------------------------------------------------------
(* The spin mutex.                                                         *)

\* The owner of the mutex has it locked.
LockedInv == (\E t \in Threads : pc[t] = "critical") => locked

SpinInv == TypeOK /\ LockedInv /\ MutualExclusion

LEMMA SpinInitInv == Init => SpinInv
    BY DEF Init, SpinInv, TypeOK, Labels, LockedInv, MutualExclusion

LEMMA SpinNextInv == ASSUME SpinInv, [Next]_vars PROVE SpinInv'
<1> USE DEF SpinInv, TypeOK, Labels, LockedInv, MutualExclusion, Transition
<1>1. ASSUME NEW t \in Threads, Lock(t) PROVE SpinInv'
    BY <1>1 DEF Lock
<1>2. ASSUME NEW t \in Threads, Exchange(t) PROVE SpinInv'
    BY <1>2 DEF Exchange
<1>3. ASSUME NEW t \in Threads, SpinEnd(t) PROVE SpinInv'
    BY <1>3 DEF SpinEnd
<1>4. ASSUME NEW t \in Threads, TryLock(t) PROVE SpinInv'
    BY <1>4 DEF TryLock
<1>5. ASSUME NEW t \in Threads, TryLoad(t) PROVE SpinInv'
    BY <1>5 DEF TryLoad
<1>6. ASSUME NEW t \in Threads, TryExchange(t) PROVE SpinInv'
    BY <1>6 DEF TryExchange
<1>7. ASSUME NEW t \in Threads, Unlock(t) PROVE SpinInv'
    BY <1>7 DEF Unlock
<1>8. CASE UNCHANGED vars
    BY <1>8 DEF vars
<1>9. QED
    BY <1>1, <1>2, <1>3, <1>4, <1>5, <1>6, <1>7, <1>8 DEF Next, Step

\* No two threads are in their critical sections, whether they got there by
\* lock or by try_lock.
THEOREM SpinExcludes == Spec => []MutualExclusion
<1>1. Spec => []SpinInv
    BY SpinInitInv, SpinNextInv, PTL DEF Spec
<1>2. QED
    BY <1>1, PTL DEF SpinInv

-----------------------------------------------------------------------------
(* The spin mutex implements AbstractLock.                                 *)

LEMMA OwnerUnique ==
    ASSUME MutualExclusion, NEW t \in Threads, pc[t] = "critical" PROVE Owner = t
    BY DEF MutualExclusion, Owner

LEMMA OwnerNobody ==
    ASSUME \A t \in Threads : pc[t] # "critical" PROVE Owner = Nobody
    BY DEF Owner

\* The pc of the thread that owns the mutex, and who owns it otherwise.
LEMMA OwnerIs ==
    ASSUME MutualExclusion
    PROVE  /\ \A t \in Threads : Owner = t <=> pc[t] = "critical"
           /\ Owner = Nobody <=> \A t \in Threads : pc[t] # "critical"
    BY OwnerUnique, OwnerNobody, NobodyAssumption DEF Owner

\* The threads that are on their way to the mutex.
Asking == {t \in Threads : pc[t] \in {"exchange", "spin", "try_load", "try_exchange"}}

LEMMA SpinStepRefines ==
    ASSUME SpinInv, SpinInv', [Next]_vars PROVE [Abstract!Next]_(Abstract!vars)
<1> USE DEF SpinInv, TypeOK, Transition
<1>0. /\ \A u \in Threads : Owner = u <=> pc[u] = "critical"
      /\ Owner = Nobody <=> \A u \in Threads : pc[u] # "critical"
      /\ Owner \in Threads \cup {Nobody}
    BY OwnerIs DEF Owner
<1>00. /\ \A u \in Threads : Owner' = u <=> pc'[u] = "critical"
       /\ Owner' = Nobody <=> \A u \in Threads : pc'[u] # "critical"
       /\ Owner' \in Threads \cup {Nobody}
  <2>1. MutualExclusion'
    OBVIOUS
  <2>2. QED
    BY <2>1, NobodyAssumption DEF Owner, MutualExclusion
<1>1. ASSUME NEW t \in Threads, Lock(t) \/ TryLock(t) PROVE Abstract!Ask(t)
    BY <1>1, <1>0, <1>00 DEF Lock, TryLock, Abstract!Ask
<1>2. ASSUME NEW t \in Threads, Exchange(t)
      PROVE  Abstract!Acquire(t) \/ UNCHANGED <<Owner, Asking>>
  <2>1. CASE locked
    BY <1>2, <2>1, <1>0, <1>00 DEF Exchange, Asking
  <2>2. CASE ~locked
    BY <1>2, <2>2, <1>0, <1>00 DEF Exchange, Abstract!Acquire, LockedInv
  <2>3. QED
    BY <2>1, <2>2
<1>3. ASSUME NEW t \in Threads, SpinEnd(t) PROVE UNCHANGED <<Owner, Asking>>
    BY <1>3, <1>0, <1>00 DEF SpinEnd, Asking
<1>4. ASSUME NEW t \in Threads, TryLoad(t)
      PROVE  Abstract!GiveUp(t) \/ UNCHANGED <<Owner, Asking>>
    BY <1>4, <1>0, <1>00 DEF TryLoad, Abstract!GiveUp, Asking
<1>5. ASSUME NEW t \in Threads, TryExchange(t)
      PROVE  Abstract!GiveUp(t) \/ Abstract!Acquire(t)
    BY <1>5, <1>0, <1>00 DEF TryExchange, Abstract!GiveUp, Abstract!Acquire, LockedInv
<1>6. ASSUME NEW t \in Threads, Unlock(t) PROVE Abstract!Release(t)
    BY <1>6, <1>0, <1>00 DEF Unlock, Abstract!Release, MutualExclusion
<1>7. CASE UNCHANGED vars
    BY <1>7 DEF vars, Owner, Abstract!vars
<1>8. QED
    BY <1>1, <1>2, <1>3, <1>4, <1>5, <1>6, <1>7
    DEF Next, Step, Abstract!Next, Abstract!vars, Asking

\* Every behaviour of the spin mutex is one of an abstract lock: a thread owns
\* it only after it asked and while nobody else did, until its own unlock.
THEOREM SpinRefines == Spec => IsLock
<1>1. Init => Abstract!Init
    BY OwnerNobody DEF Init, Abstract!Init
<1>2. SpinInv /\ SpinInv' /\ [Next]_vars => [Abstract!Next]_(Abstract!vars)
    BY SpinStepRefines
<1>3. Spec => []SpinInv
    BY SpinInitInv, SpinNextInv, PTL DEF Spec
<1>4. QED
    BY <1>1, <1>2, <1>3, PTL DEF Spec, IsLock, Abstract!Spec

-----------------------------------------------------------------------------
(* The shared spin mutex.                                                  *)

\* The threads that the word counts as readers.
Readers == {t \in Threads : sharedPc[t] \in {"reading", "shared_unlock", "shared_unlock_cas"}}

\* In a program that does not call lock, a writer has the word at -1 to itself.
WriterInv ==
    "lock" \notin calls =>
        /\ \A t \in Threads :
            /\ sharedPc[t] \notin {"lock", "lock_wait"}
            /\ sharedPc[t] = "writing" => flag = -1
        /\ \A t, u \in Threads : sharedPc[t] = "writing" /\ sharedPc[u] = "writing" => t = u

SharedInv == Shared!TypeOK /\ ReadersAreCounted /\ WriterInv

\* The number of readers, for each way in which a step changes who they are.
LEMMA ReadersFinite ==
    /\ Cardinality(Threads) \in Nat
    /\ IsFiniteSet(Readers)
    /\ Cardinality(Readers) \in 0 .. Cardinality(Threads)
    /\ \A t \in Readers : Cardinality(Readers) > 0
<1>1. IsFiniteSet(Readers) /\ Cardinality(Readers) <= Cardinality(Threads)
    BY FS_Subset, ThreadsAssumption DEF Readers
<1>2. Cardinality(Threads) \in Nat /\ Cardinality(Readers) \in Nat
    BY <1>1, FS_CardinalityType, ThreadsAssumption
<1>3. Cardinality(Readers) = 0 => Readers = {}
    BY <1>1, FS_EmptySet
<1>4. QED
    BY <1>1, <1>2, <1>3

\* SharedSpinMutex counts with the operator of FiniteSets.
LEMMA SameCardinality == \A S : Shared!Cardinality(S) = Cardinality(S)
    BY DEF Shared!Cardinality, Cardinality

\* ReadersAreCounted in terms of Readers.
LEMMA CountedIs == ReadersAreCounted <=> Cardinality(Readers) = IF flag > 0 THEN flag ELSE 0
    BY SameCardinality DEF ReadersAreCounted, Shared!ReadersAreCounted, Readers

\* The same of the state after a step.
LEMMA CountedIsNext ==
    ReadersAreCounted' <=> Cardinality(Readers') = IF flag' > 0 THEN flag' ELSE 0
    BY SameCardinality DEF ReadersAreCounted, Shared!ReadersAreCounted, Readers

\* Readers stay who they are, and the word is kept or changes hands unread.
LEMMA CountKept ==
    ASSUME ReadersAreCounted, flag' = flag \/ {flag, flag'} \subseteq {-1, 0}, Readers' = Readers
    PROVE  ReadersAreCounted'
    BY CountedIs, CountedIsNext

\* A reader that comes in adds one to a word that is not negative.
LEMMA CountUp ==
    ASSUME ReadersAreCounted, flag \in Nat, flag' = flag + 1,
           NEW t \in Threads, t \notin Readers, Readers' = Readers \cup {t}
    PROVE  ReadersAreCounted' /\ flag' \in 0 .. Cardinality(Threads)
<1>1. Cardinality(Readers) = flag
    BY CountedIs
<1>2. Cardinality(Readers') = flag + 1
    BY <1>1, ReadersFinite, FS_AddElement
<1>3. Readers' \subseteq Threads
    BY DEF Readers
<1>4. Cardinality(Readers') <= Cardinality(Threads)
    BY <1>3, FS_Subset, ThreadsAssumption
<1>5. QED
    BY <1>2, <1>4, CountedIsNext, ReadersFinite

\* A reader that gives its share back takes one from the word.
LEMMA CountDown ==
    ASSUME ReadersAreCounted, flag' = flag - 1, flag \in Int,
           NEW t \in Readers, Readers' = Readers \ {t}
    PROVE  ReadersAreCounted' /\ flag' \in 0 .. Cardinality(Threads)
<1>1. Cardinality(Readers') = Cardinality(Readers) - 1
    BY ReadersFinite, FS_RemoveElement
<1>2. Cardinality(Readers) = flag /\ flag > 0 /\ flag <= Cardinality(Threads)
    BY CountedIs, ReadersFinite
<1>3. QED
    BY <1>1, <1>2, CountedIsNext, ReadersFinite

LEMMA SharedInit == Shared!Init => SharedInv
<1> SUFFICES ASSUME Shared!Init PROVE SharedInv
    OBVIOUS
<1>1. Shared!TypeOK /\ WriterInv
    BY ReadersFinite, SameCardinality
    DEF Shared!Init, Shared!TypeOK, Shared!Labels, WriterInv
<1>2. Readers = {}
    BY DEF Shared!Init, Readers
<1>3. ReadersAreCounted
    BY <1>2, CountedIs, FS_EmptySet DEF Shared!Init
<1>4. QED
    BY <1>1, <1>3 DEF SharedInv

LEMMA SharedNextInv == ASSUME SharedInv, [Shared!Next]_(Shared!vars) PROVE SharedInv'
<1> USE SameCardinality, ReadersFinite
    DEF SharedInv, Shared!TypeOK, Shared!Labels, WriterInv, Shared!Transition
<1>0. CASE Shared!Next
  <2> calls' = calls
    BY <1>0 DEF Shared!Next
  <2>1. ASSUME NEW t \in Threads, Shared!Enter(t) PROVE SharedInv'
    <3>1. Readers' = Readers
        BY <2>1 DEF Shared!Enter, Readers
    <3>2. QED
        BY <2>1, <3>1, CountKept DEF Shared!Enter
  <2>2. ASSUME NEW t \in Threads, Shared!LockTakes(t) \/ Shared!LockReturns(t) \/ Shared!LockWaitEnd(t)
        PROVE  SharedInv'
    <3>1. Readers' = Readers
        BY <2>2 DEF Shared!LockTakes, Shared!LockReturns, Shared!LockWaitEnd, Readers
    <3>2. flag' = flag \/ {flag, flag'} \subseteq {-1, 0}
        BY <2>2 DEF Shared!LockTakes, Shared!LockReturns, Shared!LockWaitEnd,
                    Shared!CasSucceeds, Shared!CasFails
    <3>3. QED
        BY <2>2, <3>1, <3>2, CountKept
        DEF Shared!LockTakes, Shared!LockReturns, Shared!LockWaitEnd, Shared!CasSucceeds, Shared!CasFails
  <2>3. ASSUME NEW t \in Threads, Shared!TryLock(t) \/ Shared!Unlock(t) PROVE SharedInv'
    <3>1. Readers' = Readers
        BY <2>3 DEF Shared!TryLock, Shared!Unlock, Readers
    <3>2. flag' = flag \/ {flag, flag'} \subseteq {-1, 0}
        BY <2>3 DEF Shared!TryLock, Shared!Unlock, Shared!CasSucceeds, Shared!CasFails
    <3>3. QED
        BY <2>3, <3>1, <3>2, CountKept
        DEF Shared!TryLock, Shared!Unlock, Shared!CasSucceeds, Shared!CasFails
  <2>4. ASSUME NEW t \in Threads, Shared!SharedLoad(t) \/ Shared!SharedWaitEnd(t) PROVE SharedInv'
    <3>1. Readers' = Readers
        BY <2>4 DEF Shared!SharedLoad, Shared!SharedWaitEnd, Readers
    <3>2. QED
        BY <2>4, <3>1, CountKept DEF Shared!SharedLoad, Shared!SharedWaitEnd
  <2>5. ASSUME NEW t \in Threads, Shared!SharedCas(t) PROVE SharedInv'
    <3>1. CASE flag' = flag /\ sharedPc'[t] = "shared_wait"
      <4>1. Readers' = Readers
        BY <2>5, <3>1 DEF Shared!SharedCas, Readers
      <4>2. QED
        BY <2>5, <3>1, <4>1, CountKept DEF Shared!SharedCas
    <3>2. CASE flag = expected[t] /\ flag' = flag + 1 /\ sharedPc'[t] = "reading"
      <4>1. t \notin Readers /\ Readers' = Readers \cup {t}
        BY <2>5, <3>2 DEF Shared!SharedCas, Readers
      <4>2. ReadersAreCounted' /\ flag' \in 0 .. Cardinality(Threads)
        BY <3>2, <4>1, CountUp
      <4>3. QED
        BY <2>5, <3>2, <4>2 DEF Shared!SharedCas
    <3>3. QED
        BY <2>5, <3>1, <3>2 DEF Shared!SharedCas, Shared!CasSucceeds, Shared!CasFails
  <2>6. ASSUME NEW t \in Threads, Shared!SharedUnlock(t) PROVE SharedInv'
    <3>1. Readers' = Readers
        BY <2>6 DEF Shared!SharedUnlock, Readers
    <3>2. QED
        BY <2>6, <3>1, CountKept DEF Shared!SharedUnlock
  <2>7. ASSUME NEW t \in Threads, Shared!SharedUnlockLoad(t) PROVE SharedInv'
    <3>1. t \in Readers /\ flag > 0
        BY <2>7, CountedIs DEF Shared!SharedUnlockLoad, Readers
    <3>2. Readers' = Readers
        BY <2>7, <3>1 DEF Shared!SharedUnlockLoad, Readers
    <3>3. QED
        BY <2>7, <3>1, <3>2, CountKept DEF Shared!SharedUnlockLoad
  <2>8. ASSUME NEW t \in Threads, Shared!SharedUnlockCas(t) PROVE SharedInv'
    <3>1. CASE flag' = flag /\ sharedPc'[t] = "shared_unlock"
      <4>1. Readers' = Readers
        BY <2>8, <3>1 DEF Shared!SharedUnlockCas, Readers
      <4>2. QED
        BY <2>8, <3>1, <4>1, CountKept DEF Shared!SharedUnlockCas
    <3>2. CASE flag = expected[t] /\ flag' = flag - 1 /\ sharedPc'[t] = "idle"
      <4>1. t \in Readers /\ Readers' = Readers \ {t}
        BY <2>8, <3>2 DEF Shared!SharedUnlockCas, Readers
      <4>2. ReadersAreCounted' /\ flag' \in 0 .. Cardinality(Threads)
        BY <3>2, <4>1, CountDown
      <4>3. flag # -1
        BY <3>2
      <4>4. QED
        BY <2>8, <3>2, <4>2, <4>3 DEF Shared!SharedUnlockCas
    <3>3. QED
        BY <2>8, <3>1, <3>2 DEF Shared!SharedUnlockCas, Shared!CasSucceeds, Shared!CasFails
  <2>9. QED
    BY <1>0, <2>1, <2>2, <2>3, <2>4, <2>5, <2>6, <2>7, <2>8 DEF Shared!Next, Shared!Advance
<1>1. CASE UNCHANGED Shared!vars
    BY <1>1, CountKept DEF Shared!vars, Readers
<1>2. QED
    BY <1>0, <1>1

LEMMA SharedInvExcludes == SharedInv => TryLockExcludes
<1>1. SUFFICES ASSUME SharedInv, "lock" \notin calls, NEW t \in Threads, NEW u \in Threads,
                      t # u, sharedPc[t] = "writing"
               PROVE  sharedPc[u] \notin {"writing", "reading"}
    BY DEF TryLockExcludes, Shared!TryLockExcludes, Shared!WritersExclude
<1>2. flag = -1 /\ sharedPc[u] # "writing"
    BY <1>1 DEF SharedInv, WriterInv
<1>3. Readers = {}
    BY <1>1, <1>2, CountedIs, ReadersFinite, FS_EmptySet DEF SharedInv
<1>4. QED
    BY <1>2, <1>3 DEF Readers

LEMMA SharedInvHolds == Shared!Spec => []SharedInv
    BY SharedInit, SharedNextInv, PTL DEF Shared!Spec

\* In a program that enters the shared spin mutex by try_lock and shared_lock
\* only, a writer is alone in it.
THEOREM SharedExclusion == Shared!Spec => []TryLockExcludes
    BY SharedInvHolds, SharedInvExcludes, PTL

\* However the threads enter, lock included, the word is the number of readers:
\* the compare-and-swaps on a loaded value lose none of them.
THEOREM SharedCount == Shared!Spec => []ReadersAreCounted
    BY SharedInvHolds, PTL DEF SharedInv

-----------------------------------------------------------------------------
(* The futex mutex. *)

\* The owner has the word set.
WordInv == (\E t \in Threads : futexPc[t] = "critical") => word = 1

FutexInv == Futex!TypeOK /\ WordInv /\ FutexExclusion /\ NoLostWakeup

LEMMA FutexInit == Futex!Init => FutexInv
    BY DEF Futex!Init, FutexInv, Futex!TypeOK, Futex!Labels, WordInv, FutexExclusion,
           Futex!MutualExclusion, NoLostWakeup, Futex!NoLostWakeup

LEMMA FutexNextInv == ASSUME FutexInv, [Futex!Next]_(Futex!vars) PROVE FutexInv'
<1> USE DEF FutexInv, Futex!TypeOK, Futex!Labels, WordInv, FutexExclusion,
            Futex!MutualExclusion, NoLostWakeup, Futex!NoLostWakeup, Futex!Transition
<1>1. ASSUME NEW t \in Threads, Futex!Lock(t) PROVE FutexInv'
    BY <1>1 DEF Futex!Lock
<1>2. ASSUME NEW t \in Threads, Futex!Exchange(t) PROVE FutexInv'
    BY <1>2 DEF Futex!Exchange
<1>3. ASSUME NEW t \in Threads, Futex!TryLock(t) PROVE FutexInv'
    BY <1>3 DEF Futex!TryLock
<1>4. ASSUME NEW t \in Threads, Futex!WaitSleeps(t) PROVE FutexInv'
    BY <1>4 DEF Futex!WaitSleeps
<1>5. ASSUME NEW t \in Threads, Futex!WaitRepeats(t) PROVE FutexInv'
    BY <1>5 DEF Futex!WaitRepeats
<1>6. ASSUME NEW t \in Threads, Futex!Unlock(t) PROVE FutexInv'
    BY <1>6 DEF Futex!Unlock
<1>7. ASSUME NEW t \in Threads, Futex!WakeOne(t) PROVE FutexInv'
    BY <1>7 DEF Futex!WakeOne
<1>8. CASE UNCHANGED Futex!vars
    BY <1>8 DEF Futex!vars
<1>9. QED
    BY <1>1, <1>2, <1>3, <1>4, <1>5, <1>6, <1>7, <1>8 DEF Futex!Next, Futex!Step

LEMMA FutexInvHolds == Futex!Spec => []FutexInv
    BY FutexInit, FutexNextInv, PTL DEF Futex!Spec

\* The futex mutex has at most one owner, by lock or by try_lock.
THEOREM FutexExcludes == Futex!Spec => []FutexExclusion
    BY FutexInvHolds, PTL DEF FutexInv

\* Beside a free futex mutex, a sleeper has a thread that will wake it or take
\* the mutex.
THEOREM FutexWakes == Futex!Spec => []NoLostWakeup
    BY FutexInvHolds, PTL DEF FutexInv

-----------------------------------------------------------------------------
(* The programs of the runs, which use one of the mutexes. *)

LocksInv == SpinInv /\ SharedInv /\ FutexInv

LEMMA LocksInitInv == LocksInit => LocksInv
    BY SpinInitInv, SharedInit, FutexInit DEF LocksInit, LocksInv

LEMMA LocksNextInv == ASSUME LocksInv, [LocksNext]_locksVars PROVE LocksInv'
<1>1. [Next]_vars
    BY DEF LocksNext, SpinNext, SharedNext, FutexNext, locksVars
<1>2. [Shared!Next]_(Shared!vars)
    BY DEF LocksNext, SpinNext, SharedNext, FutexNext, locksVars, sharedVars, Shared!vars
<1>3. [Futex!Next]_(Futex!vars)
    BY DEF LocksNext, SpinNext, SharedNext, FutexNext, locksVars, futexVars, Futex!vars
<1>4. QED
    BY <1>1, <1>2, <1>3, SpinNextInv, SharedNextInv, FutexNextInv DEF LocksInv

LEMMA LocksInvHolds == LocksSpec => []LocksInv
    BY LocksInitInv, LocksNextInv, PTL DEF LocksSpec

\* The variables of each mutex keep their types; the word of the shared one
\* never counts more readers than there are threads.
THEOREM LocksTypes == LocksSpec => []LocksTypeOK
<1>1. LocksInv => LocksTypeOK
    BY DEF LocksInv, SpinInv, SharedInv, FutexInv, LocksTypeOK
<1>2. QED
    BY <1>1, LocksInvHolds, PTL

\* In those programs the mutexes keep their promises.
THEOREM LocksSafe ==
    LocksSpec => [](TryLockExcludes /\ ReadersAreCounted /\ FutexExclusion /\ NoLostWakeup)
<1>1. LocksInv => TryLockExcludes /\ ReadersAreCounted /\ FutexExclusion /\ NoLostWakeup
    BY SharedInvExcludes DEF LocksInv, SharedInv, FutexInv
<1>2. QED
    BY <1>1, LocksInvHolds, PTL
=============================================================================
