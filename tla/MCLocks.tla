------------------------------ MODULE MCLocks ------------------------------
(***************************************************************************)
(* The three mutexes of spinlock_benchmark.cpp for TLC.  Each behaviour is *)
(* that of a program that uses one of them: they share nothing.            *)
(***************************************************************************)
EXTENDS SpinMutex, FiniteSets

CONSTANTS SpuriousFailure \* of SharedSpinMutex

ASSUME ThreadsAssumption == IsFiniteSet(Threads)

VARIABLES
    used,                                   \* the mutex of this program
    flag, sharedPc, expected, calls,        \* of the shared spin mutex
    word, futexPc                           \* of the futex mutex

Shared == INSTANCE SharedSpinMutex WITH pc <- sharedPc
Futex  == INSTANCE FutexMutex WITH pc <- futexPc

sharedVars == <<flag, sharedPc, expected, calls>>
futexVars  == <<word, futexPc>>
locksVars  == <<used, vars, sharedVars, futexVars>>

LocksInit ==
    /\ used \in {"spin", "shared", "futex"}
    /\ Init
    /\ Shared!Init
    /\ used # "shared" => calls = {"try_lock"}
    /\ Futex!Init

SpinNext   == used = "spin" /\ Next /\ UNCHANGED <<used, sharedVars, futexVars>>
SharedNext == used = "shared" /\ Shared!Next /\ UNCHANGED <<used, vars, futexVars>>
FutexNext  == used = "futex" /\ Futex!Next /\ UNCHANGED <<used, vars, sharedVars>>

LocksNext == SpinNext \/ SharedNext \/ FutexNext

\* Every thread that has begun a call, or owns the mutex, goes on.
LocksSpec ==
    /\ LocksInit /\ [][LocksNext]_locksVars
    /\ \A t \in Threads :
        /\ WF_locksVars(SpinNext /\ Advance(t))
        /\ WF_locksVars(SharedNext /\ Shared!Advance(t))
        /\ WF_locksVars(FutexNext /\ Futex!Advance(t))

-----------------------------------------------------------------------------
\* The variables of each mutex keep their types.
LocksTypeOK == TypeOK /\ Shared!TypeOK /\ Futex!TypeOK

\* The futex mutex has one owner at a time.
FutexExclusion == Futex!MutualExclusion

\* No thread sleeps beside a free futex mutex that nobody is about to take or
\* to announce.
NoLostWakeup == Futex!NoLostWakeup

\* Who enters the shared spin mutex by try_lock is alone in it.
TryLockExcludes == Shared!TryLockExcludes

\* The word of the shared spin mutex counts the readers inside.
ReadersAreCounted == Shared!ReadersAreCounted

\* Threads that have left the shared spin mutex keep nobody out.
ReaderOrWriterEnters == Shared!ReaderOrWriterEnters
=============================================================================
