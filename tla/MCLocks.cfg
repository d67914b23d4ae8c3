CONSTANTS
    Threads = {t1, t2, t3}
    Nobody = Nobody
    SpuriousFailure = FALSE
SPECIFICATION LocksSpec
INVARIANTS LocksTypeOK MutualExclusion FutexExclusion NoLostWakeup TryLockExcludes ReadersAreCounted
PROPERTIES SomeoneGetsIt IsLock ReaderOrWriterEnters
CHECK_DEADLOCK FALSE
