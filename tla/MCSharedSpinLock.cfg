CONSTANTS
    Threads = {t1, t2}
    SpuriousFailure = FALSE
SPECIFICATION Spec
INVARIANTS WritersExclude
CHECK_DEADLOCK FALSE
