CONSTANTS
    t1 = t1
    t2 = t2
    t3 = t3
    Threads = {t1, t2}
    Nodes = {n1, n2}
    Values = {v1, v2}
    NULL = NULL
    Recycle = TRUE
    SpuriousFailure = TRUE
    SizeModulus = 8
    Budget <- BudgetPair
SPECIFICATION Spec
INVARIANTS TypeOK NoUseAfterFree NoStaleSuccessor ListsIntact
PROPERTIES IsAtomicStack
