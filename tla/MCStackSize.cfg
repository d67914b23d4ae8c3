CONSTANTS
    t1 = t1
    t2 = t2
    t3 = t3
    Threads = {t1, t2, t3}
    Nodes = {n1, n2}
    Values = {v1}
    NULL = NULL
    Recycle = FALSE
    SpuriousFailure = FALSE
    SizeModulus = 8
    Budget <- BudgetMixed
SPECIFICATION Spec
INVARIANTS SizeCountsValues
