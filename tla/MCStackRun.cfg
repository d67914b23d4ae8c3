CONSTANTS
    Threads = {t1, t2, t3}
    Nodes = {n1, n2}
    Values = {v1}
    NULL = NULL
    Recycle = FALSE
    SpuriousFailure = FALSE
    SizeModulus = 8
    Budget <- BudgetNone
    First = 2
    Durations = {"small", "medium"}
    Default = "small"
    Iterations <- FewIterations
SPECIFICATION FairRunSpec
INVARIANTS SingleReaper DestructorFreesAll
PROPERTIES ReclaimIsSafe CallsReturn MainReturns
