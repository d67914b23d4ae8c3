CONSTANTS
    Workers = {w1}
    Clients = {c1}
    Owner = c1
    Parts = 2
    MaxPushes = 1
    MaxWakeups = 0
SPECIFICATION FairSpec
PROPERTIES DestructorReturns
CHECK_DEADLOCK FALSE
