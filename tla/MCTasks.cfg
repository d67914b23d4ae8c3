CONSTANTS
    Workers = {w1, w2}
    Clients = {c1, c2}
    Owner = c1
    Parts = 2
    MaxPushes = 1
    MaxWakeups = 1
    JobDiv = 3
    MaxRuns = 3
    MaxStarts = 2
SPECIFICATION TasksSpec
INVARIANTS TypeOK RunOnce TokenCountsTasks DestroyedDrained PartsRunOnce BufferUnused
PROPERTIES TasksAreRun WaitReturns RunParallelReturns StopReturns
CHECK_DEADLOCK FALSE
