SPECIFICATION FairSpec
CONSTANTS
    Callers = {c1, c2}
    None = None
    MaxWorkers = 2
    Requests <- MCRequests
    c1 = c1
    c2 = c2
    SpawnMayFail = TRUE
PROPERTIES
    RefinesParallelFor
    CallReturns
    DestructorReturns
CHECK_DEADLOCK FALSE
