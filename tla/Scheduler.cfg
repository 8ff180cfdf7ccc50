SPECIFICATION Spec
CONSTANTS
    Threads = {worker}
    Steppers = {}
    Components = {capacitor}
    Reactive = {capacitor}
    NoComponent = NoComponent
    Free = Free
    MaxTime = 3
    MaxEvents = 2
    MaxStep = 2
    MinStep = 1
    InitialStep = 2
    Adaptive = TRUE
    MaxIter = 1
    worker = worker
    ipc = ipc
    capacitor = capacitor
INVARIANTS
    SnapshotsExact
    NoEventSkipped
    PublishedIsCommitted
PROPERTIES
    RollbackIsClean
    CommitsAreContiguous
CHECK_DEADLOCK FALSE
