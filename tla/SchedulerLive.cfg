SPECIFICATION FairSpec
CONSTANTS
    Threads = {worker, ipc}
    Steppers = {ipc}
    Components = {capacitor}
    Reactive = {capacitor}
    NoComponent = NoComponent
    Free = Free
    MaxTime = 2
    MaxEvents = 0
    MaxStep = 2
    MinStep = 1
    InitialStep = 2
    Adaptive = TRUE
    MaxIter = 1
    worker = worker
    ipc = ipc
    capacitor = capacitor
PROPERTIES
    RunUntilReturns
CHECK_DEADLOCK FALSE
