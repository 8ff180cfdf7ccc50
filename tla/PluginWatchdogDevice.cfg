SPECIFICATION FairSpec
CONSTANTS
    Hosts = {sim, ipc}
    None = None
    Proxy = "device"
    MaxTimeouts = 3
    SpawnMayFail = TRUE
    MaxThreads = 2
INVARIANTS
    NeverReentered
    OutcomeIsOwn
PROPERTIES
    CallReturns
CHECK_DEADLOCK FALSE
