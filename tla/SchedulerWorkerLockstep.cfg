SPECIFICATION Spec
CONSTANTS
    MaxStep = 0
    Guest = "exact"
    IterLimit = TRUE
    Capacity = 2
    SpawnMayFail = TRUE
    Horizon = 1
    Calls = {"pause", "read", "reset", "markDirty", "sync", "refresh", "scheduleAt", "guest"}
INVARIANTS
    NoLostWakeup
    NeverAheadOfGuest
CHECK_DEADLOCK FALSE
