SPECIFICATION FairSpec
CONSTANTS
    MaxStep = 0
    Guest = "slack"
    IterLimit = FALSE
    Capacity = 1
    SpawnMayFail = FALSE
    Horizon = 1
    Calls = {"pause", "sync", "scheduleAt", "guest"}
PROPERTIES
    StopReturns
    CommandAnswered
CHECK_DEADLOCK FALSE
