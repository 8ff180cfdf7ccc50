CONSTANTS
    Producers = {p1, p2}
    Consumer = worker
    Keys = {k1, k2}
    None = none
    ControlSizes = {1, 2, 4}
    FrameSizes <- MCFrameSizes
    k1 = k1
    k2 = k2
    Capacity = 3
    MaxOffers = 4
SPECIFICATION FairSpec
INVARIANTS
    BytesAccounted
    ControlFifo
    FreshTelemetry
    TelemetryAccounted
    NoLostWakeup
PROPERTIES
    BlockedProducerReturns
    AcceptedIsDelivered
CHECK_DEADLOCK FALSE
