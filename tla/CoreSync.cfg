SPECIFICATION FairSpec
CONSTANTS
    Components = {1, 2}
    Ends = {1, 2}
    Values = {0, 1}
    AffectsTopology = {}
    AffectsPinCount = {2}
    Invalid = {}
    Pinless = {1}
    Loaded = {1}
    MaxEdits = 3
    MaxEvents = 1
INVARIANTS
    CoreMirrorsDocument
    CommitWins
    NoOrphans
PROPERTY
    QueuesDrain
CHECK_DEADLOCK FALSE
