SPECIFICATION Spec
CONSTANTS
    Values = {0, 1}
    MaxDepth = 2
    UNDO_HISTORY_LIMIT = 2
    MaxActions = 4
INVARIANTS
    ReplicasAgree
    HistoryIsLinear
    LevelsApart
PROPERTY
    ConnectsWhatWasShown
CHECK_DEADLOCK FALSE
