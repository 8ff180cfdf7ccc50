SPECIFICATION FairSpec
CONSTANTS
    MaxProcs = 2
    MaxGestures = 3
    MaxFaults = 1
INVARIANTS
    StatusAgrees
    StoppedScreenIsBlank
    OneFrameInTransit
PROPERTIES
    ControlsReturn
    FramesFlow
CHECK_DEADLOCK FALSE
