SPECIFICATION FairSpec

CONSTANTS
    MaxRequests = 2
    MaxStarts = 2

INVARIANTS
    ButtonsFit
    LabelsFit
    RecorderFollowsYolo

PROPERTIES
    RequestIsDetected
    CloseEnds

CHECK_DEADLOCK FALSE
