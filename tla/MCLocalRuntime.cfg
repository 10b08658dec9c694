SPECIFICATION FairSpec

CONSTANTS
    MaxRequests = 3
    MaxInterrupts = 2

INVARIANTS
    ReleasedAtExit
    ListeningMicIsOpen

PROPERTIES
    NewerRequestsOnly
    RequestTakesEffect
    ShutdownEndsTheRun

CHECK_DEADLOCK FALSE
