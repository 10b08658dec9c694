SPECIFICATION FairSpec

CONSTANTS
    Choice <- MCChoice
    NoValue = NoValue
    MaxInputs = 2
    MaxTests = 1

INVARIANTS
    LaunchFitsTheSession
    TestsBelongToTheScreen

PROPERTIES
    ChoicesAreKept
    TestsEnd

CHECK_DEADLOCK FALSE
