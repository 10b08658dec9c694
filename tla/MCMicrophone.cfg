SPECIFICATION FairSpec

CONSTANTS
    AudioSize = 2
    ResultSize = 1
    PreRoll = 2
    MinSpeech = 2
    SilenceLimit = 1
    MaxLength = 4
    MaxBlocks = 6
    MaxStarts = 2

INVARIANTS
    SpeechStaysInOrder
    UtterancesAreWhole
    NothingOutlivesClose

PROPERTIES
    WorkersEnd

CHECK_DEADLOCK FALSE
