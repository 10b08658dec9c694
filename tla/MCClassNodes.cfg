SPECIFICATION FairSpec

CONSTANTS
    Space = " "
    Alnum = {"a", "b"}
    Other = {"k", "l"}
    Dictionary <- MCDictionary
    MaxText = 3
    MaxRequests = 3
    MaxRuns = 2

INVARIANTS
    SentClassesAreMentioned

PROPERTIES
    NewestClassesWin
    AnsweredClassesTakeEffect

CHECK_DEADLOCK FALSE
