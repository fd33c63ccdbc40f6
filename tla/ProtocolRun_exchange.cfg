SPECIFICATION LiveSpec
CONSTANTS
    Node = {n1, n2, n3}
    Rounds = 2
    InboxPendingCap = 2
    MaxFaults = 1
CHECK_DEADLOCK FALSE
INVARIANTS
    TypeOK
    NothingLost
    SavedMeansAll
PROPERTIES
    AllFinish
    RunEnds
