SPECIFICATION LiveSpec
CONSTANTS
    h1 = h1  h2 = h2  t1 = t1
    Handler = {h1, h2}
    Aborter = {a1}
    Task = {t1}
    TaskOf <- OneTaskOf
    Single = {h2}
    MaxAttempts = 2
    MaxKeys = 1
    NoTask = NoTask  NoSession = NoSession
INVARIANTS
    TypeOK
    OneRunPerTask
    AbortReaches
    CancelledRunCleansUp
    RunHasKeys
    TempKeysCleared
PROPERTIES
    TaskEnds
