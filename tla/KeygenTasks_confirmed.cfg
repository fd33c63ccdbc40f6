SPECIFICATION Spec
CONSTANTS
    h1 = h1  h2 = h2  t1 = t1
    Handler = {h1}
    Aborter = {a1}
    Task = {t1}
    TaskOf <- OneTaskOf
    Single = {}
    MaxAttempts = 1
    MaxKeys = 1
    NoTask = NoTask  NoSession = NoSession
INVARIANT
    ConfirmedShareKept
