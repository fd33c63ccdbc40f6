SPECIFICATION LiveSpec
CONSTANTS
    Caller = {u1, u2}
    Config = {a, b}
    WithKey = {a}
    WithPrk = {a, b}
    None = None
    MaxStarts = 2
    MaxEpoch = 2
CHECK_DEADLOCK FALSE
INVARIANTS
    TypeOK
    NoClientLost
    RunningIsReal
    OwnKeystore
PROPERTIES
    StoppedIsClosed
