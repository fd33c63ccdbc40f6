SPECIFICATION Spec
CONSTANTS
    h1 = h1  h2 = h2  t1 = t1  t2 = t2  k1 = k1  l1 = l1
    Handler = {h1, h2}
    Pusher = {p}
    Disc = {d}
    Task = {t1}
    Key = {k1}
    Lock = {l1}
    TaskOf <- SameTaskOf
    KeyOf <- OneKeyOf
    LockOf <- OneLockOf
    ModeOf <- EcdsaModeOf
    MaxAttempts = 1  MaxPushes = 1
    NoTask = NoTask  NoKey = NoKey  NoSession = NoSession
SYMMETRY Symmetry
INVARIANTS
    LiveHoldsSlot
    RunningIsRegistered
    AbortReaches
    DisconnectCovers
    AtMostOneGasp
