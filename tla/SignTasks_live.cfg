SPECIFICATION LiveSpec
CONSTANTS
    h1 = h1  h2 = h2  t1 = t1  t2 = t2  k1 = k1  l1 = l1
    Handler = {h1, h2}
    Pusher = {p}
    Disc = {}
    Task = {t1, t2}
    Key = {k1}
    Lock = {l1}
    TaskOf <- PairTaskOf
    KeyOf <- OneKeyOf
    LockOf <- OneLockOf
    ModeOf <- WarmModeOf
    MaxAttempts = 2  MaxPushes = 1
    NoTask = NoTask  NoKey = NoKey  NoSession = NoSession
INVARIANTS
    TypeOK
    RegistryConsistent
    WarmRegistryLive
PROPERTIES
    SlotReleased
