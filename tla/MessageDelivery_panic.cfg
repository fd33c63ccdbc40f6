SPECIFICATION Spec
CONSTANTS
    Session = {s1}
    Other = {o1}
    Msg = {m1, m2}
    Own = {}
    MaxCopies = 1
    MaxPushes = 2
    maxEarly = 2
    RecvBuf = 2
    NoSession = NoSession
    NoMsg = NoMsg
INVARIANTS NoPanic
