SPECIFICATION Spec
CONSTANTS
    Session = {s1, s2}
    Other = {o1}
    Msg = {m1, own}
    Own = {own}
    MaxCopies = 2
    MaxPushes = 3
    maxEarly = 3
    RecvBuf = 2
    NoSession = NoSession
    NoMsg = NoMsg
SYMMETRY Symmetry
INVARIANTS
    TypeOK
    HandedOnce
    Conserved
    ReplayNeverWaits
