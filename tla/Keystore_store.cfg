SPECIFICATION Spec
CONSTANTS
    Key = {k1, k2}
    Task = {t1, t2}
    Pass = {p1, p2}
    NoPass = NoPass
    NoShare = NoShare
    NoPath = NoPath
    MaxStops = 1
CHECK_DEADLOCK FALSE
INVARIANTS
    TypeOK
    MigratedAll
PROPERTIES
    ImplementsShareStore
