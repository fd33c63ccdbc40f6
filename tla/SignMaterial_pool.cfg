SPECIFICATION Spec
CONSTANTS
    Sign = {s1, s2, s3, s4, s5}
    Warm = {w1, w2, w3}
    maxUses = 3
    warmAt = 2
    NoWorker = NoWorker
SYMMETRY Symmetry
INVARIANTS
    UsesBounded
    OneWarmRequest
    
