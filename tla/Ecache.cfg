SPECIFICATION Spec
CONSTANTS
    Keys = {k1, k2, k3, k4}
    Values = {v1, v2}
    Sizes <- MCSizes
    expiration = 1
    MaxTime = 2
    NoKey = NoKey
    NoValue = NoValue
SYMMETRY EcacheSymmetry
INVARIANTS
    HitIsFresh
    LinksIntact
PROPERTY
    ImplementsLru
CHECK_DEADLOCK FALSE
