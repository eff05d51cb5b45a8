SPECIFICATION AdmissionSpec
CONSTANTS
    capacity = 3
    quantum = 2
    fillInterval = 3
    Counts = {0, 1, 4}
    MaxWaits = {0, 3, 9}
    MaxTime = 9
    MaxGranted = 7
    MaxJoins = 7
INVARIANTS
    RateBound
    WaitIsExact
    JoinsWithinRate
    NilNeedsReload
