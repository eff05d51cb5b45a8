SPECIFICATION FairSpec
CONSTANTS
    k1 = k1
    k2 = k2
    k3 = k3
    c1 = c1
    c2 = c2
    x = x
    Keys = {k1, k2, k3}
    Clients = {x}
    Callers = {c1, c2}
    Calls <- MCCalls
    Walks = {"Count", "CountNoLock", "Keys", "Iter", "IterBuffered", "Clear"}
    SHARD_COUNT = 2
    GetShard <- MCGetShard
    Nil = Nil
INVARIANTS
    WalkIsConsistent
    ClearLeavesOnlyNew
PROPERTIES
    ImplementsClientMap
    WalksAndCallsEnd
CHECK_DEADLOCK FALSE
