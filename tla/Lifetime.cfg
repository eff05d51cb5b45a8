SPECIFICATION Spec
CONSTANTS
    WS_EXPIRE_LIMIT = 6
    POLLING_EXPIRE_LIMIT = 2
    CHECK_CLIENT_INTERVAL = 3
    PEER_EXPIRE_DUTATION = 5
    LifeWindow = 5
    CleanWindow = 3
    PollTimeout = 1
INVARIANTS
    SilentIsSwept
    WaitingPollIsKept
    
    StaleIsBounded
