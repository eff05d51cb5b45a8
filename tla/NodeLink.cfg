SPECIFICATION Spec
CONSTANTS
    Callers = {c1, c2}
    Objs = {o1, o2}
    NoObj = NoObj
    PING_INTERVAL = 2
    PING_MAX_RETRYS = 1
    KEEP_LIVE_INTERVAL = 2
    CLIENT_ALIVE_EXPIRE_DUTATION = 5
    MQ_MAX_LEN = 1
    MQ_LEN_AFTER_TRIM = 1
    ChannelBufferSize = 1
    MaxFailures = 1
    MaxCrashes = 1
SYMMETRY NodeLinkSymmetry
INVARIANTS
    LiveNodeInHub
    KeyOutlivesMiss
    CrashNoticed
    QueueBounded
