SPECIFICATION FairSpec
CONSTANTS
    Msgs = {m1, m2, m3, r1}
    Relayed = {r1}
    Pollers = {p1}
    Upgraders = {}
    POLLING_QUEUE_SIZE = 2
    NoConn = NoConn
INVARIANTS
    PollNeverStuck
    PanicNeedsSwitch
PROPERTIES
    ImplementsPipe
    SenderReturns
CHECK_DEADLOCK FALSE
