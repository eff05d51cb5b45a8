SPECIFICATION Spec
CONSTANTS
    Msgs = {m1}
    Relayed = {}
    Pollers = {p1}
    Upgraders = {u1}
    POLLING_QUEUE_SIZE = 2
    NoConn = NoConn
INVARIANT RecoverCatches
CHECK_DEADLOCK FALSE
