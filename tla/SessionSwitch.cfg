SPECIFICATION Spec
CONSTANTS
    Msgs = {m1, r1}
    Relayed = {r1}
    Pollers = {p1, p2}
    Upgraders = {u1, u2}
    POLLING_QUEUE_SIZE = 2
    NoConn = NoConn
SYMMETRY SessionSymmetry
INVARIANTS
    QueueConservation
    StrandedAreLate
    ResponseIsArray
CHECK_DEADLOCK FALSE
