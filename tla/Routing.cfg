SPECIFICATION Spec
CONSTANTS
    Nodes = {n1, n2}
    Peers <- MCPeers
    Signals = {s1, s2}
    NoNode = NoNode
    NoPeer = NoPeer
    MaxMoves = 3
SYMMETRY RoutingSymmetry
INVARIANTS
    SteadyIsReached
    MissingIsTold
    FilterJustified
CHECK_DEADLOCK FALSE
