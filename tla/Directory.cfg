SPECIFICATION Spec
CONSTANTS
    Nodes = {n1, n2}
    Peers = {p1, p2}
    Sessions = {s1, s2, s3}
    Sweepers = {k1}
    MaxFailures = 1
    NoNode = NoNode
    NoPeer = NoPeer
    NoSession = NoSession
SYMMETRY DirectorySymmetry
INVARIANTS
    DirectoryAgrees
    NoOrphan
    PoolApart
CHECK_DEADLOCK FALSE
