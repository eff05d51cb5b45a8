--------------------------- MODULE MCPeerDirectory ---------------------------
(* Small instances of PeerDirectory for TLC.                                 *)
EXTENDS PeerDirectory, TLC

\* Nodes, peers and sessions are told apart only by identity.
DirectorySymmetry ==
    Permutations(Nodes) \cup Permutations(Peers) \cup Permutations(Sessions)
===============================================================================
