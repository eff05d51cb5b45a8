---------------------------- MODULE MCSignalRouting ----------------------------
(* A small instance of SignalRouting for TLC.                                *)
EXTENDS SignalRouting, TLC

\* Ids of one length.
MCPeers == {<<1>>, <<2>>}

\* Nodes and messages are told apart only by identity.
RoutingSymmetry == Permutations(Nodes) \cup Permutations(Signals)
================================================================================
