---------------------------- MODULE MCClientSession ----------------------------
(* Small instances of ClientSession for TLC.                                 *)
EXTENDS ClientSession, TLC

\* Messages of the same kind, polls, and websocket requests are told apart
\* only by identity.
SessionSymmetry ==
    Permutations(Relayed) \cup Permutations(Msgs \ Relayed)
        \cup Permutations(Pollers) \cup Permutations(Upgraders)
===============================================================================
