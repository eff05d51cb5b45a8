------------------------------ MODULE MCNodeLink ------------------------------
(* Small instances of NodeLink for TLC.                                      *)
EXTENDS NodeLink, TLC

\* Callers and Node objects are told apart only by identity.
NodeLinkSymmetry == Permutations(Callers) \cup Permutations(Objs)
===============================================================================
