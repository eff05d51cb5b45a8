------------------------------- MODULE MCEcache -------------------------------
(* Small instances of Ecache for TLC.                                        *)
EXTENDS Ecache, TLC

\* Keys and values are told apart only by identity.
EcacheSymmetry == Permutations(Keys) \cup Permutations(Values)

\* One level of three entries; two levels of two entries each.
MCSizes == {<<3, 0>>, <<2, 2>>}
===============================================================================
