---------------------------- MODULE MCConcurrentMap ----------------------------
(* A small instance of ConcurrentMap for TLC.                                *)
EXTENDS ConcurrentMap

CONSTANTS k1, k2, k3, c1, c2, x

\* Two keys share a shard.
MCGetShard == (k1 :> 1) @@ (k2 :> 1) @@ (k3 :> 2)
\* Every operation, beside a write to the same key or to one in its shard.
MCCalls == (c1 :> (Kinds \ {"Remove"}) \X {k1} \X {x})
        @@ (c2 :> {<<"SetIfAbsent", k1, x>>, <<"Remove", k2, x>>})
===============================================================================
