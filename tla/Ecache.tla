-------------------------------- MODULE Ecache --------------------------------
(***************************************************************************)
(* util/ecache/ecache.go: one bucket of the cache behind the filter of the *)
(* signal handlers.  A bucket is one or two preallocated LRU caches (the   *)
(* second in LRU-2 mode), each an array of nodes threaded by a doubly      *)
(* linked list of indices; every call locks the bucket, so a call is one   *)
(* step.  Buckets share nothing, and Keys are the keys of this one.        *)
(***************************************************************************)
EXTENDS Integers, Sequences, Functions

CONSTANTS
    Keys, Values,
    Sizes,          \* the lengths of the two levels to consider, as pairs:
                    \* capPerBkt, and 0 or what LRU2 was called with
    expiration,     \* how long an entry lives, 0 for ever
    NoKey, NoValue, \* the zero values of a node
    MaxTime         \* bound on time

ASSUME SizesAssumption == Sizes \subseteq (Nat \ {0}) \X Nat
ASSUME ZeroAssumption == NoKey \notin Keys /\ NoValue \notin Values
ASSUME TimeAssumption == expiration \in Nat /\ MaxTime \in Nat

VARIABLES
    clock,          \* now(), coarse and never zero
    level0, level1, \* insts[idx]: records of dlnk, m, hmap and last
    answer,         \* what the last get returned
    latest          \* history, with one level: the value last put under each
                    \* key and not deleted since, and when it expires

vars == <<clock, level0, level1, answer, latest>>

-------------------------------------------------------------------------------
(* The cache of one level.  dlnk[i][p] and dlnk[i][n] are the neighbours of  *)
(* node i towards the head and towards the tail; dlnk[0] is <tail, head>.    *)

p == 0
n == 1

Cap(c) == Len(c.m)

create(cap) ==
    [dlnk |-> [i \in 0..cap |-> [d \in {p, n} |-> 0]],
     m    |-> [i \in 1..cap |-> [k |-> NoKey, v |-> NoValue, expireAt |-> 0]],
     hmap |-> [k \in {} |-> 0],
     last |-> 0]

\* Mutant: the neighbour on the far side keeps its link to the moved node.
ajustOneSided(c, idx, f, t) ==
    LET d == c.dlnk
    IN  IF d[idx][f] = 0
        THEN c
        ELSE [c EXCEPT !.dlnk[d[idx][f]][t] = d[idx][t],
                       !.dlnk[idx][f] = 0,
                       !.dlnk[idx][t] = d[0][t],
                       !.dlnk[d[0][t]][f] = idx,
                       !.dlnk[0][t] = idx]

\* Move node idx to the head (f = p, t = n) or to the tail (f = n, t = p).  The
\* assignments of the tuple happen from left to right with the old operands.
ajust(c, idx, f, t) ==
    LET d == c.dlnk
    IN  IF d[idx][f] = 0
        THEN c
        ELSE [c EXCEPT !.dlnk[d[idx][t]][f] = d[idx][f],
                       !.dlnk[d[idx][f]][t] = d[idx][t],
                       !.dlnk[idx][f] = 0,
                       !.dlnk[idx][t] = d[0][t],
                       !.dlnk[d[0][t]][f] = idx,
                       !.dlnk[0][t] = idx]

\* hmap with key old forgotten and key k at x.
Rehash(hmap, old, k, x) ==
    [key \in (DOMAIN hmap \ {old}) \cup {k} |-> IF key = k THEN x ELSE hmap[key]]

\* All nodes are in use.
IsFull(c) == c.last = Cap(c)

put(c, k, v, expireAt) ==
    LET node == [k |-> k, v |-> v, expireAt |-> expireAt]
        tail == c.dlnk[0][p]
        head == c.dlnk[0][n]
        new  == c.last + 1
    IN  IF k \in DOMAIN c.hmap
        THEN ajust([c EXCEPT !.m[c.hmap[k]] = node], c.hmap[k], p, n)
        ELSE IF IsFull(c)
        THEN ajust([c EXCEPT !.m[tail] = node,
                             !.hmap = Rehash(@, c.m[tail].k, k, tail)], tail, p, n)
        ELSE [c EXCEPT !.last = new,
                       !.dlnk[IF DOMAIN c.hmap = {} THEN 0 ELSE head][p] = new,
                       !.m[new] = node,
                       !.dlnk[new] = [d \in {p, n} |-> IF d = p THEN 0 ELSE head],
                       !.hmap = Rehash(@, NoKey, k, new),
                       !.dlnk[0][n] = new]

get(c, k) == IF k \in DOMAIN c.hmap THEN ajust(c, c.hmap[k], p, n) ELSE c

\* del finds only entries that are not marked as deleted.
Finds(c, k) == k \in DOMAIN c.hmap /\ c.m[c.hmap[k]].expireAt > 0

\* Mutant: a deleted entry stays where it is.
delNoSink(c, k) ==
    IF Finds(c, k) THEN [c EXCEPT !.m[c.hmap[k]].expireAt = 0] ELSE c

del(c, k) ==
    IF Finds(c, k)
    THEN ajust([c EXCEPT !.m[c.hmap[k]].expireAt = 0], c.hmap[k], n, p)
    ELSE c

\* Mutant: the expiry is not looked at.
_getExpired(c, k) ==
    IF Finds(c, k) THEN c.m[c.hmap[k]].v ELSE NoValue

\* What _get answers.
_get(c, k) ==
    IF Finds(c, k) /\ (expiration <= 0 \/ clock < c.m[c.hmap[k]].expireAt)
    THEN c.m[c.hmap[k]].v
    ELSE NoValue

\* The nodes in the order walk follows them, deleted ones included.
walk(c) ==
    LET at[i \in 1..c.last] == IF i = 1 THEN c.dlnk[0][n] ELSE c.dlnk[at[i - 1]][n]
    IN  [i \in 1..c.last |-> at[i]]

-------------------------------------------------------------------------------
(* The bucket.                                                               *)

\* insts[idx][1] is there: LRU2 was called when the cache was made.
Lru2 == Cap(level1) > 0

Remember(k, v, until) ==
    latest' = IF Lru2 THEN latest ELSE [latest EXCEPT ![k] = [v |-> v, until |-> until]]

Put(k, v) ==
    /\ level0' = put(level0, k, v, clock + expiration)
    /\ Remember(k, v, clock + expiration)
    /\ UNCHANGED <<clock, level1, answer>>

Get(k) ==
    /\ ~Lru2
    /\ answer' = _get(level0, k)
    /\ level0' = get(level0, k)
    /\ UNCHANGED <<clock, level1, latest>>

\* In LRU-2 mode an entry found by del moves to the second level.
Get2(k) ==
    /\ Lru2
    /\ IF Finds(level0, k)
       THEN LET node == level0.m[level0.hmap[k]]
            IN  /\ answer' = node.v
                /\ level0' = del(level0, k)
                /\ level1' = put(level1, k, node.v, node.expireAt)
       ELSE /\ answer' = _get(level1, k)
            /\ level1' = get(level1, k)
            /\ UNCHANGED level0
    /\ UNCHANGED <<clock, latest>>

\* Del marks the entry in both levels and releases the value of the one that
\* was added later.
Del(k) ==
    LET in0 == Finds(level0, k)
        in1 == Lru2 /\ Finds(level1, k)
        later == /\ in1
                 /\ in0 => level0.m[level0.hmap[k]].expireAt < level1.m[level1.hmap[k]].expireAt
        release(c) == [c EXCEPT !.m[c.hmap[k]].v = NoValue]
    IN  /\ level0' = IF in0 /\ ~later THEN release(del(level0, k)) ELSE del(level0, k)
        /\ level1' = IF ~in1 THEN level1
                     ELSE IF later THEN release(del(level1, k)) ELSE del(level1, k)
        /\ Remember(k, NoValue, 0)
        /\ UNCHANGED <<clock, answer>>

\* The goroutine that advances the clock.
Tick ==
    /\ clock < MaxTime
    /\ clock' = clock + 1
    /\ UNCHANGED <<level0, level1, answer, latest>>

Init ==
    /\ clock = 1
    /\ \E size \in Sizes : level0 = create(size[1]) /\ level1 = create(size[2])
    /\ answer = NoValue
    /\ latest = [k \in Keys |-> [v |-> NoValue, until |-> 0]]

Next ==
    \/ \E k \in Keys : Get(k) \/ Get2(k) \/ Del(k)
    \/ \E k \in Keys, v \in Values : Put(k, v)
    \/ Tick

Spec == Init /\ [][Next]_vars

-------------------------------------------------------------------------------
(* Properties.                                                               *)

CacheType(c) ==
    /\ c.dlnk \in [0..Cap(c) -> [{p, n} -> 0..Cap(c)]]
    /\ c.m \in [1..Cap(c) -> [k : Keys \cup {NoKey}, v : Values \cup {NoValue}, expireAt : Nat]]
    /\ DOMAIN c.hmap \subseteq Keys
    /\ \A k \in DOMAIN c.hmap : c.hmap[k] \in 1..c.last
    /\ c.last \in 0..Cap(c)

\* A level has its type, and the links of dlnk form one list through all nodes
\* in use: following n from the head meets each once, p leads back, and dlnk[0]
\* knows both ends; and hmap finds each node by its key.
WellLinked(c) ==
    LET order == walk(c)
    IN  /\ CacheType(c)
        /\ Range(order) = 1..c.last
        /\ \A i \in 1..c.last : c.dlnk[order[i]][p] = IF i = 1 THEN 0 ELSE order[i - 1]
        /\ c.last > 0 => c.dlnk[0][p] = order[c.last] /\ c.dlnk[order[c.last]][n] = 0
        /\ DOMAIN c.hmap = {c.m[i].k : i \in 1..c.last}
        /\ \A k \in DOMAIN c.hmap : c.m[c.hmap[k]].k = k

\* The index surgery of put, ajust and del keeps both levels well linked, for
\* any sequence of calls.
LinksIntact == WellLinked(level0) /\ WellLinked(level1)

\* Without LRU-2 a hit is never stale: it is the value last put under the key,
\* not deleted since and not expired.
HitIsFresh ==
    \A k \in Keys : (~Lru2 /\ _get(level0, k) /= NoValue) =>
        /\ _get(level0, k) = latest[k].v
        /\ expiration > 0 => clock < latest[k].until

\* The entries of a level as a list; the value of a deleted one is no matter.
Entries(c) ==
    [i \in 1..c.last |->
        LET node == c.m[walk(c)[i]]
        IN  [node EXCEPT !.v = IF node.expireAt > 0 THEN @ ELSE NoValue]]

Lru == INSTANCE LruCache WITH first <- Entries(level0), second <- Entries(level1),
                                size <- <<Cap(level0), Cap(level1)>>

\* The linked arrays implement the lists of LruCache: eviction takes the least
\* recently used entry, in one level and in two.
ImplementsLru == Lru!Spec
===============================================================================
