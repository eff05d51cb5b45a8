------------------------------- MODULE LruCache -------------------------------
(***************************************************************************)
(* What one bucket of the cache of util/ecache promises: entries in the    *)
(* order they were last used, the least recently used one evicted when a   *)
(* new key comes to a full list.  A deleted entry stays, as the next one   *)
(* to go.  With a second level (LRU-2) an entry that is looked up moves    *)
(* from the first list to the second.                                      *)
(***************************************************************************)
EXTENDS Naturals, Sequences

CONSTANTS
    Keys, Values,
    Sizes,          \* possible lengths of the two lists, 0 for no second one
    expiration,     \* how long an entry lives, 0 for ever
    NoValue,
    MaxTime         \* bound on time

VARIABLES
    clock,
    first, second,  \* the two lists, most recently used entry first
    size,           \* the lengths of the two lists
    answer          \* what the last lookup returned

lruVars == <<clock, first, second, size, answer>>

Of(list, k) == SelectSeq(list, LAMBDA x : x.k = k)
Others(list, k) == SelectSeq(list, LAMBDA x : x.k /= k)
Has(list, k) == Of(list, k) /= <<>>

Use(list, cap, x) ==
    LET rest == Others(list, x.k)
    IN  <<x>> \o (IF Len(rest) = cap THEN SubSeq(rest, 1, cap - 1) ELSE rest)

Touch(list, k) == Of(list, k) \o Others(list, k)

Alive(list, k) == Has(list, k) /\ Of(list, k)[1].expireAt > 0

Kill(list, k) ==
    IF Alive(list, k)
    THEN Append(Others(list, k), [k |-> k, v |-> NoValue, expireAt |-> 0])
    ELSE list

\* The answer to a lookup of k in a list.
Hit(list, k) ==
    IF Alive(list, k) /\ (expiration = 0 \/ clock < Of(list, k)[1].expireAt)
    THEN Of(list, k)[1].v
    ELSE NoValue

Put(k, v) ==
    /\ first' = Use(first, size[1], [k |-> k, v |-> v, expireAt |-> clock + expiration])
    /\ UNCHANGED <<clock, second, size, answer>>

\* One list: the entry comes to the front, alive or not.
Get(k) ==
    /\ size[2] = 0
    /\ answer' = Hit(first, k)
    /\ first' = Touch(first, k)
    /\ UNCHANGED <<clock, second, size>>

\* Two lists: an entry of the first moves to the second.
Get2(k) ==
    /\ size[2] > 0
    /\ IF Alive(first, k)
       THEN /\ answer' = Of(first, k)[1].v
            /\ second' = Use(second, size[2], Of(first, k)[1])
            /\ first' = Kill(first, k)
       ELSE /\ answer' = Hit(second, k)
            /\ second' = Touch(second, k)
            /\ UNCHANGED first
    /\ UNCHANGED <<clock, size>>

Del(k) ==
    /\ first' = Kill(first, k)
    /\ second' = Kill(second, k)
    /\ UNCHANGED <<clock, size, answer>>

Tick ==
    /\ clock < MaxTime
    /\ clock' = clock + 1
    /\ UNCHANGED <<first, second, size, answer>>

Init == clock = 1 /\ first = <<>> /\ second = <<>> /\ size \in Sizes /\ answer = NoValue

Next ==
    \/ \E k \in Keys : Get(k) \/ Get2(k) \/ Del(k)
    \/ \E k \in Keys, v \in Values : Put(k, v)
    \/ Tick

Spec == Init /\ [][Next]_lruVars
===============================================================================
