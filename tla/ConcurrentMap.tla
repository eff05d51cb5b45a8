----------------------------- MODULE ConcurrentMap -----------------------------
(***************************************************************************)
(* util/fastmap/cmap: the hub's map from peer ids to clients, split into   *)
(* shards with a read-write lock each.  Callers read and write single      *)
(* keys; beside them one walk goes over all the shards, either one shard   *)
(* after the other (Count, IterCb, GetChanByShard) or with a goroutine per *)
(* shard that fills a channel (Iter, IterBuffered, Clear, Keys).           *)
(*                                                                         *)
(* A caller makes one call.  The walk is one call of an operation on the   *)
(* whole map, with the goroutines it starts.                               *)
(***************************************************************************)
EXTENDS Integers, Sequences, FiniteSets, Functions, SequencesExt

CONSTANTS
    Keys, Clients,  \* peer ids, and the clients stored under them
    Callers,        \* each makes one call
    Calls,          \* the calls each can make: operation, key and client
    Walks,          \* the operations on the whole map
    SHARD_COUNT,    \* how many shards there are
    GetShard,       \* the shard of each key, by its hash
    Nil             \* no client

Kinds == {"Set", "SetIfAbsent", "Upsert", "Get", "Remove", "RemoveCb", "Look", "Pop"}

ASSUME CallsAssumption == Calls \in [Callers -> SUBSET (Kinds \X Keys \X Clients)]

ASSUME ShardAssumption ==
    SHARD_COUNT \in Nat \ {0} /\ GetShard \in [Keys -> 1..SHARD_COUNT]

Shards == 1..SHARD_COUNT

VARIABLES
    items,          \* the client under each key; a key's shard is GetShard[k]
    lock,           \* the RWMutex of each shard: a writer is waiting or inside,
                    \* and how many readers are inside
    call,           \* the call of each caller: request and answer
    at,             \* where it is in the code, and what its lookup has found
    walk,           \* the walk: operation, where it is, its shard, its channel's
                    \* capacity and the key Clear is removing
    snap,           \* the goroutine of each shard: where it is, the capacity of
                    \* its channel, and what it has sent
    chan,           \* the channel of each shard
    out,            \* the channel the walk reads
    got, reads,     \* what the walk has read or counted, and in how many reads
    seen,           \* history: the contents of each shard while it was visited
    fresh           \* history: the keys written since the walk began

mapVars == <<items, lock>>
callVars == <<call, at>>
gotVars == <<got, reads>>
walkVars == <<walk, snap, chan, out, gotVars>>
histVars == <<seen, fresh>>
vars == <<mapVars, callVars, walkVars, histVars>>

-------------------------------------------------------------------------------
(* Locks.                                                                    *)

\* Lock announces the writer, which keeps new readers out, ...
Lock(s) ==
    /\ ~lock[s].writer
    /\ lock' = [lock EXCEPT ![s].writer = TRUE]

\* ... and returns when the readers are gone.
Entered(s) == lock[s].writer /\ lock[s].readers = 0

Unlock(s) == lock' = [lock EXCEPT ![s].writer = FALSE]

RLock(s) ==
    /\ ~lock[s].writer
    /\ lock' = [lock EXCEPT ![s].readers = @ + 1]

RUnlock(s) == lock' = [lock EXCEPT ![s].readers = @ - 1]

-------------------------------------------------------------------------------
(* Operations on one key.                                                    *)

ContentOf(map, s) == {<<k, map[k]>> : k \in {j \in Keys : GetShard[j] = s /\ map[j] /= Nil}}

Content(s) == ContentOf(items, s)

\* A goroutine of the walk has yet to lock its shard.
Visiting == walk.pc \in {"visiting", "visited"} \/ \E s \in Shards : snap[s].pc = "spawned"

\* shard.items[key] = v, or delete when v is Nil.
Store(k, v) ==
    /\ items' = [items EXCEPT ![k] = v]
    /\ fresh' = IF walk.pc /= "idle" /\ v /= Nil /\ v /= items[k] THEN fresh \cup {k} ELSE fresh
    /\ seen' = IF Visiting
               THEN [seen EXCEPT ![GetShard[k]] = @ \cup {ContentOf([items EXCEPT ![k] = v],
                                                                   GetShard[k])}]
               ELSE seen

\* What an operation leaves under its key where it finds v.  Upsert stands for a
\* callback that keeps a client that exists, RemoveCb for one that agrees to the
\* removal, and Look for a RemoveCb whose callback does not.
Effect(kind, v, new) ==
    CASE kind = "Set" -> new
      [] kind \in {"SetIfAbsent", "Upsert"} -> IF v = Nil THEN new ELSE v
      [] kind \in {"Remove", "RemoveCb", "Pop"} -> Nil
      [] kind = "Look" -> v

\* What it returns.
Answer(kind, v, new) ==
    CASE kind \in {"Get", "Pop"} -> v
      [] kind = "SetIfAbsent" -> v = Nil
      [] kind = "Upsert" -> Effect(kind, v, new)
      [] kind \in {"RemoveCb", "Look"} -> kind = "RemoveCb"
      [] kind \in {"Set", "Remove"} -> Nil

NoCall == [state |-> "idle", kind |-> Nil, key |-> Nil, new |-> Nil, answer |-> Nil]

ShardOf(c) == GetShard[call[c].key]

Call(c, kind, k, v) ==
    /\ call[c] = NoCall
    /\ call' = [call EXCEPT ![c] = [NoCall EXCEPT !.state = "called", !.kind = kind,
                                                  !.key = k, !.new = v]]
    /\ at' = [at EXCEPT ![c].pc = "called"]
    /\ UNCHANGED <<mapVars, walkVars, histVars>>

\* Mutant: the lookup and the write are under a read lock.
CallLockShared(c) ==
    /\ at[c].pc = "called"
    /\ call[c].kind /= "Get"
    /\ RLock(ShardOf(c))
    /\ at' = [at EXCEPT ![c] = [pc |-> "locked", found |-> items[call[c].key]]]
    /\ UNCHANGED <<items, call, walkVars, histVars>>

\* shard.Lock() and the lookup.
CallLock(c) ==
    /\ at[c].pc = "called"
    /\ call[c].kind /= "Get"
    /\ Lock(ShardOf(c))
    /\ at' = [at EXCEPT ![c].pc = "locking"]
    /\ UNCHANGED <<items, call, walkVars, histVars>>

CallLookup(c) ==
    /\ at[c].pc = "locking"
    /\ Entered(ShardOf(c))
    /\ at' = [at EXCEPT ![c] = [pc |-> "locked", found |-> items[call[c].key]]]
    /\ UNCHANGED <<mapVars, call, walkVars, histVars>>

\* shard.RLock() and the lookup in Get; Has is a Get that drops the client.
CallRead(c) ==
    /\ at[c].pc = "called"
    /\ call[c].kind = "Get"
    /\ RLock(ShardOf(c))
    /\ at' = [at EXCEPT ![c] = [pc |-> "reading", found |-> items[call[c].key]]]
    /\ UNCHANGED <<items, call, walkVars, histVars>>

Return(c) ==
    /\ call' = [call EXCEPT ![c] = [NoCall EXCEPT
                   !.state = "done",
                   !.answer = Answer(call[c].kind, at[c].found, call[c].new)]]
    /\ at' = [at EXCEPT ![c] = [pc |-> "returned", found |-> Nil]]

\* The write, which the lookup has decided, and the unlock.
CallWrite(c) ==
    /\ at[c].pc = "locked"
    /\ IF call[c].kind = "Look" \/ (call[c].kind = "SetIfAbsent" /\ at[c].found /= Nil)
       THEN UNCHANGED <<items, histVars>>
       ELSE Store(call[c].key, Effect(call[c].kind, at[c].found, call[c].new))
    /\ Unlock(ShardOf(c))
    /\ Return(c)
    /\ UNCHANGED walkVars

CallReadEnd(c) ==
    /\ at[c].pc = "reading"
    /\ RUnlock(ShardOf(c))
    /\ Return(c)
    /\ UNCHANGED <<items, walkVars, histVars>>

CallStep(c) == CallLock(c) \/ CallLookup(c) \/ CallWrite(c) \/ CallRead(c) \/ CallReadEnd(c)

-------------------------------------------------------------------------------
(* A walk over the shards, one after the other.                              *)

NoWalk == [of |-> Nil, pc |-> "idle", shard |-> 0, room |-> 0, key |-> Nil]
NoSnap == [pc |-> "none", cap |-> 0, sent |-> {}]

SnapWalks == {"Iter", "IterBuffered", "Clear"}
LockedVisits == {"Count", "IterCb", "GetChanByShard", "Keys"}

Take(tuples) ==
    /\ got' = got \cup tuples
    /\ reads' = reads + Cardinality(tuples)

StartWalk(w) ==
    /\ walk.pc = "idle"
    /\ walk' = [NoWalk EXCEPT !.of = w, !.shard = 1,
                              !.pc = IF w \in SnapWalks THEN "spawning" ELSE "visiting"]
    /\ snap' = [s \in Shards |-> [NoSnap EXCEPT !.pc = IF w \in SnapWalks THEN "spawned" ELSE @]]
    /\ seen' = [s \in Shards |-> {Content(s)}]
    /\ UNCHANGED <<mapVars, callVars, chan, out, gotVars, fresh>>

\* The loop body of Count, CountPerMap, IterCb and Keys' count, and
\* GetChanByShard for the next shard of the sweep: all of a shard under RLock.
VisitShard ==
    /\ walk.pc = "visiting"
    /\ walk.of \in LockedVisits
    /\ RLock(walk.shard)
    /\ Take(Content(walk.shard))
    /\ walk' = [walk EXCEPT !.pc = "visited"]
    /\ UNCHANGED <<items, callVars, snap, chan, out, histVars>>

\* After the last shard Keys makes its channel for what it has counted and
\* starts over with a goroutine per shard; the others are done.
LastVisit ==
    IF walk.of = "Keys"
    THEN /\ walk' = [walk EXCEPT !.pc = "reading", !.room = reads]
         /\ snap' = [s \in Shards |-> [NoSnap EXCEPT !.pc = "spawned"]]
         /\ seen' = [s \in Shards |-> {Content(s)}]
         /\ got' = {} /\ reads' = 0
    ELSE /\ walk' = [walk EXCEPT !.pc = "ended"]
         /\ UNCHANGED <<snap, seen, gotVars>>

NextVisit ==
    /\ walk.pc = "visited"
    /\ RUnlock(walk.shard)
    /\ IF walk.shard = SHARD_COUNT
       THEN LastVisit
       ELSE /\ walk' = [walk EXCEPT !.pc = "visiting", !.shard = @ + 1]
            /\ UNCHANGED <<snap, seen, gotVars>>
    /\ UNCHANGED <<items, callVars, chan, out, fresh>>

\* CountNoLock and CountPerMapNoLock read the length under no lock.
PeekShard ==
    /\ walk.pc = "visiting"
    /\ walk.of = "CountNoLock"
    /\ Take(Content(walk.shard))
    /\ walk' = IF walk.shard = SHARD_COUNT THEN [walk EXCEPT !.pc = "ended"]
               ELSE [walk EXCEPT !.shard = @ + 1]
    /\ UNCHANGED <<mapVars, callVars, snap, chan, out, histVars>>

-------------------------------------------------------------------------------
(* snapshot and fanIn.                                                       *)

\* Mutant: a shard is copied without its lock.
SnapLockFree(s) ==
    /\ snap[s].pc = "spawned"
    /\ snap' = [snap EXCEPT ![s].pc = "filling",
                            ![s].cap = IF walk.of = "Keys" THEN 0 ELSE Cardinality(Content(s))]
    /\ UNCHANGED <<mapVars, callVars, walk, chan, out, gotVars, histVars>>

\* A goroutine of snapshot, or of Keys, locks its shard; snapshot makes the
\* shard's channel as long as the shard.
SnapLock(s) ==
    /\ snap[s].pc = "spawned"
    /\ RLock(s)
    /\ snap' = [snap EXCEPT ![s].pc = "filling",
                            ![s].cap = IF walk.of = "Keys" THEN 0 ELSE Cardinality(Content(s))]
    /\ UNCHANGED <<items, callVars, walk, chan, out, gotVars, histVars>>

\* chans[index] <- Tuple{key, val}, with the lock held.
SnapFill(s) ==
    /\ snap[s].pc = "filling"
    /\ walk.of /= "Keys"
    /\ Cardinality(chan[s]) < snap[s].cap
    /\ \E t \in Content(s) \ snap[s].sent :
          /\ chan' = [chan EXCEPT ![s] = @ \cup {t}]
          /\ snap' = [snap EXCEPT ![s].sent = @ \cup {t}]
    /\ UNCHANGED <<mapVars, callVars, walk, out, gotVars, histVars>>

\* A send on the channel the walk reads; without a buffer it meets the reader.
Send(t) ==
    \/ /\ Cardinality(out) < walk.room
       /\ out' = out \cup {t}
       /\ UNCHANGED gotVars
    \/ /\ walk.room = 0 /\ walk.pc = "reading"
       /\ Take({t})
       /\ UNCHANGED out

\* ch <- key in Keys, with the lock held.
KeysFill(s) ==
    /\ snap[s].pc = "filling"
    /\ walk.of = "Keys"
    /\ \E t \in Content(s) \ snap[s].sent :
          /\ Send(t)
          /\ snap' = [snap EXCEPT ![s].sent = @ \cup {t}]
    /\ UNCHANGED <<mapVars, callVars, walk, chan, histVars>>

\* Mutant: the lock is not given back.
SnapUnlockForgotten(s) ==
    /\ snap[s].pc = "filling"
    /\ Content(s) \subseteq snap[s].sent
    /\ snap' = [snap EXCEPT ![s].pc = "closed"]
    /\ UNCHANGED <<mapVars, callVars, walk, chan, out, gotVars, histVars>>

\* RUnlock and close.
SnapUnlock(s) ==
    /\ snap[s].pc = "filling"
    /\ Content(s) \subseteq snap[s].sent
    /\ RUnlock(s)
    /\ snap' = [snap EXCEPT ![s].pc = "closed"]
    /\ UNCHANGED <<items, callVars, walk, chan, out, gotVars, histVars>>

\* wg.Wait returns once every goroutine has locked its shard and made its
\* channel; Iter and IterBuffered then make theirs and start fanIn.
SnapshotReturns ==
    /\ walk.pc = "spawning"
    /\ \A s \in Shards : snap[s].pc /= "spawned"
    /\ walk' = [walk EXCEPT !.pc = "reading",
                            !.room = IF walk.of = "Iter" THEN 0
                                     ELSE SumFunction([s \in Shards |-> snap[s].cap])]
    /\ UNCHANGED <<mapVars, callVars, snap, chan, out, gotVars, histVars>>

\* for t := range ch { out <- t }: what the goroutine has in its hand in between
\* counts as still in the shard's channel.
FanIn(s) ==
    /\ walk.pc /= "spawning"
    /\ \E t \in chan[s] :
          /\ Send(t)
          /\ chan' = [chan EXCEPT ![s] = @ \ {t}]
    /\ UNCHANGED <<mapVars, callVars, walk, snap, histVars>>

-------------------------------------------------------------------------------
(* The reader of the channel: Range, Items, MarshalJSON, Clear and Keys.     *)

Receive ==
    /\ walk.pc = "reading"
    /\ \E t \in out :
          /\ out' = out \ {t}
          /\ Take({t})
          /\ walk' = IF walk.of = "Clear" THEN [walk EXCEPT !.pc = "removing", !.key = t[1]]
                     ELSE walk
    /\ UNCHANGED <<mapVars, callVars, snap, chan, histVars>>

\* m.Remove(item.Key) in Clear.
ClearLock ==
    /\ walk.pc = "removing"
    /\ Lock(GetShard[walk.key])
    /\ walk' = [walk EXCEPT !.pc = "locking"]
    /\ UNCHANGED <<items, callVars, snap, chan, out, gotVars, histVars>>

ClearRemove ==
    /\ walk.pc = "locking"
    /\ Entered(GetShard[walk.key])
    /\ Store(walk.key, Nil)
    /\ Unlock(GetShard[walk.key])
    /\ walk' = [walk EXCEPT !.pc = "reading", !.key = Nil]
    /\ UNCHANGED <<callVars, snap, chan, out, gotVars>>

\* The callback of Range returns false, or the user of Iter leaves its loop.
Leave ==
    /\ walk.pc = "reading"
    /\ walk.of \in {"Iter", "IterBuffered"}
    /\ walk' = [walk EXCEPT !.pc = "left"]
    /\ UNCHANGED <<mapVars, callVars, snap, chan, out, gotVars, histVars>>

\* Every goroutine of the walk has returned.
GoroutinesGone ==
    \A s \in Shards : snap[s].pc \in {"none", "closed"} /\ chan[s] = {}

\* Mutant: the channel is closed before the goroutines are done with it.
EndWalkEager ==
    /\ walk.pc = "reading"
    /\ out = {}
    /\ walk' = [walk EXCEPT !.pc = "ended"]
    /\ UNCHANGED <<mapVars, callVars, snap, chan, out, gotVars, histVars>>

\* The channel is closed and empty.
EndWalk ==
    /\ walk.pc = "reading"
    /\ out = {}
    /\ GoroutinesGone
    /\ walk' = [walk EXCEPT !.pc = "ended"]
    /\ UNCHANGED <<mapVars, callVars, snap, chan, out, gotVars, histVars>>

-------------------------------------------------------------------------------
\* A map that earlier calls have left in any state, and nobody inside it.
Init ==
    /\ items \in [Keys -> Clients \cup {Nil}]
    /\ lock = [s \in Shards |-> [writer |-> FALSE, readers |-> 0]]
    /\ call = [c \in Callers |-> NoCall]
    /\ at = [c \in Callers |-> [pc |-> "idle", found |-> Nil]]
    /\ walk = NoWalk
    /\ snap = [s \in Shards |-> NoSnap]
    /\ chan = [s \in Shards |-> {}]
    /\ out = {} /\ got = {} /\ reads = 0
    /\ seen = [s \in Shards |-> {}]
    /\ fresh = {}

WalkStep ==
    \/ VisitShard \/ NextVisit \/ PeekShard
    \/ SnapshotReturns \/ Receive \/ ClearLock \/ ClearRemove \/ EndWalk

ShardStep(s) ==
    SnapLock(s) \/ SnapFill(s) \/ KeysFill(s) \/ SnapUnlock(s) \/ FanIn(s)

Step ==
    \/ \E c \in Callers : CallStep(c)
    \/ WalkStep
    \/ \E s \in Shards : ShardStep(s)

Next ==
    \/ \E c \in Callers : \E a \in Calls[c] : Call(c, a[1], a[2], a[3])
    \/ \E w \in Walks : StartWalk(w)
    \/ Leave
    \/ Step

Spec == Init /\ [][Next]_vars

\* As long as a goroutine inside the map can run, one of them does.  Nobody has
\* to call anything or to leave a loop.
Fairness == WF_vars(Step)

FairSpec == Spec /\ Fairness

-------------------------------------------------------------------------------
(* Properties.                                                               *)

Atomic == INSTANCE ClientMap WITH map <- items

\* The sharded map with its locks is one atomic map: every operation on a key
\* takes effect, and decides what it returns, at one moment during its call;
\* a Clear beside it removes one key at a time.
ImplementsClientMap == Atomic!Spec

\* What a walk returns is, shard by shard, what the shard held at one moment of
\* the walk, each client once, however many callers write meanwhile: the comments
\* on IterCb ("consistent view of a shard, but not across the shards") and on
\* snapshot, for every way to go over the map.
WalkIsConsistent ==
    walk.pc = "ended" =>
        /\ \A s \in Shards : {t \in got : GetShard[t[1]] = s} \in seen[s]
        /\ Cardinality(got) = reads

\* Clear leaves nothing behind that was there when it was called: a client still
\* in the map when it returns was stored under its key in the meantime.
ClearLeavesOnlyNew ==
    (walk.pc = "ended" /\ walk.of = "Clear") => \A k \in Keys : items[k] = Nil \/ k \in fresh

\* No call is under way and no goroutine of the walk is left, except those of an
\* Iter whose user has gone, which hold no lock.
Settled ==
    /\ \A c \in Callers : call[c].state /= "called"
    /\ walk.pc \in {"idle", "ended", "left"}
    /\ IF walk.pc = "left" /\ walk.of = "Iter"
       THEN \A s \in Shards : snap[s].pc = "closed"
       ELSE GoroutinesGone

\* Nothing hangs in the map.  A walk comes to an end and so do its goroutines,
\* with the locks they hold, even when its user leaves the loop early; only the
\* goroutines of an Iter that is left stay, blocked on its channel, and they hold
\* no lock.  A call on a key returns: no walk, whether it is read to the end or
\* left, keeps a writer out of a shard for ever.
WalksAndCallsEnd ==
    ~Settled ~> Settled
===============================================================================
