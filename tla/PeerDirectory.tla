----------------------------- MODULE PeerDirectory -----------------------------
(***************************************************************************)
(* Where a peer is: the Clients map of every node's hub (hub/hub.go) and   *)
(* the one Redis key per peer id that tells the other nodes which node has *)
(* it (redis/redis.go).  DoRegister stores the client and then sets the    *)
(* key; DoUnregister looks the id up, removes it and then deletes the key, *)
(* whatever address the key holds.  Each of these is a step of its own, in *)
(* the goroutine of a session or of the sweep over expired clients.  Who   *)
(* is told that it removed the id closes the Client object it holds, which *)
(* puts the object back into the pool (client/client.go) it came from.     *)
(*                                                                         *)
(* A session is one connection of a peer to a node, from the DoRegister of *)
(* its request to the DoUnregister of its end.  Redis calls can fail, with *)
(* or without effect; a failed SET or DEL opens the breaker of the node    *)
(* (takeABreak), and while it is open SET and DEL are skipped.  A Client   *)
(* object is named after the session that allocated it.                    *)
(***************************************************************************)
EXTENDS Naturals

CONSTANTS
    Nodes,          \* the addresses of the signalling nodes
    Peers,          \* peer ids
    Sessions,       \* connections, over all nodes
    Sweepers,       \* runs of checkConns, or of a relay that failed to send
    MaxFailures,    \* bound on failing Redis calls
    NoPeer,         \* the peer of a process that has not started
    NoNode,         \* a Redis key that is not there
    NoSession       \* an id that is not in a Clients map

ASSUME NodesAssumption == NoNode \notin Nodes
ASSUME SessionsAssumption == NoSession \notin Sessions
ASSUME FailuresAssumption == MaxFailures \in Nat

VARIABLES
    clients,        \* Clients of every hub: the Client object under an id
    pool,           \* clientPool: how often each object is in it
    PeerId,         \* the PeerId of each object
    record,         \* the Redis key of every peer id
    isAlive,        \* redis.IsAlive of every node
    sleepers,       \* goroutines of takeABreak that will set it again
    failures,       \* how many Redis calls failed
    proc,           \* the sessions and the sweepers: pc, node, peer and Client
    unsaved,        \* history: peers with a failed or skipped SET or DEL
    lapsed,         \* history: peers whose key ran into its expiry
    roamed,         \* history: peers with sessions on two nodes at once
    collided,       \* history: peers with two sessions on one node at once,
                    \* or with a sweep that overlapped a new session
    shared,         \* history: peers that had a Client object in common
    mixed           \* history: somebody removed an id from the map that was not,
                    \* or no longer, mapped to the object they will close

redisVars == <<record, isAlive, sleepers, failures, unsaved>>
poolVars == <<pool, PeerId>>
meetVars == <<roamed, collided, shared>>
histVars == <<meetVars, mixed>>
vars == <<clients, poolVars, redisVars, proc, lapsed, histVars>>

Procs == Sessions \cup Sweepers

Busy(c) == proc[c].pc \notin {"idle", "done"}

-------------------------------------------------------------------------------
(* Redis, and the breaker.                                                   *)

\* A SET or DEL by node n that leaves value v in the key of peer p: it succeeds,
\* or fails with or without effect and opens the breaker, or is skipped because
\* the breaker is open.
RedisCall(n, p, v) ==
    \/ /\ isAlive[n]
       /\ record' = [record EXCEPT ![p] = v]
       /\ UNCHANGED <<isAlive, sleepers, failures, unsaved>>
    \/ /\ isAlive[n]
       /\ failures < MaxFailures
       /\ failures' = failures + 1
       /\ record' \in {record, [record EXCEPT ![p] = v]}
       /\ isAlive' = [isAlive EXCEPT ![n] = FALSE]
       /\ sleepers' = [sleepers EXCEPT ![n] = @ + 1]
       /\ unsaved' = unsaved \cup {p}
    \/ /\ ~isAlive[n]
       /\ unsaved' = unsaved \cup {p}
       /\ UNCHANGED <<record, isAlive, sleepers, failures>>

\* A goroutine of takeABreak has slept its two seconds.
EndBreak(n) ==
    /\ sleepers[n] > 0
    /\ sleepers' = [sleepers EXCEPT ![n] = @ - 1]
    /\ isAlive' = [isAlive EXCEPT ![n] = TRUE]
    /\ UNCHANGED <<clients, poolVars, record, failures, unsaved, proc, lapsed, histVars>>

\* The key of p is gone after PEER_EXPIRE_DUTATION without a heartbeat.
Lapse(p) ==
    /\ record[p] /= NoNode
    /\ record' = [record EXCEPT ![p] = NoNode]
    /\ lapsed' = lapsed \cup {p}
    /\ UNCHANGED <<clients, poolVars, isAlive, sleepers, failures, unsaved, proc, histVars>>

-------------------------------------------------------------------------------
(* DoRegister.                                                               *)

\* The processes at work on p at node n.
At(n, p) == {c \in Procs : Busy(c) /\ proc[c].node = n /\ proc[c].peer = p}

\* The objects clientPool.Get can return to session s at node n: what is in the
\* pool, or a new one; sync.Pool may do the latter at any time.
Gettable(s, n) == {s} \cup {o \in Sessions : pool[o] > 0 /\ proc[o].node = n}

\* The peers object o is still in use for.
UsersOf(o) ==
    {proc[c].peer : c \in {c \in Procs : Busy(c) /\ proc[c].cli = o}}
        \cup {p \in Peers : \E n \in Nodes : clients[n][p] = o}

\* A request of a peer whose id its node's hub does not have, up to the return of
\* NewPollingPeerClient or NewWebsocketPeerClient.
Request(s, n, p) ==
    /\ proc[s].pc = "idle"
    /\ clients[n][p] = NoSession
    /\ \E o \in Gettable(s, n) :
          /\ proc' = [proc EXCEPT ![s] = [pc |-> "registering", node |-> n, peer |-> p, cli |-> o]]
          /\ pool' = [pool EXCEPT ![o] = IF o = s THEN @ ELSE @ - 1]
          /\ PeerId' = [PeerId EXCEPT ![o] = p]
          /\ shared' = IF UsersOf(o) = {} THEN shared ELSE shared \cup UsersOf(o) \cup {p}
    /\ roamed' = IF \E m \in Nodes \ {n} : At(m, p) /= {} THEN roamed \cup {p} ELSE roamed
    /\ collided' = IF At(n, p) /= {} THEN collided \cup {p} ELSE collided
    /\ UNCHANGED <<clients, redisVars, lapsed, mixed>>

\* h.Clients.Set
Register(s) ==
    /\ proc[s].pc = "registering"
    /\ clients' = [clients EXCEPT ![proc[s].node][PeerId[proc[s].cli]] = proc[s].cli]
    /\ proc' = [proc EXCEPT ![s].pc = "setting"]
    /\ UNCHANGED <<poolVars, redisVars, lapsed, histVars>>

\* Mutant: DoRegister does not tell Redis.
SetLocalPeerSkipped(s) ==
    /\ proc[s].pc = "setting"
    /\ proc' = [proc EXCEPT ![s].pc = "open"]
    /\ UNCHANGED <<clients, poolVars, redisVars, lapsed, histVars>>

SetLocalPeer(s) ==
    /\ proc[s].pc = "setting"
    /\ RedisCall(proc[s].node, PeerId[proc[s].cli], proc[s].node)
    /\ proc' = [proc EXCEPT ![s].pc = "open"]
    /\ UNCHANGED <<clients, poolVars, lapsed, histVars>>

-------------------------------------------------------------------------------
(* DoUnregister, by the session when its connection ends, and by a sweep.    *)

\* h.Clients.Has(peerId)
HasPeer(n, p) ==
    IF clients[n][p] /= NoSession THEN "removing" ELSE "done"

Leave(s) ==
    /\ proc[s].pc = "open"
    /\ proc' = [proc EXCEPT ![s].pc = HasPeer(proc[s].node, proc[s].peer)]
    /\ UNCHANGED <<clients, poolVars, redisVars, lapsed, histVars>>

\* checkConns met an expired client, or sendMessageToLocalPeer one it could
\* not send to; either unregisters the PeerId of the object it has found.
Sweep(k, n, p) ==
    LET o == clients[n][p]
        q == PeerId[o]
    IN  /\ proc[k].pc = "idle"
        /\ o /= NoSession
        /\ proc' = [proc EXCEPT ![k] = [pc |-> HasPeer(n, q), node |-> n, peer |-> q, cli |-> o]]
        /\ collided' = IF \E c \in At(n, q) : proc[c].pc \in {"registering", "setting"}
                       THEN collided \cup {q} ELSE collided
        /\ UNCHANGED <<clients, poolVars, redisVars, lapsed, roamed, shared, mixed>>

\* h.Clients.Remove(peerId), by id: whichever object it is mapped to now.
Removed(c) ==
    LET n == proc[c].node
        p == proc[c].peer
    IN  /\ clients' = [clients EXCEPT ![n][p] = NoSession]
        /\ mixed' = (mixed \/ clients[n][p] /= proc[c].cli)

\* Mutant: DoUnregister does not tell Redis.
RemoveOnly(c) ==
    /\ proc[c].pc = "removing"
    /\ Removed(c)
    /\ proc' = [proc EXCEPT ![c].pc = "done"]
    /\ UNCHANGED <<poolVars, redisVars, lapsed, meetVars>>

\* Mutant: DoUnregister leaves the client in the map.
RemoveForgotten(c) ==
    /\ proc[c].pc = "removing"
    /\ proc' = [proc EXCEPT ![c].pc = "deleting"]
    /\ UNCHANGED <<clients, poolVars, redisVars, lapsed, histVars>>

Remove(c) ==
    /\ proc[c].pc = "removing"
    /\ Removed(c)
    /\ proc' = [proc EXCEPT ![c].pc = "deleting"]
    /\ UNCHANGED <<poolVars, redisVars, lapsed, meetVars>>

\* DoUnregister returns true, whoever has removed the id, and the caller's Close
\* puts its object into the pool.
DelLocalPeer(c) ==
    /\ proc[c].pc = "deleting"
    /\ RedisCall(proc[c].node, proc[c].peer, NoNode)
    /\ pool' = [pool EXCEPT ![proc[c].cli] = @ + 1]
    /\ proc' = [proc EXCEPT ![c].pc = "done"]
    /\ UNCHANGED <<clients, PeerId, lapsed, histVars>>

-------------------------------------------------------------------------------
Init ==
    /\ clients = [n \in Nodes |-> [p \in Peers |-> NoSession]]
    /\ pool = [o \in Sessions |-> 0]
    /\ PeerId = [o \in Sessions |-> NoPeer]
    /\ record = [p \in Peers |-> NoNode]
    /\ isAlive = [n \in Nodes |-> TRUE]
    /\ sleepers = [n \in Nodes |-> 0]
    /\ failures = 0
    /\ proc = [c \in Procs |-> [pc |-> "idle", node |-> NoNode, peer |-> NoPeer,
                               cli |-> NoSession]]
    /\ unsaved = {} /\ lapsed = {} /\ roamed = {} /\ collided = {} /\ shared = {}
    /\ mixed = FALSE

Next ==
    \/ \E n \in Nodes : EndBreak(n)
    \/ \E p \in Peers : Lapse(p)
    \/ \E n \in Nodes, p \in Peers :
          \/ \E s \in Sessions : Request(s, n, p)
          \/ \E k \in Sweepers : Sweep(k, n, p)
    \/ \E s \in Sessions : Register(s) \/ SetLocalPeer(s) \/ Leave(s)
    \/ \E c \in Procs : Remove(c) \/ DelLocalPeer(c)

Spec == Init /\ [][Next]_vars

-------------------------------------------------------------------------------
(* Properties.                                                               *)

\* No DoRegister or DoUnregister of p is under way.
Quiet(p) ==
    \A c \in Procs : proc[c].peer = p => proc[c].pc \in {"open", "done"}

\* The promise of DoRegister and DoUnregister: the Redis key names the node
\* whose hub has the peer, and is absent when no hub has it.  It is kept for a
\* peer that has one session at a time and its Client object to itself, while
\* Redis answers and the key is kept alive, through any number of sessions,
\* nodes and sweeps.
DirectoryAgrees ==
    \A p \in Peers \ (unsaved \cup lapsed \cup roamed \cup collided \cup shared) :
        Quiet(p) => \A n \in Nodes : record[p] = n <=> clients[n][p] /= NoSession

\* Even when a peer connects to a second node before the first has let go of
\* it, no key is left behind once the peer has left all nodes: every SET is
\* followed by a DEL of the same session.
NoOrphan ==
    \A p \in Peers \ (unsaved \cup collided \cup shared) :
        (Quiet(p) /\ \A n \in Nodes : clients[n][p] = NoSession) => record[p] = NoNode

\* A Client object that a hub still holds has the id it is held under and is not
\* in the pool, and none is in the pool twice, as long as whoever is told that
\* they unregistered an id has removed the very object they close.  So the only
\* way in which two peers come to share a Client is a DoUnregister that succeeds
\* for an object already removed or replaced: one beside another of the same id,
\* or the end of a session whose peer has since registered again.
PoolApart ==
    ~mixed =>
        /\ \A o \in Sessions : pool[o] <= 1
        /\ \A n \in Nodes, p \in Peers :
              clients[n][p] /= NoSession => PeerId[clients[n][p]] = p /\ pool[clients[n][p]] = 0
===============================================================================
