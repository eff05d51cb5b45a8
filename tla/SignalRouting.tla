---------------------------- MODULE SignalRouting ----------------------------
(***************************************************************************)
(* What happens to a message for another peer: the signal and reject       *)
(* handlers (handler/signal.go, handler/rejected.go), the filter of        *)
(* hopeless pairs (handler/handler.go), the address cache                  *)
(* (GetRemotePeerAddr of redis/redis.go) and the delivery on the other     *)
(* node (sendMessageToLocalPeer of hub/hub.go).                            *)
(*                                                                         *)
(* Peers come, go and move while their messages are handled.  Module       *)
(* PeerDirectory has the steps of that in detail; here a registration is   *)
(* the change of the hub, and a SET or DEL that reaches Redis later, in    *)
(* any order, or never.  The way through the aggregator and the Redis list *)
(* is a number of copies of the message under way; modules Aggregator and  *)
(* NodeLink have the details.                                              *)
(***************************************************************************)
EXTENDS Naturals, Sequences

CONSTANTS
    Nodes,      \* the addresses of the signalling nodes
    Peers,      \* peer ids: sequences of characters
    Signals,    \* messages for other peers
    NoNode,     \* no address, no node
    NoPeer,     \* the peers of a message not yet sent
    MaxMoves    \* bound on registrations and departures

ASSUME NodeAssumption == NoNode \notin Nodes
ASSUME PeerAssumption == Peers \subseteq Seq(Nat) /\ NoPeer \notin Peers
ASSUME MovesAssumption == MaxMoves \in Nat

VARIABLES
    hub,        \* the ids in the Clients map of each node
    record,     \* the Redis key of each peer id
    pending,    \* SETs and DELs on their way to Redis
    moves,      \* registrations and departures so far
    cache,      \* the address cache of each node
    filter,     \* the keys in the filter of each node
    sig,        \* each message and its handler
    copies,     \* how often it is in the list of another node
    delivered,  \* history: how often it reached its peer
    steady,     \* history: since its handler began its peer was registered in
                \* one place and not cached elsewhere
    absent      \* history: since its handler began its peer was nowhere

dirVars == <<hub, record, pending, moves>>
histVars == <<steady, absent>>
vars == <<dirVars, cache, filter, sig, copies, delivered, histVars>>

keyForFilter(from, to) == from \o to

\* The key of message s.
Key(s) == keyForFilter(sig[s].from, sig[s].to)

-------------------------------------------------------------------------------
(* History.                                                                  *)

NothingPending(p) == \A op \in pending : op.peer /= p

\* Registered at one node, known to Redis, and not cached elsewhere by n.
SteadyFor(n, p) ==
    \E m \in Nodes : /\ {k \in Nodes : p \in hub[k]} = {m}
                     /\ record[p] = m /\ NothingPending(p)
                     /\ cache[n][p] \in {m, NoNode}

AbsentFor(n, p) ==
    /\ \A k \in Nodes : p \notin hub[k]
    /\ record[p] = NoNode /\ NothingPending(p) /\ cache[n][p] = NoNode

\* After a change of the directory or of a cache.
Watch ==
    /\ steady' = [s \in Signals |-> steady[s] /\ SteadyFor(sig[s].node, sig[s].to)']
    /\ absent' = [s \in Signals |-> absent[s] /\ AbsentFor(sig[s].node, sig[s].to)']

-------------------------------------------------------------------------------
(* The directory, as PeerDirectory has it.                                   *)

Join(p, n) ==
    /\ moves < MaxMoves /\ moves' = moves + 1
    /\ p \notin hub[n]
    /\ hub' = [hub EXCEPT ![n] = @ \cup {p}]
    /\ pending' = pending \cup {[peer |-> p, value |-> n]}
    /\ UNCHANGED <<record, cache, filter, sig, copies, delivered>>
    /\ Watch

\* DoUnregister of p at n.
Unregister(p, n) ==
    /\ hub' = [hub EXCEPT ![n] = @ \ {p}]
    /\ pending' = IF p \in hub[n] THEN pending \cup {[peer |-> p, value |-> NoNode]}
                  ELSE pending

Leave(p, n) ==
    /\ moves < MaxMoves /\ moves' = moves + 1
    /\ p \in hub[n]
    /\ Unregister(p, n)
    /\ UNCHANGED <<record, cache, filter, sig, copies, delivered>>
    /\ Watch

\* A SET or DEL reaches Redis, or is skipped.
Save(op) ==
    /\ pending' = pending \ {op}
    /\ record' \in {record, [record EXCEPT ![op.peer] = op.value]}
    /\ UNCHANGED <<hub, moves, cache, filter, sig, copies, delivered>>
    /\ Watch

\* The key of a peer lapses.
Lapse(p) ==
    /\ record[p] /= NoNode
    /\ record' = [record EXCEPT ![p] = NoNode]
    /\ UNCHANGED <<hub, pending, moves, cache, filter, sig, copies, delivered>>
    /\ Watch

\* bigcache drops an entry that is old, or the oldest one for lack of space.
Uncache(n, p) ==
    /\ cache[n][p] /= NoNode
    /\ cache' = [cache EXCEPT ![n][p] = NoNode]
    /\ UNCHANGED <<dirVars, filter, sig, copies, delivered>>
    /\ Watch

\* The filter's bucket was full and this key the least recently used.
Evict(n, k) ==
    /\ filter' = [filter EXCEPT ![n] = @ \ {k}]
    /\ UNCHANGED <<dirVars, cache, sig, copies, delivered, histVars>>

-------------------------------------------------------------------------------
(* The handlers.  A handler runs in the goroutine of a request.              *)

Goto(s, pc) == sig' = [sig EXCEPT ![s].pc = pc]
End(s, outcome) == sig' = [sig EXCEPT ![s].pc = "done", ![s].outcome = outcome]

\* NewHandlerMsg for a message from a client of node n, and the first test of
\* its handler: a filtered pair is dropped.
Handle(s, n, from, to, action) ==
    /\ sig[s].pc = "new"
    /\ from \in hub[n]
    /\ LET filtered == keyForFilter(from, to) \in filter[n]
       IN  sig' = [sig EXCEPT ![s] =
                     [@ EXCEPT !.node = n, !.from = from, !.to = to, !.action = action,
                               !.pc = IF filtered THEN "done" ELSE "looking",
                               !.outcome = IF filtered THEN "filtered" ELSE @]]
    /\ steady' = [steady EXCEPT ![s] = SteadyFor(n, to)]
    /\ absent' = [absent EXCEPT ![s] = AbsentFor(n, to)]
    /\ UNCHANGED <<dirVars, cache, filter, copies, delivered>>

\* hub.GetClient
GetClient(s) ==
    /\ sig[s].pc = "looking"
    /\ Goto(s, IF sig[s].to \in hub[sig[s].node] THEN "sending" ELSE "asking")
    /\ UNCHANGED <<dirVars, cache, filter, copies, delivered, histVars>>

\* Where a handler goes on when the peer cannot be reached.
NotFound(s) == IF sig[s].action = "signal" THEN "notfound" ELSE "done"

\* The client found, which may have left since, takes the message or not.  When
\* its queue is full the signal handler reports the peer as missing, and the
\* reject handler does not mind; a write error, or a panic, ends the handler.
SendJsonToClient(s) ==
    LET n == sig[s].node
        reject == sig[s].action = "reject"
    IN  /\ sig[s].pc = "sending"
        /\ \/ /\ delivered' = [delivered EXCEPT ![s] = IF sig[s].to \in hub[n] THEN @ + 1 ELSE @]
              /\ IF reject THEN Goto(s, "rejected") ELSE End(s, "sent")
           \/ /\ UNCHANGED delivered
              /\ \E pc \in {IF reject THEN "rejected" ELSE "notfound", "done"} :
                    sig' = [sig EXCEPT ![s].fault = TRUE, ![s].pc = pc]
        /\ UNCHANGED <<dirVars, cache, filter, copies, histVars>>

\* GetRemotePeerAddr: the cache answers, or Redis does, or Redis fails.
GetRemotePeerAddr(s) ==
    LET n == sig[s].node
        p == sig[s].to
        Answer(addr, pc) == sig' = [sig EXCEPT ![s].addr = addr, ![s].pc = pc]
    IN  /\ sig[s].pc = "asking"
        /\ \/ cache[n][p] /= NoNode /\ Answer(cache[n][p], "routing")
           \/ cache[n][p] = NoNode /\ record[p] /= NoNode /\ Answer(record[p], "caching")
           \/ cache[n][p] = NoNode /\ record[p] = NoNode /\ Goto(s, NotFound(s))
           \/ /\ cache[n][p] = NoNode
              /\ sig' = [sig EXCEPT ![s].fault = TRUE, ![s].pc = NotFound(s)]
        /\ UNCHANGED <<dirVars, cache, filter, copies, delivered, histVars>>

\* cache.Set with what Redis said a moment ago.
CacheSet(s) ==
    /\ sig[s].pc = "caching"
    /\ cache' = [cache EXCEPT ![sig[s].node][sig[s].to] = sig[s].addr]
    /\ sig' = [sig EXCEPT ![s].pc = "routing"]
    /\ UNCHANGED <<dirVars, filter, copies, delivered>>
    /\ Watch

\* Mutant: the comparison with the own address is the wrong way round.
RouteInverted(s) ==
    /\ sig[s].pc = "routing"
    /\ Goto(s, IF sig[s].addr = sig[s].node THEN "done" ELSE NotFound(s))
    /\ UNCHANGED <<dirVars, cache, filter, copies, delivered, histVars>>

\* The address is this node's own, which does not have the peer; or it is
\* another's, whose Node is dead and just deleted, or not alive, or takes the
\* message.  One that is taken can still get lost or be pushed twice on its way
\* into the list.
Route(s) ==
    /\ sig[s].pc = "routing"
    /\ \/ /\ sig[s].addr = sig[s].node
          /\ Goto(s, NotFound(s))
          /\ UNCHANGED copies
       \/ /\ sig[s].addr /= sig[s].node
          /\ \E pc \in {NotFound(s), "done"} :
                sig' = [sig EXCEPT ![s].pc = pc, ![s].fault = TRUE]
          /\ UNCHANGED copies
       \/ /\ sig[s].addr /= sig[s].node
          /\ \E number \in 0..2 :
                /\ copies' = [copies EXCEPT ![s] = number]
                /\ sig' = [sig EXCEPT ![s] =
                             [@ EXCEPT !.fault = (number /= 1), !.outcome = "sent",
                                !.pc = IF sig[s].action = "reject" THEN "rejected" ELSE "done"]]
    /\ UNCHANGED <<dirVars, cache, filter, delivered, histVars>>

\* Mutant: the sender is not told.
handlePeerNotFoundSilent(s) ==
    /\ sig[s].pc = "notfound"
    /\ filter' = [filter EXCEPT ![sig[s].node] = @ \cup {Key(s)}]
    /\ Goto(s, "done")
    /\ UNCHANGED <<dirVars, cache, copies, delivered, histVars>>

\* handlePeerNotFound: from now on the pair is filtered, and an empty signal from
\* the peer goes to the sender, whose client takes it or not ("told" is either).
handlePeerNotFound(s) ==
    /\ sig[s].pc = "notfound"
    /\ filter' = [filter EXCEPT ![sig[s].node] = @ \cup {Key(s)}]
    /\ End(s, "told")
    /\ UNCHANGED <<dirVars, cache, copies, delivered, histVars>>

\* Mutant: the key is put together the other way round.
RejectFilterSwapped(s) ==
    /\ sig[s].pc = "rejected"
    /\ filter' = [filter EXCEPT ![sig[s].node] = @ \cup {keyForFilter(sig[s].to, sig[s].from)}]
    /\ End(s, "sent")
    /\ UNCHANGED <<dirVars, cache, copies, delivered, histVars>>

\* A reject that was sent filters the pair too.
RejectFilter(s) ==
    /\ sig[s].pc = "rejected"
    /\ filter' = [filter EXCEPT ![sig[s].node] = @ \cup {Key(s)}]
    /\ End(s, "sent")
    /\ UNCHANGED <<dirVars, cache, copies, delivered, histVars>>

\* sendMessageToLocalPeer at the node the message was sent to.  A client that
\* does not take it is unregistered.
Deliver(s) ==
    LET m == sig[s].addr
        p == sig[s].to
    IN  /\ copies[s] > 0
        /\ copies' = [copies EXCEPT ![s] = @ - 1]
        /\ \/ /\ p \in hub[m]
              /\ delivered' = [delivered EXCEPT ![s] = @ + 1]
              /\ UNCHANGED <<hub, pending, sig>>
           \/ /\ p \notin hub[m]
              /\ UNCHANGED <<hub, pending, sig, delivered>>
           \/ /\ p \in hub[m]
              /\ Unregister(p, m)
              /\ sig' = [sig EXCEPT ![s].fault = TRUE]
              /\ UNCHANGED delivered
        /\ UNCHANGED <<record, moves, cache, filter>>
        /\ Watch

-------------------------------------------------------------------------------
Init ==
    /\ hub = [n \in Nodes |-> {}]
    /\ record = [p \in Peers |-> NoNode]
    /\ pending = {} /\ moves = 0
    /\ cache = [n \in Nodes |-> [p \in Peers |-> NoNode]]
    /\ filter = [n \in Nodes |-> {}]
    /\ sig = [s \in Signals |-> [pc |-> "new", action |-> "none", node |-> NoNode,
                                 from |-> NoPeer, to |-> NoPeer, addr |-> NoNode,
                                 fault |-> FALSE, outcome |-> "none"]]
    /\ copies = [s \in Signals |-> 0]
    /\ delivered = [s \in Signals |-> 0]
    /\ steady = [s \in Signals |-> FALSE]
    /\ absent = [s \in Signals |-> FALSE]

HandlerStep(s) ==
    \/ GetClient(s) \/ SendJsonToClient(s) \/ GetRemotePeerAddr(s) \/ CacheSet(s)
    \/ Route(s) \/ handlePeerNotFound(s) \/ RejectFilter(s)

Next ==
    \/ \E p \in Peers, n \in Nodes : Join(p, n) \/ Leave(p, n) \/ Uncache(n, p)
    \/ \E op \in pending : Save(op)
    \/ \E p \in Peers : Lapse(p)
    \/ \E n \in Nodes : \E k \in filter[n] : Evict(n, k)
    \/ \E s \in Signals, n \in Nodes, from \in Peers, action \in {"signal", "reject"} :
          \E to \in Peers \ {from} : Handle(s, n, from, to, action)
    \/ \E s \in Signals : HandlerStep(s) \/ Deliver(s)

Spec == Init /\ [][Next]_vars

-------------------------------------------------------------------------------
(* Properties.                                                               *)

\* A message that was handled and is no longer under way.
Over(s) == sig[s].pc = "done" /\ copies[s] = 0

\* A peer that stays registered in one place, whose address no cache of the
\* sender's node contradicts, gets every message that is not filtered, exactly
\* once, and its sender is not told otherwise: whatever other handlers, moves of
\* other peers and expiries happen meanwhile, unless a client refuses to take the
\* message or Redis or the other Node fails.
SteadyIsReached ==
    \A s \in Signals :
        (Over(s) /\ steady[s] /\ ~sig[s].fault /\ sig[s].outcome /= "filtered")
            => delivered[s] = 1 /\ sig[s].outcome = "sent"

\* To the sender of a signal for a peer that is nowhere goes the empty signal of
\* handlePeerNotFound, unless the pair is filtered already.
MissingIsTold ==
    \A s \in Signals :
        (Over(s) /\ absent[s] /\ sig[s].action = "signal")
            => sig[s].outcome \in {"told", "filtered"}

\* The pair of t was reported missing, or its reject was sent.
Verdict(t) ==
    \/ sig[t].outcome = "told"
    \/ sig[t].action = "reject" /\ sig[t].outcome = "sent" /\ sig[t].pc = "done"

\* A message is dropped by the filter only after an earlier one of the same
\* sender to the same peer found the peer missing or rejected it.  It takes ids
\* of one length: the filter's key is the two ids put together.
FilterJustified ==
    (\A p, q \in Peers : Len(p) = Len(q)) =>
        \A s \in Signals : sig[s].outcome = "filtered" =>
            \E t \in Signals \ {s} :
                /\ sig[t].node = sig[s].node /\ sig[t].from = sig[s].from
                /\ sig[t].to = sig[s].to /\ Verdict(t)
===============================================================================
