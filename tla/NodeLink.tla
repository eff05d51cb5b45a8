------------------------------- MODULE NodeLink -------------------------------
(***************************************************************************)
(* How one signalling node reaches another: the NodeHub entry for the      *)
(* other node's address (nodes/nodehub.go), the Node object with its       *)
(* heartbeat (nodes/node.go), the key in which the other node publishes    *)
(* its client count (keepAlive in main.go), and the Redis list it consumes *)
(* (hub/hub.go).                                                           *)
(*                                                                         *)
(* Callers are goroutines of the signal handlers.  They read the map       *)
(* without its lock, so a Node can be found dead, destroyed and replaced   *)
(* by several of them at once.  The aggregator inside a Node is reduced to *)
(* a queue, a worker and quit: module Aggregator has the rest.  A batch    *)
(* counts as one element of the list.                                      *)
(*                                                                         *)
(* Time is in whole units and kept in countdowns; a timer that is due runs *)
(* before time goes on.                                                    *)
(***************************************************************************)
EXTENDS Naturals, FiniteSets

CONSTANTS
    Callers,                      \* goroutines that send to the other node
    Objs,                         \* Node objects the hub may create
    NoObj,                        \* no entry in the map
    PING_INTERVAL,
    PING_MAX_RETRYS,
    KEEP_LIVE_INTERVAL,
    CLIENT_ALIVE_EXPIRE_DUTATION, \* expiry of the count key
    MQ_MAX_LEN,
    MQ_LEN_AFTER_TRIM,
    ChannelBufferSize,
    MaxFailures,                  \* bound on failing Redis calls
    MaxCrashes                    \* bound on crashes of the other node

ASSUME ObjAssumption == NoObj \notin Objs
ASSUME IntervalAssumption ==
    /\ {PING_INTERVAL, KEEP_LIVE_INTERVAL, CLIENT_ALIVE_EXPIRE_DUTATION} \subseteq Nat \ {0}
    /\ PING_MAX_RETRYS \in Nat
ASSUME LengthAssumption ==
    /\ {MQ_MAX_LEN, MQ_LEN_AFTER_TRIM} \subseteq Nat /\ MQ_LEN_AFTER_TRIM <= MQ_MAX_LEN
    /\ ChannelBufferSize \in Nat \ {0}
ASSUME BoundAssumption == MaxFailures \in Nat /\ MaxCrashes \in Nat
\* One publication may be missed before the key expires: 14 < 20 seconds.
ASSUME ExpiryAssumption == 2 * KEEP_LIVE_INTERVAL < CLIENT_ALIVE_EXPIRE_DUTATION

VARIABLES
    up,         \* the other node runs
    lasting,    \* for how long it has been up, or down, up to Horizon
    publishIn,  \* time to its next publication
    missed,     \* history: publications it missed in a row
    keyTtl,     \* time the count key has left, 0 when it is not there
    mq,         \* length of the Redis list
    nodes,      \* NodeHub.nodes[addr]
    node,       \* the Node objects
    handlers,   \* goroutines of the error handler about to push, and to trim
    caller,     \* the callers: pc and the object they hold
    failures, crashes

remoteVars == <<up, lasting, publishIn, missed, keyTtl, crashes>>
vars == <<remoteVars, mq, nodes, node, handlers, caller, failures>>

Made(o) == node[o].heart /= "none"

\* Beyond this nothing changes any more.
Horizon == CLIENT_ALIVE_EXPIRE_DUTATION + (PING_MAX_RETRYS + 1) * PING_INTERVAL + 1

-------------------------------------------------------------------------------
(* Time, and the other node.                                                 *)

Less(t) == IF t > 0 THEN t - 1 ELSE 0

Tick ==
    /\ up => publishIn > 0
    /\ \A o \in Objs : node[o].heart = "beating" => node[o].pingIn > 0
    /\ publishIn' = IF up THEN publishIn - 1 ELSE publishIn
    /\ keyTtl' = Less(keyTtl)
    /\ lasting' = IF lasting < Horizon THEN lasting + 1 ELSE lasting
    /\ node' = [o \in Objs |-> [node[o] EXCEPT !.pingIn = Less(@)]]
    /\ UNCHANGED <<handlers, up, missed, crashes, mq, nodes, caller, failures>>

\* Mutant: the count is stored with the expiry of one interval.
keepAliveShort ==
    /\ up /\ publishIn = 0
    /\ publishIn' = KEEP_LIVE_INTERVAL
    /\ keyTtl' = KEEP_LIVE_INTERVAL
    /\ missed' = 0
    /\ UNCHANGED <<handlers, up, lasting, crashes, mq, nodes, node, caller, failures>>

\* A tick of keepAlive: UpdateClientCount, which is skipped while the breaker
\* is open and may fail.
keepAlive ==
    /\ up /\ publishIn = 0
    /\ publishIn' = KEEP_LIVE_INTERVAL
    /\ \/ /\ keyTtl' = CLIENT_ALIVE_EXPIRE_DUTATION
          /\ missed' = 0
          /\ UNCHANGED failures
       \/ /\ failures < MaxFailures
          /\ failures' = failures + 1
          /\ missed' = missed + 1
          /\ keyTtl' \in {keyTtl, CLIENT_ALIVE_EXPIRE_DUTATION}
    /\ UNCHANGED <<handlers, up, lasting, crashes, mq, nodes, node, caller>>

Crash ==
    /\ up /\ crashes < MaxCrashes
    /\ up' = FALSE /\ lasting' = 0 /\ crashes' = crashes + 1
    /\ UNCHANGED <<handlers, publishIn, missed, keyTtl, mq, nodes, node, caller, failures>>

Restart ==
    /\ ~up
    /\ up' = TRUE /\ lasting' = 0 /\ missed' = 0
    /\ publishIn' = KEEP_LIVE_INTERVAL
    /\ UNCHANGED <<handlers, keyTtl, crashes, mq, nodes, node, caller, failures>>

\* One of its consumers takes a batch: BLPop.
Consume ==
    /\ up /\ mq > 0
    /\ mq' = mq - 1
    /\ UNCHANGED <<handlers, remoteVars, nodes, node, caller, failures>>

-------------------------------------------------------------------------------
(* The heartbeat of a Node.                                                  *)

\* Mutant: the loop never ends.
FailedBeatEndless(n) ==
    [n EXCEPT !.isAlive = FALSE, !.pingRetrys = @ + 1, !.pingIn = PING_INTERVAL]

\* The Node after a heartbeat that failed, and the check at the loop's head.
FailedBeat(n) ==
    LET failed == [n EXCEPT !.isAlive = FALSE, !.pingRetrys = @ + 1]
    IN  IF failed.pingRetrys > PING_MAX_RETRYS
        THEN [failed EXCEPT !.isDead = TRUE, !.heart = "ended"]
        ELSE [failed EXCEPT !.pingIn = PING_INTERVAL]

\* The count key is read.  When it is not there, or Redis fails, a Node that
\* was alive empties the list, if Redis lets it.
Heartbeat(o) ==
    /\ node[o].heart = "beating" /\ node[o].pingIn = 0
    /\ \/ /\ keyTtl > 0
          /\ node' = [node EXCEPT ![o] = [@ EXCEPT !.isAlive = TRUE, !.pingRetrys = 0,
                                                   !.pingIn = PING_INTERVAL]]
          /\ UNCHANGED <<mq, failures>>
       \/ /\ keyTtl = 0
          /\ node' = [node EXCEPT ![o] = FailedBeat(@)]
          /\ mq' = IF node[o].isAlive THEN 0 ELSE mq
          /\ UNCHANGED failures
       \/ /\ failures < MaxFailures
          /\ failures' = failures + 1
          /\ node' = [node EXCEPT ![o] = FailedBeat(@)]
          /\ mq' \in IF node[o].isAlive THEN {0, mq} ELSE {mq}
    /\ UNCHANGED <<handlers, remoteVars, nodes, caller>>

-------------------------------------------------------------------------------
(* NodeHub.Get and SendMsgSignal.                                            *)

Goto(c, pc, o) == caller' = [caller EXCEPT ![c] = [pc |-> pc, obj |-> o]]

\* The map is read without the lock.
Get(c) ==
    /\ caller[c].pc = "idle"
    /\ Goto(c, IF nodes = NoObj THEN "locking" ELSE "found", nodes)
    /\ UNCHANGED <<handlers, remoteVars, mq, nodes, node, failures>>

GetFound(c) ==
    /\ caller[c].pc = "found"
    /\ Goto(c, IF node[caller[c].obj].isDead THEN "destroying" ELSE "sending", caller[c].obj)
    /\ UNCHANGED <<handlers, remoteVars, mq, nodes, node, failures>>

\* NewNode and StartHeartbeat.
NewNode ==
    [heart |-> "beating", isAlive |-> TRUE, isDead |-> FALSE, pingRetrys |-> 0,
     pingIn |-> PING_INTERVAL, late |-> ~up, queue |-> 0, quit |-> FALSE,
     worker |-> "running"]

\* Under the lock: the map is read again, and a Node created and added if it
\* is still not there.
GetLocked(c) ==
    /\ caller[c].pc = "locking"
    /\ \/ /\ nodes /= NoObj
          /\ Goto(c, "sending", nodes)
          /\ UNCHANGED <<nodes, node>>
       \/ /\ nodes = NoObj
          /\ \E o \in Objs :
                /\ ~Made(o)
                /\ node' = [node EXCEPT ![o] = NewNode]
                /\ nodes' = o
                /\ Goto(c, "sending", o)
    /\ UNCHANGED <<handlers, remoteVars, mq, failures>>

SendMsgSignal(c) ==
    /\ caller[c].pc = "sending"
    /\ IF node[caller[c].obj].isAlive
       THEN Goto(c, "enqueuing", caller[c].obj)
       ELSE Goto(c, "idle", NoObj)
    /\ UNCHANGED <<handlers, remoteVars, mq, nodes, node, failures>>

TryEnqueue(c) ==
    /\ caller[c].pc = "enqueuing"
    /\ node' = [node EXCEPT ![caller[c].obj].queue =
                   IF @ < ChannelBufferSize THEN @ + 1 ELSE @]
    /\ Goto(c, "idle", NoObj)
    /\ UNCHANGED <<handlers, remoteVars, mq, nodes, failures>>

\* Mutant: a second SafeStop does nothing.
SafeStopTwice(c) ==
    /\ caller[c].pc = "destroying"
    /\ node[caller[c].obj].queue = 0
    /\ node' = [node EXCEPT ![caller[c].obj].quit = TRUE]
    /\ Goto(c, "deleting", caller[c].obj)
    /\ UNCHANGED <<handlers, remoteVars, mq, nodes, failures>>

\* Delete calls Destroy, which marks the Node and stops its aggregator: once
\* the queue is empty quit is closed.  A second close panics, and the panic
\* ends the caller's request.
SafeStop(c) ==
    /\ caller[c].pc = "destroying"
    /\ node[caller[c].obj].queue = 0
    /\ node' = [node EXCEPT ![caller[c].obj] = [@ EXCEPT !.isDead = TRUE, !.quit = TRUE]]
    /\ IF node[caller[c].obj].quit
       THEN Goto(c, "idle", NoObj)
       ELSE Goto(c, "deleting", caller[c].obj)
    /\ UNCHANGED <<handlers, remoteVars, mq, nodes, failures>>

\* The wait group is down, and Delete removes the address from the map.
Delete(c) ==
    /\ caller[c].pc = "deleting"
    /\ node[caller[c].obj].worker = "exited"
    /\ nodes' = NoObj
    /\ Goto(c, "idle", NoObj)
    /\ UNCHANGED <<handlers, remoteVars, mq, node, failures>>

-------------------------------------------------------------------------------
(* The aggregator's worker: sendBatchReq, and the exit on quit.              *)

\* A Redis call that fails, before or after Redis has obeyed.
Fails == failures < MaxFailures /\ failures' = failures + 1

\* PushMsgToMQ with what the queue holds.  When it fails the error handler is
\* started as a goroutine.
PushMsgToMQ(o) ==
    /\ node[o].worker = "running" /\ node[o].queue > 0
    /\ \/ /\ mq' = mq + 1
          /\ node' = [node EXCEPT ![o] = [@ EXCEPT !.queue = 0,
                          !.worker = IF mq + 1 > MQ_MAX_LEN THEN "trimming" ELSE @]]
          /\ UNCHANGED <<handlers, failures>>
       \/ /\ Fails
          /\ mq' \in {mq, mq + 1}
          /\ node' = [node EXCEPT ![o].queue = 0]
          /\ handlers' = [handlers EXCEPT !.push = @ + 1]
    /\ UNCHANGED <<remoteVars, nodes, caller>>

\* LTrim to the newest MQ_LEN_AFTER_TRIM.
Trim ==
    LET trimmed == IF mq > MQ_LEN_AFTER_TRIM THEN MQ_LEN_AFTER_TRIM ELSE mq
    IN  \/ mq' = trimmed /\ UNCHANGED failures
        \/ Fails /\ mq' \in {mq, trimmed}

\* Mutant: LTrim with the arguments of the whole list.
TrimMQWrong(o) ==
    /\ node[o].worker = "trimming"
    /\ node' = [node EXCEPT ![o].worker = "running"]
    /\ UNCHANGED <<handlers, remoteVars, mq, nodes, caller, failures>>

TrimMQ(o) ==
    /\ node[o].worker = "trimming"
    /\ node' = [node EXCEPT ![o].worker = "running"]
    /\ Trim
    /\ UNCHANGED <<remoteVars, nodes, handlers, caller>>

\* The error handler sends the batch once more, and ignores the outcome.
RetryPush ==
    /\ handlers.push > 0
    /\ \/ /\ mq' = mq + 1
          /\ handlers' = [push |-> handlers.push - 1,
                          trim |-> handlers.trim + IF mq + 1 > MQ_MAX_LEN THEN 1 ELSE 0]
          /\ UNCHANGED failures
       \/ /\ Fails
          /\ mq' \in {mq, mq + 1}
          /\ handlers' = [handlers EXCEPT !.push = @ - 1]
    /\ UNCHANGED <<remoteVars, nodes, node, caller>>

RetryTrim ==
    /\ handlers.trim > 0
    /\ handlers' = [handlers EXCEPT !.trim = @ - 1]
    /\ Trim
    /\ UNCHANGED <<remoteVars, nodes, node, caller>>

\* A worker that sees quit leaves, whatever is in the queue.
Quit(o) ==
    /\ node[o].worker = "running" /\ node[o].quit
    /\ node' = [node EXCEPT ![o].worker = "exited"]
    /\ UNCHANGED <<handlers, remoteVars, mq, nodes, caller, failures>>

-------------------------------------------------------------------------------
Init ==
    /\ up = TRUE /\ lasting = 0 /\ publishIn = KEEP_LIVE_INTERVAL /\ missed = 0
    /\ keyTtl = 0 /\ mq = 0 /\ failures = 0 /\ crashes = 0
    /\ nodes = NoObj /\ handlers = [push |-> 0, trim |-> 0]
    /\ node = [o \in Objs |-> [heart |-> "none", isAlive |-> FALSE, isDead |-> FALSE,
                               pingRetrys |-> 0, pingIn |-> 0, late |-> FALSE,
                               queue |-> 0, quit |-> FALSE, worker |-> "exited"]]
    /\ caller = [c \in Callers |-> [pc |-> "idle", obj |-> NoObj]]

CallerStep(c) ==
    Get(c) \/ GetFound(c) \/ GetLocked(c) \/ SendMsgSignal(c) \/ TryEnqueue(c)
        \/ SafeStop(c) \/ Delete(c)

WorkerStep(o) == PushMsgToMQ(o) \/ TrimMQ(o) \/ Quit(o)

Next ==
    \/ Tick \/ keepAlive \/ Crash \/ Restart \/ Consume \/ RetryPush \/ RetryTrim
    \/ \E o \in Objs : Heartbeat(o) \/ WorkerStep(o)
    \/ \E c \in Callers : CallerStep(c)

Spec == Init /\ [][Next]_vars

-------------------------------------------------------------------------------
(* Properties.                                                               *)

\* A Node whose heartbeat runs is the one the map holds, so there is never a
\* second one for the address and none is forgotten with its goroutines; even
\* when several callers find a dead Node at once, destroy it and create the
\* next one, with no lock on the map's readers.
LiveNodeInHub ==
    \A o \in Objs : node[o].heart = "beating" => nodes = o

\* The count key of a running node does not expire between two publications,
\* nor when one of them is missed: the heartbeats of the others can fail only
\* because Redis does, or because the node has just started.
KeyOutlivesMiss ==
    (up /\ missed < 2 /\ lasting > KEEP_LIVE_INTERVAL * (missed + 1)) => keyTtl > 0

\* A crash is noticed: after the expiry and one interval a Node made before
\* the crash takes no more signals, and after PING_MAX_RETRYS more intervals
\* it is dead and will be replaced.
CrashNoticed ==
    \A o \in Objs : (~up /\ Made(o) /\ ~node[o].late) =>
        /\ lasting > CLIENT_ALIVE_EXPIRE_DUTATION + PING_INTERVAL => ~node[o].isAlive
        /\ lasting = Horizon => node[o].isDead

\* The list cannot outgrow its limit by more than the pushes whose trim is
\* still to come and the calls that failed, whatever happens to the consumers.
QueueBounded ==
    mq <= MQ_MAX_LEN + failures + handlers.trim
            + Cardinality({o \in Objs : node[o].worker = "trimming"})
===============================================================================
