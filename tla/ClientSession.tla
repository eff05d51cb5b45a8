----------------------------- MODULE ClientSession -----------------------------
(***************************************************************************)
(* One Client of the hub while it is a long-polling session and through    *)
(* its switch to a websocket (client/client.go, and the polling and ws     *)
(* handlers of main.go).  Senders put messages into its MsgQueue channel   *)
(* or write them to its connection, poll requests take them out, and a     *)
(* websocket request drains and closes the channel.  All of them run in    *)
(* goroutines of their own and share the fields of the Client unlocked.    *)
(*                                                                         *)
(* A message stands for one call of SendMessage.  The messages in Relayed  *)
(* come from other nodes: sendMessageToLocalPeer of hub/hub.go sends them  *)
(* in a goroutine without recover.  The others are sent by the handlers    *)
(* of local peers through SendJsonToClient.                                *)
(***************************************************************************)
EXTENDS Integers, Sequences, FiniteSets, Functions

CONSTANTS
    Msgs,               \* the messages sent to this client
    Relayed,            \* those that come from other nodes
    Pollers,            \* poll requests that can be in flight together
    Upgraders,          \* websocket requests for the same peer id
    POLLING_QUEUE_SIZE, \* capacity of MsgQueue
    NoConn              \* a nil Conn

ASSUME RelayedAssumption == Relayed \subseteq Msgs
ASSUME QueueSizeAssumption == POLLING_QUEUE_SIZE \in Nat \ {0}

VARIABLES
    isPolling, conn,    \* the fields of the Client
    msgQueue, closed,   \* MsgQueue and whether it is closed
    registered,         \* the hub maps the peer id to this Client
    closer,             \* who removed it from the hub and will close it
    crashed,            \* an unrecovered panic has ended the process
    msg,                \* where each SendMessage call is
    poll,               \* where each poll request is, and what it has read
    up,                 \* where each websocket request is
    enqueued,           \* history: messages MsgQueue took, in order
    late,               \* history: those it took after a switch read its length
    delivered,          \* history: messages put into poll responses, in order
    drained             \* history: messages a switch moved to the websocket

fieldVars == <<isPolling, conn, closed>>
hubVars == <<registered, closer, crashed>>
histVars == <<delivered, drained>>
vars == <<fieldVars, msgQueue, hubVars, msg, poll, up, enqueued, late, histVars>>

-------------------------------------------------------------------------------
(* Senders.                                                                  *)

\* DoUnregister: the caller that removed the id goes on to call Close.  A panic
\* there ends the process, unless the caller is in a request, which recovers.
DoUnregister(caller) ==
    /\ registered' = FALSE
    /\ closer' = IF registered THEN caller ELSE closer

\* Mutant: Close also closes the channel of a polling client.
CloseChannel ==
    /\ closer \in {"process", "request"}
    /\ crashed' = FALSE
    /\ closer' = "closed"
    /\ closed' = TRUE
    /\ UNCHANGED <<isPolling, conn, msgQueue, registered, msg, poll, up, enqueued, late, histVars>>

\* Close: a polling client keeps its channel open, and IsPolling does not say
\* that Conn is set yet.
Close ==
    /\ closer \in {"process", "request"}
    /\ crashed' = (closer = "process" /\ ~isPolling /\ conn = NoConn)
    /\ closer' = "closed"
    /\ UNCHANGED <<fieldVars, msgQueue, registered, msg, poll, up, enqueued, late, histVars>>

\* A runtime panic.  The recover of SendJsonToClient asserts that the panic
\* value is a string, which panics again; a relayed message has no recover.
Panic(m) ==
    /\ msg' = [msg EXCEPT ![m] = "panicked"]
    /\ crashed' = (m \in Relayed)
    /\ UNCHANGED <<fieldVars, msgQueue, registered, closer, poll, up, enqueued, late, histVars>>

\* An error from SendMessage makes sendMessageToLocalPeer drop the client.
Fail(m, state) ==
    /\ msg' = [msg EXCEPT ![m] = state]
    /\ IF m \in Relayed THEN DoUnregister("process") ELSE UNCHANGED <<registered, closer>>
    /\ UNCHANGED <<fieldVars, msgQueue, crashed, poll, up, enqueued, late, histVars>>

SendTo(m, from, to) ==
    /\ msg[m] = from
    /\ msg' = [msg EXCEPT ![m] = to]
    /\ UNCHANGED <<fieldVars, msgQueue, hubVars, poll, up, enqueued, late, histVars>>

GetClient(m) ==
    /\ registered
    /\ SendTo(m, "new", "found")

SendMessage(m) == SendTo(m, "found", IF isPolling THEN "polling" ELSE "writing")

\* The length check, which a full channel does not pass.
CheckLen(m) ==
    \/ /\ Len(msgQueue) >= POLLING_QUEUE_SIZE
       /\ msg[m] = "polling"
       /\ Fail(m, "refused")
    \/ /\ Len(msgQueue) < POLLING_QUEUE_SIZE
       /\ SendTo(m, "polling", "sending")

\* Some websocket request has read the length of MsgQueue.
SwitchCounted == \E u \in Upgraders : up[u].pc \in {"draining", "switched", "abandoned",
                                                    "serving", "left"}

\* c.MsgQueue <- data: blocks while the channel is full, panics when closed.
SendDataPolling(m) ==
    /\ msg[m] = "sending"
    /\ \/ closed /\ Panic(m)
       \/ /\ ~closed
          /\ Len(msgQueue) < POLLING_QUEUE_SIZE
          /\ msgQueue' = Append(msgQueue, m)
          /\ enqueued' = Append(enqueued, m)
          /\ late' = IF SwitchCounted THEN late \cup {m} ELSE late
          /\ msg' = [msg EXCEPT ![m] = "queued"]
          /\ UNCHANGED <<fieldVars, hubVars, poll, up, histVars>>

\* WriteServerMessage on Conn, which IsPolling does not say is set yet.
SendDataWs(m) ==
    /\ msg[m] = "writing"
    /\ \/ conn = NoConn /\ Panic(m)
       \/ /\ conn /= NoConn
          /\ \/ Fail(m, "failed")
             \/ SendTo(m, "writing", "written")

-------------------------------------------------------------------------------
(* Poll requests.                                                            *)

Idle == [pc |-> "idle", left |-> 0, got |-> <<>>]

\* The response of a poll that found messages: '[', each message followed by a
\* comma, the last byte cut off, ']'.
DrainBody(got) ==
    LET raw == <<"[">> \o [k \in 1..2 * Len(got) |->
                              IF k % 2 = 1 THEN got[(k + 1) \div 2] ELSE ","]
    IN  Append(SubSeq(raw, 1, Len(raw) - 1), "]")

\* Up to the check of IsPolling; a client on a websocket gets a conflict.
PollStart(p) ==
    /\ registered /\ isPolling
    /\ poll[p].pc = "idle"
    /\ poll' = [poll EXCEPT ![p].pc = "checked"]
    /\ UNCHANGED <<fieldVars, msgQueue, hubVars, msg, up, enqueued, late, histVars>>

\* Mutant: the drain loop runs while i <= msgLen.
PollLenOneMore(p) ==
    /\ poll[p].pc = "checked"
    /\ poll' = [poll EXCEPT ![p] = IF msgQueue = <<>>
                                   THEN [@ EXCEPT !.pc = "waiting"]
                                   ELSE [@ EXCEPT !.pc = "draining", !.left = Len(msgQueue) + 1]]
    /\ UNCHANGED <<fieldVars, msgQueue, hubVars, msg, up, enqueued, late, histVars>>

\* Mutant: a poll always waits, even when messages are there.
PollLenWaits(p) ==
    /\ poll[p].pc = "checked"
    /\ poll' = [poll EXCEPT ![p].pc = "waiting"]
    /\ UNCHANGED <<fieldVars, msgQueue, hubVars, msg, up, enqueued, late, histVars>>

\* msgLen := len(c.MsgQueue)
PollLen(p) ==
    /\ poll[p].pc = "checked"
    /\ poll' = [poll EXCEPT ![p] = IF msgQueue = <<>>
                                   THEN [@ EXCEPT !.pc = "waiting"]
                                   ELSE [@ EXCEPT !.pc = "draining", !.left = Len(msgQueue)]]
    /\ UNCHANGED <<fieldVars, msgQueue, hubVars, msg, up, enqueued, late, histVars>>

\* Mutant: the drain loop also ends when the channel is open and empty.
PollDrainEager(p) ==
    /\ poll[p].pc = "draining"
    /\ poll[p].left > 0
    /\ \/ /\ msgQueue /= <<>>
          /\ msgQueue' = Tail(msgQueue)
          /\ poll' = [poll EXCEPT ![p].left = @ - 1, ![p].got = Append(@, Head(msgQueue))]
       \/ /\ msgQueue = <<>>
          /\ poll' = [poll EXCEPT ![p].left = 0]
          /\ UNCHANGED msgQueue
    /\ UNCHANGED <<fieldVars, hubVars, msg, up, enqueued, late, histVars>>

\* One blocking receive of the drain loop; a closed empty channel ends it.
PollDrain(p) ==
    /\ poll[p].pc = "draining"
    /\ poll[p].left > 0
    /\ \/ /\ msgQueue /= <<>>
          /\ msgQueue' = Tail(msgQueue)
          /\ poll' = [poll EXCEPT ![p].left = @ - 1, ![p].got = Append(@, Head(msgQueue))]
       \/ /\ msgQueue = <<>> /\ closed
          /\ poll' = [poll EXCEPT ![p].left = 0]
          /\ UNCHANGED msgQueue
    /\ UNCHANGED <<fieldVars, hubVars, msg, up, enqueued, late, histVars>>

PollRespond(p) ==
    /\ poll[p].pc = "draining"
    /\ poll[p].left = 0
    /\ delivered' = delivered \o poll[p].got
    /\ poll' = [poll EXCEPT ![p] = Idle]
    /\ UNCHANGED <<fieldVars, msgQueue, hubVars, msg, up, enqueued, late, drained>>

\* Mutant: a message received together with the timeout is not written.
PollWaitDrops(p) ==
    /\ poll[p].pc = "waiting"
    /\ poll' = [poll EXCEPT ![p] = Idle]
    /\ msgQueue' = IF msgQueue = <<>> THEN <<>> ELSE Tail(msgQueue)
    /\ UNCHANGED <<fieldVars, hubVars, msg, up, enqueued, late, histVars>>

\* The select on an empty queue: a message, a closed channel, or 120 seconds.
PollWait(p) ==
    /\ poll[p].pc = "waiting"
    /\ poll' = [poll EXCEPT ![p] = Idle]
    /\ \/ /\ msgQueue /= <<>>
          /\ msgQueue' = Tail(msgQueue)
          /\ delivered' = Append(delivered, Head(msgQueue))
       \/ UNCHANGED <<msgQueue, delivered>>
    /\ UNCHANGED <<fieldVars, hubVars, msg, up, enqueued, late, drained>>

\* The request's context is done: the peer has left.
PollLeave(p) ==
    /\ poll[p].pc = "waiting"
    /\ poll' = [poll EXCEPT ![p] = Idle]
    /\ IF isPolling THEN DoUnregister("request") ELSE UNCHANGED <<registered, closer>>
    /\ UNCHANGED <<fieldVars, msgQueue, crashed, msg, up, enqueued, late, histVars>>

-------------------------------------------------------------------------------
(* Websocket requests for a registered peer id.                              *)

Step(u, from, to) ==
    /\ up[u].pc = from
    /\ up' = [up EXCEPT ![u].pc = to]

\* The check of IsPolling; a client on a websocket gets code 4000.
UpStart(u) ==
    /\ registered /\ isPolling
    /\ Step(u, "idle", "checked")
    /\ UNCHANGED <<fieldVars, msgQueue, hubVars, msg, poll, enqueued, late, histVars>>

\* c.IsPolling = false
UpSetPolling(u) ==
    /\ Step(u, "checked", "unpolled")
    /\ isPolling' = FALSE
    /\ UNCHANGED <<conn, closed, msgQueue, hubVars, msg, poll, enqueued, late, histVars>>

\* c.Conn = conn
UpSetConn(u) ==
    /\ Step(u, "unpolled", "connected")
    /\ conn' = u
    /\ UNCHANGED <<isPolling, closed, msgQueue, hubVars, msg, poll,
                   enqueued, late, histVars>>

\* Mutant: the drain loop stops one message early.
UpLenOneLess(u) ==
    /\ up[u].pc = "connected"
    /\ up' = [up EXCEPT ![u] = [pc |-> "draining",
                               left |-> IF msgQueue = <<>> THEN 0 ELSE Len(msgQueue) - 1]]
    /\ UNCHANGED <<fieldVars, msgQueue, hubVars, msg, poll, enqueued, late, histVars>>

\* msgLen := len(c.MsgQueue)
UpLen(u) ==
    /\ up[u].pc = "connected"
    /\ up' = [up EXCEPT ![u] = [pc |-> "draining", left |-> Len(msgQueue)]]
    /\ UNCHANGED <<fieldVars, msgQueue, hubVars, msg, poll, enqueued, late, histVars>>

\* Mutant: the drain loop leaves after a receive, without the write.
UpDrainBreaks(u) ==
    /\ up[u].pc = "draining"
    /\ up[u].left > 0
    /\ msgQueue /= <<>>
    /\ msgQueue' = Tail(msgQueue)
    /\ up' = [up EXCEPT ![u].left = 0]
    /\ UNCHANGED <<fieldVars, hubVars, msg, poll, enqueued, late, histVars>>

\* One blocking receive of the drain loop, and the write of the message.
UpDrain(u) ==
    /\ up[u].pc = "draining"
    /\ up[u].left > 0
    /\ \/ /\ msgQueue /= <<>>
          /\ msgQueue' = Tail(msgQueue)
          /\ drained' = Append(drained, Head(msgQueue))
          /\ up' = [up EXCEPT ![u].left = @ - 1]
       \/ /\ msgQueue = <<>> /\ closed
          /\ up' = [up EXCEPT ![u].left = 0]
          /\ UNCHANGED <<msgQueue, drained>>
    /\ UNCHANGED <<fieldVars, hubVars, msg, poll, enqueued, late, delivered>>

\* close(c.MsgQueue), which panics when another request has closed it.
UpClose(u) ==
    /\ up[u].left = 0
    /\ Step(u, "draining", IF closed THEN "panicked" ELSE "switched")
    /\ closed' = TRUE
    /\ UNCHANGED <<isPolling, conn, msgQueue, hubVars, msg, poll,
                   enqueued, late, histVars>>

\* commonCheck, and with it the version message and the reader goroutine; a
\* failing check returns and leaves the client registered without a reader.
UpCheck(u) ==
    /\ Step(u, "switched", "serving") \/ Step(u, "switched", "abandoned")
    /\ UNCHANGED <<fieldVars, msgQueue, hubVars, msg, poll, enqueued, late, histVars>>

\* The reader goroutine ends.
UpLeave(u) ==
    /\ Step(u, "serving", "left")
    /\ DoUnregister("request")
    /\ UNCHANGED <<fieldVars, msgQueue, crashed, msg, poll, enqueued, late, histVars>>

-------------------------------------------------------------------------------
\* checkConns found the client expired.
Sweep ==
    /\ registered
    /\ DoUnregister("process")
    /\ UNCHANGED <<fieldVars, msgQueue, crashed, msg, poll, up, enqueued, late, histVars>>

\* A polling client that DoRegister has just stored.
Init ==
    /\ isPolling = TRUE /\ conn = NoConn
    /\ msgQueue = <<>> /\ closed = FALSE
    /\ registered = TRUE /\ closer = "none" /\ crashed = FALSE
    /\ msg = [m \in Msgs |-> "new"]
    /\ poll = [p \in Pollers |-> Idle]
    /\ up = [u \in Upgraders |-> [pc |-> "idle", left |-> 0]]
    /\ enqueued = <<>> /\ late = {}
    /\ delivered = <<>> /\ drained = <<>>

SendStep(m) ==
    SendMessage(m) \/ CheckLen(m) \/ SendDataPolling(m) \/ SendDataWs(m)

PollStep(p) ==
    PollStart(p) \/ PollLen(p) \/ PollDrain(p) \/ PollRespond(p) \/ PollWait(p)

UpStep(u) ==
    \/ UpStart(u) \/ UpSetPolling(u) \/ UpSetConn(u) \/ UpLen(u)
    \/ UpDrain(u) \/ UpClose(u) \/ UpCheck(u) \/ UpLeave(u)

Next ==
    /\ ~crashed
    /\ \/ \E m \in Msgs : GetClient(m) \/ SendStep(m)
       \/ \E p \in Pollers : PollStep(p) \/ PollLeave(p)
       \/ \E u \in Upgraders : UpStep(u)
       \/ Sweep
       \/ Close

Spec == Init /\ [][Next]_vars

\* Goroutines that can run do run, and the peer answers every poll response
\* with the next poll, which is what a polling peer does while it is there.
Fairness ==
    /\ \A m \in Msgs : WF_vars(~crashed /\ SendStep(m))
    /\ \A p \in Pollers : WF_vars(~crashed /\ PollStep(p))

FairSpec == Spec /\ Fairness

-------------------------------------------------------------------------------
(* Properties.                                                               *)

\* A message MsgQueue took is in exactly one place: in the channel, read by one
\* poll, in one poll response, or moved to the websocket by a switch, however
\* many polls and switches take from the channel at once.
QueueConservation ==
    /\ Range(enqueued) = Range(msgQueue) \cup Range(delivered) \cup Range(drained)
                             \cup UNION {Range(poll[p].got) : p \in Pollers}
    /\ Len(enqueued) = Len(msgQueue) + Len(delivered) + Len(drained)
                             + SumFunction([p \in Pollers |-> Len(poll[p].got)])

\* A message left behind in the closed channel was sent after the switch had
\* read the channel's length: the switch loses nothing that was there before.
StrandedAreLate ==
    closed => Range(msgQueue) \subseteq late

\* As long as one request at a time takes from the channel, the drain loop of
\* a poll never blocks: the messages it counted are still there.
PollNeverStuck ==
    \A p \in Pollers :
        (Pollers = {p} /\ Upgraders = {} /\ poll[p].pc = "draining")
            => poll[p].left <= Len(msgQueue)

\* A peer that polls one request at a time gets the messages in the order the
\* channel took them, each once: the one-poller session is a pipe, and while
\* the peer keeps polling whatever was queued is delivered.
ThePoller == CHOOSE p \in Pollers : TRUE

Pipe == INSTANCE SignalPipe WITH
            Items <- Msgs,
            BatchSize <- 1,
            pending <- msgQueue,
            handed <- delivered \o poll[ThePoller].got,
            closed <- ~registered

ImplementsPipe == Pipe!Spec

\* While the peer keeps polling and stays registered, a sender that passed the
\* length check does not stay blocked on a full channel.
SenderReturns ==
    \A m \in Msgs : msg[m] = "sending" ~> (msg[m] /= "sending" \/ ~registered)

\* A session that only polls never panics; a panic needs a websocket request
\* that has cleared IsPolling.
PanicNeedsSwitch ==
    (crashed \/ \E m \in Msgs : msg[m] = "panicked") =>
        \E u \in Upgraders : up[u].pc \notin {"idle", "checked"}

\* What Truncate cuts off a drained response is the last comma, as its comment
\* says, so the response is a JSON array from '[' to ']'; however many polls
\* take from the channel at once.  The exception is a switch to a websocket that
\* drains and closes the channel after the poll has read its length: then the
\* byte cut off is the '['.
ResponseIsArray ==
    \A p \in Pollers : (poll[p].pc = "draining" /\ poll[p].left = 0 /\ ~closed)
                          => DrainBody(poll[p].got)[1] = "["

\* The comment in SendJsonToClient: its deferred function catches panics.
RecoverCatches ==
    \A m \in Msgs \ Relayed : msg[m] /= "panicked"
===============================================================================
