----------------------------- MODULE PeerLifetime -----------------------------
(***************************************************************************)
(* How long a peer is known, and where: the Timestamp of its Client        *)
(* (client/client.go) and the sweep of checkConns over expired clients     *)
(* (main.go), the expiry of its Redis key, which a heartbeat extends       *)
(* (handler/heartbeat.go, redis/redis.go), and the entry for it in the     *)
(* address cache of another node (initCache of redis/redis.go).  These run *)
(* on five clocks that know nothing of each other.                         *)
(*                                                                         *)
(* Seen is one peer id at one node, "here".  The peer may have sessions at *)
(* other nodes too, which set, extend and delete the same key without      *)
(* looking at the address in it.  Time is in whole units and kept in       *)
(* countdowns and ages; what is due happens before time goes on.  The      *)
(* steps of a registration are in PeerDirectory and are one step here.     *)
(***************************************************************************)
EXTENDS Naturals

CONSTANTS
    WS_EXPIRE_LIMIT, POLLING_EXPIRE_LIMIT,  \* the ages at which a client is expired
    CHECK_CLIENT_INTERVAL,                  \* time between two sweeps
    PEER_EXPIRE_DUTATION,                   \* expiry of the Redis key
    LifeWindow, CleanWindow,                \* of the address cache
    PollTimeout                             \* how long a poll waits for a message

ASSUME TimeAssumption ==
    {WS_EXPIRE_LIMIT, POLLING_EXPIRE_LIMIT, CHECK_CLIENT_INTERVAL,
     PEER_EXPIRE_DUTATION, LifeWindow, CleanWindow, PollTimeout} \subseteq Nat \ {0}
ASSUME LimitAssumption == POLLING_EXPIRE_LIMIT <= WS_EXPIRE_LIMIT
\* 120 < 180 seconds.
ASSUME PollAssumption == PollTimeout < POLLING_EXPIRE_LIMIT

VARIABLES
    up,         \* the node runs
    client,     \* how the hub knows the peer
    reader,     \* the goroutine that reads its websocket runs
    age,        \* time since its Timestamp
    waitFor,    \* time its last poll will still wait, 0 when none waits
    sweepIn,    \* time to the next look of checkConns at its shard
    keyAt,      \* where the Redis key says the peer is: "here", "there" for
                \* any other node, "none" without a key
    keyTtl,     \* time left to the key, or 0
    there,      \* another node has a session of the peer
    cached,     \* what the address cache of another node says, or "none"
    cacheAge,   \* time since it was put there
    cleanIn,    \* time to the cache's next clean-up
    unsaved,    \* history: a Redis call of this registration failed or was skipped
    elsewhere,  \* history: during this registration another node has had a
                \* session of the peer
    silence,    \* history: time since its last heartbeat, which sticks at
                \* PEER_EXPIRE_DUTATION
    goneFor,    \* history: time since the node last had the peer, or since a
                \* heartbeat elsewhere has extended the key that still names it
    left        \* history: it then left such a key behind

clientVars == <<client, reader, age, waitFor>>
keyVars == <<keyAt, keyTtl>>
cacheVars == <<cached, cacheAge, cleanIn>>
histVars == <<unsaved, elsewhere, silence, goneFor, left>>
vars == <<up, clientVars, sweepIn, keyVars, there, cacheVars, histVars>>

\* Beyond this nothing changes any more.
Horizon == PEER_EXPIRE_DUTATION + LifeWindow + CleanWindow + 1

Less(t) == IF t > 0 THEN t - 1 ELSE 0
More(t, most) == IF t < most THEN t + 1 ELSE most

-------------------------------------------------------------------------------
(* The commands on the key.  Each may fail, with or without effect, or be   *)
(* skipped while the breaker is open.                                        *)

Set(at) == keyAt' = at /\ keyTtl' = PEER_EXPIRE_DUTATION

\* DEL does not look at the address.
Del == keyAt' = "none" /\ keyTtl' = 0

\* Nor does EXPIRE, which does nothing to a key that is not there.
Expire == keyTtl' = (IF keyTtl > 0 THEN PEER_EXPIRE_DUTATION ELSE 0) /\ UNCHANGED keyAt

-------------------------------------------------------------------------------
(* Registration.                                                             *)

SetLocalPeer ==
    \/ Set("here") /\ unsaved' = FALSE
    \/ (Set("here") \/ UNCHANGED keyVars) /\ unsaved' = TRUE

\* A poll or a POST of a peer the hub does not have, once commonCheck lets it in.
RegisterPolling ==
    /\ up /\ client = "none"
    /\ client' = "polling" /\ reader' = FALSE /\ age' = 0 /\ waitFor' = 0
    /\ SetLocalPeer
    /\ elsewhere' = there /\ silence' = 0 /\ goneFor' = 0 /\ left' = FALSE
    /\ UNCHANGED <<up, sweepIn, there, cacheVars>>

\* A websocket request registers the client first and then asks commonCheck,
\* which may turn it away: the client stays in the hub with nobody to read
\* from it.
RegisterWs ==
    /\ up /\ client = "none"
    /\ client' = "ws" /\ reader' \in BOOLEAN /\ age' = 0 /\ waitFor' = 0
    /\ SetLocalPeer
    /\ elsewhere' = there /\ silence' = 0 /\ goneFor' = 0 /\ left' = FALSE
    /\ UNCHANGED <<up, sweepIn, there, cacheVars>>

\* A websocket request of a polling peer takes its Client over.
Switch ==
    /\ up /\ client = "polling"
    /\ client' = "ws" /\ reader' \in BOOLEAN /\ age' = 0 /\ waitFor' = 0
    /\ UNCHANGED <<up, sweepIn, keyVars, there, cacheVars, histVars>>

-------------------------------------------------------------------------------
(* Signs of life.                                                            *)

\* Who can be heard: a polling client by its requests, a websocket by its reader.
Heard == up /\ (client = "polling" \/ reader)

\* Mutant: a poll does not update the Timestamp.
PollNoTs ==
    /\ up /\ client = "polling"
    /\ waitFor' = PollTimeout
    /\ UNCHANGED <<up, client, reader, age, sweepIn, keyVars, there, cacheVars, histVars>>

\* A poll that finds no message and waits.  One that does find some answers at
\* once and leaves the Timestamp.
Poll ==
    /\ up /\ client = "polling"
    /\ age' = 0 /\ waitFor' = PollTimeout
    /\ UNCHANGED <<up, client, reader, sweepIn, keyVars, there, cacheVars, histVars>>

\* A message comes before the timeout.
PollAnswered ==
    /\ waitFor > 0
    /\ waitFor' = 0
    /\ UNCHANGED <<up, client, reader, age, sweepIn, keyVars, there, cacheVars, histVars>>

\* ExceptionHandler: an unknown message counts as a sign of life.
UpdateTs ==
    /\ Heard
    /\ age' = 0
    /\ UNCHANGED <<up, client, reader, waitFor, sweepIn, keyVars, there, cacheVars, histVars>>

Heartbeaten ==
    /\ age' = 0
    /\ silence' = IF silence < PEER_EXPIRE_DUTATION THEN 0 ELSE silence

\* Mutant: the heartbeat does not extend the key.
HeartbeatNoExpire ==
    /\ Heard
    /\ Heartbeaten
    /\ UNCHANGED <<up, client, reader, waitFor, sweepIn, keyVars, there, cacheVars,
                   unsaved, elsewhere, goneFor, left>>

UpdateLocalPeerExpiration ==
    \/ Expire /\ UNCHANGED unsaved
    \/ UNCHANGED keyVars /\ unsaved' = TRUE

\* A ping, as a control frame or as a message.
Heartbeat ==
    /\ Heard
    /\ Heartbeaten
    /\ UpdateLocalPeerExpiration
    /\ UNCHANGED <<up, client, reader, waitFor, sweepIn, there, cacheVars,
                   elsewhere, goneFor, left>>

-------------------------------------------------------------------------------
(* The end of a registration.                                                *)

\* DoUnregister and Close: the hub forgets the client, DEL removes the key or
\* not, and the reader of a websocket comes to its end.
DoUnregister ==
    /\ client' = "none" /\ reader' = FALSE /\ age' = 0 /\ waitFor' = 0
    /\ \/ Del /\ left' = FALSE
       \/ UNCHANGED keyVars /\ left' = (keyAt = "here")

\* The connection of the peer closes.
Leave ==
    /\ Heard
    /\ DoUnregister
    /\ UNCHANGED <<up, sweepIn, there, cacheVars, unsaved, elsewhere, silence, goneFor>>

\* A relayed message could not be sent.
Drop ==
    /\ up /\ client /= "none"
    /\ DoUnregister
    /\ UNCHANGED <<up, sweepIn, there, cacheVars, unsaved, elsewhere, silence, goneFor>>

\* Mutant: all clients are given the time of a websocket.
IsExpiredWs == age > WS_EXPIRE_LIMIT

IsExpired == age > IF client = "polling" THEN POLLING_EXPIRE_LIMIT ELSE WS_EXPIRE_LIMIT

\* checkConns looks at the shard of the peer.
checkConns ==
    /\ up /\ sweepIn = 0
    /\ sweepIn' = CHECK_CLIENT_INTERVAL
    /\ IF client /= "none" /\ IsExpired THEN DoUnregister
       ELSE UNCHANGED <<clientVars, keyVars, left>>
    /\ UNCHANGED <<up, there, cacheVars, unsaved, elsewhere, silence, goneFor>>

\* The process ends and leaves the key behind.
Crash ==
    /\ up
    /\ up' = FALSE
    /\ client' = "none" /\ reader' = FALSE /\ age' = 0 /\ waitFor' = 0
    /\ left' = (left \/ (client /= "none" /\ keyAt = "here"))
    /\ UNCHANGED <<sweepIn, keyVars, there, cacheVars, unsaved, elsewhere, silence, goneFor>>

Restart ==
    /\ ~up
    /\ up' = TRUE /\ sweepIn' = CHECK_CLIENT_INTERVAL
    /\ UNCHANGED <<clientVars, keyVars, there, cacheVars, histVars>>

-------------------------------------------------------------------------------
(* The other nodes.                                                          *)

\* DoRegister at another node; its SET may fail or be skipped.
RegisterThere ==
    /\ there' = TRUE /\ elsewhere' = TRUE
    /\ Set("there") \/ UNCHANGED keyVars
    /\ UNCHANGED <<up, clientVars, sweepIn, cacheVars, unsaved, silence, goneFor, left>>

\* A heartbeat of such a session, unless its EXPIRE is skipped.
HeartbeatThere ==
    /\ there
    /\ Expire
    /\ goneFor' = IF keyAt = "here" THEN 0 ELSE goneFor
    /\ UNCHANGED <<up, clientVars, sweepIn, there, cacheVars, unsaved, elsewhere, silence, left>>

\* DoUnregister at another node, or its crash; a third one may have a session still.
UnregisterThere ==
    /\ there
    /\ there' \in BOOLEAN
    /\ Del \/ UNCHANGED keyVars
    /\ UNCHANGED <<up, clientVars, sweepIn, cacheVars, histVars>>

\* GetRemotePeerAddr finds nothing in the cache and caches what Redis says.
GetRemotePeerAddr ==
    /\ cached = "none" /\ keyTtl > 0
    /\ cached' = keyAt /\ cacheAge' = 0
    /\ UNCHANGED <<up, clientVars, sweepIn, keyVars, there, cleanIn, histVars>>

Uncached == cached' = "none" /\ cacheAge' = 0

\* Mutant: the clean-up comes to old entries one round late.
CleanUpLate ==
    /\ cleanIn = 0
    /\ cleanIn' = CleanWindow
    /\ IF cacheAge > LifeWindow + CleanWindow THEN Uncached ELSE UNCHANGED <<cached, cacheAge>>
    /\ UNCHANGED <<up, clientVars, sweepIn, keyVars, there, histVars>>

\* bigcache drops entries older than LifeWindow, but only when it cleans up.
CleanUp ==
    /\ cleanIn = 0
    /\ cleanIn' = CleanWindow
    /\ IF cacheAge > LifeWindow THEN Uncached ELSE UNCHANGED <<cached, cacheAge>>
    /\ UNCHANGED <<up, clientVars, sweepIn, keyVars, there, histVars>>

\* An entry makes room for another.
Evict ==
    /\ cached /= "none" /\ Uncached
    /\ UNCHANGED <<up, clientVars, sweepIn, keyVars, cleanIn, there, histVars>>

-------------------------------------------------------------------------------
MaxAge == WS_EXPIRE_LIMIT + CHECK_CLIENT_INTERVAL + 1

Tick ==
    /\ (up => sweepIn > 0) /\ cleanIn > 0
    /\ age' = IF client = "none" THEN 0 ELSE More(age, MaxAge)
    /\ waitFor' = Less(waitFor)
    /\ sweepIn' = Less(sweepIn) /\ cleanIn' = cleanIn - 1
    /\ keyTtl' = Less(keyTtl) /\ keyAt' = IF keyTtl > 1 THEN keyAt ELSE "none"
    /\ cacheAge' = IF cached /= "none" THEN More(cacheAge, Horizon) ELSE 0
    /\ silence' = More(silence, PEER_EXPIRE_DUTATION)
    /\ goneFor' = IF client = "none" THEN More(goneFor, Horizon) ELSE 0
    /\ UNCHANGED <<up, client, reader, there, cached, unsaved, elsewhere, left>>

\* The peer is not there yet; the clocks of the two nodes are anywhere.
Init ==
    /\ up = TRUE /\ client = "none" /\ reader = FALSE /\ age = 0 /\ waitFor = 0
    /\ sweepIn \in 1..CHECK_CLIENT_INTERVAL /\ cleanIn \in 1..CleanWindow
    /\ keyAt = "none" /\ keyTtl = 0 /\ there = FALSE /\ cached = "none" /\ cacheAge = 0
    /\ unsaved = FALSE /\ elsewhere = FALSE /\ left = FALSE
    /\ silence = PEER_EXPIRE_DUTATION /\ goneFor = Horizon

Next ==
    \/ RegisterPolling \/ RegisterWs \/ Switch
    \/ Poll \/ PollAnswered \/ UpdateTs \/ Heartbeat
    \/ Leave \/ Drop \/ checkConns \/ Crash \/ Restart
    \/ RegisterThere \/ HeartbeatThere \/ UnregisterThere
    \/ GetRemotePeerAddr \/ CleanUp \/ Evict
    \/ Tick

Spec == Init /\ [][Next]_vars

-------------------------------------------------------------------------------
(* Properties.                                                               *)

\* A client that gives no sign of life is out of the hub after its limit and
\* one interval of checkConns: one whose connection is gone without notice, and
\* one that commonCheck turned away after it was registered, which keeps the
\* peer from connecting again ("ws already exist") until then.
SilentIsSwept ==
    client /= "none" =>
        age <= CHECK_CLIENT_INTERVAL
                 + IF client = "polling" THEN POLLING_EXPIRE_LIMIT ELSE WS_EXPIRE_LIMIT

\* The sweep never takes a peer away whose poll is waiting for a message: the
\* limit for polling clients is longer than a poll waits.  A peer that polls again
\* and again stays as long as one poll in POLLING_EXPIRE_LIMIT has to wait.
WaitingPollIsKept ==
    waitFor > 0 => ~IsExpired

\* A registered peer whose heartbeats were never PEER_EXPIRE_DUTATION apart can
\* be found here through Redis, however often it switches, polls or sends something
\* else in between, unless a Redis call failed or another node had a session of
\* the peer during this registration: the SET, and the DEL at the end, of that
\* session take the key away, and nothing but a new registration brings it back.
\* Polls and other messages do not count: they keep the peer in the hub, but not
\* its key.
PingedIsKnown ==
    (client /= "none" /\ ~unsaved /\ ~elsewhere /\ silence < PEER_EXPIRE_DUTATION)
        => keyAt = "here"

\* Other nodes stop sending messages for a peer to a node that it has left:
\* their caches forget the address within LifeWindow and CleanWindow, or, when
\* the node crashed or could not delete the key, after the key has expired too.
\* A session at another node whose SET failed keeps such a key alive with its
\* heartbeats; the time then counts from the last of these.
StaleIsBounded ==
    (cached = "here" /\ client = "none") =>
        goneFor <= LifeWindow + CleanWindow + IF left THEN PEER_EXPIRE_DUTATION ELSE 0
===============================================================================
