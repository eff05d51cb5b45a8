-------------------------- MODULE PeerLifetimeProofs --------------------------
(***************************************************************************)
(* Proofs about PeerLifetime, for every choice of the intervals: how long  *)
(* a silent client stays in the hub, that a waiting poll is safe from the  *)
(* sweep, that a peer that pings is known to Redis, and how long another   *)
(* node sends to an address the peer has left.                             *)
(*                                                                         *)
(* Each property bounds one clock.  It becomes inductive when the clock is *)
(* added to the countdown that ends it: time moves a unit from the one to  *)
(* the other.                                                              *)
(***************************************************************************)
EXTENDS PeerLifetime, TLAPS

LifetimeType ==
    /\ client \in {"none", "polling", "ws"}
    /\ age \in Nat /\ waitFor \in Nat /\ cacheAge \in Nat
    /\ silence \in Nat /\ goneFor \in Nat
    /\ sweepIn \in 0..CHECK_CLIENT_INTERVAL /\ cleanIn \in 0..CleanWindow
    /\ keyTtl \in 0..PEER_EXPIRE_DUTATION
    /\ keyAt \in {"none", "here", "there"} /\ (keyAt = "none" <=> keyTtl = 0)

\* The age at which IsExpired begins to say yes.
Limit == IF client = "polling" THEN POLLING_EXPIRE_LIMIT ELSE WS_EXPIRE_LIMIT

\* The next sweep comes before the client is older than its limit and an interval;
\* a reader belongs to a client.
SweepInTime ==
    /\ client /= "none" => up /\ age + sweepIn <= Limit + CHECK_CLIENT_INTERVAL
    /\ reader => client = "ws"

\* A poll that waits has made the client young when it began.
PollIsYoung ==
    waitFor > 0 => client = "polling" /\ age + waitFor <= PollTimeout

\* While no other node has a session, the key names this one and lasts until the
\* silence is too long.
KeyCoversSilence ==
    /\ (client /= "none" /\ there) => elsewhere
    /\ (client /= "none" /\ ~unsaved /\ ~elsewhere /\ silence < PEER_EXPIRE_DUTATION)
          => keyAt = "here" /\ keyTtl + silence >= PEER_EXPIRE_DUTATION

\* A key that names this node without a client was left behind, and has run since
\* the client went or another node extended it.
KeyLeftBehind ==
    /\ client /= "none" => goneFor = 0
    /\ (client = "none" /\ keyAt = "here") => left /\ goneFor + keyTtl <= PEER_EXPIRE_DUTATION

\* The next clean-up comes before the entry is older than both windows.
CleanInTime ==
    cached /= "none" => cacheAge + cleanIn <= LifeWindow + CleanWindow

\* An entry is older than the absence of the peer, or was made from a key that
\* was left behind.
EntryFollowsPeer ==
    (cached = "here" /\ client = "none") =>
        goneFor <= cacheAge + IF left THEN PEER_EXPIRE_DUTATION ELSE 0

IInv ==
    /\ LifetimeType
    /\ SweepInTime /\ PollIsYoung
    /\ KeyCoversSilence
    /\ KeyLeftBehind /\ CleanInTime /\ EntryFollowsPeer

-------------------------------------------------------------------------------
(* The invariant.                                                            *)

\* The intervals are positive numbers.
LEMMA Intervals ==
    /\ WS_EXPIRE_LIMIT \in Nat \ {0} /\ POLLING_EXPIRE_LIMIT \in Nat \ {0}
    /\ CHECK_CLIENT_INTERVAL \in Nat \ {0} /\ PEER_EXPIRE_DUTATION \in Nat \ {0}
    /\ LifeWindow \in Nat \ {0} /\ CleanWindow \in Nat \ {0}
    /\ PollTimeout \in Nat \ {0}
  BY TimeAssumption

\* A key is left behind with at most its full time to live.
LEMMA KeyJustLeft ==
    ASSUME NEW gone, gone = 0, NEW ttl \in 0..PEER_EXPIRE_DUTATION
    PROVE  gone + ttl <= PEER_EXPIRE_DUTATION
  BY Intervals

LEMMA InvInit == Init => IInv
  BY Intervals
  DEF Init, Horizon, IInv, LifetimeType, SweepInTime, PollIsYoung, KeyCoversSilence,
      KeyLeftBehind, CleanInTime, EntryFollowsPeer

LEMMA InvNext == IInv /\ [Next]_vars => IInv'
  <1> SUFFICES ASSUME IInv, [Next]_vars PROVE IInv'
    OBVIOUS
  <1> USE Intervals
      DEF IInv, LifetimeType, SweepInTime, Limit, PollIsYoung, KeyCoversSilence,
          KeyLeftBehind, CleanInTime, EntryFollowsPeer, clientVars, keyVars, cacheVars, histVars,
          Set, Del, Expire
  <1>1. CASE RegisterPolling
    BY <1>1 DEF RegisterPolling, SetLocalPeer
  <1>2. CASE RegisterWs
    BY <1>2 DEF RegisterWs, SetLocalPeer
  <1>3. CASE Switch
    BY <1>3 DEF Switch
  <1>4. CASE Poll
    BY <1>4 DEF Poll
  <1>5. CASE PollAnswered
    BY <1>5 DEF PollAnswered
  <1>6. CASE UpdateTs
    BY <1>6 DEF UpdateTs, Heard
  <1>7. CASE Heartbeat
    BY <1>7 DEF Heartbeat, Heard, Heartbeaten, UpdateLocalPeerExpiration
  <1>0. ASSUME client /= "none", DoUnregister, sweepIn' \in 0..CHECK_CLIENT_INTERVAL,
               UNCHANGED <<cached, cacheAge, cleanIn, unsaved, elsewhere, silence, goneFor>>
        PROVE  IInv'
    <2>1. keyAt' = "here" => left'
      BY <1>0, Zenon DEF DoUnregister
    <2>2. /\ client' = "none" /\ reader' = FALSE /\ age' = 0 /\ waitFor' = 0
          /\ keyAt' \in {"none", "here", "there"} /\ keyTtl' \in 0..PEER_EXPIRE_DUTATION
          /\ (keyAt' = "none" <=> keyTtl' = 0)
      BY <1>0 DEF DoUnregister
    <2>3. goneFor' = 0 /\ UNCHANGED <<cached, cacheAge, cleanIn, silence>>
      BY <1>0
    <2>4. LifetimeType' /\ SweepInTime' /\ PollIsYoung' /\ KeyCoversSilence' /\ CleanInTime'
      BY <1>0, <2>2, <2>3
    <2>5. KeyLeftBehind'
      <3>1. goneFor' + keyTtl' <= PEER_EXPIRE_DUTATION
        BY <2>2, <2>3, KeyJustLeft, Zenon
      <3> QED
        BY <2>1, <2>2, <3>1, Zenon DEF KeyLeftBehind
    <2>6. EntryFollowsPeer'
      BY <2>3, <2>4
    <2> QED
      BY <2>4, <2>5, <2>6, Zenon DEF IInv
  <1>8. CASE Leave
    BY <1>0, <1>8 DEF Leave, Heard
  <1>9. CASE Drop
    BY <1>0, <1>9 DEF Drop
  <1>10. CASE checkConns
    <2>1. CASE client /= "none" /\ IsExpired
      BY <1>0, <1>10, <2>1 DEF checkConns
    <2>2. CASE ~(client /= "none" /\ IsExpired)
      BY <1>10, <2>2 DEF checkConns, IsExpired
    <2> QED
      BY <2>1, <2>2
  <1>11. CASE Crash
    <2>1. /\ client = "none" => (left' <=> left)
          /\ (client /= "none" /\ keyAt = "here") => left'
          /\ left => left'
      BY <1>11, Zenon DEF Crash
    <2>2. /\ client' = "none" /\ reader' = FALSE /\ age' = 0 /\ waitFor' = 0
          /\ UNCHANGED <<sweepIn, keyAt, keyTtl, cached, cacheAge, cleanIn, unsaved>>
          /\ UNCHANGED <<silence, goneFor>>
      BY <1>11 DEF Crash
    <2> QED
      BY <2>1, <2>2
  <1>12. CASE Restart
    BY <1>12 DEF Restart
  <1>13. CASE RegisterThere \/ HeartbeatThere \/ UnregisterThere
    <2>1. CASE RegisterThere
      BY <2>1 DEF RegisterThere
    <2>2. CASE HeartbeatThere
      BY <2>2 DEF HeartbeatThere
    <2>3. CASE UnregisterThere
      BY <2>3 DEF UnregisterThere
    <2> QED
      BY <1>13, <2>1, <2>2, <2>3
  <1>14. CASE GetRemotePeerAddr
    BY <1>14 DEF GetRemotePeerAddr
  <1>15. CASE CleanUp
    BY <1>15 DEF CleanUp, Uncached
  <1>16. CASE Evict
    BY <1>16 DEF Evict, Uncached
  <1>17. CASE Tick
    BY <1>17 DEF Tick, Less, More, MaxAge, Horizon
  <1>18. CASE UNCHANGED vars
    BY <1>18 DEF vars
  <1> QED
    BY <1>1, <1>2, <1>3, <1>4, <1>5, <1>6, <1>7, <1>8, <1>9, <1>10, <1>11, <1>12,
       <1>13, <1>14, <1>15, <1>16, <1>17, <1>18, Zenon
    DEF Next

LEMMA Invariance == Spec => []IInv
  BY InvInit, InvNext, PTL DEF Spec

-------------------------------------------------------------------------------
(* The properties.                                                           *)

\* A client that gives no sign of life is out of the hub after its limit and
\* one interval of checkConns, whatever the limits and the interval are.
THEOREM SilentSafe == Spec => []SilentIsSwept
  <1>1. IInv => SilentIsSwept
    BY Intervals DEF IInv, LifetimeType, SweepInTime, Limit, SilentIsSwept
  <1> QED
    BY <1>1, Invariance, PTL

\* No sweep of checkConns takes away a client whose poll is waiting, for every
\* limit of IsExpired that is longer than a poll waits.
THEOREM PollSafe == Spec => []WaitingPollIsKept
  <1>1. IInv => WaitingPollIsKept
    BY Intervals, PollAssumption DEF IInv, LifetimeType, PollIsYoung, IsExpired, WaitingPollIsKept
  <1> QED
    BY <1>1, Invariance, PTL

\* While no two heartbeats are PEER_EXPIRE_DUTATION apart and no other node has a
\* session of it, the Redis key of a registered peer is there and names its node
\* (SetLocalPeer, UpdateLocalPeerExpiration).
THEOREM PingedSafe == Spec => []PingedIsKnown
  <1>1. IInv => PingedIsKnown
    BY Intervals DEF IInv, LifetimeType, KeyCoversSilence, PingedIsKnown
  <1> QED
    BY <1>1, Invariance, PTL

\* The address cache of another node forgets a peer within LifeWindow and
\* CleanWindow of its departure, and within PEER_EXPIRE_DUTATION more, counted from
\* the last heartbeat elsewhere that extended it, when the key was left behind
\* (GetRemotePeerAddr, DoUnregister, UpdateLocalPeerExpiration).
THEOREM StaleSafe == Spec => []StaleIsBounded
  <1>1. IInv => StaleIsBounded
    BY Intervals DEF IInv, LifetimeType, CleanInTime, EntryFollowsPeer, StaleIsBounded
  <1> QED
    BY <1>1, Invariance, PTL
===============================================================================
