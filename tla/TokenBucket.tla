----------------------------- MODULE TokenBucket -----------------------------
(***************************************************************************)
(* util/ratelimit/ratelimit.go: the token bucket that limits requests.     *)
(* The calls that take tokens read the clock under the bucket's lock, so   *)
(* each is one step at the current tick.  Available reads the clock before *)
(* it locks, so it may come late and adjust the bucket to an older tick    *)
(* than the last call did.  Time is an integer since startTime; the Go     *)
(* clock is monotonic.  The program creates the bucket with a fill         *)
(* interval of one second and with capacity = quantum = max_rate, and      *)
(* calls only TakeAvailable(1); the model has the whole interface.         *)
(***************************************************************************)
EXTENDS Integers

CONSTANTS
    capacity,       \* most tokens the bucket holds
    quantum,        \* tokens added on a tick
    fillInterval,   \* time between two ticks
    Counts,         \* the counts callers ask for
    MaxWaits,       \* the maxWait arguments of TakeMaxDuration
    MaxTime,        \* bound on time
    MaxGranted      \* bound on the tokens given out

ASSUME BucketAssumption ==
    /\ capacity \in Nat \ {0}
    /\ quantum \in Nat \ {0}
    /\ fillInterval \in Nat \ {0}

ASSUME ArgumentsAssumption ==
    Counts \subseteq Int /\ MaxWaits \subseteq Nat /\ MaxTime \in Nat /\ MaxGranted \in Nat

VARIABLES
    now,                \* the clock
    availableTokens, latestTick,
    granted,            \* history: tokens given out so far
    waits,              \* history: for each caller told to wait, the tick at
                        \* which it may go on and granted after its call
    mark                \* history: a moment from which an observer counts

bucketVars == <<availableTokens, latestTick>>
vars == <<now, bucketVars, granted, waits, mark>>

currentTick == now \div fillInterval

\* Mutant: the tokens of an idle bucket pile up.
AdjustedToUncapped(tick) == availableTokens + (tick - latestTick) * quantum

\* adjustavailableTokens: the tokens there are at a tick, which is before
\* latestTick when the clock was read before another call locked the bucket.
AdjustedTo(tick) ==
    LET filled == availableTokens + (tick - latestTick) * quantum
    IN  IF availableTokens >= capacity THEN availableTokens
        ELSE IF filled > capacity THEN capacity
        ELSE filled

Adjusted == AdjustedTo(currentTick)

Give(count) ==
    /\ granted + count <= MaxGranted
    /\ availableTokens' = Adjusted - count
    /\ latestTick' = currentTick
    /\ granted' = granted + count
    /\ UNCHANGED <<now, mark>>

\* The bucket is brought up to date and nothing is taken.
Adjust ==
    /\ availableTokens' = Adjusted
    /\ latestTick' = currentTick
    /\ UNCHANGED <<now, granted, waits, mark>>

\* takeAvailable: as many of the tokens as there are.
TakeAvailable(count) ==
    /\ count > 0
    /\ \/ Adjusted <= 0 /\ Adjust
       \/ /\ Adjusted > 0
          /\ Give(IF count > Adjusted THEN Adjusted ELSE count)
          /\ UNCHANGED waits

\* Mutant: the missing tokens are rounded down to whole quanta.
EndTickRoundedDown(count) == currentTick + (count - Adjusted) \div quantum

\* The tick at which the missing tokens will be there, rounded up.
EndTick(count) == currentTick + (count - Adjusted + quantum - 1) \div quantum

\* All of the tokens, from the future if need be and if the wait is no longer
\* than maxWait.
take(count, maxWait) ==
    /\ count > 0
    /\ \/ /\ Adjusted >= count
          /\ Give(count)
          /\ UNCHANGED waits
       \/ /\ Adjusted < count
          /\ EndTick(count) * fillInterval - now > maxWait
          /\ Adjust
       \/ /\ Adjusted < count
          /\ EndTick(count) * fillInterval - now <= maxWait
          /\ Give(count)
          /\ waits' = waits \cup {[tick |-> EndTick(count), upto |-> granted + count]}

\* Longer than any wait.
infinityDuration == 2147483647

\* Take and Wait: however long it takes.  Wait sleeps for what Take returns.
Take(count) == take(count, infinityDuration)

\* TakeMaxDuration and WaitMaxDuration.
TakeMaxDuration(count, maxWait) == take(count, maxWait)

\* The bucket is adjusted to a tick read at any time before.
Available ==
    \E tick \in 0..currentTick :
        /\ availableTokens' = AdjustedTo(tick)
        /\ latestTick' = tick
        /\ UNCHANGED <<now, granted, waits, mark>>

-------------------------------------------------------------------------------
Tick ==
    /\ now < MaxTime
    /\ now' = now + 1
    /\ UNCHANGED <<bucketVars, granted, waits, mark>>

\* The observer starts to count.
Mark ==
    /\ mark' = [time |-> now, granted |-> granted]
    /\ UNCHANGED <<now, bucketVars, granted, waits>>

Init ==
    /\ now = 0
    /\ availableTokens = capacity
    /\ latestTick = 0
    /\ granted = 0
    /\ waits = {}
    /\ mark = [time |-> 0, granted |-> 0]

Next ==
    \/ \E count \in Counts : TakeAvailable(count) \/ Take(count)
    \/ \E count \in Counts, maxWait \in MaxWaits : TakeMaxDuration(count, maxWait)
    \/ Available
    \/ Tick
    \/ Mark

Spec == Init /\ [][Next]_vars

-------------------------------------------------------------------------------
(* Properties.                                                               *)

\* Type correctness; the bucket never holds more than its capacity and has
\* never looked into the future.
TypeOK ==
    /\ now \in Nat
    /\ availableTokens \in Int /\ availableTokens <= capacity
    /\ latestTick \in Nat /\ latestTick <= currentTick
    /\ granted \in Nat
    /\ waits \subseteq [tick : Nat, upto : Nat]
    /\ mark \in [time : Nat, granted : Nat]

\* Tokens taken from the future.
Debt == IF Adjusted < 0 THEN -Adjusted ELSE 0

\* The rate the bucket enforces: from any moment on, the tokens that have come
\* due are at most one full bucket and a quantum for every tick since then,
\* however the calls are spread and however long the bucket was idle before.
RateBound ==
    (granted - Debt) - mark.granted
        <= capacity + quantum * (currentTick - mark.time \div fillInterval)

\* The wait take computes is exact: the tokens of a caller that was told to
\* wait are there at the tick it was told and not a tick earlier, whatever
\* other callers take after it.
WaitIsExact ==
    \A w \in waits :
        currentTick >= w.tick <=> Adjusted + (granted - w.upto) >= 0
===============================================================================
