---------------------------- MODULE AdmissionProofs ----------------------------
(***************************************************************************)
(* Admission and its token bucket, for every capacity, quantum and fill    *)
(* interval, all counts and waits callers can ask for, and every bound on  *)
(* the time and on the tokens given out.                                   *)
(*                                                                         *)
(* Neither RateBound nor WaitIsExact is inductive.  The first needs that   *)
(* what was given out since the mark and what is available now are         *)
(* together within the bound, so that a debt pays for what it bought.  The *)
(* second needs by how much a caller's tokens are missing until its tick:  *)
(* a whole quantum for every tick to come, less than one quantum apart.    *)
(***************************************************************************)
EXTENDS Admission, TLAPS

USE BucketAssumption, ArgumentsAssumption, JoinsAssumption

-------------------------------------------------------------------------------
(* Arithmetic.                                                               *)

\* adjustavailableTokens as a function of the bucket and the tick.
Fill(a, t, k) ==
    IF a >= capacity THEN a
    ELSE IF a + (k - t) * quantum > capacity THEN capacity
    ELSE a + (k - t) * quantum

\* A tick adds a quantum, up to the capacity.
Topped(a) == IF a + quantum > capacity THEN capacity ELSE a + quantum

\* The clock's next unit is in the same tick or in the next one (currentTick).
LEMMA QuotientStep ==
    ASSUME NEW n \in Nat, NEW d \in Nat \ {0}
    PROVE  /\ n \div d \in Nat
           /\ (n + 1) \div d \in {n \div d, n \div d + 1}
<1> DEFINE q == n \div d
           r == (n + 1) \div d
<1>1. q \in Int /\ r \in Int /\ q >= 0
  OBVIOUS
<1>2. d * q <= n /\ n < d * (q + 1)
  OBVIOUS
<1>3. d * r <= n + 1 /\ n + 1 < d * (r + 1)
  OBVIOUS
<1> HIDE DEF q, r
<1>4. q < r + 1
  <2> SUFFICES ASSUME q >= r + 1 PROVE FALSE
    BY <1>1
  <2>1. d * q >= d * (r + 1)
    BY <1>1
  <2> QED BY <2>1, <1>1, <1>2, <1>3
<1>5. r < q + 2
  <2> SUFFICES ASSUME r >= q + 2 PROVE FALSE
    BY <1>1
  <2>1. d * r >= d * (q + 2)
    BY <1>1
  <2>2. d * (q + 2) = d * (q + 1) + d
    BY <1>1
  <2> QED BY <2>1, <2>2, <1>1, <1>2, <1>3
<1>6. r = q \/ r = q + 1
  BY <1>1, <1>4, <1>5
<1> QED BY <1>1, <1>6 DEF q, r

\* The bucket at its own tick, and what it can hold (adjustavailableTokens).
LEMMA FillBounds ==
    ASSUME NEW a \in Int, a <= capacity, NEW t \in Nat, NEW k \in Nat
    PROVE  Fill(a, t, k) \in Int /\ Fill(a, t, k) <= capacity /\ Fill(a, k, k) = a
<1>1. (k - t) * quantum \in Int /\ (k - k) * quantum = 0
  OBVIOUS
<1> QED BY <1>1 DEF Fill

\* Adjusting to a tick on the way, or to one before the last adjustment, does
\* not change what the bucket holds now (adjustavailableTokens).
LEMMA FillDetour ==
    ASSUME NEW a \in Int, a <= capacity,
           NEW t \in Nat, NEW s \in Nat, NEW k \in Nat, t <= k, s <= k
    PROVE  Fill(Fill(a, t, s), s, k) = Fill(a, t, k)
<1> DEFINE x == (s - t) * quantum
           y == (k - s) * quantum
           z == (k - t) * quantum
<1>1. x \in Int /\ y \in Int /\ z \in Int
  OBVIOUS
<1>2. y >= 0 /\ z >= 0 /\ z = x + y
  OBVIOUS
<1>3. /\ Fill(a, t, s) = IF a >= capacity THEN a ELSE IF a + x > capacity THEN capacity ELSE a + x
      /\ Fill(a, t, k) = IF a >= capacity THEN a ELSE IF a + z > capacity THEN capacity ELSE a + z
      /\ \A b : Fill(b, s, k) = IF b >= capacity THEN b
                               ELSE IF b + y > capacity THEN capacity ELSE b + y
  BY DEF Fill
<1> HIDE DEF x, y, z
<1>4. CASE a >= capacity
  BY <1>3, <1>4
<1>5. CASE a < capacity /\ a + x >= capacity
  BY <1>1, <1>2, <1>3, <1>5
<1>6. CASE a < capacity /\ a + x < capacity
  BY <1>1, <1>2, <1>3, <1>6
<1> QED BY <1>1, <1>4, <1>5, <1>6

\* The bucket one tick later (adjustavailableTokens).
LEMMA FillTick ==
    ASSUME NEW a \in Int, a <= capacity, NEW t \in Nat, NEW k \in Nat, t <= k
    PROVE  Fill(a, t, k + 1) = Topped(Fill(a, t, k))
<1> DEFINE p == (k - t) * quantum
<1>1. p \in Int /\ p >= 0
  OBVIOUS
<1>2. (k + 1 - t) * quantum = p + quantum
  OBVIOUS
<1> HIDE DEF p
<1>3. Fill(a, t, k + 1) = IF a >= capacity THEN a
                          ELSE IF a + (p + quantum) > capacity THEN capacity
                          ELSE a + (p + quantum)
  BY <1>2 DEF Fill
<1>4. Fill(a, t, k) = IF a >= capacity THEN a
                      ELSE IF a + p > capacity THEN capacity ELSE a + p
  BY DEF Fill, p
<1> QED BY <1>1, <1>3, <1>4 DEF Topped

\* EndTick rounds up: the quanta of the ticks until then cover what is missing,
\* with less than a quantum to spare.
LEMMA RoundedUp ==
    ASSUME NEW x \in Nat \ {0}
    PROVE  LET e == (x + quantum - 1) \div quantum
           IN  e \in Nat /\ 0 <= quantum * e - x /\ quantum * e - x < quantum
<1> DEFINE e == (x + quantum - 1) \div quantum
<1>1. e \in Int /\ e >= 0
  OBVIOUS
<1>2. quantum * e <= x + quantum - 1 /\ x + quantum - 1 < quantum * (e + 1)
  OBVIOUS
<1> HIDE DEF e
<1>3. quantum * (e + 1) = quantum * e + quantum /\ quantum * e \in Int
  BY <1>1
<1>4. e \in Nat /\ 0 <= quantum * e - x /\ quantum * e - x < quantum
  BY <1>1, <1>2, <1>3
<1> QED BY <1>4 DEF e

-------------------------------------------------------------------------------
(* The invariant, as a relation of the available tokens a, the tick k and    *)
(* the tokens g given out.                                                   *)

\* What was given out since the mark and what is left are within the bound.
Spent(a, k, g, mk, mg) == (g - mg) + a <= capacity + quantum * (k - mk)

\* What a waiting caller's tokens lack until its tick.
Exact(w, a, k, g) ==
    /\ w.upto <= g
    /\ k < w.tick =>
         LET lack == a + (g - w.upto) + quantum * (w.tick - k)
         IN  0 <= lack /\ lack < quantum
    /\ k >= w.tick => a + (g - w.upto) >= 0

Waiting == [tick : Nat, upto : Nat]

\* The bound across a tick.
LEMMA SpentTick ==
    ASSUME NEW a \in Int, a <= capacity, NEW k \in Nat, NEW g \in Nat,
           NEW mk \in Nat, NEW mg \in Nat, Spent(a, k, g, mk, mg)
    PROVE  Spent(Topped(a), k + 1, g, mk, mg)
<1>1. quantum * (k + 1 - mk) = quantum * (k - mk) + quantum /\ quantum * (k - mk) \in Int
  OBVIOUS
<1>2. Topped(a) \in Int /\ Topped(a) <= a + quantum
  BY DEF Topped
<1> QED BY <1>1, <1>2 DEF Spent

\* A waiting caller across a tick: only a bucket that owes nothing is capped.
LEMMA ExactTick ==
    ASSUME NEW a \in Int, a <= capacity, NEW k \in Nat, NEW g \in Nat,
           NEW w \in Waiting, Exact(w, a, k, g)
    PROVE  Exact(w, Topped(a), k + 1, g)
<1> DEFINE u == w.upto
           e == w.tick
           p == quantum * (e - k)
           b == a + (g - u)
           c == Topped(a) + (g - u)
<1>1. u \in Nat /\ e \in Nat /\ u <= g
  BY DEF Waiting, Exact
<1>2. p \in Int /\ quantum * (e - (k + 1)) = p - quantum
  BY <1>1
<1>3. /\ k < e => 0 <= b + p /\ b + p < quantum
      /\ k >= e => b >= 0
  BY DEF Exact
<1>4. /\ Topped(a) \in Int
      /\ a <= Topped(a)
      /\ a + quantum <= capacity => Topped(a) = a + quantum
      /\ a + quantum > capacity => Topped(a) = capacity
  BY DEF Topped
<1>5. k + 1 < e => p >= quantum + quantum
  BY <1>1
<1>6. k + 1 = e => p = quantum
  BY <1>1
<1> HIDE DEF u, e, p
<1>7. ASSUME k + 1 < e PROVE 0 <= c + (p - quantum) /\ c + (p - quantum) < quantum
  <2>1. b + p < quantum /\ 0 <= b + p
    BY <1>7, <1>1, <1>3
  <2>2. a + quantum < 0
    BY <2>1, <1>7, <1>5, <1>1, <1>2
  <2>3. Topped(a) = a + quantum
    BY <2>2, <1>4
  <2> QED BY <2>1, <2>3, <1>1, <1>2
<1>8. ASSUME k + 1 >= e PROVE c >= 0
  <2>1. CASE k >= e
    BY <2>1, <1>1, <1>3, <1>4
  <2>2. CASE k + 1 = e
    <3>1. 0 <= b + quantum
      BY <2>2, <1>1, <1>3, <1>6
    <3> QED BY <3>1, <1>1, <1>4
  <2> QED BY <2>1, <2>2, <1>8, <1>1
<1> QED BY <1>1, <1>2, <1>7, <1>8 DEF Exact, u, e, p

-------------------------------------------------------------------------------
(* The inductive invariant.                                                  *)

markTick == mark.time \div fillInterval

BucketInv ==
    /\ TypeOK
    /\ mark.time <= now /\ mark.granted <= granted
    /\ Spent(Adjusted, currentTick, granted, markTick, mark.granted)
    /\ \A w \in waits : Exact(w, Adjusted, currentTick, granted)

JoinsInv ==
    /\ joins \in Nat
    /\ joins <= granted - mark.granted
    /\ JoinsWithinRate

NilInv ==
    /\ limitEnabled \in BOOLEAN /\ limiter \in BOOLEAN /\ reloaded \in BOOLEAN
    /\ limitEnabled => limiter \/ reloaded
    /\ NilNeedsReload

\* Adjusted is Fill of the bucket at the current tick.
LEMMA AdjustedIsFill ==
    ASSUME TypeOK
    PROVE  /\ currentTick \in Nat /\ markTick \in Nat
           /\ Adjusted = Fill(availableTokens, latestTick, currentTick)
           /\ Adjusted \in Int /\ Adjusted <= capacity
<1>1. now \in Nat /\ mark.time \in Nat /\ latestTick \in Nat /\ latestTick <= currentTick
      /\ availableTokens \in Int /\ availableTokens <= capacity
  BY DEF TypeOK
<1>2. currentTick \in Nat
  BY <1>1, QuotientStep DEF currentTick
<1>3. markTick \in Nat
  BY <1>1, QuotientStep DEF markTick
<1>4. Adjusted = Fill(availableTokens, latestTick, currentTick)
  BY DEF Adjusted, AdjustedTo, Fill
<1>5. Adjusted \in Int /\ Adjusted <= capacity
  BY <1>1, <1>2, <1>4, FillBounds
<1> QED BY <1>2, <1>3, <1>4, <1>5

\* After a call the bucket holds what the call left, at the tick of the call.
LEMMA AfterCall ==
    ASSUME TypeOK, NEW a \in Int, a <= capacity,
           availableTokens' = a, latestTick' = currentTick, now' = now
    PROVE  Adjusted' = a /\ currentTick' = currentTick
<1>1. currentTick \in Nat
  BY AdjustedIsFill
<1>2. currentTick' = currentTick
  BY DEF currentTick
<1>3. Adjusted' = Fill(a, currentTick, currentTick)
  BY <1>2 DEF Adjusted, AdjustedTo, Fill
<1> QED BY <1>1, <1>2, <1>3, FillBounds

\* Adjust keeps the invariant: nothing is taken (adjustavailableTokens).
LEMMA AdjustInv ==
    ASSUME BucketInv, Adjust
    PROVE  BucketInv' /\ currentTick' = currentTick /\ Adjusted' = Adjusted
<1>1. TypeOK /\ Adjusted \in Int /\ Adjusted <= capacity /\ currentTick \in Nat
  BY AdjustedIsFill DEF BucketInv
<1>2. Adjusted' = Adjusted /\ currentTick' = currentTick
  BY <1>1, AfterCall DEF Adjust
<1>3. markTick' = markTick
  BY DEF Adjust, markTick
<1>4. TypeOK'
  <2>1. latestTick' = currentTick /\ availableTokens' = Adjusted
    BY DEF Adjust
  <2> QED BY <1>1, <1>2, <2>1 DEF TypeOK, Adjust
<1> QED BY <1>2, <1>3, <1>4 DEF BucketInv, Adjust

\* Available keeps the invariant, at whatever tick it read the clock: the bucket
\* holds now what it would have held without the call.
LEMMA AvailableInv ==
    ASSUME BucketInv, Available
    PROVE  BucketInv' /\ currentTick' = currentTick /\ UNCHANGED <<granted, mark>>
<1>1. /\ TypeOK /\ currentTick \in Nat
      /\ Adjusted = Fill(availableTokens, latestTick, currentTick)
  BY AdjustedIsFill DEF BucketInv
<1>2. PICK s \in 0..currentTick :
          /\ availableTokens' = AdjustedTo(s)
          /\ latestTick' = s
          /\ UNCHANGED <<now, granted, waits, mark>>
  BY DEF Available
<1>3. /\ s \in Nat /\ s <= currentTick
      /\ latestTick \in Nat /\ latestTick <= currentTick
      /\ availableTokens \in Int /\ availableTokens <= capacity
  BY <1>1 DEF TypeOK
<1>4. availableTokens' = Fill(availableTokens, latestTick, s)
  BY <1>2 DEF AdjustedTo, Fill
<1>5. currentTick' = currentTick /\ markTick' = markTick
  BY <1>2 DEF currentTick, markTick
<1>6. Adjusted' = Fill(availableTokens', s, currentTick)
  BY <1>2, <1>5 DEF Adjusted, AdjustedTo, Fill
<1>7. Adjusted' = Adjusted
  BY <1>1, <1>3, <1>4, <1>6, FillDetour
<1>8. availableTokens' \in Int /\ availableTokens' <= capacity
  BY <1>3, <1>4, FillBounds
<1>9. TypeOK'
  BY <1>1, <1>2, <1>3, <1>5, <1>8 DEF TypeOK
<1> QED BY <1>2, <1>5, <1>7, <1>9 DEF BucketInv

\* Give keeps the invariant: what is given leaves the bucket, and the callers
\* that wait lack as much as before.
LEMMA GiveInv ==
    ASSUME BucketInv, NEW count \in Nat \ {0}, Give(count),
           NEW W \in SUBSET Waiting, waits' = waits \cup W,
           \A w \in W : Exact(w, Adjusted - count, currentTick, granted + count)
    PROVE  /\ BucketInv'
           /\ currentTick' = currentTick
           /\ Adjusted' = Adjusted - count
<1> DEFINE a == Adjusted - count
<1>1. /\ TypeOK /\ Adjusted \in Int /\ Adjusted <= capacity
      /\ currentTick \in Nat /\ markTick \in Nat
  BY AdjustedIsFill DEF BucketInv
<1>2. a \in Int /\ a <= capacity
  BY <1>1
<1>3. availableTokens' = a /\ latestTick' = currentTick /\ now' = now
      /\ granted' = granted + count /\ mark' = mark
  BY DEF Give
<1>4. Adjusted' = a /\ currentTick' = currentTick
  BY <1>1, <1>2, <1>3, AfterCall
<1>5. markTick' = markTick
  BY <1>3 DEF markTick
<1>6. granted \in Nat /\ mark.granted \in Nat /\ mark.granted <= granted
      /\ mark.time <= now /\ waits \subseteq Waiting
  BY <1>1 DEF TypeOK, BucketInv, Waiting
<1>7. TypeOK'
  BY <1>1, <1>2, <1>3, <1>4, <1>6 DEF TypeOK, Waiting
<1>8. Spent(a, currentTick, granted + count, markTick, mark.granted)
  <2>1. quantum * (currentTick - markTick) \in Int
    BY <1>1
  <2>2. Spent(Adjusted, currentTick, granted, markTick, mark.granted)
    BY DEF BucketInv
  <2> QED BY <2>1, <2>2, <1>1, <1>6 DEF Spent
<1>9. ASSUME NEW w \in waits PROVE Exact(w, a, currentTick, granted + count)
  <2>1. Exact(w, Adjusted, currentTick, granted)
    BY DEF BucketInv
  <2>2. w.upto \in Nat /\ w.tick \in Nat
    BY <1>6 DEF Waiting
  <2>3. a + ((granted + count) - w.upto) = Adjusted + (granted - w.upto)
    BY <1>1, <1>6, <2>2
  <2>4. w.upto <= granted + count
    BY <2>1, <2>2, <1>6 DEF Exact
  <2> HIDE DEF a
  <2> QED BY <2>1, <2>3, <2>4 DEF Exact
<1>10. \A w \in waits' : Exact(w, a, currentTick, granted + count)
  BY <1>9
<1>11. mark'.time <= now' /\ mark'.granted <= granted'
  BY <1>3, <1>6
<1> HIDE DEF a
<1>12. BucketInv'
  BY <1>3, <1>4, <1>5, <1>7, <1>8, <1>10, <1>11 DEF BucketInv
<1> QED BY <1>4, <1>12 DEF a

\* Give to a caller that need not wait.
LEMMA GiveNowInv ==
    ASSUME BucketInv, NEW count \in Nat \ {0}, Give(count), UNCHANGED waits
    PROVE  BucketInv' /\ currentTick' = currentTick /\ Adjusted' = Adjusted - count
<1> DEFINE W == {}
<1>1. /\ W \in SUBSET Waiting
      /\ waits' = waits \cup W
      /\ \A w \in W : Exact(w, Adjusted - count, currentTick, granted + count)
  OBVIOUS
<1> HIDE DEF W
<1> QED BY <1>1, GiveInv

\* TakeAvailable keeps the invariant; when it gives a token the bucket still owes
\* nothing afterwards.
LEMMA TakeAvailableInv ==
    ASSUME BucketInv, NEW count \in Int, TakeAvailable(count)
    PROVE  /\ BucketInv'
           /\ currentTick' = currentTick /\ mark' = mark /\ granted' >= granted
           /\ Adjusted > 0 => granted' >= granted + 1 /\ Adjusted' >= 0
<1>1. Adjusted \in Int /\ granted \in Nat
  BY AdjustedIsFill DEF BucketInv, TypeOK
<1>2. CASE Adjusted <= 0 /\ Adjust
  BY <1>1, <1>2, AdjustInv DEF Adjust
<1>3. CASE /\ Adjusted > 0
           /\ Give(IF count > Adjusted THEN Adjusted ELSE count)
           /\ UNCHANGED waits
  <2> DEFINE c == IF count > Adjusted THEN Adjusted ELSE count
  <2>1. c \in Nat \ {0} /\ c <= Adjusted
    BY <1>1, <1>3 DEF TakeAvailable
  <2>2. Give(c) /\ UNCHANGED waits
    BY <1>3
  <2> HIDE DEF c
  <2>3. BucketInv' /\ currentTick' = currentTick /\ Adjusted' = Adjusted - c
    BY <2>1, <2>2, GiveNowInv
  <2>4. granted' = granted + c /\ mark' = mark
    BY <2>2 DEF Give
  <2> QED BY <1>1, <2>1, <2>3, <2>4
<1> QED BY <1>2, <1>3 DEF TakeAvailable

\* take keeps the invariant: the caller it tells to wait lacks what EndTick says.
LEMMA TakeInv ==
    ASSUME BucketInv, NEW count \in Int, NEW maxWait, take(count, maxWait)
    PROVE  BucketInv' /\ mark' = mark /\ currentTick' = currentTick /\ granted' >= granted
<1>1. Adjusted \in Int /\ currentTick \in Nat /\ granted \in Nat
  BY AdjustedIsFill DEF BucketInv, TypeOK
<1>2. count \in Nat \ {0}
  BY DEF take
<1>3. CASE Give(count) /\ UNCHANGED waits
  <2>1. BucketInv' /\ currentTick' = currentTick
    BY <1>2, <1>3, GiveNowInv
  <2> QED BY <1>1, <1>2, <1>3, <2>1 DEF Give
<1>4. CASE Adjust
  BY <1>1, <1>4, AdjustInv DEF Adjust
<1>5. CASE /\ Adjusted < count
           /\ Give(count)
           /\ waits' = waits \cup {[tick |-> EndTick(count), upto |-> granted + count]}
  <2> DEFINE x == count - Adjusted
             e == (x + quantum - 1) \div quantum
             w == [tick |-> currentTick + e, upto |-> granted + count]
  <2>1. x \in Nat \ {0}
    BY <1>1, <1>2, <1>5
  <2> HIDE DEF x
  <2>2. e \in Nat /\ 0 <= quantum * e - x /\ quantum * e - x < quantum
    BY <2>1, RoundedUp
  <2>3. EndTick(count) = currentTick + e
    BY DEF EndTick, x
  <2> HIDE DEF e
  <2>4. w \in Waiting
    BY <1>1, <1>2, <2>2 DEF Waiting
  <2>5. Exact(w, Adjusted - count, currentTick, granted + count)
    <3>1. w.tick - currentTick = e /\ w.tick = currentTick + e /\ w.upto = granted + count
      BY <1>1, <2>2
    <3>2. (Adjusted - count) + ((granted + count) - w.upto) = 0 - x
      BY <1>1, <1>2, <3>1 DEF x
    <3>3. quantum * e \in Int
      BY <2>2
    <3>4. e > 0
      <4> SUFFICES ASSUME e = 0 PROVE FALSE
        BY <2>2
      <4>1. quantum * e = 0
        OBVIOUS
      <4> QED BY <4>1, <2>1, <2>2
    <3>5. w.upto <= granted + count
      BY <1>1, <1>2, <3>1
    <3>6. currentTick < w.tick
      BY <1>1, <2>2, <3>1, <3>4
    <3> HIDE DEF w
    <3>7. 0 <= (0 - x) + quantum * (w.tick - currentTick)
          /\ (0 - x) + quantum * (w.tick - currentTick) < quantum
      BY <2>1, <2>2, <3>1, <3>3
    <3>8. ~(currentTick >= w.tick)
      BY <1>1, <2>2, <3>1, <3>4
    <3> QED BY <3>2, <3>5, <3>7, <3>8 DEF Exact
  <2>6. waits' = waits \cup {w}
    BY <1>5, <2>3
  <2> HIDE DEF w
  <2>7. {w} \in SUBSET Waiting
    BY <2>4
  <2>8. \A v \in {w} : Exact(v, Adjusted - count, currentTick, granted + count)
    BY <2>5
  <2>9. BucketInv' /\ currentTick' = currentTick
    BY <1>2, <1>5, <2>6, <2>7, <2>8, GiveInv
  <2> QED BY <1>1, <1>2, <1>5, <2>9 DEF Give
<1> QED BY <1>3, <1>4, <1>5 DEF take

\* The clock keeps the invariant.
LEMMA TickInv ==
    ASSUME BucketInv, Tick
    PROVE  BucketInv' /\ currentTick' >= currentTick /\ currentTick' \in Nat
<1> DEFINE k == currentTick
<1>1. /\ TypeOK /\ k \in Nat /\ markTick \in Nat /\ now \in Nat
      /\ Adjusted \in Int /\ Adjusted <= capacity
      /\ Adjusted = Fill(availableTokens, latestTick, k)
      /\ availableTokens \in Int /\ availableTokens <= capacity
      /\ latestTick \in Nat /\ latestTick <= k
      /\ granted \in Nat /\ mark.granted \in Nat /\ mark.time \in Nat
      /\ waits \subseteq Waiting
  BY AdjustedIsFill DEF BucketInv, TypeOK, Waiting
<1>2. currentTick' \in {k, k + 1}
  <2>1. currentTick' = (now + 1) \div fillInterval
    BY DEF Tick, currentTick
  <2> QED BY <1>1, <2>1, QuotientStep DEF currentTick
<1>3. Adjusted' = Fill(availableTokens, latestTick, currentTick')
  BY DEF Adjusted, AdjustedTo, Fill, Tick, bucketVars
<1>4. markTick' = markTick /\ mark' = mark /\ granted' = granted /\ waits' = waits
      /\ now' = now + 1 /\ latestTick' = latestTick /\ availableTokens' = availableTokens
  BY DEF Tick, markTick, bucketVars
<1>5. mark'.time <= now' /\ mark'.granted <= granted'
  BY <1>1, <1>4 DEF BucketInv
<1> HIDE DEF k
<1>6. TypeOK'
  BY <1>1, <1>2, <1>4 DEF TypeOK
<1>7. /\ Spent(Adjusted, k, granted, markTick, mark.granted)
      /\ \A w \in waits : Exact(w, Adjusted, k, granted)
  BY DEF BucketInv, k
<1>8. CASE currentTick' = k
  <2>1. Adjusted' = Adjusted
    BY <1>1, <1>3, <1>8
  <2> QED BY <2>1, <1>1, <1>4, <1>5, <1>6, <1>7, <1>8 DEF BucketInv, k
<1>9. CASE currentTick' = k + 1
  <2>1. Adjusted' = Topped(Adjusted)
    BY <1>1, <1>3, <1>9, FillTick
  <2>2. Spent(Topped(Adjusted), k + 1, granted, markTick, mark.granted)
    BY <1>1, <1>7, SpentTick
  <2>3. \A w \in waits : Exact(w, Topped(Adjusted), k + 1, granted)
    BY <1>1, <1>7, ExactTick
  <2>4. BucketInv'
    BY <2>1, <2>2, <2>3, <1>4, <1>5, <1>6, <1>9 DEF BucketInv
  <2> QED BY <2>4, <1>1, <1>9 DEF k
<1> QED BY <1>2, <1>8, <1>9

\* The observer's mark, and steps that leave the bucket and the clock alone.
LEMMA MarkInv ==
    ASSUME BucketInv, UNCHANGED <<now, bucketVars, granted, waits>>,
           mark' \in {mark, [time |-> now, granted |-> granted]}
    PROVE  BucketInv' /\ currentTick' = currentTick
<1>1. currentTick' = currentTick /\ Adjusted' = Adjusted
  BY DEF currentTick, Adjusted, AdjustedTo, bucketVars
<1>2. TypeOK /\ Adjusted \in Int /\ Adjusted <= capacity /\ currentTick \in Nat
  BY AdjustedIsFill DEF BucketInv
<1>3. TypeOK'
  BY <1>1, <1>2 DEF TypeOK, bucketVars
<1>4. CASE mark' = mark
  <2>1. markTick' = markTick
    BY <1>4 DEF markTick
  <2> QED BY <2>1, <1>1, <1>3, <1>4 DEF BucketInv
<1>5. CASE mark' = [time |-> now, granted |-> granted]
  <2>1. mark'.time = now /\ mark'.granted = granted
    BY <1>5
  <2>2. markTick' = currentTick
    BY <2>1 DEF markTick, currentTick
  <2>3. now \in Nat /\ granted \in Nat
    BY <1>2 DEF TypeOK
  <2>4. Spent(Adjusted, currentTick, granted, currentTick, granted)
    <3>1. quantum * (currentTick - currentTick) = 0
      BY <1>2
    <3> QED BY <1>2, <2>3, <3>1 DEF Spent
  <2>5. Spent(Adjusted, currentTick, granted, markTick, mark.granted)'
    BY <1>1, <2>1, <2>2, <2>4
  <2> QED BY <2>1, <2>3, <2>5, <1>1, <1>3 DEF BucketInv
<1> QED BY <1>4, <1>5

-------------------------------------------------------------------------------
(* The requests admitted.                                                    *)

\* A step that admits nothing and keeps the mark.
LEMMA JoinsKept ==
    ASSUME BucketInv, JoinsInv, BucketInv', joins' = joins, mark' = mark,
           granted' >= granted, currentTick' >= currentTick
    PROVE  JoinsInv'
<1>1. /\ currentTick \in Nat /\ markTick \in Nat /\ granted \in Nat
      /\ mark.granted \in Nat /\ joins \in Nat
  BY AdjustedIsFill DEF BucketInv, TypeOK, JoinsInv
<1>2. TypeOK'
  BY DEF BucketInv
<1>3. currentTick' \in Nat /\ granted' \in Nat
  <2>1. granted' \in Nat /\ now' \in Nat
    BY <1>2 DEF TypeOK
  <2> QED BY <2>1, QuotientStep DEF currentTick
<1>4. markTick' = markTick
  BY DEF markTick
<1>5. quantum * (currentTick - markTick) <= quantum * (currentTick' - markTick)
  <2>1. \A k, l, m \in Nat : k <= l => quantum * (k - m) <= quantum * (l - m)
    OBVIOUS
  <2> QED BY <1>1, <1>3, <2>1
<1>6. joins' <= capacity + quantum * (currentTick' - markTick)
  <2>1. joins <= capacity + quantum * (currentTick - markTick)
    BY DEF JoinsInv, JoinsWithinRate, markTick
  <2>2. quantum * (currentTick - markTick) \in Int /\ quantum * (currentTick' - markTick) \in Int
    BY <1>1, <1>3
  <2> QED BY <2>1, <2>2, <1>1, <1>5
<1>7. JoinsWithinRate'
  BY <1>4, <1>6 DEF JoinsWithinRate, markTick
<1>8. joins' \in Nat /\ joins' <= granted' - mark'.granted
  BY <1>1, <1>3 DEF JoinsInv
<1> QED BY <1>7, <1>8 DEF JoinsInv

\* A step that starts the count anew.
LEMMA JoinsFresh ==
    ASSUME BucketInv, joins' = 0, now' = now, granted' = granted,
           mark' = [time |-> now, granted |-> granted]
    PROVE  JoinsInv'
<1>1. currentTick \in Nat /\ granted \in Nat
  BY AdjustedIsFill DEF BucketInv, TypeOK
<1>2. mark'.granted = granted /\ mark'.time \div fillInterval = currentTick
      /\ currentTick' = currentTick
  BY DEF currentTick
<1>3. quantum * (currentTick - currentTick) = 0
  BY <1>1
<1>4. JoinsWithinRate'
  BY <1>2, <1>3 DEF JoinsWithinRate
<1>5. joins' <= granted' - mark'.granted
  BY <1>1, <1>2
<1> QED BY <1>4, <1>5 DEF JoinsInv

\* A request that the bucket admits: the bucket owes nothing afterwards, so all it
\* gave since the mark is within the bound (commonCheck).
LEMMA JoinsAdmitted ==
    ASSUME BucketInv, JoinsInv, BucketInv', joins' = joins + 1, mark' = mark,
           granted' >= granted + 1, Adjusted' >= 0
    PROVE  JoinsInv'
<1>1. granted \in Nat /\ mark.granted \in Nat /\ joins \in Nat
  BY DEF BucketInv, TypeOK, JoinsInv
<1>2. TypeOK'
  BY DEF BucketInv
<1>3. /\ granted' \in Nat /\ now' \in Nat
      /\ latestTick' \in Nat /\ latestTick' <= currentTick'
      /\ availableTokens' \in Int /\ availableTokens' <= capacity
  BY <1>2 DEF TypeOK
<1>4. currentTick' \in Nat /\ markTick' \in Nat
  <2>1. mark'.time \in Nat
    BY <1>2 DEF TypeOK
  <2> QED BY <1>3, <2>1, QuotientStep DEF currentTick, markTick
<1>5. Adjusted' \in Int
  <2>1. Adjusted' = Fill(availableTokens', latestTick', currentTick')
    BY DEF Adjusted, AdjustedTo, Fill
  <2> QED BY <1>3, <1>4, <2>1, FillBounds
<1>6. (granted' - mark'.granted) + Adjusted' <= capacity + quantum * (currentTick' - markTick')
  BY DEF BucketInv, Spent
<1>7. joins' <= granted' - mark'.granted
  BY <1>1, <1>3 DEF JoinsInv
<1>8. joins' <= capacity + quantum * (currentTick' - markTick')
  <2>1. quantum * (currentTick' - markTick') \in Int
    BY <1>4
  <2> QED BY <1>1, <1>3, <1>5, <1>6, <1>7, <2>1
<1>9. JoinsWithinRate'
  BY <1>8 DEF JoinsWithinRate, markTick
<1> QED BY <1>1, <1>7, <1>9 DEF JoinsInv

-------------------------------------------------------------------------------
(* The theorems.                                                             *)

IInv == BucketInv /\ JoinsInv /\ NilInv

\* The start of main satisfies the invariant.
LEMMA InvInit == AdmissionInit => IInv
<1> SUFFICES ASSUME AdmissionInit PROVE IInv
  OBVIOUS
<1>1. /\ now = 0 /\ availableTokens = capacity /\ latestTick = 0 /\ granted = 0
      /\ waits = {} /\ mark = [time |-> 0, granted |-> 0] /\ joins = 0
  BY DEF AdmissionInit, Init
<1>2. 0 \div fillInterval = 0
  OBVIOUS
<1>3. currentTick = 0 /\ markTick = 0
  BY <1>1, <1>2 DEF currentTick, markTick
<1>4. Adjusted = capacity
  BY <1>1 DEF Adjusted, AdjustedTo
<1>5. quantum * (0 - 0) = 0
  OBVIOUS
<1>6. BucketInv
  BY <1>1, <1>3, <1>4, <1>5 DEF BucketInv, TypeOK, Spent
<1>7. JoinsInv
  BY <1>1, <1>3, <1>5 DEF JoinsInv, JoinsWithinRate, markTick
<1>8. NilInv
  BY DEF AdmissionInit, NilInv, NilNeedsReload
<1> QED BY <1>6, <1>7, <1>8 DEF IInv

\* Every step of the bucket's own interface keeps the bucket's invariant.
LEMMA BucketNext ==
    ASSUME BucketInv, Next
    PROVE  /\ BucketInv'
           /\ \/ mark' = mark /\ granted' >= granted /\ currentTick' >= currentTick
              \/ /\ mark' = [time |-> now, granted |-> granted]
                 /\ now' = now /\ granted' = granted
<1>1. currentTick \in Nat /\ granted \in Nat
  BY AdjustedIsFill DEF BucketInv, TypeOK
<1>2. ASSUME NEW count \in Counts, TakeAvailable(count)
      PROVE  BucketInv' /\ mark' = mark /\ granted' >= granted /\ currentTick' >= currentTick
  <2>1. count \in Int
    OBVIOUS
  <2> QED BY <1>1, <1>2, <2>1, TakeAvailableInv
<1>3. ASSUME NEW count \in Counts, NEW maxWait, take(count, maxWait)
      PROVE  BucketInv' /\ mark' = mark /\ granted' >= granted /\ currentTick' >= currentTick
  <2>1. count \in Int
    OBVIOUS
  <2> QED BY <1>1, <1>3, <2>1, TakeInv
<1>4. CASE Available
  BY <1>1, <1>4, AvailableInv
<1>5. CASE Tick
  BY <1>1, <1>5, TickInv DEF Tick
<1>6. CASE Mark
  BY <1>6, MarkInv DEF Mark
<1> QED BY <1>2, <1>3, <1>4, <1>5, <1>6 DEF Next, Take, TakeMaxDuration

\* Every step of the node keeps the invariant.
LEMMA InvNext == IInv /\ [AdmissionNext]_admissionVars => IInv'
<1> SUFFICES ASSUME IInv, [AdmissionNext]_admissionVars PROVE IInv'
  OBVIOUS
<1>1. BucketInv /\ JoinsInv /\ NilInv /\ currentTick \in Nat /\ granted \in Nat
  BY AdjustedIsFill DEF IInv, BucketInv, TypeOK
<1>2. ASSUME NEW enable \in BOOLEAN, Reload(enable) PROVE IInv'
  <2>1. BucketInv' /\ currentTick' = currentTick
    BY <1>1, <1>2, MarkInv DEF Reload
  <2>2. JoinsInv'
    <3>1. CASE UNCHANGED <<mark, joins>>
      BY <1>1, <1>2, <2>1, <3>1, JoinsKept DEF Reload
    <3>2. CASE mark' = [time |-> now, granted |-> granted] /\ joins' = 0
      BY <1>1, <1>2, <3>2, JoinsFresh DEF Reload
    <3> QED BY <1>2, <3>1, <3>2 DEF Reload
  <2>3. NilInv'
    BY <1>1, <1>2 DEF Reload, NilInv, NilNeedsReload
  <2> QED BY <2>1, <2>2, <2>3 DEF IInv
<1>3. CASE CheckLimit
  <2>1. TakeAvailable(1)
    BY <1>3 DEF CheckLimit
  <2>2. /\ BucketInv' /\ currentTick' = currentTick /\ mark' = mark /\ granted' >= granted
        /\ Adjusted > 0 => granted' >= granted + 1 /\ Adjusted' >= 0
    BY <1>1, <2>1, TakeAvailableInv
  <2>3. JoinsInv'
    <3>1. CASE Adjusted > 0
      BY <1>1, <1>3, <2>2, <3>1, JoinsAdmitted DEF CheckLimit
    <3>2. CASE ~(Adjusted > 0)
      BY <1>1, <1>3, <2>2, <3>2, JoinsKept DEF CheckLimit
    <3> QED BY <3>1, <3>2
  <2>4. NilInv'
    BY <1>1, <1>3 DEF CheckLimit, configVars, NilInv, NilNeedsReload
  <2> QED BY <2>2, <2>3, <2>4 DEF IInv
<1>4. ASSUME UNCHANGED <<vars, joins>> PROVE BucketInv' /\ JoinsInv'
  <2>1. BucketInv' /\ currentTick' = currentTick
    BY <1>1, <1>4, MarkInv DEF vars
  <2>2. JoinsInv'
    BY <1>1, <1>4, <2>1, JoinsKept DEF vars
  <2> QED BY <2>1, <2>2
<1>5. CASE CheckNil
  <2>1. BucketInv' /\ JoinsInv'
    BY <1>4, <1>5 DEF CheckNil
  <2>2. NilInv'
    BY <1>1, <1>5 DEF CheckNil, configVars, NilInv, NilNeedsReload
  <2> QED BY <2>1, <2>2 DEF IInv
<1>6. CASE NodeChanges
  <2>1. BucketInv' /\ JoinsInv'
    BY <1>4, <1>6 DEF NodeChanges, historyVars
  <2>2. NilInv'
    BY <1>1, <1>6 DEF NodeChanges, configVars, historyVars, NilInv, NilNeedsReload
  <2> QED BY <2>1, <2>2 DEF IInv
<1>7. CASE BucketStep
  <2>1. /\ BucketInv'
        /\ \/ mark' = mark /\ granted' >= granted /\ currentTick' >= currentTick
           \/ /\ mark' = [time |-> now, granted |-> granted]
              /\ now' = now /\ granted' = granted
    BY <1>1, <1>7, BucketNext DEF BucketStep
  <2>2. JoinsInv'
    <3>1. CASE mark' = mark
      <4>1. granted' >= granted /\ currentTick' >= currentTick
        <5>1. CASE now' = now /\ granted' = granted
          BY <1>1, <5>1 DEF currentTick
        <5> QED BY <2>1, <5>1
      <4> QED BY <1>1, <1>7, <2>1, <3>1, <4>1, JoinsKept DEF BucketStep
    <3>2. CASE mark' # mark
      BY <1>1, <1>7, <2>1, <3>2, JoinsFresh DEF BucketStep
    <3> QED BY <3>1, <3>2
  <2>3. NilInv'
    BY <1>1, <1>7 DEF BucketStep, configVars, NilInv, NilNeedsReload
  <2> QED BY <2>1, <2>2, <2>3 DEF IInv
<1>8. CASE UNCHANGED admissionVars
  <2>1. BucketInv' /\ JoinsInv'
    BY <1>4, <1>8 DEF admissionVars, historyVars
  <2>2. NilInv'
    BY <1>1, <1>8 DEF admissionVars, configVars, historyVars, NilInv, NilNeedsReload
  <2> QED BY <2>1, <2>2 DEF IInv
<1> QED BY <1>2, <1>3, <1>5, <1>6, <1>7, <1>8 DEF AdmissionNext

\* The invariant holds in every state of the node.
LEMMA InvariantHolds == AdmissionSpec => []IInv
<1> QED BY InvInit, InvNext, PTL DEF AdmissionSpec

\* For every bucket and every order of calls and ticks: the tokens that have come
\* due since any moment are at most one full bucket and a quantum for every tick
\* since (takeAvailable, take, adjustavailableTokens).
THEOREM RateSafe == AdmissionSpec => []RateBound
<1>1. IInv => RateBound
  <2> SUFFICES ASSUME IInv PROVE RateBound
    OBVIOUS
  <2>1. /\ Adjusted \in Int /\ granted \in Nat /\ mark.granted \in Nat
        /\ currentTick \in Nat /\ markTick \in Nat
    BY AdjustedIsFill DEF IInv, BucketInv, TypeOK
  <2>2. (granted - mark.granted) + Adjusted <= capacity + quantum * (currentTick - markTick)
    BY DEF IInv, BucketInv, Spent
  <2>3. Debt \in Nat /\ 0 - Debt <= Adjusted
    BY <2>1 DEF Debt
  <2>4. quantum * (currentTick - markTick) \in Int
    BY <2>1
  <2>5. (granted - Debt) - mark.granted <= capacity + quantum * (currentTick - markTick)
    BY <2>1, <2>2, <2>3, <2>4
  <2> QED BY <2>5 DEF RateBound, markTick
<1> QED BY <1>1, InvariantHolds, PTL

\* For every bucket: a caller told to wait finds its tokens at the tick it was
\* told and not before, whatever other callers take after it (take).
THEOREM WaitSafe == AdmissionSpec => []WaitIsExact
<1>1. IInv => WaitIsExact
  <2> SUFFICES ASSUME IInv, NEW w \in waits
               PROVE  currentTick >= w.tick <=> Adjusted + (granted - w.upto) >= 0
    BY DEF WaitIsExact
  <2>1. Adjusted \in Int /\ granted \in Nat /\ currentTick \in Nat /\ waits \subseteq Waiting
    BY AdjustedIsFill DEF IInv, BucketInv, TypeOK, Waiting
  <2>2. w.tick \in Nat /\ w.upto \in Nat
    BY <2>1 DEF Waiting
  <2>3. Exact(w, Adjusted, currentTick, granted)
    BY DEF IInv, BucketInv
  <2>4. CASE currentTick >= w.tick
    BY <2>3, <2>4 DEF Exact
  <2>5. CASE currentTick < w.tick
    <3>1. Adjusted + (granted - w.upto) + quantum * (w.tick - currentTick) < quantum
      BY <2>3, <2>5 DEF Exact
    <3>2. quantum * (w.tick - currentTick) \in Int /\ quantum * (w.tick - currentTick) >= quantum
      BY <2>1, <2>2, <2>5
    <3> QED BY <2>1, <2>2, <2>5, <3>1, <3>2
  <2> QED BY <2>1, <2>2, <2>4, <2>5
<1> QED BY <1>1, InvariantHolds, PTL

\* For every bucket: the requests commonCheck admits under the limit since any
\* moment are within the bucket's rate, whatever debt other callers have made.
THEOREM JoinsSafe == AdmissionSpec => []JoinsWithinRate
<1>1. IInv => JoinsWithinRate
  BY DEF IInv, JoinsInv
<1> QED BY <1>1, InvariantHolds, PTL

\* A request meets a nil limiter only after a reload switched the limit on in a
\* node started without it (setupConfigFromViper, commonCheck).
THEOREM NilSafe == AdmissionSpec => []NilNeedsReload
<1>1. IInv => NilNeedsReload
  BY DEF IInv, NilInv
<1> QED BY <1>1, InvariantHolds, PTL
===============================================================================
