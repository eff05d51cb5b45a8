------------------------- MODULE AggregatorLossProofs -------------------------
(***************************************************************************)
(* What a failing push can cost, for any number of signals, any batch      *)
(* size, any number of failures and panics: LossHasCause of Aggregator.    *)
(*                                                                         *)
(* LossHasCause speaks of the slots a retry has lost; to keep it, one      *)
(* needs of every slot of every retry that it still holds the signal it    *)
(* was made with, or one the worker received a whole batch later.          *)
(***************************************************************************)
EXTENDS AggregatorProofs

\* Sequence t begins with s.
Begins(s, t) == Len(s) <= Len(t) /\ \A k \in 1..Len(s) : t[k] = s[k]

\* The slice an error handler holds, made when first signals had been handed over;
\* now h has been handed over and rc received.
SlotOK(first, items, h, rc) ==
    /\ first + Len(items) <= Len(h)
    /\ \A k \in 1..Len(items) :
          \/ items[k] = h[first + k]
          \/ \E q \in (first + k + Len(items))..Len(rc) : items[k] = rc[q]

\* Position p of what was handed over is in a batch whose push failed.
Retried(p, rs) == \E r \in DOMAIN rs : p - rs[r].first \in 1..Len(rs[r].items)

Slots(w) == \A r \in DOMAIN retries :
    SlotOK(retries[r].first, retries[r].items, handed, handed \o batch[w])

Accounted ==
    \A p \in 1..Len(handed) : handed[p] \in InList \cup panicked \/ Retried(p, retries)

LInv == \A w \in Workers : Workers = {w} => Slots(w) /\ Accounted

\* A slot stays good when more is received and handed over.
LEMMA SlotKept ==
  ASSUME NEW f \in Nat, NEW items \in Seq(Items),
         NEW h \in Seq(Items), NEW h2 \in Seq(Items), Begins(h, h2),
         NEW rc \in Seq(Items), NEW rc2 \in Seq(Items), Begins(rc, rc2),
         SlotOK(f, items, h, rc)
  PROVE  SlotOK(f, items, h2, rc2)
  <1> DEFINE n == Len(items)
  <1>1. n \in Nat
    OBVIOUS
  <1>2. /\ Len(h) \in Nat /\ Len(h2) \in Nat /\ Len(h) <= Len(h2)
        /\ Len(rc) \in Nat /\ Len(rc2) \in Nat /\ Len(rc) <= Len(rc2)
        /\ \A k \in 1..Len(h) : h2[k] = h[k]
        /\ \A k \in 1..Len(rc) : rc2[k] = rc[k]
    BY DEF Begins
  <1>3. /\ f + n <= Len(h)
        /\ \A k \in 1..n : \/ items[k] = h[f + k]
                           \/ \E q \in (f + k + n)..Len(rc) : items[k] = rc[q]
    BY Zenon DEF SlotOK
  <1> SUFFICES /\ f + n <= Len(h2)
               /\ \A k \in 1..n : \/ items[k] = h2[f + k]
                                  \/ \E q \in (f + k + n)..Len(rc2) : items[k] = rc2[q]
    BY Zenon DEF SlotOK
  <1> HIDE DEF n
  <1>4. f + n <= Len(h2)
    BY <1>1, <1>2, <1>3
  <1>5. ASSUME NEW k \in 1..n
        PROVE  \/ items[k] = h2[f + k]
               \/ \E q \in (f + k + n)..Len(rc2) : items[k] = rc2[q]
    <2>1. CASE items[k] = h[f + k]
      <3>1. f + k \in 1..Len(h)
        BY <1>1, <1>2, <1>3
      <3> QED
        BY <1>2, <2>1, <3>1
    <2>2. ASSUME NEW q \in (f + k + n)..Len(rc), items[k] = rc[q]
          PROVE  \E j \in (f + k + n)..Len(rc2) : items[k] = rc2[j]
      <3>1. q \in 1..Len(rc) /\ q \in (f + k + n)..Len(rc2)
        BY <1>1, <1>2
      <3> QED
        BY <1>2, <2>2, <3>1, Zenon
    <2> QED
      BY <1>3, <2>1, <2>2, Zenon
  <1> QED
    BY <1>4, <1>5

\* A slot the worker's append overwrites holds a signal received a batch later.
LEMMA SlotWritten ==
  ASSUME NEW f \in Nat, NEW items \in Seq(Items), NEW h \in Seq(Items), NEW rc \in Seq(Items),
         NEW k0 \in 1..Len(items), NEW i \in Items,
         Len(rc) + 1 = Len(h) + k0,
         SlotOK(f, items, h, rc)
  PROVE  SlotOK(f, [items EXCEPT ![k0] = i], h, Append(rc, i))
  <1> DEFINE n == Len(items)
             rc2 == Append(rc, i)
             items2 == [items EXCEPT ![k0] = i]
  <1>1. n \in Nat /\ k0 \in 1..n
    OBVIOUS
  <1>2. /\ Len(h) \in Nat /\ Len(rc) \in Nat /\ Len(rc2) = Len(rc) + 1
        /\ \A k \in 1..Len(rc) : rc2[k] = rc[k]
        /\ rc2[Len(rc) + 1] = i
    OBVIOUS
  <1>3. /\ f + n <= Len(h)
        /\ \A k \in 1..n : \/ items[k] = h[f + k]
                           \/ \E q \in (f + k + n)..Len(rc) : items[k] = rc[q]
    BY Zenon DEF SlotOK
  <1>4. /\ Len(items2) = n /\ items2[k0] = i
        /\ \A k \in 1..n : k /= k0 => items2[k] = items[k]
    BY <1>1
  <1> SUFFICES SlotOK(f, items2, h, rc2)
    OBVIOUS
  <1> HIDE DEF n, rc2, items2
  <1>5. ASSUME NEW k \in 1..n
        PROVE  \/ items2[k] = h[f + k]
               \/ \E q \in (f + k + n)..Len(rc2) : items2[k] = rc2[q]
    <2>1. CASE k = k0
      <3>1. Len(rc) + 1 \in (f + k + n)..Len(rc2)
        BY <1>1, <1>2, <1>3, <2>1
      <3> QED
        BY <1>2, <1>4, <2>1, <3>1, Zenon
    <2>2. CASE k /= k0
      <3>1. items2[k] = items[k]
        BY <1>4, <2>2
      <3>2. ASSUME NEW q \in (f + k + n)..Len(rc), items[k] = rc[q]
            PROVE  \E j \in (f + k + n)..Len(rc2) : items2[k] = rc2[j]
        <4>1. q \in 1..Len(rc) /\ q \in (f + k + n)..Len(rc2)
          BY <1>1, <1>2
        <4> QED
          BY <1>2, <3>1, <3>2, <4>1, Zenon
      <3> QED
        BY <1>3, <3>1, <3>2, Zenon
    <2> QED
      BY <2>1, <2>2
  <1>6. f + Len(items2) <= Len(h)
    BY <1>3, <1>4
  <1> QED
    BY <1>4, <1>5, <1>6, Zenon DEF SlotOK

LEMMA ListGrows ==
  ASSUME IInv, NEW b \in Seq(Items), pushed' \in {pushed, Append(pushed, b)}
  PROVE  /\ InList \subseteq InList'
         /\ pushed' = Append(pushed, b) => Range(b) \subseteq InList'
  <1>1. pushed \in Seq(Seq(Items))
    BY DEF IInv, TypeOK, PushType
  <1>2. CASE pushed' = pushed
    <2>1. InList' = InList
      BY <1>2, Zenon DEF InList
    <2>2. pushed /= Append(pushed, b)
      BY <1>1
    <2> QED
      BY <1>2, <2>1, <2>2
  <1>3. CASE pushed' = Append(pushed, b)
    <2>1. /\ DOMAIN pushed \subseteq DOMAIN pushed'
          /\ \A k \in DOMAIN pushed : pushed'[k] = pushed[k]
          /\ Len(pushed) + 1 \in DOMAIN pushed' /\ pushed'[Len(pushed) + 1] = b
      BY <1>1, <1>3
    <2>2. InList \subseteq InList'
      BY <2>1, Zenon DEF InList
    <2>3. Range(b) \subseteq InList'
      BY <2>1, Zenon DEF InList
    <2> QED
      BY <2>2, <2>3
  <1> QED
    BY <1>2, <1>3

\* A step that hands nothing over, receives nothing and leaves the slices alone.
LEMMA KeepsSlices ==
  ASSUME NEW w \in Workers, Slots(w), Accounted,
         UNCHANGED <<handed, batch, panicked>>, InList \subseteq InList',
         DOMAIN retries' = DOMAIN retries,
         \A r \in DOMAIN retries : /\ retries'[r].first = retries[r].first
                                   /\ retries'[r].items = retries[r].items
  PROVE  Slots(w)' /\ Accounted'
  <1>1. Slots(w)'
    BY Zenon DEF Slots
  <1>2. ASSUME NEW p \in 1..Len(handed)
        PROVE  handed[p] \in InList' \cup panicked \/ Retried(p, retries')
    <2>1. CASE handed[p] \in InList \cup panicked
      BY <2>1
    <2>2. CASE Retried(p, retries)
      BY <2>2, Zenon DEF Retried
    <2> QED
      BY <2>1, <2>2 DEF Accounted
  <1>3. Accounted'
    BY <1>2 DEF Accounted
  <1> QED
    BY <1>1, <1>3

\* Receive: the append may overwrite one slot of every slice that shares the array.
LEMMA ReceiveLoss ==
  ASSUME IInv, NEW w \in Workers, Slots(w), Accounted, Receive(w)
  PROVE  Slots(w)' /\ Accounted'
  <1> DEFINE i == Head(eventQueue)
             size == Len(batch[w]) + 1
             rc == handed \o batch[w]
  <1>1. /\ handed \in Seq(Items) /\ batch[w] \in Seq(Items) /\ retries \in Seq(Retry)
        /\ i \in Items /\ DOMAIN batch = Workers
    BY DEF IInv, TypeOK, QueueType, WorkType, PushType, Receive
  <1>2. /\ batch'[w] = Append(batch[w], i)
        /\ retries' = WriteThrough(w, size, i)
        /\ UNCHANGED <<handed, panicked, pushed>>
    BY <1>1 DEF Receive
  <1>3. handed \o Append(batch[w], i) = Append(rc, i)
    BY <1>1, SMTT(30)
  <1>4. rc \in Seq(Items) /\ Len(rc) + 1 = Len(handed) + size /\ Append(rc, i) \in Seq(Items)
    BY <1>1
  <1>5. Begins(handed, handed) /\ Begins(rc, Append(rc, i))
    BY <1>1, <1>4 DEF Begins
  <1>6. size \in Nat \ {0} /\ handed' \o batch'[w] = Append(rc, i)
    BY <1>1, <1>2, <1>3
  <1> HIDE DEF i, size, rc
  <1>7. ASSUME NEW r \in DOMAIN retries
        PROVE  /\ SlotOK(retries'[r].first, retries'[r].items, handed, Append(rc, i))
               /\ retries'[r].first = retries[r].first
               /\ Len(retries'[r].items) = Len(retries[r].items)
    <2> DEFINE f == retries[r].first
               items == retries[r].items
    <2>1. retries[r] \in Retry
      BY <1>1
    <2>2. f \in Nat /\ items \in Seq(Items)
      BY <2>1 DEF Retry
    <2>3. SlotOK(f, items, handed, rc)
      BY DEF Slots, rc
    <2>4. CASE retries'[r] = retries[r]
      <3>1. SlotOK(f, items, handed, Append(rc, i))
        BY <1>1, <1>4, <1>5, <2>2, <2>3, SlotKept
      <3> QED
        BY <2>4, <3>1
    <2>5. CASE size <= Len(items) /\ retries'[r] = [retries[r] EXCEPT !.items[size] = i]
      <3>1. size \in 1..Len(items)
        BY <1>6, <2>2, <2>5
      <3>2. retries'[r].first = f /\ retries'[r].items = [items EXCEPT ![size] = i]
        BY <2>1, <2>5 DEF Retry
      <3>3. SlotOK(f, [items EXCEPT ![size] = i], handed, Append(rc, i))
        BY <1>1, <1>4, <2>2, <2>3, <3>1, SlotWritten
      <3>4. Len([items EXCEPT ![size] = i]) = Len(items)
        BY <2>2, <3>1
      <3> QED
        BY <3>2, <3>3, <3>4, Zenon
    <2> QED
      BY <1>2, <2>4, <2>5 DEF WriteThrough
  <1>8. DOMAIN retries' = DOMAIN retries
    BY <1>2 DEF WriteThrough
  <1>9. Slots(w)'
    BY <1>2, <1>6, <1>7, <1>8, Zenon DEF Slots
  <1>10. ASSUME NEW p \in 1..Len(handed)
         PROVE  handed[p] \in InList \cup panicked \/ Retried(p, retries')
    BY <1>7, <1>8, Zenon DEF Accounted, Retried
  <1>11. InList' = InList
    BY <1>2, Zenon DEF InList
  <1>12. Accounted'
    BY <1>2, <1>10, <1>11, Zenon DEF Accounted
  <1> QED
    BY <1>9, <1>12

\* BatchProcess: what is handed over reaches the list, was in a batch that
\* panicked, or is in the slice of a new error handler.
LEMMA ProcessLoss ==
  ASSUME IInv, IInv', NEW w \in Workers, Slots(w), Accounted, NEW next, BatchProcess(w, next)
  PROVE  Slots(w)' /\ Accounted'
  <1> DEFINE b == batch[w]
             new == [worker |-> w, first |-> Len(handed), items |-> b, read |-> 0,
                     aliased |-> TRUE, sent |-> FALSE]
             h2 == handed \o b
  <1>1. /\ handed \in Seq(Items) /\ b \in Seq(Items) /\ retries \in Seq(Retry)
        /\ DOMAIN batch = Workers
    BY DEF IInv, TypeOK, WorkType, PushType
  <1>2. h2 \in Seq(Items) /\ Len(h2) = Len(handed) + Len(b) /\ Len(handed) \in Nat /\ Len(b) \in Nat
    BY <1>1
  <1>3. /\ \A k \in 1..Len(handed) : h2[k] = handed[k]
        /\ \A k \in 1..Len(b) : h2[Len(handed) + k] = b[k]
    BY <1>1
  <1>4. /\ handed' = h2 /\ batch'[w] = <<>>
        /\ handed' \o batch'[w] = h2
    BY <1>1, <1>2, ConcatEmptySeq, SMTT(30) DEF BatchProcess
  <1>5. Begins(handed, h2) /\ Begins(h2, h2)
    BY <1>2, <1>3 DEF Begins
  <1>6. new.first = Len(handed) /\ new.items = b
    OBVIOUS
  <1>7. \/ pushed' = Append(pushed, b) /\ UNCHANGED <<panicked, retries>>
        \/ /\ pushed' \in {pushed, Append(pushed, b)}
           /\ retries' = Append(retries, new)
           /\ UNCHANGED panicked
        \/ panicked' = panicked \cup Range(b) /\ UNCHANGED <<pushed, retries>>
    BY Zenon DEF BatchProcess
  <1> HIDE DEF new, h2, b
  <1>8. InList \subseteq InList' /\ panicked \subseteq panicked'
    BY <1>1, <1>7, ListGrows
  <1>9. SlotOK(Len(handed), b, h2, h2)
    BY <1>2, <1>3 DEF SlotOK
  <1>10. ASSUME NEW r \in DOMAIN retries
         PROVE  SlotOK(retries[r].first, retries[r].items, h2, h2)
    <2>0. retries[r] \in Retry
      BY <1>1
    <2>1. retries[r].first \in Nat /\ retries[r].items \in Seq(Items)
      BY <2>0 DEF Retry
    <2>2. SlotOK(retries[r].first, retries[r].items, handed, h2)
      BY DEF Slots, h2, b
    <2> QED
      BY <1>1, <1>2, <1>5, <2>1, <2>2, SlotKept
  <1>11. ASSUME NEW p \in 1..Len(handed)
         PROVE  h2[p] \in InList' \cup panicked' \/ Retried(p, retries)
    BY <1>3, <1>8 DEF Accounted
  <1>12. ASSUME NEW p \in 1..Len(h2), p \notin 1..Len(handed)
         PROVE  p - Len(handed) \in 1..Len(b) /\ h2[p] \in Range(b)
    <2>1. p - Len(handed) \in 1..Len(b) /\ p = Len(handed) + (p - Len(handed))
      BY <1>2, <1>12
    <2>2. h2[p] = b[p - Len(handed)]
      BY <1>3, <2>1
    <2>3. DOMAIN b = 1..Len(b)
      BY <1>1
    <2> QED
      BY <2>1, <2>2, <2>3, Zenon DEF Range
  <1>13. CASE retries' = retries /\ Range(b) \subseteq InList' \cup panicked'
    <2>1. Slots(w)'
      BY <1>4, <1>10, <1>13, Zenon DEF Slots
    <2>2. ASSUME NEW p \in 1..Len(h2)
          PROVE  h2[p] \in InList' \cup panicked' \/ Retried(p, retries')
      BY <1>11, <1>12, <1>13
    <2> QED
      BY <1>4, <2>1, <2>2, Zenon DEF Accounted
  <1>14. CASE retries' = Append(retries, new)
    <2>1. /\ DOMAIN retries' = DOMAIN retries \cup {Len(retries) + 1}
          /\ \A r \in DOMAIN retries : retries'[r] = retries[r]
          /\ retries'[Len(retries) + 1] = new
      BY <1>1, <1>14
    <2>2. Slots(w)'
      BY <1>4, <1>6, <1>9, <1>10, <2>1, Zenon DEF Slots
    <2>3. ASSUME NEW p \in 1..Len(h2)
          PROVE  h2[p] \in InList' \cup panicked' \/ Retried(p, retries')
      <3>1. CASE p \in 1..Len(handed)
        BY <1>11, <2>1, <3>1, Zenon DEF Retried
      <3>2. CASE p \notin 1..Len(handed)
        BY <1>6, <1>12, <2>1, <3>2, Zenon DEF Retried
      <3> QED
        BY <3>1, <3>2
    <2> QED
      BY <1>4, <2>2, <2>3, Zenon DEF Accounted
  <1> QED
    BY <1>1, <1>7, <1>13, <1>14, ListGrows

LEMMA LossInit == Init => LInv
  BY DEF Init, LInv, Slots, Accounted

LEMMA LossNext == IInv /\ IInv' /\ LInv /\ [Next]_vars => LInv'
  <1> SUFFICES ASSUME IInv, IInv', [Next]_vars, NEW w \in Workers, Workers = {w},
                      Slots(w), Accounted
               PROVE  Slots(w)' /\ Accounted'
    BY Zenon DEF LInv
  <1>1. ASSUME UNCHANGED <<handed, batch, panicked, pushed, retries>>
        PROVE  Slots(w)' /\ Accounted'
    <2>1. InList' = InList
      BY <1>1, Zenon DEF InList
    <2> QED
      BY <1>1, <2>1, KeepsSlices, Zenon
  <1>2. retries \in Seq(Retry)
    BY DEF IInv, TypeOK, PushType
  <1>3. CASE \E i \in Items : TryEnqueue(i) \/ TryEnqueueAgain(i) \/ Enqueue(i)
    BY <1>1, <1>3, Zenon DEF TryEnqueue, TryEnqueueAgain, Enqueue, workVars, pushVars
  <1>4. CASE \E v \in Workers : WorkerStep(v) \/ TimerFires(v)
    <2>1. WorkerStep(w) \/ TimerFires(w)
      BY <1>4
    <2>2. CASE StopTimer(w) \/ Linger(w) \/ Quit(w) \/ TimerFires(w)
      <3>1. UNCHANGED <<batch, pushVars>>
        BY <2>2, Zenon DEF StopTimer, Linger, Quit, TimerFires
      <3> QED
        BY <1>1, <3>1, Zenon DEF pushVars
    <2>3. CASE StartWork(w)
      <3>1. /\ UNCHANGED <<handed, batch, panicked, pushed>>
            /\ retries' = Unalias(w)
        BY <2>3 DEF StartWork
      <3>2. InList' = InList
        BY <3>1, Zenon DEF InList
      <3>3. DOMAIN retries' = DOMAIN retries
        BY <3>1 DEF Unalias
      <3>4. ASSUME NEW r \in DOMAIN retries
            PROVE  /\ retries'[r].first = retries[r].first
                   /\ retries'[r].items = retries[r].items
        <4>1. retries[r] \in Retry
          BY <1>2
        <4>2. \/ retries'[r] = retries[r]
              \/ retries'[r] = [retries[r] EXCEPT !.aliased = FALSE]
          BY <3>1 DEF Unalias
        <4> QED
          BY <4>1, <4>2 DEF Retry
      <3> QED
        BY <3>1, <3>2, <3>3, <3>4, KeepsSlices, Zenon
    <2>4. CASE Receive(w)
      BY <2>4, ReceiveLoss
    <2>5. CASE ProcessFull(w)
      BY <2>5, ProcessLoss DEF ProcessFull
    <2>6. CASE ProcessLinger(w)
      BY <2>6, ProcessLoss DEF ProcessLinger
    <2>7. CASE ProcessQuit(w)
      BY <2>7, ProcessLoss DEF ProcessQuit
    <2> QED
      BY <2>1, <2>2, <2>3, <2>4, <2>5, <2>6, <2>7, Zenon DEF WorkerStep
  <1>5. ASSUME NEW r \in DOMAIN retries, RetryRead(r) \/ RetryPush(r)
        PROVE  Slots(w)' /\ Accounted'
    <2>1. retries[r] \in Retry
      BY <1>2
    <2>2. retries[r].items \in Seq(Items)
      BY <2>1 DEF Retry
    <2>3. /\ UNCHANGED <<handed, batch, panicked>>
          /\ pushed' \in {pushed, Append(pushed, retries[r].items)}
      BY <1>5, Zenon DEF RetryRead, RetryPush, workVars
    <2>4. InList \subseteq InList'
      BY <2>2, <2>3, ListGrows
    <2>5. \/ retries' = [retries EXCEPT ![r] = [retries[r] EXCEPT !.read = retries[r].read + 1]]
          \/ retries' = [retries EXCEPT ![r] = [retries[r] EXCEPT !.sent = TRUE]]
      BY <1>5 DEF RetryRead, RetryPush
    <2>6. DOMAIN retries' = DOMAIN retries
      BY <2>5
    <2>7. ASSUME NEW q \in DOMAIN retries
          PROVE  /\ retries'[q].first = retries[q].first
                 /\ retries'[q].items = retries[q].items
      <3>1. retries[q] \in Retry
        BY <1>2
      <3>2. \/ retries'[q] = retries[q]
            \/ retries'[q] = [retries[q] EXCEPT !.read = retries[r].read + 1]
            \/ retries'[q] = [retries[q] EXCEPT !.sent = TRUE]
        BY <2>5
      <3> QED
        BY <3>1, <3>2 DEF Retry
    <2> QED
      BY <2>3, <2>4, <2>6, <2>7, KeepsSlices, Zenon
  <1>6. CASE \E s \in Stoppers : Stop(s) \/ SafeStop(s) \/ Tick(s) \/ Close(s) \/ Wait(s)
    <2>1. UNCHANGED <<workVars, pushVars>>
      BY <1>6, Zenon DEF Stop, SafeStop, Tick, Close, Wait
    <2> QED
      BY <1>1, <2>1, Zenon DEF workVars, pushVars
  <1>7. CASE UNCHANGED vars
    BY <1>1, <1>7, Zenon DEF vars, workVars, pushVars
  <1> QED
    BY <1>3, <1>4, <1>5, <1>6, <1>7, Zenon DEF Next

\* A signal that was handed over and never reaches the Redis list was in a batch
\* that panicked, or in one that failed: then its second push failed or is still to
\* come, or the worker had overwritten it in the array it shares with the error
\* handler (batch[:0], batchProcess), with a signal received a batch later or more.
THEOREM LossSafe == Spec => []LossHasCause
  <1>1. ASSUME IInv, LInv PROVE LossHasCause
    <2> SUFFICES ASSUME NEW w \in Workers, Workers = {w}, NEW p \in 1..Len(handed),
                        handed[p] \notin InList \cup panicked
                 PROVE  \E r \in DOMAIN retries :
                          LET k == p - retries[r].first
                              items == retries[r].items
                          IN  /\ k \in 1..Len(items)
                              /\ \/ items \notin Range(pushed)
                                 \/ \E q \in (p + Len(items))..Len(handed \o batch[w]) :
                                       items[k] = (handed \o batch[w])[q]
      BY Zenon DEF LossHasCause
    <2> DEFINE rc == handed \o batch[w]
    <2>1. PICK r \in DOMAIN retries : p - retries[r].first \in 1..Len(retries[r].items)
      BY <1>1, Zenon DEF LInv, Accounted, Retried
    <2> DEFINE f == retries[r].first
               items == retries[r].items
               k == p - f
    <2>2. retries \in Seq(Retry) /\ pushed \in Seq(Seq(Items))
      BY <1>1 DEF IInv, TypeOK, PushType
    <2>3. retries[r] \in Retry
      BY <2>2
    <2>4. f \in Nat /\ items \in Seq(Items) /\ Len(items) \in Nat
      BY <2>3 DEF Retry
    <2>5. k \in 1..Len(items)
      BY <2>1
    <2>6. f + k = p /\ f + k + Len(items) = p + Len(items)
      BY <2>4
    <2>7. SlotOK(f, items, handed, rc)
      BY <1>1, Zenon DEF LInv, Slots
    <2> HIDE DEF f, items, k, rc
    <2>8. \/ items[k] = handed[p]
          \/ \E q \in (p + Len(items))..Len(rc) : items[k] = rc[q]
      BY <2>5, <2>6, <2>7, Zenon DEF SlotOK
    <2>9. CASE items[k] = handed[p]
      <3>1. items \notin Range(pushed)
        <4> SUFFICES ASSUME items \in Range(pushed) PROVE FALSE
          OBVIOUS
        <4>1. PICK j \in DOMAIN pushed : pushed[j] = items
          BY DEF Range
        <4>2. DOMAIN items = 1..Len(items)
          BY <2>4
        <4>3. items[k] \in Range(items)
          BY <2>5, <4>2, Zenon DEF Range
        <4> QED
          BY <2>9, <4>1, <4>3, Zenon DEF InList
      <3> QED
        BY <2>5, <3>1, Zenon DEF k, f, items
    <2>10. CASE \E q \in (p + Len(items))..Len(rc) : items[k] = rc[q]
      BY <2>5, <2>10, Zenon DEF k, f, items, rc
    <2> QED
      BY <2>8, <2>9, <2>10
  <1>2. Spec => []LInv
    BY LossInit, LossNext, Invariance, PTL DEF Spec
  <1> QED
    BY <1>1, <1>2, Invariance, PTL
===============================================================================
