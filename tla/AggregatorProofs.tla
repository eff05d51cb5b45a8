--------------------------- MODULE AggregatorProofs ---------------------------
(***************************************************************************)
(* Proofs about Aggregator, for any number of items, workers and stoppers, *)
(* any batch size above one and any channel capacity.                      *)
(***************************************************************************)
EXTENDS Aggregator, SequenceTheorems, TLAPS

\* What a worker's batch and timer look like at each point of work: the
\* strengthening that makes TypeOK, TimerGuardsBatch and DrainNeverBlocks
\* inductive.
WorkerOK(w) ==
    /\ pc[w] = "select" => /\ Len(batch[w]) < BatchSize
                           /\ timer[w] = "idle" <=> batch[w] = <<>>
    /\ pc[w] = "full" => timer[w] /= "idle"
    /\ pc[w] = "drain" => timer[w] /= "idle" /\ batch[w] = <<>>
    /\ pc[w] = "linger" => timer[w] = "idle"
    /\ Idle(w) => timer[w] = "idle" /\ batch[w] = <<>>

WorkerInv == \A w \in Workers : WorkerOK(w)

IInv == TypeOK /\ WorkerInv

USE BatchSizeAssumption, BufferAssumption, FailuresAssumption

-------------------------------------------------------------------------------
(* Type correctness and the state of the workers.                           *)

LEMMA InitInv == Init => IInv
  <1> SUFFICES ASSUME Init PROVE IInv
    OBVIOUS
  <1>1. QueueType
    BY DEF Init, QueueType
  <1>2. WorkType
    BY DEF Init, WorkType
  <1>3. PushType
    BY DEF Init, PushType
  <1>4. StopType
    <2>1. promised \in [Stoppers -> Int]
      BY DEF Init
    <2>2. quit \in BOOLEAN
      BY ZenonT(60) DEF Init
    <2>3. stopper \in [Stoppers -> {"idle", "polling", "closing", "waiting",
                                   "returned", "panicked"}]
      BY DEF Init
    <2> QED
      BY <2>1, <2>2, <2>3 DEF StopType
  <1>5. WorkerInv
    BY DEF Init, WorkerInv, WorkerOK, Idle
  <1> QED
    BY <1>1, <1>2, <1>3, <1>4, <1>5 DEF IInv, TypeOK

\* A function on 1..n is a sequence.
LEMMA FunctionIsSeq ==
  ASSUME NEW S, NEW n \in Nat, NEW f \in [1..n -> S]
  PROVE  f \in Seq(S)
  BY SeqDef

\* Overwriting elements of retried slices keeps them retries.
LEMMA WriteThroughType ==
  ASSUME PushType, NEW w \in Workers, NEW k \in Nat \ {0}, NEW i \in Items
  PROVE  WriteThrough(w, k, i) \in Seq(Retry)
  <1>1. /\ Len(retries) \in Nat
        /\ DOMAIN retries = 1..Len(retries)
    BY DEF PushType
  <1>2. ASSUME NEW r \in DOMAIN retries
        PROVE  WriteThrough(w, k, i)[r] \in Retry
    <2>1. retries[r] \in Retry
      BY DEF PushType
    <2>2. CASE k <= Len(retries[r].items)
      <3>1. [retries[r].items EXCEPT ![k] = i] \in Seq(Items)
        BY <2>1, <2>2, ExceptSeq DEF Retry
      <3>2. [retries[r] EXCEPT !.items[k] = i] \in Retry
        BY <2>1, <3>1, SMTT(60) DEF Retry
      <3> QED
        BY <2>1, <3>2 DEF WriteThrough
    <2>3. CASE ~(k <= Len(retries[r].items))
      BY <2>1, <2>3 DEF WriteThrough
    <2> QED
      BY <2>2, <2>3
  <1>3. WriteThrough(w, k, i) \in [1..Len(retries) -> Retry]
    BY <1>1, <1>2, SMTT(60) DEF WriteThrough
  <1> QED
    BY <1>1, <1>3, FunctionIsSeq

LEMMA UnaliasType ==
  ASSUME PushType, NEW w \in Workers
  PROVE  Unalias(w) \in Seq(Retry)
  <1>1. /\ Len(retries) \in Nat
        /\ DOMAIN retries = 1..Len(retries)
    BY DEF PushType
  <1>2. ASSUME NEW r \in DOMAIN retries
        PROVE  Unalias(w)[r] \in Retry
    <2>1. retries[r] \in Retry
      BY DEF PushType
    <2>2. [retries[r] EXCEPT !.aliased = FALSE] \in Retry
      BY <2>1, ZenonT(60) DEF Retry
    <2> QED
      BY <2>1, <2>2 DEF Unalias
  <1>3. Unalias(w) \in [1..Len(retries) -> Retry]
    BY <1>1, <1>2 DEF Unalias
  <1> QED
    BY <1>1, <1>3, FunctionIsSeq

\* Accepting or refusing an item.
LEMMA EnqueueInv ==
  ASSUME IInv, NEW i \in Items, NEW state \in {"rescheduled", "skipped"},
         Accept(i) \/ Refuse(i, state),
         UNCHANGED <<workVars, pushVars, stopVars>>
  PROVE  IInv'
  <1> USE DEF IInv, TypeOK
  <1>1. QueueType'
    <2>1. CASE Accept(i)
      <3>1. Append(eventQueue, i) \in Seq(Items) /\ Append(accepted, i) \in Seq(Items)
        BY DEF QueueType
      <3>2. Len(Append(eventQueue, i)) <= ChannelBufferSize
        BY <2>1 DEF QueueType, Accept
      <3> QED
        BY <2>1, <3>1, <3>2 DEF QueueType, Accept
    <2>2. CASE Refuse(i, state)
      BY <2>2 DEF QueueType, Refuse
    <2> QED
      BY <2>1, <2>2
  <1>2. WorkType' /\ WorkerInv'
    BY DEF WorkType, WorkerInv, WorkerOK, Idle, workVars
  <1>3. PushType'
    BY DEF PushType, pushVars
  <1>4. StopType'
    BY DEF StopType, stopVars
  <1> QED
    BY <1>1, <1>2, <1>3, <1>4

\* Processing a batch, for each of the three places work does it from.
LEMMA BatchProcessInv ==
  ASSUME IInv, NEW w \in Workers, NEW next \in {"drain", "select", "exited"},
         BatchProcess(w, next),
         next = "drain" => timer[w] /= "idle",
         next = "select" => timer[w] = "idle"
  PROVE  IInv'
  <1> USE DEF IInv, TypeOK
  <1>1. QueueType'
    BY SMTT(60) DEF QueueType, BatchProcess, queueVars
  <1>2. StopType'
    BY DEF StopType, BatchProcess, stopVars
  <1>3. WorkType'
    <2>1. batch' \in [Workers -> Seq(Items)]
      BY SMTT(60) DEF WorkType, BatchProcess
    <2>2. \A v \in Workers : Len(batch'[v]) <= BatchSize
      BY DEF WorkType, BatchProcess
    <2>3. pc' \in [Workers -> {"spawned", "recovering", "select", "full", "drain",
                              "linger", "quitting", "exited"}]
      BY ZenonT(60) DEF WorkType, BatchProcess
    <2>4. timer' \in [Workers -> {"idle", "armed", "fired"}]
      BY ZenonT(60) DEF WorkType, BatchProcess
    <2> QED
      BY <2>1, <2>2, <2>3, <2>4 DEF WorkType
  <1>4. batch[w] \in Seq(Items) /\ Range(batch[w]) \subseteq Items
    BY DEF WorkType, Range
  <1>5. PushType'
    <2>1. handed' \in Seq(Items)
      BY <1>4 DEF PushType, BatchProcess
    <2>2. panicked' \in SUBSET Items /\ failures' \in 0..MaxFailures
      BY <1>4, SMTT(60) DEF PushType, BatchProcess
    <2>3. pushed' \in Seq(Seq(Items))
      <3>1. Append(pushed, batch[w]) \in Seq(Seq(Items))
        BY <1>4, AppendProperties DEF PushType
      <3>2. pushed' \in {pushed, Append(pushed, batch[w])}
        BY DEF BatchProcess
      <3> QED
        BY <3>1, <3>2, ZenonT(60) DEF PushType
    <2> DEFINE new == [worker |-> w, first |-> Len(handed), items |-> batch[w], read |-> 0,
                       aliased |-> TRUE, sent |-> FALSE]
    <2>4. new \in Retry
      BY <1>4 DEF Retry
    <2>5. retries' \in Seq(Retry)
      <3>1. retries' \in {retries, Append(retries, new)}
        BY DEF BatchProcess
      <3> HIDE DEF new
      <3>2. Append(retries, new) \in Seq(Retry)
        BY <2>4, AppendProperties DEF PushType
      <3> QED
        BY <3>1, <3>2, ZenonT(60) DEF PushType
    <2> QED
      BY <2>1, <2>2, <2>3, <2>5 DEF PushType
  <1>6. WorkerInv'
    <2> SUFFICES ASSUME NEW v \in Workers
                 PROVE  WorkerOK(v)'
      BY DEF WorkerInv
    <2>1. CASE v = w
      BY <2>1, SMTT(60) DEF BatchProcess, WorkType, WorkerOK, Idle
    <2>2. CASE v /= w
      BY <2>2 DEF BatchProcess, WorkType, WorkerInv, WorkerOK, Idle
    <2> QED
      BY <2>1, <2>2
  <1> QED
    BY <1>1, <1>2, <1>3, <1>5, <1>6

\* The other steps of a worker.
LEMMA ReceiveInv ==
  ASSUME IInv, NEW w \in Workers, Receive(w)
  PROVE  IInv'
  <1> USE DEF IInv, TypeOK
  <1>1. QueueType'
    BY DEF QueueType, Receive
  <1>2. StopType'
    BY DEF StopType, Receive, stopVars
  <1>3. /\ Head(eventQueue) \in Items
        /\ batch[w] \in Seq(Items)
        /\ Len(batch[w]) < BatchSize
    BY DEF Receive, QueueType, WorkType, WorkerInv, WorkerOK
  <1>4. WorkType'
    <2>1. /\ batch' \in [Workers -> Seq(Items)]
          /\ \A v \in Workers : Len(batch'[v]) <= BatchSize
      <3>1. /\ Append(batch[w], Head(eventQueue)) \in Seq(Items)
            /\ Len(Append(batch[w], Head(eventQueue))) <= BatchSize
        BY <1>3
      <3> QED
        BY <3>1 DEF WorkType, Receive
    <2>2. pc' \in [Workers -> {"spawned", "recovering", "select", "full", "drain",
                              "linger", "quitting", "exited"}]
      BY SMTT(60) DEF WorkType, Receive
    <2>3. timer' \in [Workers -> {"idle", "armed", "fired"}]
      BY ZenonT(60) DEF WorkType, Receive
    <2> QED
      BY <2>1, <2>2, <2>3 DEF WorkType
  <1>5. PushType'
    <2>1. WriteThrough(w, Len(batch[w]) + 1, Head(eventQueue)) \in Seq(Retry)
      BY <1>3, WriteThroughType
    <2> QED
      BY <2>1 DEF PushType, Receive
  <1>6. WorkerInv'
    BY <1>3 DEF WorkType, WorkerInv, WorkerOK, Receive, Idle
  <1> QED
    BY <1>1, <1>2, <1>4, <1>5, <1>6

LEMMA StartWorkInv ==
  ASSUME IInv, NEW w \in Workers, StartWork(w)
  PROVE  IInv'
  <1> USE DEF IInv, TypeOK
  <1>1. QueueType' /\ StopType'
    BY DEF QueueType, StopType, StartWork, queueVars, stopVars
  <1>2. WorkType' /\ WorkerInv'
    BY DEF WorkType, WorkerInv, WorkerOK, Idle, StartWork
  <1>3. PushType'
    BY UnaliasType DEF PushType, StartWork
  <1> QED
    BY <1>1, <1>2, <1>3

LEMMA TimerInv ==
  ASSUME IInv, NEW w \in Workers,
         StopTimer(w) \/ TimerFires(w) \/ Linger(w) \/ Quit(w)
  PROVE  IInv'
  <1> USE DEF IInv, TypeOK
  <1> USE DEF StopTimer, TimerFires, Linger, Quit
  <1>1. QueueType'
    BY DEF QueueType, queueVars
  <1>2. StopType'
    BY SMTT(60) DEF StopType, stopVars
  <1>3. PushType'
    BY DEF PushType, pushVars
  <1>4. WorkType'
    BY ZenonT(60) DEF WorkType
  <1>5. WorkerInv'
    BY DEF WorkType, WorkerInv, WorkerOK, Idle
  <1> QED
    BY <1>1, <1>2, <1>3, <1>4, <1>5

LEMMA RetryInv ==
  ASSUME IInv, NEW r \in DOMAIN retries, RetryRead(r) \/ RetryPush(r)
  PROVE  IInv'
  <1> USE DEF IInv, TypeOK
  <1> USE DEF RetryRead, RetryPush
  <1>1. QueueType' /\ StopType'
    BY DEF QueueType, StopType, queueVars, stopVars
  <1>2. WorkType' /\ WorkerInv'
    BY DEF WorkType, WorkerInv, WorkerOK, Idle, workVars
  <1>3. PushType'
    <2>1. retries[r] \in Retry /\ r \in 1..Len(retries) /\ retries \in Seq(Retry)
      BY DEF PushType
    <2>2. retries' \in Seq(Retry)
      <3>1. CASE RetryRead(r)
        <4> DEFINE n == retries[r].read + 1
        <4>0. n \in Nat
          BY <2>1, SMTT(60) DEF Retry
        <4>2. retries' = [retries EXCEPT ![r] = [retries[r] EXCEPT !.read = n]]
          BY <3>1
        <4> HIDE DEF n
        <4>1. [retries[r] EXCEPT !.read = n] \in Retry
          BY <2>1, <4>0, ZenonT(60) DEF Retry
        <4> QED
          BY <2>1, <4>1, <4>2, ExceptSeq
      <3>2. CASE RetryPush(r)
        <4>1. [retries[r] EXCEPT !.sent = TRUE] \in Retry
          BY <2>1, ZenonT(60) DEF Retry
        <4>2. retries' = [retries EXCEPT ![r] = [retries[r] EXCEPT !.sent = TRUE]]
          BY <3>2
        <4> QED
          BY <2>1, <4>1, <4>2, ExceptSeq
      <3> QED
        BY <3>1, <3>2
    <2>3. pushed' \in Seq(Seq(Items))
      <3>1. Append(pushed, retries[r].items) \in Seq(Seq(Items))
        BY <2>1, AppendProperties DEF PushType, Retry
      <3> QED
        BY <3>1, ZenonT(60) DEF PushType
    <2> QED
      BY <2>2, <2>3 DEF PushType
  <1> QED
    BY <1>1, <1>2, <1>3

LEMMA StopInv ==
  ASSUME IInv, NEW s \in Stoppers,
         Stop(s) \/ SafeStop(s) \/ Tick(s) \/ Close(s) \/ Wait(s)
  PROVE  IInv'
  <1> USE DEF IInv, TypeOK
  <1> USE DEF Stop, SafeStop, Tick, Close, Wait
  <1>1. QueueType'
    BY DEF QueueType, queueVars
  <1>2. WorkType' /\ WorkerInv'
    BY DEF WorkType, WorkerInv, WorkerOK, Idle, workVars
  <1>3. PushType'
    BY DEF PushType, pushVars
  <1>4. StopType'
    <2>1. quit' \in BOOLEAN
      BY ZenonT(60) DEF StopType
    <2>2. stopper' \in [Stoppers -> {"idle", "polling", "closing", "waiting",
                                    "returned", "panicked"}]
      BY DEF StopType
    <2>3. promised' \in [Stoppers -> Int]
      <3>1. Len(accepted) \in Int
        BY DEF QueueType
      <3> QED
        BY <3>1 DEF StopType
    <2> QED
      BY <2>1, <2>2, <2>3 DEF StopType
  <1> QED
    BY <1>1, <1>2, <1>3, <1>4

LEMMA NextInv == IInv /\ [Next]_vars => IInv'
  <1> SUFFICES ASSUME IInv, [Next]_vars
               PROVE  IInv'
    OBVIOUS
  <1>1. ASSUME NEW i \in Items, TryEnqueue(i) \/ TryEnqueueAgain(i) \/ Enqueue(i)
        PROVE  IInv'
    BY <1>1, EnqueueInv DEF TryEnqueue, TryEnqueueAgain, Enqueue
  <1>2. ASSUME NEW w \in Workers, WorkerStep(w) \/ TimerFires(w)
        PROVE  IInv'
    <2>1. CASE StartWork(w)
      BY <2>1, StartWorkInv
    <2>2. CASE Receive(w)
      BY <2>2, ReceiveInv
    <2>3. CASE ProcessFull(w)
      BY <2>3, BatchProcessInv DEF ProcessFull, IInv, WorkerInv, WorkerOK
    <2>4. CASE StopTimer(w) \/ TimerFires(w) \/ Linger(w) \/ Quit(w)
      BY <2>4, TimerInv, SMTT(60)
    <2>5. CASE ProcessLinger(w)
      BY <2>5, BatchProcessInv DEF ProcessLinger, IInv, WorkerInv, WorkerOK
    <2>6. CASE ProcessQuit(w)
      BY <2>6, BatchProcessInv DEF ProcessQuit
    <2> QED
      BY <1>2, <2>1, <2>2, <2>3, <2>4, <2>5, <2>6 DEF WorkerStep
  <1>3. ASSUME NEW r \in DOMAIN retries, RetryRead(r) \/ RetryPush(r)
        PROVE  IInv'
    BY <1>3, RetryInv
  <1>4. ASSUME NEW s \in Stoppers, Stop(s) \/ SafeStop(s) \/ Tick(s) \/ Close(s) \/ Wait(s)
        PROVE  IInv'
    BY <1>4, StopInv, SMTT(60)
  <1>5. CASE UNCHANGED vars
    BY <1>5 DEF IInv, TypeOK, QueueType, WorkType, PushType, StopType, WorkerInv, WorkerOK,
                Idle, vars, queueVars, workVars, pushVars, stopVars
  <1> QED
    BY <1>1, <1>2, <1>3, <1>4, <1>5 DEF Next

\* The inductive invariant holds always.
THEOREM Invariance == Spec => []IInv
  BY InitInv, NextInv, PTL DEF Spec

\* Every variable keeps its type: no channel, batch or counter leaves its range.
THEOREM TypeCorrect == Spec => []TypeOK
  BY Invariance, PTL DEF IInv

\* A worker never blocks in the receive that drains its linger timer.
THEOREM DrainSafe == Spec => []DrainNeverBlocks
  <1>1. IInv => DrainNeverBlocks
    BY DEF IInv, WorkerInv, WorkerOK, DrainNeverBlocks
  <1> QED
    BY <1>1, Invariance, PTL

\* A partial batch always has a running or fired linger timer.
THEOREM TimerSafe == Spec => []TimerGuardsBatch
  <1>1. IInv => TimerGuardsBatch
    BY DEF IInv, WorkerInv, WorkerOK, TimerGuardsBatch
  <1> QED
    BY <1>1, Invariance, PTL

-------------------------------------------------------------------------------
(* First in, first out, for the one worker of a Node.                        *)

\* Moving the head of the second part to the end of the first.
LEMMA MoveHead ==
  ASSUME NEW S, NEW s \in Seq(S), NEW t \in Seq(S), t /= <<>>
  PROVE  Append(s, Head(t)) \o Tail(t) = s \o t
  <1>1. /\ Append(s, Head(t)) \o Tail(t) \in Seq(S)
        /\ s \o t \in Seq(S)
        /\ Len(Append(s, Head(t)) \o Tail(t)) = Len(s \o t)
    OBVIOUS
  <1>2. ASSUME NEW k \in 1..Len(s \o t)
        PROVE  (Append(s, Head(t)) \o Tail(t))[k] = (s \o t)[k]
    BY SMTT(60)
  <1> QED
    BY <1>1, <1>2, SeqEqual, SMTT(60)

LEMMA FifoInit == Init => FifoOrder
  BY DEF Init, FifoOrder

LEMMA FifoNext == IInv /\ FifoOrder /\ [Next]_vars => FifoOrder'
  <1> SUFFICES ASSUME IInv, FifoOrder, [Next]_vars, NEW w \in Workers,
                      accepted = handed \o batch[w] \o eventQueue,
                      \A v \in Workers : v = w
               PROVE  accepted' = handed' \o batch'[w] \o eventQueue'
    BY SMTT(60) DEF FifoOrder
  <1>1. accepted = (handed \o batch[w]) \o eventQueue
    OBVIOUS
  <1>2. /\ handed \in Seq(Items) /\ batch[w] \in Seq(Items) /\ eventQueue \in Seq(Items)
        /\ DOMAIN batch = Workers
    BY DEF IInv, TypeOK, QueueType, WorkType, PushType
  <1>3. handed \o batch[w] \in Seq(Items)
    BY <1>2
  <1>4. ASSUME NEW i \in Items, Accept(i), UNCHANGED <<handed, batch>>
        PROVE  accepted' = (handed' \o batch'[w]) \o eventQueue'
    <2> DEFINE front == handed \o batch[w]
    <2>1. front \in Seq(Items) /\ front \o eventQueue \in Seq(Items) /\ <<i>> \in Seq(Items)
      BY <1>2, <1>3
    <2>2. accepted' = (front \o eventQueue) \o <<i>>
      BY <1>1, <1>4, <2>1, AppendIsConcat, ZenonT(60) DEF Accept
    <2>3. eventQueue' = eventQueue \o <<i>>
      BY <1>2, <1>4, AppendIsConcat DEF Accept
    <2>4. handed' \o batch'[w] = front
      BY <1>4
    <2> HIDE DEF front
    <2>5. (front \o eventQueue) \o <<i>> = front \o (eventQueue \o <<i>>)
      <3> DEFINE e == <<i>>
      <3>1. eventQueue \in Seq(Items) /\ front \in Seq(Items) /\ e \in Seq(Items)
        BY <1>2, <2>1
      <3> HIDE DEF e
      <3>2. (front \o eventQueue) \o e = front \o (eventQueue \o e)
        BY <3>1, ConcatAssociative, SMTT(60)
      <3> QED
        BY <3>2 DEF e
    <2> QED
      BY <2>2, <2>3, <2>4, <2>5, SMTT(60)
  <1>5. ASSUME Receive(w)
        PROVE  accepted' = (handed' \o batch'[w]) \o eventQueue'
    <2>1. /\ batch'[w] = Append(batch[w], Head(eventQueue))
          /\ eventQueue' = Tail(eventQueue) /\ eventQueue /= <<>>
          /\ handed' = handed /\ accepted' = accepted
      BY <1>2, <1>5 DEF Receive
    <2>2. Head(eventQueue) \in Items
      BY <1>2, <2>1
    <2>3. handed \o Append(batch[w], Head(eventQueue))
            = Append(handed \o batch[w], Head(eventQueue))
      BY <1>2, <2>2, SMTT(60)
    <2> DEFINE front == handed \o batch[w]
    <2>4. /\ handed' \o batch'[w] = Append(front, Head(eventQueue))
          /\ accepted' = front \o eventQueue
      BY <1>1, <2>1, <2>3, ZenonT(60)
    <2>5. front \in Seq(Items)
      BY <1>3
    <2> HIDE DEF front
    <2> QED
      BY <1>2, <2>1, <2>4, <2>5, MoveHead, ZenonT(60)
  <1>6. ASSUME NEW next, BatchProcess(w, next)
        PROVE  accepted' = (handed' \o batch'[w]) \o eventQueue'
    BY <1>1, <1>2, <1>3, <1>6, ConcatEmptySeq, SMTT(60) DEF BatchProcess, queueVars
  <1>7. ASSUME UNCHANGED <<handed, batch, eventQueue, accepted>>
        PROVE  accepted' = (handed' \o batch'[w]) \o eventQueue'
    BY <1>1, <1>7, ZenonT(60)
  <1>8. CASE \E i \in Items : TryEnqueue(i) \/ TryEnqueueAgain(i) \/ Enqueue(i)
    <2>1. PICK i \in Items : TryEnqueue(i) \/ TryEnqueueAgain(i) \/ Enqueue(i)
      BY <1>8
    <2>2. UNCHANGED <<handed, batch>>
      BY <2>1 DEF TryEnqueue, TryEnqueueAgain, Enqueue, workVars, pushVars
    <2>3. Accept(i) \/ UNCHANGED <<eventQueue, accepted>>
      BY <2>1 DEF TryEnqueue, TryEnqueueAgain, Enqueue, Refuse
    <2>4. CASE Accept(i)
      BY <1>4, <2>2, <2>4
    <2>5. CASE UNCHANGED <<eventQueue, accepted>>
      BY <1>7, <2>2, <2>5
    <2> QED
      BY <2>3, <2>4, <2>5
  <1>9. CASE \E v \in Workers : WorkerStep(v) \/ TimerFires(v)
    <2>1. WorkerStep(w) \/ TimerFires(w)
      BY <1>9
    <2>2. CASE StartWork(w) \/ StopTimer(w) \/ Linger(w) \/ Quit(w) \/ TimerFires(w)
      <3>1. UNCHANGED <<handed, batch, eventQueue, accepted>>
        BY <2>2 DEF StartWork, StopTimer, Linger, Quit, TimerFires, queueVars, pushVars
      <3> QED
        BY <1>7, <3>1
    <2>3. CASE Receive(w)
      BY <1>5, <2>3
    <2>4. CASE ProcessFull(w)
      BY <1>6, <2>4 DEF ProcessFull
    <2>5. CASE ProcessLinger(w)
      BY <1>6, <2>5 DEF ProcessLinger
    <2>6. CASE ProcessQuit(w)
      BY <1>6, <2>6, SMTT(60) DEF ProcessQuit
    <2> QED
      BY <2>1, <2>2, <2>3, <2>4, <2>5, <2>6 DEF WorkerStep
  <1>10. CASE \E r \in DOMAIN retries : RetryRead(r) \/ RetryPush(r)
    BY <1>7, <1>10, ZenonT(60) DEF RetryRead, RetryPush, queueVars, workVars
  <1>11. CASE \E s \in Stoppers : Stop(s) \/ SafeStop(s) \/ Tick(s) \/ Close(s) \/ Wait(s)
    <2>1. PICK s \in Stoppers : Stop(s) \/ SafeStop(s) \/ Tick(s) \/ Close(s) \/ Wait(s)
      BY <1>11, ZenonT(60)
    <2>2. UNCHANGED <<queueVars, workVars, pushVars>>
      BY <2>1, ZenonT(60) DEF Stop, SafeStop, Tick, Close, Wait
    <2> QED
      BY <1>7, <2>2, ZenonT(60) DEF queueVars, workVars, pushVars
  <1>12. CASE UNCHANGED vars
    BY <1>7, <1>12 DEF vars, queueVars, workVars, pushVars
  <1> QED
    BY <1>8, <1>9, <1>10, <1>11, <1>12, SMTT(60) DEF Next

\* A one-worker aggregator hands over the accepted signals in order and each
\* exactly once, through failing batches, panics and stops.
THEOREM Fifo == Spec => []FifoOrder
  BY FifoInit, FifoNext, Invariance, PTL DEF Spec

-------------------------------------------------------------------------------
(* SafeStop flushes what it promised, for any number of workers.             *)

\* How many accepted items workers have received.
Taken == Len(accepted) - Len(eventQueue)

\* Some worker holds the item, or has handed it over.
InHand(i) == i \in Range(handed) \/ \E w \in Workers : i \in Range(batch[w])

\* The channel holds the last accepted items, in order.
QueueIsSuffix ==
    /\ Taken >= 0
    /\ \A k \in 1..Len(eventQueue) : eventQueue[k] = accepted[Taken + k]

TakenInHand == \A k \in 1..Taken : InHand(accepted[k])

\* Past the empty check of SafeStop, the promised items have been received.
Promises ==
    \A s \in Stoppers :
        /\ promised[s] <= Len(accepted)
        /\ stopper[s] = "idle" => promised[s] = -1
        /\ stopper[s] \in {"closing", "waiting"} => promised[s] <= Taken

SInv == QueueIsSuffix /\ TakenInHand /\ Promises /\ SafeStopFlushes

LEMMA StopInit == Init => SInv
  BY DEF Init, SInv, QueueIsSuffix, TakenInHand, Promises, SafeStopFlushes, Taken

\* The elements of a concatenation.
LEMMA RangeConcat ==
  ASSUME NEW S, NEW s \in Seq(S), NEW t \in Seq(S)
  PROVE  Range(s \o t) = Range(s) \cup Range(t)
  <1>1. ASSUME NEW k \in DOMAIN s PROVE s[k] \in Range(s \o t)
    <2>1. k \in DOMAIN (s \o t) /\ (s \o t)[k] = s[k]
      OBVIOUS
    <2> QED
      BY <2>1 DEF Range
  <1>2. ASSUME NEW k \in DOMAIN t PROVE t[k] \in Range(s \o t)
    <2>1. Len(s) + k \in DOMAIN (s \o t) /\ (s \o t)[Len(s) + k] = t[k]
      OBVIOUS
    <2> QED
      BY <2>1 DEF Range
  <1>3. ASSUME NEW k \in DOMAIN (s \o t) PROVE (s \o t)[k] \in Range(s) \cup Range(t)
    BY DEF Range
  <1> QED
    BY <1>1, <1>2, <1>3, ZenonT(60) DEF Range

\* The elements of a sequence after an append.
LEMMA RangeAppend ==
  ASSUME NEW S, NEW s \in Seq(S), NEW e \in S
  PROVE  Range(Append(s, e)) = Range(s) \cup {e}
  <1>1. <<e>> \in Seq(S) /\ Range(<<e>>) = {e}
    BY DEF Range
  <1>2. Append(s, e) = s \o <<e>>
    BY AppendIsConcat
  <1>3. Range(s \o <<e>>) = Range(s) \cup Range(<<e>>)
    BY <1>1, RangeConcat, ZenonT(60)
  <1> QED
    BY <1>1, <1>2, <1>3

\* A step after which the received items are still in hand, and that changes
\* neither the channel nor the stoppers, keeps the invariant.
LEMMA KeepsInHand ==
  ASSUME SInv, UNCHANGED <<accepted, eventQueue, stopper, promised>>,
         \A i \in Range(handed) : i \in Range(handed'),
         \A i : InHand(i) => InHand(i)'
  PROVE  SInv'
  BY DEF SInv, QueueIsSuffix, TakenInHand, Promises, SafeStopFlushes, Taken

LEMMA AcceptStop ==
  ASSUME IInv, SInv, NEW i \in Items, Accept(i), UNCHANGED <<workVars, pushVars, stopVars>>
  PROVE  SInv'
  <1>1. /\ accepted \in Seq(Items) /\ eventQueue \in Seq(Items)
        /\ accepted' = Append(accepted, i) /\ eventQueue' = Append(eventQueue, i)
        /\ UNCHANGED <<batch, handed, stopper, promised>>
    BY DEF IInv, TypeOK, QueueType, Accept, workVars, pushVars, stopVars
  <1>2. /\ Len(accepted') = Len(accepted) + 1 /\ Len(eventQueue') = Len(eventQueue) + 1
        /\ Taken' = Taken /\ Taken \in Int /\ Taken <= Len(accepted)
        /\ \A k \in 1..Len(accepted) : accepted'[k] = accepted[k]
        /\ accepted'[Len(accepted) + 1] = i
    BY <1>1 DEF Taken
  <1>3. QueueIsSuffix'
    <2>1. ASSUME NEW k \in 1..Len(eventQueue') PROVE eventQueue'[k] = accepted'[Taken + k]
      BY <1>1, <1>2, SMTT(60) DEF SInv, QueueIsSuffix, Taken
    <2> QED
      BY <1>2, <2>1, ZenonT(60) DEF SInv, QueueIsSuffix
  <1>4. TakenInHand'
    BY <1>1, <1>2, SMTT(60) DEF SInv, TakenInHand, InHand
  <1>5. Promises' /\ SafeStopFlushes'
    <2>1. promised \in [Stoppers -> Int]
      BY DEF IInv, TypeOK, StopType
    <2> QED
      BY <1>1, <1>2, <2>1 DEF SInv, Promises, SafeStopFlushes
  <1> QED
    BY <1>3, <1>4, <1>5 DEF SInv

LEMMA ReceiveStop ==
  ASSUME IInv, SInv, NEW w \in Workers, Receive(w)
  PROVE  SInv'
  <1>1. /\ accepted \in Seq(Items) /\ eventQueue \in Seq(Items) /\ eventQueue /= <<>>
        /\ batch \in [Workers -> Seq(Items)]
        /\ accepted' = accepted /\ eventQueue' = Tail(eventQueue)
        /\ batch' = [batch EXCEPT ![w] = Append(@, Head(eventQueue))]
        /\ UNCHANGED <<handed, stopper, promised>>
    BY DEF IInv, TypeOK, QueueType, WorkType, Receive, stopVars
  <1>2. /\ Head(eventQueue) = eventQueue[1] /\ Head(eventQueue) \in Items
        /\ Len(eventQueue') = Len(eventQueue) - 1 /\ Len(eventQueue) >= 1
        /\ Taken' = Taken + 1 /\ Taken \in Int
    BY <1>1, SMTT(60) DEF Taken
  <1>3. QueueIsSuffix'
    <2>1. ASSUME NEW k \in 1..Len(eventQueue')
          PROVE  eventQueue'[k] = accepted'[Taken' + k]
      <3>1. /\ Len(eventQueue) \in Nat /\ k \in Nat
            /\ k >= 1 /\ k <= Len(eventQueue) - 1
        BY <1>1, <1>2
      <3>2. k + 1 \in 1..Len(eventQueue)
        BY <3>1
      <3>3. Taken' + k = Taken + (k + 1)
        <4>1. Taken' = Taken + 1 /\ Taken \in Int
          BY <1>2
        <4> QED
          BY <3>1, <4>1
      <3>4. eventQueue'[k] = eventQueue[k + 1]
        BY <1>1, <3>1, SMTT(60)
      <3>5. eventQueue[k + 1] = accepted[Taken + (k + 1)]
        BY <3>2 DEF SInv, QueueIsSuffix
      <3> QED
        BY <1>1, <3>3, <3>4, <3>5, SMTT(60)
    <2>2. Taken' >= 0
      BY <1>2 DEF SInv, QueueIsSuffix
    <2> QED
      BY <2>1, <2>2, SMTT(60) DEF QueueIsSuffix
  <1>4. Range(batch'[w]) = Range(batch[w]) \cup {Head(eventQueue)}
    BY <1>1, <1>2, RangeAppend, SMTT(60)
  <1>5. /\ \A i : InHand(i) => InHand(i)'
        /\ \E v \in Workers : Head(eventQueue) \in Range(batch'[v])
    <2>1. handed' = handed /\ \A v \in Workers \ {w} : batch'[v] = batch[v]
      BY <1>1, SMTT(60)
    <2>2. ASSUME NEW i, InHand(i) PROVE InHand(i)'
      BY <1>4, <2>1, <2>2 DEF InHand
    <2> QED
      BY <1>4, <2>2 DEF InHand
  <1>6. TakenInHand'
    <2>1. accepted[Taken + 1] = Head(eventQueue)
      BY <1>2 DEF SInv, QueueIsSuffix
    <2>2. ASSUME NEW k \in 1..Taken' PROVE InHand(accepted[k])'
      <3>1. CASE k \in 1..Taken
        BY <1>1, <1>5, <3>1, SMTT(60) DEF SInv, TakenInHand
      <3>2. CASE k = Taken + 1
        BY <1>1, <1>5, <2>1, <3>2, SMTT(60) DEF InHand
      <3> QED
        BY <1>2, <3>1, <3>2, SMTT(60)
    <2> QED
      BY <2>2 DEF TakenInHand
  <1>7. Promises' /\ SafeStopFlushes'
    <2>1. promised \in [Stoppers -> Int]
      BY DEF IInv, TypeOK, StopType
    <2> QED
      BY <1>1, <1>2, <2>1 DEF SInv, Promises, SafeStopFlushes
  <1> QED
    BY <1>3, <1>6, <1>7, SMTT(60) DEF SInv

LEMMA ProcessStop ==
  ASSUME IInv, SInv, NEW w \in Workers, NEW next, BatchProcess(w, next)
  PROVE  SInv'
  <1>1. /\ handed \in Seq(Items) /\ batch \in [Workers -> Seq(Items)]
        /\ handed' = handed \o batch[w]
        /\ batch' = [batch EXCEPT ![w] = <<>>]
        /\ UNCHANGED <<accepted, eventQueue, stopper, promised>>
    BY DEF IInv, TypeOK, WorkType, PushType, BatchProcess, queueVars, stopVars
  <1>2. Range(handed') = Range(handed) \cup Range(batch[w])
    BY <1>1, RangeConcat
  <1>3. ASSUME NEW i, InHand(i) PROVE InHand(i)'
    BY <1>1, <1>2, <1>3, SMTT(60) DEF InHand
  <1> QED
    BY <1>1, <1>2, <1>3, KeepsInHand, SMTT(60)

LEMMA StopperStop ==
  ASSUME IInv, SInv, NEW s \in Stoppers,
         Stop(s) \/ SafeStop(s) \/ Tick(s) \/ Close(s) \/ Wait(s)
  PROVE  SInv'
  <1>1. UNCHANGED <<accepted, eventQueue, handed, batch>>
    BY DEF Stop, SafeStop, Tick, Close, Wait, queueVars, workVars, pushVars
  <1>2. QueueIsSuffix' /\ TakenInHand' /\ Taken' = Taken
    BY <1>1 DEF SInv, QueueIsSuffix, TakenInHand, InHand, Taken
  <1>3. /\ promised \in [Stoppers -> Int] /\ DOMAIN stopper = Stoppers
        /\ Len(accepted) \in Nat /\ Len(eventQueue) \in Nat
        /\ eventQueue = <<>> => Len(eventQueue) = 0
        /\ Taken \in Int /\ Taken >= 0
    BY DEF IInv, TypeOK, StopType, QueueType, SInv, QueueIsSuffix, Taken
  <1>4. Promises'
    <2>1. CASE SafeStop(s)
      BY <1>1, <1>2, <1>3, <2>1, SMTT(60) DEF SInv, Promises, SafeStop, Taken
    <2>2. CASE Stop(s) \/ Close(s) \/ Wait(s)
      BY <1>1, <1>2, <1>3, <2>2, SMTT(60) DEF SInv, Promises, Stop, Close, Wait
    <2>3. CASE Tick(s)
      BY <1>1, <1>2, <1>3, <2>3, SMTT(60) DEF SInv, Promises, Tick, Taken
    <2> QED
      BY <2>1, <2>2, <2>3, SMTT(60)
  <1>5. SafeStopFlushes'
    <2>1. CASE Wait(s)
      <3>1. \A w \in Workers : batch[w] = <<>>
        BY <2>1, SMTT(60) DEF Wait, IInv, WorkerInv, WorkerOK
      <3>2. \A i : InHand(i) => i \in Range(handed)
        BY <3>1, SMTT(60) DEF InHand, Range
      <3>3. \A k \in 1..promised[s] : accepted[k] \in Range(handed)
        BY <1>3, <2>1, <3>2 DEF Wait, SInv, Promises, TakenInHand
      <3> QED
        BY <1>1, <1>3, <2>1, <3>3, SMTT(60) DEF Wait, SInv, SafeStopFlushes
    <2>2. CASE ~Wait(s)
      BY <1>1, <1>3, <2>2 DEF SInv, SafeStopFlushes, Stop, SafeStop, Tick, Close
    <2> QED
      BY <2>1, <2>2
  <1> QED
    BY <1>2, <1>4, <1>5 DEF SInv

LEMMA StopNext == IInv /\ SInv /\ [Next]_vars => SInv'
  <1> SUFFICES ASSUME IInv, SInv, [Next]_vars PROVE SInv'
    OBVIOUS
  <1>1. ASSUME UNCHANGED <<accepted, eventQueue, stopper, promised, handed, batch>>
        PROVE  SInv'
    BY <1>1, KeepsInHand DEF InHand
  <1>2. CASE \E i \in Items : TryEnqueue(i) \/ TryEnqueueAgain(i) \/ Enqueue(i)
    BY <1>1, <1>2, AcceptStop, SMTT(30)
    DEF TryEnqueue, TryEnqueueAgain, Enqueue, Refuse, workVars, pushVars, stopVars
  <1>3. CASE \E w \in Workers : WorkerStep(w) \/ TimerFires(w)
    BY <1>1, <1>3, ReceiveStop, ProcessStop
    DEF WorkerStep, StartWork, ProcessFull, StopTimer, TimerFires, Linger,
        ProcessLinger, Quit, ProcessQuit, queueVars, pushVars, stopVars
  <1>4. CASE \E r \in DOMAIN retries : RetryRead(r) \/ RetryPush(r)
    BY <1>1, <1>4 DEF RetryRead, RetryPush, queueVars, workVars, stopVars
  <1>5. CASE \E s \in Stoppers : Stop(s) \/ SafeStop(s) \/ Tick(s) \/ Close(s) \/ Wait(s)
    BY <1>5, StopperStop
  <1>6. CASE UNCHANGED vars
    BY <1>1, <1>6 DEF vars, queueVars, workVars, pushVars, stopVars
  <1> QED
    BY <1>2, <1>3, <1>4, <1>5, <1>6 DEF Next

\* When SafeStop returns, every signal accepted before it was called has been
\* handed to the batch processor, with any number of workers and stoppers.
THEOREM SafeStopSafe == Spec => []SafeStopFlushes
  <1>1. SInv => SafeStopFlushes
    BY DEF SInv
  <1> QED
    BY <1>1, StopInit, StopNext, Invariance, PTL DEF Spec

===============================================================================
