------------------------------ MODULE Aggregator ------------------------------
(***************************************************************************)
(* nodes/aggregator.go: the batching queue every remote Node sends its     *)
(* signals through.  Callers put signals into a buffered channel, worker   *)
(* goroutines collect them into batches that leave when full, when the     *)
(* linger timer fires, or when the aggregator is stopped.  The batch       *)
(* processor is the one NewNode installs (nodes/node.go), a push to a      *)
(* Redis list, and its error handler pushes the same slice once more.      *)
(*                                                                         *)
(* One item stands for one caller of TryEnqueue or Enqueue.                *)
(***************************************************************************)
EXTENDS Integers, Sequences, FiniteSets, Functions

CONSTANTS
    Items,              \* the signals, one per call
    Workers,            \* option.Workers goroutines
    Stoppers,           \* callers of Stop or SafeStop
    BatchSize,          \* option.BatchSize
    ChannelBufferSize,  \* capacity of eventQueue
    MaxFailures         \* bound on failing or panicking batches

\* With BatchSize 1 the linger timer is never armed and the drain after a full
\* batch blocks the worker for ever; the program uses 60, the default is 8.
ASSUME BatchSizeAssumption == BatchSize \in Nat /\ BatchSize > 1

\* NewAggregator raises a capacity below the number of workers to that number.
ASSUME BufferAssumption ==
    ChannelBufferSize \in Nat /\ ChannelBufferSize >= Cardinality(Workers)

ASSUME FailuresAssumption == MaxFailures \in Nat

VARIABLES
    item,        \* what became of each call
    accepted,    \* history: items the channel took, in order
    eventQueue,  \* the channel
    quit,        \* quit is closed
    pc,          \* where each worker is
    batch,       \* its batch slice
    timer,       \* its linger timer: "idle", "armed" or "fired" (value in C)
    handed,      \* history: items given to batchProcessor, in order
    panicked,    \* history: items of batches whose processing panicked
    failures,    \* how many batches failed or panicked
    pushed,      \* batches that reached the Redis list
    retries,     \* the error handler goroutines: the slice each holds, how far
                 \* it has read it, and how much was handed over before it
    stopper,     \* where each caller of Stop or SafeStop is
    promised     \* history: how many items were accepted when it called
                 \* SafeStop, -1 when it did not

queueVars == <<item, accepted, eventQueue>>
workVars == <<pc, batch, timer>>
pushVars == <<handed, panicked, failures, pushed, retries>>
stopVars == <<quit, stopper, promised>>
vars == <<queueVars, workVars, pushVars, stopVars>>

-------------------------------------------------------------------------------
(* Callers.                                                                 *)

Accept(i) ==
    /\ Len(eventQueue) < ChannelBufferSize
    /\ eventQueue' = Append(eventQueue, i)
    /\ accepted' = Append(accepted, i)
    /\ item' = [item EXCEPT ![i] = "accepted"]

Refuse(i, state) ==
    /\ Len(eventQueue) >= ChannelBufferSize
    /\ item' = [item EXCEPT ![i] = state]
    /\ UNCHANGED <<accepted, eventQueue>>

\* The first non-blocking send; on a full channel the caller yields.
TryEnqueue(i) ==
    /\ item[i] = "new"
    /\ Accept(i) \/ Refuse(i, "rescheduled")
    /\ UNCHANGED <<workVars, pushVars, stopVars>>

\* The second one; on a full channel the signal is skipped.
TryEnqueueAgain(i) ==
    /\ item[i] = "rescheduled"
    /\ Accept(i) \/ Refuse(i, "skipped")
    /\ UNCHANGED <<workVars, pushVars, stopVars>>

\* The blocking send.
Enqueue(i) ==
    /\ item[i] = "new"
    /\ Accept(i)
    /\ UNCHANGED <<workVars, pushVars, stopVars>>

-------------------------------------------------------------------------------
(* Workers.                                                                 *)

\* Mutant: the append lands one position too far.
WriteThroughAhead(w, k, i) ==
    [r \in DOMAIN retries |->
        IF /\ retries[r].worker = w /\ retries[r].aliased
           /\ k >= retries[r].read /\ k < Len(retries[r].items)
        THEN [retries[r] EXCEPT !.items[k + 1] = i]
        ELSE retries[r]]

\* batch is emptied by reslicing, so the slice an error handler still holds
\* shares its array: an append at position k shows in every slice of that
\* array that is long enough and has not been read that far.
WriteThrough(w, k, i) ==
    [r \in DOMAIN retries |->
        IF /\ retries[r].worker = w
           /\ retries[r].aliased
           /\ k > retries[r].read
           /\ k <= Len(retries[r].items)
        THEN [retries[r] EXCEPT !.items[k] = i]
        ELSE retries[r]]

\* A worker that panicked makes a new array.
Unalias(w) ==
    [r \in DOMAIN retries |->
        IF retries[r].worker = w
        THEN [retries[r] EXCEPT !.aliased = FALSE]
        ELSE retries[r]]

\* Mutant: the batch is not emptied after it was processed.
BatchProcessNoReset(w, next) ==
    /\ handed' = handed \o batch[w]
    /\ pushed' = Append(pushed, batch[w])
    /\ pc' = [pc EXCEPT ![w] = next]
    /\ timer' = [timer EXCEPT ![w] = IF next = "exited" THEN "idle" ELSE @]
    /\ UNCHANGED <<queueVars, batch, panicked, failures, retries, stopVars>>

\* batchProcess, and the reset of the batch that follows it.  The push
\* succeeds, fails (applied by Redis or not) and starts an error handler, or
\* panics and unwinds the worker.
BatchProcess(w, next) ==
    /\ handed' = handed \o batch[w]
    /\ batch' = [batch EXCEPT ![w] = <<>>]
    /\ \/ /\ pushed' = Append(pushed, batch[w])
          /\ pc' = [pc EXCEPT ![w] = next]
          /\ timer' = [timer EXCEPT ![w] = IF next = "exited" THEN "idle" ELSE @]
          /\ UNCHANGED <<panicked, failures, retries>>
       \/ /\ failures < MaxFailures
          /\ failures' = failures + 1
          /\ pushed' \in {pushed, Append(pushed, batch[w])}
          /\ retries' = Append(retries, [worker |-> w, first |-> Len(handed),
                                         items |-> batch[w], read |-> 0,
                                         aliased |-> TRUE, sent |-> FALSE])
          /\ pc' = [pc EXCEPT ![w] = next]
          /\ timer' = [timer EXCEPT ![w] = IF next = "exited" THEN "idle" ELSE @]
          /\ UNCHANGED panicked
       \/ /\ failures < MaxFailures
          /\ failures' = failures + 1
          /\ panicked' = panicked \cup Range(batch[w])
          /\ pc' = [pc EXCEPT ![w] = "recovering"]
          /\ timer' = [timer EXCEPT ![w] = "idle"]
          /\ UNCHANGED <<pushed, retries>>
    /\ UNCHANGED <<queueVars, stopVars>>

\* work up to its loop: after Start, or again after a recovered panic.
StartWork(w) ==
    /\ pc[w] \in {"spawned", "recovering"}
    /\ pc' = [pc EXCEPT ![w] = "select"]
    /\ retries' = Unalias(w)
    /\ UNCHANGED <<queueVars, batch, timer, handed, panicked, failures, pushed, stopVars>>

\* Mutant: the first item of a batch does not start the linger timer.
ReceiveNoReset(w) ==
    LET size == Len(batch[w]) + 1 IN
    /\ pc[w] = "select"
    /\ eventQueue /= <<>>
    /\ eventQueue' = Tail(eventQueue)
    /\ batch' = [batch EXCEPT ![w] = Append(@, Head(eventQueue))]
    /\ retries' = WriteThrough(w, size, Head(eventQueue))
    /\ pc' = [pc EXCEPT ![w] = IF size < BatchSize THEN @ ELSE "full"]
    /\ UNCHANGED <<item, accepted, timer, handed, panicked, failures, pushed, stopVars>>

\* case req := <-agt.eventQueue, up to the processing of a full batch.
Receive(w) ==
    LET size == Len(batch[w]) + 1 IN
    /\ pc[w] = "select"
    /\ eventQueue /= <<>>
    /\ eventQueue' = Tail(eventQueue)
    /\ batch' = [batch EXCEPT ![w] = Append(@, Head(eventQueue))]
    /\ retries' = WriteThrough(w, size, Head(eventQueue))
    /\ IF size < BatchSize
       THEN /\ timer' = [timer EXCEPT ![w] = IF size = 1 THEN "armed" ELSE @]
            /\ UNCHANGED pc
       ELSE /\ pc' = [pc EXCEPT ![w] = "full"]
            /\ UNCHANGED timer
    /\ UNCHANGED <<item, accepted, handed, panicked, failures, pushed, stopVars>>

ProcessFull(w) ==
    /\ pc[w] = "full"
    /\ BatchProcess(w, "drain")

\* Mutant: the linger timer runs on after a full batch.
StopTimerForgotten(w) ==
    /\ pc[w] = "drain"
    /\ pc' = [pc EXCEPT ![w] = "select"]
    /\ UNCHANGED <<queueVars, batch, timer, pushVars, stopVars>>

\* if !lingerTimer.Stop() { <-lingerTimer.C }: with nothing in C and the timer
\* not running, the receive has no step.
StopTimer(w) ==
    /\ pc[w] = "drain"
    /\ timer[w] /= "idle"
    /\ timer' = [timer EXCEPT ![w] = "idle"]
    /\ pc' = [pc EXCEPT ![w] = "select"]
    /\ UNCHANGED <<queueVars, batch, pushVars, stopVars>>

TimerFires(w) ==
    /\ timer[w] = "armed"
    /\ timer' = [timer EXCEPT ![w] = "fired"]
    /\ UNCHANGED <<queueVars, pc, batch, pushVars, stopVars>>

\* case <-lingerTimer.C
Linger(w) ==
    /\ pc[w] = "select"
    /\ timer[w] = "fired"
    /\ timer' = [timer EXCEPT ![w] = "idle"]
    /\ pc' = [pc EXCEPT ![w] = IF batch[w] = <<>> THEN "select" ELSE "linger"]
    /\ UNCHANGED <<queueVars, batch, pushVars, stopVars>>

ProcessLinger(w) ==
    /\ pc[w] = "linger"
    /\ BatchProcess(w, "select")

\* Mutant: quit is noticed only by a worker that holds a batch.
QuitWhenBusy(w) ==
    /\ pc[w] = "select"
    /\ quit
    /\ batch[w] /= <<>>
    /\ pc' = [pc EXCEPT ![w] = "quitting"]
    /\ UNCHANGED <<queueVars, batch, timer, pushVars, stopVars>>

\* case <-agt.quit
Quit(w) ==
    /\ pc[w] = "select"
    /\ quit
    /\ IF batch[w] = <<>>
       THEN /\ pc' = [pc EXCEPT ![w] = "exited"]
            /\ timer' = [timer EXCEPT ![w] = "idle"]
       ELSE /\ pc' = [pc EXCEPT ![w] = "quitting"]
            /\ UNCHANGED timer
    /\ UNCHANGED <<queueVars, batch, pushVars, stopVars>>

ProcessQuit(w) ==
    /\ pc[w] = "quitting"
    /\ BatchProcess(w, "exited")

WorkerStep(w) ==
    \/ StartWork(w)
    \/ Receive(w)
    \/ ProcessFull(w)
    \/ StopTimer(w)
    \/ Linger(w)
    \/ ProcessLinger(w)
    \/ Quit(w)
    \/ ProcessQuit(w)

-------------------------------------------------------------------------------
(* Error handlers.                                                          *)

\* proto.Marshal reads the slice one element after the other.
RetryRead(r) ==
    /\ retries[r].read < Len(retries[r].items)
    /\ retries' = [retries EXCEPT ![r].read = @ + 1]
    /\ UNCHANGED <<queueVars, workVars, handed, panicked, failures, pushed, stopVars>>

\* The second push; its error is dropped.
RetryPush(r) ==
    /\ retries[r].read = Len(retries[r].items)
    /\ ~retries[r].sent
    /\ retries' = [retries EXCEPT ![r].sent = TRUE]
    /\ pushed' \in {pushed, Append(pushed, retries[r].items)}
    /\ UNCHANGED <<queueVars, workVars, handed, panicked, failures, stopVars>>

-------------------------------------------------------------------------------
(* Stop and SafeStop.                                                       *)

\* wg.Wait returns when no worker is between wg.Add and wg.Done.
Idle(w) == pc[w] \in {"spawned", "recovering", "exited"}

Stop(s) ==
    /\ stopper[s] = "idle"
    /\ stopper' = [stopper EXCEPT ![s] = "closing"]
    /\ UNCHANGED <<queueVars, workVars, pushVars, quit, promised>>

SafeStop(s) ==
    /\ stopper[s] = "idle"
    /\ stopper' = [stopper EXCEPT ![s] = IF eventQueue = <<>> THEN "closing" ELSE "polling"]
    /\ promised' = [promised EXCEPT ![s] = Len(accepted)]
    /\ UNCHANGED <<queueVars, workVars, pushVars, quit>>

\* Mutant: the first tick closes quit, whatever the channel holds.
TickEarly(s) ==
    /\ stopper[s] = "polling"
    /\ stopper' = [stopper EXCEPT ![s] = "closing"]
    /\ UNCHANGED <<queueVars, workVars, pushVars, quit, promised>>

\* A tick of the 50 ms ticker that finds the channel empty.
Tick(s) ==
    /\ stopper[s] = "polling"
    /\ eventQueue = <<>>
    /\ stopper' = [stopper EXCEPT ![s] = "closing"]
    /\ UNCHANGED <<queueVars, workVars, pushVars, quit, promised>>

\* close(agt.quit) panics when quit is closed already.
Close(s) ==
    /\ stopper[s] = "closing"
    /\ quit' = TRUE
    /\ stopper' = [stopper EXCEPT ![s] = IF quit THEN "panicked" ELSE "waiting"]
    /\ UNCHANGED <<queueVars, workVars, pushVars, promised>>

Wait(s) ==
    /\ stopper[s] = "waiting"
    /\ \A w \in Workers : Idle(w)
    /\ stopper' = [stopper EXCEPT ![s] = "returned"]
    /\ UNCHANGED <<queueVars, workVars, pushVars, quit, promised>>

-------------------------------------------------------------------------------
Init ==
    /\ item = [i \in Items |-> "new"]
    /\ accepted = <<>>
    /\ eventQueue = <<>>
    /\ quit = FALSE
    /\ pc = [w \in Workers |-> "spawned"]
    /\ batch = [w \in Workers |-> <<>>]
    /\ timer = [w \in Workers |-> "idle"]
    /\ handed = <<>>
    /\ panicked = {}
    /\ failures = 0
    /\ pushed = <<>>
    /\ retries = <<>>
    /\ stopper = [s \in Stoppers |-> "idle"]
    /\ promised = [s \in Stoppers |-> -1]

Next ==
    \/ \E i \in Items : TryEnqueue(i) \/ TryEnqueueAgain(i) \/ Enqueue(i)
    \/ \E w \in Workers : WorkerStep(w) \/ TimerFires(w)
    \/ \E r \in DOMAIN retries : RetryRead(r) \/ RetryPush(r)
    \/ \E s \in Stoppers : Stop(s) \/ SafeStop(s) \/ Tick(s) \/ Close(s) \/ Wait(s)

Spec == Init /\ [][Next]_vars

\* Goroutines that can run do run, timers fire and tickers tick.  Nobody has
\* to call Stop, and nobody has to send.
Fairness ==
    /\ \A i \in Items : WF_vars(TryEnqueueAgain(i))
    /\ \A w \in Workers : WF_vars(WorkerStep(w)) /\ WF_vars(TimerFires(w))
    /\ \A s \in Stoppers : WF_vars(Tick(s) \/ Close(s) \/ Wait(s))

FairSpec == Spec /\ Fairness

-------------------------------------------------------------------------------
(* Properties.                                                              *)

Retry == [worker : Workers, first : Nat, items : Seq(Items), read : Nat,
          aliased : BOOLEAN, sent : BOOLEAN]

QueueType ==
    /\ item \in [Items -> {"new", "rescheduled", "accepted", "skipped"}]
    /\ accepted \in Seq(Items)
    /\ eventQueue \in Seq(Items)
    /\ Len(eventQueue) <= ChannelBufferSize

WorkType ==
    /\ pc \in [Workers -> {"spawned", "recovering", "select", "full", "drain",
                           "linger", "quitting", "exited"}]
    /\ batch \in [Workers -> Seq(Items)]
    /\ \A w \in Workers : Len(batch[w]) <= BatchSize
    /\ timer \in [Workers -> {"idle", "armed", "fired"}]

PushType ==
    /\ handed \in Seq(Items)
    /\ panicked \in SUBSET Items
    /\ failures \in 0..MaxFailures
    /\ pushed \in Seq(Seq(Items))
    /\ retries \in Seq(Retry)

StopType ==
    /\ quit \in BOOLEAN
    /\ stopper \in [Stoppers -> {"idle", "polling", "closing", "waiting",
                                 "returned", "panicked"}]
    /\ promised \in [Stoppers -> Int]

\* Type correctness; the channel and the batches stay within their capacity.
TypeOK == QueueType /\ WorkType /\ PushType /\ StopType

\* With the one worker a Node uses, signals leave in the order TryEnqueue
\* accepted them and each exactly once: what was handed to the processor, then
\* the batch, then the channel is the whole history of accepted signals,
\* through full batches, linger timeouts, failures, panics and stops.
FifoOrder ==
    \A w \in Workers :
        Workers = {w} => accepted = handed \o batch[w] \o eventQueue

\* SafeStop returns only after every signal accepted before it was called has
\* been handed to the processor, whatever panics and restarts happened.
SafeStopFlushes ==
    \A s \in Stoppers : stopper[s] = "returned" =>
        \A k \in 1..promised[s] : accepted[k] \in Range(handed)

\* While a worker waits in its select, its linger timer runs (or has fired)
\* exactly when its batch holds something; so a partial batch always has
\* something that will send it.
TimerGuardsBatch ==
    \A w \in Workers : pc[w] = "select" => (timer[w] = "idle" <=> batch[w] = <<>>)

\* The receive that drains the linger timer after a full batch never blocks:
\* Stop returned TRUE or the value is in the channel.
DrainNeverBlocks ==
    \A w \in Workers : pc[w] = "drain" => timer[w] /= "idle"

InList == UNION {Range(pushed[k]) : k \in DOMAIN pushed}

\* What the error handler's use of the worker's array costs.  With the one worker
\* a Node uses, a signal that was handed over and is not in the Redis list was in
\* a batch whose processing panicked, or in one whose push failed; then the second
\* push has failed too or is still to come, or it has sent another signal in the
\* place of this one, which the worker received a whole batch or more after it.
\* So a retry that is read before the worker goes on loses nothing.
LossHasCause ==
    \A w \in Workers : Workers = {w} =>
        LET received == handed \o batch[w] IN
        \A p \in 1..Len(handed) :
            \/ handed[p] \in InList \cup panicked
            \/ \E r \in DOMAIN retries :
                  LET k == p - retries[r].first
                      items == retries[r].items
                  IN  /\ k \in 1..Len(items)
                      /\ \/ items \notin Range(pushed)
                         \/ \E q \in (p + Len(items))..Len(received) : items[k] = received[q]

\* Stopping comes to an end: of the callers of Stop and SafeStop one gets out
\* again, because the channel drains, the workers see quit and the wait group
\* reaches zero.  The others may have panicked in their close, or wait in SafeStop
\* for a channel that nobody empties any more.
StopReturns ==
    (\E s \in Stoppers : stopper[s] /= "idle") ~> (\E s \in Stoppers : stopper[s] = "returned")

-------------------------------------------------------------------------------
(* With one worker the aggregator implements the abstract pipe: pending is  *)
(* what the worker and the channel hold.                                    *)

TheWorker == CHOOSE w \in Workers : TRUE

Pipe == INSTANCE SignalPipe WITH pending <- batch[TheWorker] \o eventQueue,
                                 closed <- quit

\* The one-worker aggregator is a first-in first-out pipe that, while open,
\* always eventually delivers what it holds.
ImplementsPipe == Pipe!Spec
===============================================================================
