# A TLA+ model of cbsignal

cbsignal is a signalling server for peer-to-peer delivery: browsers connect to
it by websocket or HTTP long polling, and exchange the messages that set up
WebRTC connections. Several instances ("nodes") form a cluster through Redis.
This directory models the parts of the server whose correctness depends on the
order in which goroutines, timers, Redis calls and requests happen, checks them
with TLC on small instances, and proves with TLAPS, for all values of their
constants, the central component, the clocks a peer is known by, the admission
of requests and the health check.

## Inventory

| Part | State | Operations | Talks to |
| --- | --- | --- | --- |
| `nodes/aggregator.go` | channel, batch and linger timer of each worker, `quit`, wait group | `TryEnqueue`, `Enqueue`, `work`, `batchProcess`, `Stop`, `SafeStop` | `node.go` (processor, error handler) |
| `nodes/node.go` | `isAlive`, `IsDead`, `pingRetrys` | `SendMsgSignal`, `sendBatchReq`, `StartHeartbeat`, `Destroy` | Redis list and count key |
| `nodes/nodehub.go` | map from address to Node, its lock | `Get`, `Add`, `Delete` | signal handlers |
| `client/client.go` | `IsPolling`, `Conn`, `MsgQueue`, `Timestamp` | `SendMessage`, `Close` | hub, HTTP handlers |
| `main.go` | request handlers | `pollingHandler`, `postHandler`, `wsHandler`, `checkConns`, `keepAlive`, `commonCheck` | everything |
| `hub/hub.go` | `Clients`, consumers of the Redis list | `DoRegister`, `DoUnregister`, `SendJsonToClient`, `Consume` | Redis, clients |
| `redis/redis.go` | key per peer, list per node, count per node, the breaker `IsAlive`, address cache | set, delete, expire, push, pop, trim | Redis |
| `handler/*.go` | filter of hopeless pairs | `signal`, `reject`, `ping` | hub, node hub |
| `util/ratelimit` | tokens, tick | `Take`, `TakeAvailable`, ... | `commonCheck` |
| `util/ecache` | linked arrays | `Put`, `Get`, `Del` | handlers' filter |
| `util/fastmap` | sharded map, a lock per shard | `Set`, `Get`, `Has`, `Remove`, iterators, `Clear` | hub |
| `util/cpu`, `handler/stats.go` | counters of the last reading, last usage, average `G_CPU` | sampler, `cpuproc`, `HealthCheck` | `commonCheck`, the balancer |

What makes it hard: channels are closed while others send; a length is read and
used later; `DoRegister` and `DoUnregister` are several steps on two stores;
Redis calls fail with or without effect; timers fire while something else is
under way; several goroutines find the same dead Node; a `Client` is put back
into a pool by whoever believes to have removed it; iterators fill channels with
locks held. `PROJECT.json` lists these hazards with the line where each bites.

## Modules

| Module | Models |
| --- | --- |
| `SignalPipe` | abstract: a first-in first-out pipe that delivers while it is open |
| `Aggregator` | `nodes/aggregator.go` with the processor and error handler of `NewNode` |
| `AggregatorProofs`, `AggregatorLossProofs` | TLAPS proofs about `Aggregator`: types, order and stop; what a failing push can cost |
| `ClientSession` | one client's queue: senders, polls, the switch to a websocket |
| `PeerDirectory` | hubs of several nodes, the pool of `Client` objects, the Redis key of each peer |
| `PeerLifetime` | the clocks on which a client, its Redis key and a cached address live |
| `PeerLifetimeProofs` | TLAPS proofs about `PeerLifetime` |
| `SignalRouting` | signal and reject handlers, the filter, the address cache, delivery on the other node |
| `NodeLink` | NodeHub, Node, heartbeat, the count key and the length of the list |
| `TokenBucket` | `util/ratelimit` |
| `Admission` | `commonCheck` over a `TokenBucket`, and the reload of the configuration |
| `AdmissionProofs` | TLAPS proofs about `Admission` and `TokenBucket` |
| `CpuLoad` | the CPU sampler, the moving average, and the limits it is compared with |
| `CpuLoadProofs` | TLAPS proofs about `CpuLoad` |
| `ClientMap` | abstract: an atomic map from ids to clients |
| `ConcurrentMap` | `util/fastmap/cmap`: shards, locks, iterators |
| `LruCache` | abstract: one or two least-recently-used lists |
| `Ecache` | `util/ecache`: the linked arrays of one bucket |
| `MC...` | symmetry and constants for TLC |

In every module an action carries the name of the function it stands for, or of
the step of it, and the comment above it says which. Where a function is
several actions, other goroutines may run in between.

**Aggregator.** Each item (a signal) is offered once. A worker's `pc` follows
`work`: `select`, then processing a full batch and stopping the timer, or
processing after the linger timeout, or quitting. The processor pushes the batch
to Redis; it may fail, which starts the error handler's goroutine, or panic,
which restarts the worker. The error handler reads the batch slice while the
worker already writes to the same array, and the model writes through to it;
each retry remembers how much had been handed over before its batch (`first`).
`Stop` and `SafeStop` are the stoppers' actions; a second close panics.
`accepted`, `handed`, `panicked` and `promised` are history.

**ClientSession.** One `Client` of a polling peer. A sender looks the client up,
reads `IsPolling`, reads the length, and sends: four steps. A poll reads the
length and drains that many messages, or waits. A websocket request sets
`IsPolling`, sets `Conn`, reads the length, drains and closes. Senders from
`sendMessageToLocalPeer` (set `Relayed`) have no recover, so their panic ends the
process (`crashed`). For one poll at a time it implements `SignalPipe`.

**PeerDirectory.** Sessions register with Set then SET, and unregister with Has,
Remove, DEL; a sweep does the latter for `checkConns` and for a relay that cannot
send. A Redis call succeeds, fails with or without effect and opens the breaker,
or is skipped because it is open. A key may lapse at any time. A request takes
its `Client` from the pool or allocates one; who is told by `DoUnregister` that
it removed the id puts the object it holds back, whether or not the map held that
object. Objects are named after the session that allocated them.

**PeerLifetime.** One peer id at one node, and another node that caches its
address. `age` is the time since the client's `Timestamp`, `keyAt` and `keyTtl`
are the node the Redis key names and what is left of it, `waitFor` how long a
poll can still wait, `sweepIn` and `cleanIn` count down to `checkConns` and to
bigcache's clean-up. What is due happens before time goes on. The peer may have
sessions at other nodes too (`there`): their SET may replace the key or fail,
their heartbeats extend it and their DEL removes it, whatever node it names. A
registration is one step here (its steps are in `PeerDirectory`); a Redis call
may fail or be skipped, and the node may crash and restart at any time.

**SignalRouting.** Each message runs through its handler in steps: filter,
`GetClient`, `SendJsonToClient` or `GetRemotePeerAddr`, `cache.Set`, the Node,
`handlePeerNotFound` or the reject's `filter.Put`; then `sendMessageToLocalPeer`
on the other node. Between the steps peers join, leave and move, keys lapse, and
entries leave the cache and the filter. What `Aggregator` and `NodeLink` do to a
message on its way is the number of copies that arrive (0 to 2).

**NodeLink.** Seen from one node towards one address. Callers run
`NodeHub.Get` and `SendMsgSignal`; the heartbeat and `keepAlive` of the other
node run on countdown timers. The other node may crash and restart. A Redis call
that fails may have had its effect; a failed push is repeated by the error
handler (`handlers` counts its goroutines), a failed trim is not.

**TokenBucket.** Time is an integer; `Take`, `TakeMaxDuration`, `TakeAvailable`
and `Available` are as in the source, rounding included. The first three read the
clock under the bucket's lock; `Available` reads it before it locks, so that it may
adjust the bucket back to an earlier tick.

**Admission.** `commonCheck` as requests meet it: the CPU average and the Redis
breaker are two Booleans that change at will, and `limiter` says whether `main`
made a bucket. A reload changes `limitEnabled` only. Other callers of the bucket
may use its whole interface beside `commonCheck`.

**CpuLoad.** In thousandths of the quota; the code does not cut readings off at
1000, and neither does the model (`MaxLoad`). A tick of the sampler adds the load of
half a second to what the counters have gained since the last reading that
succeeded, and reads them or fails; a reading of 0 is dropped. A tick of
`cpuproc` computes the average, where the floating-point sum of a whole number
may fall just below it and is then cut off.

**ConcurrentMap.** A caller makes one call on a key: lock, lookup, write and
unlock, where `Lock` first announces the writer (which keeps new readers out)
and then waits for the readers. Beside the callers one walk goes over all the
shards: under the lock of one shard after the other (`Count`, `IterCb`,
`GetChanByShard`), without locks (`CountNoLock`), or through the goroutines and
channels of `snapshot` and `fanIn` (`Iter`, `IterBuffered`, `Range`, `Items`,
`Clear`) or of `Keys`. Its user may leave the loop.

**Ecache.** Nodes, links and the hash map are as in the source; `ajust` keeps
the order of evaluation of Go's tuple assignment.

## Runs

| Run | Instance | Shows |
| --- | --- | --- |
| `aggregator` | 3 items, 1 worker, 2 stoppers, batches of 2, one failure, fair | order and no duplicate, SafeStop flushes and ends, timer and batch in step, every signal missing from the list has one of three causes, implements `SignalPipe` |
| `session_polling` | 4 messages, 1 poll at a time, queue of 2, fair | no stuck poll, no panic without a switch, implements `SignalPipe`, senders return |
| `session_switch` | 2 messages, 2 polls, 2 websocket requests | messages conserved, only late ones stranded, a response is an array unless a switch came in between |
| `session_recover` | 1 message, 1 poll, 1 websocket request | **violated**: see findings |
| `directory` | 2 nodes, 2 peers, 3 sessions, 1 sweep, one failure | hubs and keys agree at rest, no key left behind, no object both in use and in the pool unless somebody closed one they had not removed |
| `node_link` | 2 callers, 2 Node objects, intervals 2, 2 and 5, one crash, one failure | one live Node and it is in the map, the key outlives a missed publication, a crash is noticed in time, the list is bounded |
| `routing` | 2 nodes, 2 peers, 2 messages, 3 moves | a peer that stays put gets each message once, the sender for a missing one is told, the filter drops only what had a verdict |
| `lifetime` | the program's own intervals, halved and rounded up | a silent client is swept in time and one whose poll waits is not, a peer that pings and has no session elsewhere is known to Redis, a stale address is forgotten in time |
| `admission` | capacity 3 with quantum 2, ticks of 3, 9 units of time | rate bound from any moment on, exact waits, requests admitted within the rate, a nil limiter only after a reload |
| `cpu_load` | loads 0, 1, 720, 724, 1000 and 1006, one failing read in a row, fair | the health check fails before joins are refused unless a reading exceeds 1005, the verdict follows the load |
| `cmap` | 2 shards, 2 callers and every kind of walk, fair | implements `ClientMap`, a walk sees each shard at one moment, `Clear` leaves only what is new, nothing hangs |
| `ecache` | 4 keys, 2 values, one level of 3 and two levels of 2 | links intact, no stale hit, implements `LruCache` |

### Bounds

Batches of two with three items give a full and a partial batch in either order,
a third signal that overwrites a slot of a failed batch before or after it was
read, and a buffer of one fills up; the items and the stoppers are numbers and
come in that order (`MCAggregator`), which is their symmetry without the loss of
liveness checking. A Node has one worker, and what several workers share is
covered by the theorems. A queue of two with more senders reaches the full
channel. Three sessions of two peers and a sweep give every overlap of an old and
a new session on one node and on two, and an object that is put, reused for the
other peer and put again. Nine units of three make ticks 0 to 3, enough to
empty, overdraw, refill and cap a bucket of 3. The loads of `cpu_load` are idle,
the least that is read, the limit for joins, just past the gap the cut-off
leaves, the full quota, and the least reading above `SteepReading`. Two shards, one with two keys, let a walk see
one shard before and one after a write. The intervals of `node_link` keep the
order relations of the real ones: twice the publication interval is less than
the expiry, which is less than three times (14 < 20 < 21 seconds). `lifetime`
counts in units of two minutes, each interval rounded up (11, 3, 6, 10, 10, 5 and
2 minutes), which keeps what matters: a poll waits less than the polling limit,
a key lives less than the limit of a websocket. Its counters stop at `MaxAge` and
`Horizon`, beyond which nothing differs, and its properties are proved for all
intervals. Three moves in `routing`
register both peers and move or remove one, or register one in two places; two
messages are one that leaves a verdict, an address or a filter entry behind and
one that meets it. Each bound on
failures, crashes, time and grants is a named constant used in a guard. The
configurations that use symmetry check no liveness. Deadlock checking is off
where the finite supply of items, messages, sessions or calls runs out or the
process has ended, and on for `node_link`, `lifetime`, `admission` and `cpu_load`.

### Fairness

Weak fairness of goroutines that can run, and of timers: the Go scheduler runs
every runnable goroutine, and a timer that is set fires. One thing is assumed of
the environment, in `session_polling` only: the peer keeps polling, that is, it
follows every answer with its next poll for as long as it is registered. The code
cannot enforce this; it is what the client library does, and a peer that stops is
swept, after which `SenderReturns` and `ImplementsPipe` of `ClientSession` promise
nothing. Otherwise no item has to be offered, no session has to end, no node has
to crash or restart, no Redis call has to succeed, and nobody has to call the map
or leave a loop over it. In `cmap` the goroutines inside the map are fair only
together, which is weaker and enough. In `cpu_load` the two tickers tick for
ever, and at most `MaxErrors` reads of the counters fail in a row. In `aggregator`
and `session_polling` the number of failures is bounded.

## Proofs

`AggregatorProofs` proves, for all finite or infinite sets of items, workers and
stoppers, all batch and buffer sizes allowed by the assumptions of `Aggregator`
and any number of failures:

* `TypeCorrect`: `[]TypeOK`, in particular the capacity of the channel.
* `DrainSafe`: `[]DrainNeverBlocks`.
* `TimerSafe`: `[]TimerGuardsBatch`.
* `Fifo`: `[]FifoOrder`.
* `SafeStopSafe`: `[]SafeStopFlushes`.

`AggregatorLossProofs` adds

* `LossSafe`: `[]LossHasCause`.

The argument has four layers, each with one step per action.

1. `IInv` is `TypeOK` and `WorkerInv`, which says for each point of `work` what the
   worker's timer and batch look like (`WorkerOK`). None of `TypeOK`,
   `TimerGuardsBatch` and `DrainNeverBlocks` is inductive alone: that a drain finds
   a value rests on the timer having been set while the batch filled up, and that
   a batch does not outgrow its size rests on it being reset after processing.
2. `FifoOrder` is inductive relative to `IInv`.
3. `SInv` makes `SafeStopFlushes` inductive relative to `IInv`. That `SafeStop` has
   returned says something of the past, so `SInv` records it: the channel is a
   suffix of the accepted items (`QueueIsSuffix`), everything before that suffix
   is in a batch or handed (`TakenInHand`), and a stopper past its look at the channel
   promised no more than has left the channel (`Promises`). With the wait group at
   zero all batches are empty, so what was promised was handed.
4. `LInv` makes `LossHasCause` inductive relative to `IInv`. `Accounted`: every
   position of what was handed over is in the list, in a batch that panicked, or
   in a batch with an error handler. `Slots`: each slot of an error handler's slice
   holds the signal it was made with, or one received a whole batch later. That an
   append at position k of the new batch is so much later (`SlotWritten`) rests on
   the failed batch having been handed over entirely before the new one began.

Assumption `BatchSizeAssumption` (at least 2) is needed: with 1 the timer is
never set and the drain after the first batch would block. The program uses 60.

`AdmissionProofs` proves, for every capacity, quantum and fill interval of at
least 1, all counts and waits, and all bounds on time, grants and joins:

* `RateSafe`: `[]RateBound`.
* `WaitSafe`: `[]WaitIsExact`.
* `JoinsSafe`: `[]JoinsWithinRate`.
* `NilSafe`: `[]NilNeedsReload`.

None is inductive. `RateBound` speaks of tokens that have come due; `Spent`
strengthens it to what was given out since the mark and what is available now,
taken together, so that a call moves a token from one to the other and a tick
adds at most a quantum to both sides. For `WaitIsExact`, `Exact` says how much a
waiting caller's tokens lack: a whole quantum for every tick to come, less a
remainder smaller than one. The step that needs an argument is the tick
(`ExactTick`): the cap at the capacity would spoil the account, but a bucket
that still owes a waiting caller more than one quantum is below zero after the
tick and is not capped. `JoinsWithinRate` rests on `Spent` too: a request is
admitted only when a token was there, after which the bucket owes nothing, so all
that was given out since the mark is within the bound at that moment. That a late
`Available` is harmless is `FillDetour`: adjusting to any tick on the way, or back
to one before the last adjustment, leaves what the bucket holds at the current
tick as it was.

`PeerLifetimeProofs` proves, for all positive intervals with a poll timeout below
the polling limit and a polling limit not above that of websockets:

* `SilentSafe`: `[]SilentIsSwept`.
* `PollSafe`: `[]WaitingPollIsKept`.
* `PingedSafe`: `[]PingedIsKnown`.
* `StaleSafe`: `[]StaleIsBounded`.

Each property compares two clocks that are reset by different steps, so none is
inductive; the invariant bounds the two together, which a tick leaves as it is.
`SweepInTime`: age and time to the next sweep together are within the limit and
an interval. `PollIsYoung`: age and remaining wait are within the poll's timeout.
`KeyCoversSilence`: the key has at least as long to live as heartbeats may still
be missing. `KeyLeftBehind`: a key that still names a node without the peer was
left behind, and what is left of it and the time since are within its expiry.
`CleanInTime` and `EntryFollowsPeer` do the same for the entry in the cache.

`CpuLoadProofs` proves, for every set of loads, above the quota too, and any number
of failing reads:

* `LoadInRange`: `[]TypeOK`, that is, readings and average never exceed `MaxLoad`.
* `HealthFirst`: the action property `HealthFailsFirst`.

`SinceBounded` (the counters gained at most `MaxLoad` in each interval) makes the
range of the readings inductive; then `SteepestRise` is one step of arithmetic:
from an average below 600 a reading of at most 1005 leads to at most 720. A
reading of 1006 can lead to 721, so the constant of the property is exact.

Only model-checked: the refinements (`ImplementsPipe`, `ImplementsLru`,
`ImplementsClientMap`), all liveness (out of the prover's reach), and everything
about the modules that have no proofs.

## Findings

* `session_recover`: the recover in `SendJsonToClient` asserts that the panic is
  a string; the ones `SendMessage` raises are runtime errors, so it panics again.

Noted without a run: the error handler pushes the slice the worker goes on to
fill (`nodes/aggregator.go:169,196`), so a batch that failed once can be retried
with later signals in the place of its own, which are then lost, and the later
ones arrive twice (`LossHasCause` is what holds); DEL and EXPIRE of a peer's key
do not look at the address in it, so a session at one node can remove the key of
another's for good, or keep a wrong one alive (`PingedIsKnown`, `StaleIsBounded`);
a CPU reading above 1005 thousandths can make a node refuse joins before its
health check has failed (`HealthFailsFirst`); the comment on `SafeStop` (`nodes/aggregator.go:112`) says
that no item is missed during stop, but one accepted after its last look at the
channel stays there (what holds is `SafeStopFlushes`); when the file switches the
rate limit on in a node started without it, every request that passes the other
checks panics on the nil limiter until the node is restarted, and a changed
`max_rate` has no effect (`NilNeedsReload` shows that nothing else leads there);
two `DoUnregister` of one id that overlap both return true and put the same
`Client` into the pool twice, after which two peers can share it, and `Close`
reads the object after it has put it back (`PoolApart`); a node whose load drops
to a reading of 0 keeps its last reading; if a websocket request drains and
closes the queue between a poll's length check and its first receive, `Truncate` cuts off the bracket
instead of the comma its comment names, and the poll answers `]`
(`ResponseIsArray` shows that this is the only way); a websocket turned away by
`commonCheck` after its registration blocks its peer until the sweep, up to 17
minutes; a second caller of `SafeStop` on a Node whose worker has left waits for
ever if a signal was accepted in between; the filter never expires, so a peer that
returns stays filtered for those who missed it until 300 newer pairs push it out
of its bucket; around a tick the limiter admits twice `max_rate` within a
second (`RateBound` is the exact bound); in LRU-2 mode, which the program does
not use, `ecache` serves expired entries.

## Not modelled

* The content and order of the Redis lists. A batch that was popped is delivered
  by a goroutine of its own, so no order survives and nothing is promised of what
  a trim drops; `NodeLink` has the lengths and `SignalRouting` delivers in any
  order.
* That `Close` of a client reads `IsPolling` and `Conn` after the `Put`: the
  connections are not in `PeerDirectory`.
* That two filter keys can be the same concatenation of ids of different lengths:
  `SignalRouting` has ids of one length.
* `NewBucketWithRate`'s search for a quantum in floating point, `util/gopool`, and
  `util/fastmap/smap`: the program uses none of them.
* The Go runtime's detection of concurrent map access in `NodeHub`.
* Statistics endpoints (read-only reports), the parsing of the operating system's
  files and the gopsutil fallback in `util/cpu`, logging, start-up, listeners and
  TLS (input and output), `checkToken` (an HMAC), and generated protobuf code.

Proofs that remain to be done: the safety part of the refinement of `SignalPipe`
by `Aggregator`; `DirectoryAgrees`, `NoOrphan`
and `PoolApart` of `PeerDirectory`; `LiveNodeInHub` and `KeyOutlivesMiss` of
`NodeLink`; the step part of `ImplementsClientMap`.
