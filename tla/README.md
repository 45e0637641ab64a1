# A verification project for the IoT monitoring system

The repository is a pipeline written in Go: a producer program simulates devices and sends their
samples to Kafka; a consumer program reads them in a consumer group, validates and transforms them,
and pushes them to browsers over WebSocket. Most of what can go wrong in it is concurrency:
goroutines joined by bounded channels, contexts that are cancelled once and never renewed, mutexes
held across waits, and Stop methods that must take all of that down in the right order.

This directory holds TLA+ models of that code, the TLC configurations that check them on small instances, and
theorems about seventeen of them that the TLAPS proof system checks for every value of their constants: every
invariant of the passing runs is one. `PROJECT.json` maps every definition to the lines it stands for.

## 1. Inventory

Paths are relative to `src/internal` unless they begin with `cmd` or `web`.

| Component | State it keeps | Operations | What must hold |
|---|---|---|---|
| `producer/worker_pool.go` BatchWorkerPool | task channel, worker list, gauges and counters, context | Submit, worker loop, sampler, scaler, Start, Stop | a task is run once; gauges agree with the channel; workers stay within their limits; Stop leaves nothing running |
| `producer/batch_processor.go` BatchProcessor | message channel, batch buffer, retry table, gauges | SendMessage, collector, flush timer, execution per partition, Start, Stop | a message is in one place; nothing is lost silently before Stop |
| `producer/connection_pool.go` ConnectionPool | idle channel, currentSize, isRunning | Get, Return, create, Start, Stop | one owner per client; exact size; overshoot bounded |
| `producer/producer_service.go`, `kafka_producer.go`, `device_simulator.go`, health checker (`cmd/producer`) | three mutexes, five contexts, batchBuffer, the batch, task queue, sarama's producer | Start, Stop, Restart, SendMessage, six loops | each message once and in order; Stop returns; order of shutdown |
| `services/consumer/consumer_group_handler.go`, `kafka_consumer.go`, `message_processor.go`, `error_handler.go` | session, claims, positions, marks, commits | Setup, ConsumeClaim, retries, HandleError, Start, Stop | a commit passes handled messages only; commits advance; Stop returns |
| `services/consumer/consumer_service.go`, the loops of `prometheus_metrics.go` | isRunning, health status, wait group, the mutexes of service, monitor and collector | Start, Stop, UpdateConfig, GetHealth, health monitor, metrics loops | Stop returns; a restart consumes; health tells the truth |
| `services/consumer/websocket_processor.go`, `services/websocket/data_pusher.go`, `server.go` | two queues, client map, each client's Send channel and connection | push with retry, workers, ping, cleanup, reader, writer, Stop | a client is closed once and never forgotten; Stop returns |
| `services/websocket/hub.go` Hub | client map, register, unregister and broadcast channels | Register, Unregister, Broadcast, heartbeats, reader, writer, Stop | connection limit; nobody sends to a closed client; dead clients leave |
| `services/websocket/client.go` Client | connected flag, Send, message queue | pumps, SendMessage, Close | closed once |
| `producer/flow_control.go`, `error_handling.go`, `partitioner.go`, the breaker of `services/consumer/error_handler.go` | tokens, load history and thresholds, breaker state, counters | Allow, Update, Retry, HandleError, Partition | rate honoured; counts kept; delay within limits; partition in range |
| `producer/enhanced_producer_service.go`, `health_monitor.go`, `config_watcher.go` | running flags, health of the components, loaded configuration | Start, Stop, rounds of checks, file events, debounce | health answers are whole rounds; a saved file is loaded |
| `services/consumer/config_manager.go`, `config/watcher.go` | current configuration, watchers | EnableHotReload, UpdateConfig, notify | service and manager agree |
| `models/alert_manager.go`, `models/routing.go`, `models/validation_system_new.go` | active alerts, aggregations, dead letters, sessions, rooms, validation cache, pool | add, aggregate, route, validate, Close | no alert lost or hidden; bounded queues; no task lost |
| `cmd/websocket` | a second hub with its pumps, a consumer group's claims | register, unregister, broadcast, filter | a channel is closed once, when its client leaves |
| `cmd/web`, `web/static/js/websocket-client.js` | demonstration clients; reconnecting client | broadcast, reconnect | subscriptions survive a reconnect |
| sample generator, device manager, performance and Prometheus metrics, data types, configuration loading | maps and counters under one mutex, floats, strings | | nothing that interleaves |

How they interact. `cmd/producer` builds a ProducerService, which owns the connection pool, the
KafkaProducer, the simulator and the health checker; the simulator's workers call
`KafkaProducer.SendMessage`, which fills `batchBuffer`; `batchProcessor` hands batches to sarama.
EnhancedProducerService (used by tests) puts BatchProcessor in its place, and BatchProcessor runs
its batches in a BatchWorkerPool. `cmd/consumer` builds a ConsumerService: KafkaConsumer runs sarama
sessions whose claims call the message processor; WebSocketIntegratedProcessor starts a push
goroutine per message; the data pusher's workers copy the payload to every matching client's Send
channel, and WebSocketServer's writer takes it from there. Hub is an alternative to the data pusher
that no program uses.

The behaviours that are hard to test: a check and what it decides are separated (`currentSize`, the
connection limit, `isRunning` read without its mutex); several goroutines may remove the same client;
a context is only looked at between two blocking calls; a `select` with a done context and another
ready case takes either; Stop waits for goroutines while it holds a mutex they need; a crash falls
between handling, marking and commit. The list with its lines is under `hazards` in `PROJECT.json`.

## 2. Plan

Order of work, the most important behaviour first. Done: 1-12.

1. `BatchWorkerPool` against the abstract `TaskExecutor`; its proofs.
2. `BatchProcessor`, which uses TaskExecutor for its pool, against the abstract `MessageDelivery`;
   proofs of both.
3. `ConnectionPool`; its proofs.
4. `Hub`; its proofs.
5. `ConsumerGroup`, with crashes and rebalances; its proofs.
6. `DataPusher` (the WebSocket side with ConsumerService.Stop) and `ProducerService` (all of
   `cmd/producer`); proofs of both.
7. `ConsumerService`: its mutexes, health monitor, metrics loops and the configuration manager whose
   hot reload stops and starts it; its proofs.
8. `FlowControl` and `ErrorPolicy`: limiter, back-pressure, partitioners, retries, breaker.
9. `Alerts`, `Routing`, `Validation`.
10. `ConfigWatcher`, `EnhancedProducer`.
11. `DemoHub` (`cmd/websocket`) and `WSClient`.
12. The proofs about the parts of 8 to 11.
13. Left: Hub with several clients of one ID; the device manager, once something concurrent calls it.

There are twelve runs. The checks of one module that share a behaviour share a run; the parts of 3 and 8 to
11 are small and share the run `parts`.

## 3. Modules

| Module | Models | Proofs | TLC instance |
|---|---|---|---|
| `TaskExecutor` | what a worker pool promises: a task is offered while the pool runs, then refused, or queued, run and done; a task queued when or after the pool stops may be stranded | | |
| `AtLeastOnce` | what a consumer group member promises for each partition: handled in turn from the committed offset on, committed only when handled | | |
| `MessageDelivery` | what SendMessage promises for what it accepts: sent once, or given up and only with an excuse | | |
| `BatchWorkerPool` | `producer/worker_pool.go` | `BatchWorkerPool_proofs` | `MCBatchWorkerPool` |
| `BatchProcessor` | `producer/batch_processor.go`, HandleError | `BatchProcessor_proofs` | `MCBatchProcessor` |
| `ConnectionPool` | `producer/connection_pool.go` | `Parts_proofs` | `MCParts` |
| `ProducerService` | `producer_service.go`, `kafka_producer.go`, `device_simulator.go`, the health checker | `ProducerService_proofs` | `MCProducerService` |
| `ConsumerGroup` | the consumer pipeline of `services/consumer` | `ConsumerGroup_proofs` | `MCConsumerGroup` |
| `ConsumerService` | `consumer_service.go`, `config_manager.go`, the loop of `prometheus_metrics.go` | `ConsumerService_proofs` | `MCConsumerService` |
| `Hub` | `services/websocket/hub.go` | `Hub_proofs` | `MCHub` |
| `DataPusher` | `data_pusher.go`, `server.go`, `websocket_processor.go`, what ConsumerService.Stop waits for in them | `DataPusher_proofs` | `MCDataPusher` |
| `Alerts` | `models/alert_manager.go` | `Parts_proofs` | `MCParts` |
| `ConfigWatcher` | `producer/config_watcher.go` | `Parts_proofs` | `MCParts` |
| `DemoHub` | `cmd/websocket/main.go` | `Parts_proofs` | `MCParts` |
| `EnhancedProducer` | `producer/enhanced_producer_service.go`, `health_monitor.go` | `Parts_proofs` | `MCParts` |
| `Routing` | `models/routing.go` | `Parts_proofs` | `MCParts` |
| `Validation` | `models/validation_system_new.go` | `Parts_proofs` | `MCParts` |
| `WSClient` | `services/websocket/client.go`, the router of `message.go` | `Parts_proofs` | `MCParts` |
| `FlowControl` | `producer/flow_control.go`, `partitioner.go` | `Parts_proofs` | `MCParts` |
| `ErrorPolicy` | the retry manager of `producer/error_handling.go`, the breaker of `services/consumer/error_handler.go` | `Parts_proofs` | `MCParts` |

`ProducerService` (KafkaProducer) and `BatchProcessor` are two producers with the one promise `MessageDelivery`:
for KafkaProducer every message can be encoded and the only excuse is kp.cancel.

`BatchProcessor` composes with the pool by assume-guarantee: it contains TaskExecutor's actions, and
`BatchWorkerPool` is shown to implement TaskExecutor, by TLC and by proof. `ConsumerService` takes what
`KafkaConsumer.Stop` and `WebSocketServer.Stop` wait for as returning, which is `StopReturns` of
ConsumerGroup and `StopCompletes` of DataPusher. `MCParts` puts the small parts side by side; they share no
state, and a behaviour runs the one its variable `focus` names.

### How state and actions correspond to the code

A goroutine is a process and a step is what it does between two points where another goroutine can
see or be seen: a channel operation, an atomic add, taking a mutex. A critical section that does not
wait is one step. A mutex is a variable only where it is held across a wait: in Stop. A context is a
flag that is set once; no Stop/Start pair in this code makes a new one, so the models keep it set.
A bounded channel is a sequence or a number and its capacity; where order cannot matter a number is
enough. A panic ends the process: `panic` is set and no action is enabled after it.

*BatchWorkerPool.* `taskQueue` is the channel, `workers` the list `pool.workers`, `phase[g]` where each
goroutine is, `held[g]` the task it took. `Submit` is three steps: the look at `isRunning`, which takes no
mutex, the `select`'s send, and the counters. Stop may complete after the look, and the buffered send may
still win over the done context. A worker's loop is receive, gauge, execute, counters. `ScaleUp`/`ScaleDown`
want the mutex that `StopBegin` holds until `StopEnd`.

*BatchProcessor.* `messageBuffer`, `batchBuffer` and `remaining[b]` are the places a message goes through;
`remaining[b]` is the batch as a function from positions, of which those that are done are removed, and
`Portion(b, p)` the positions left to partition p's goroutine. `Collector` receives, fills the batch, offers
it to the pool and runs it itself when the pool refuses (`inline`). `SendPartitionBatch` is one partition's
goroutine. SendMessage looks at `isRunning` in a step before its `select` (`LookAtRunning`, `SendMessage`,
`RefuseMessage`). `StopEnd` is what follows the Stop of the pool it calls; `ScalerDecides` and `ScalerActs`
are the part of the pool that may keep that Stop waiting. Rate limiter and back-pressure may refuse any
message. Time is abstracted to "a timer may fire".

*ConnectionPool.* `at[c]` is where a caller is inside GetConnection or ReturnConnection: the looks at
`isRunning` and `currentSize`, which take no mutex, are steps of their own. A client may die any
time.

*ProducerService.* `stage` is how far Start or Stop has come, and so which mutexes Stop holds:
`ServiceFree`, `SimulatorFree` and `KafkaFree` say that a reader of ps.mutex, ds.mutex and kp.mutex
may go on. A message is the number of its acceptance, so `batchBuffer` is a set whose least element
is the oldest. `GeneratorTick`, `Snapshot` and `QueueTask` are a round of the simulator,
`SendCheck` and `SendMessage` the two halves of KafkaProducer.SendMessage (the flags, then the
select); `TakeMessage`, `Flush`, `BatcherStops` are the cases of batchProcessor, `HandOver` and
`AbandonBatch` those of sendBatch. `CloseProducer` may fail and then leaves isRunning set, as the
code does. External: what sarama's channels do after Close.

*ConsumerGroup.* Offsets are counts of messages. `fate[p][o]` records every way the handling of a
message ended: processed, rejected, exhausted, cut short by the session's end, or left for a retry
that nobody performs. `AutoCommit` is sarama's timer; the commit at the end of a session may be
refused; a crash loses everything but the broker's offsets.

*Hub and DataPusher.* Per client: `conn`, `send`/`sendClosed`, `reader`, `writer`. In DataPusher a
broadcast works on a snapshot of the map (`todo`), RemoveClient may be called by a broadcast
(`removing`), the ping, the cleanup, the reader or Stop, and `ReaderLoops` looks at the context only
between two reads. The ways the process can panic are actions: a push to a closed queue, a send to a
closed client, a ping that meets the client's writer.

*ConsumerService.* `pc[t]` is where a caller is: the service's owner, a reload loop, or a caller of the
manager's UpdateConfig. `StopBegin`, `StopServers`, `CollectorWait` and `StopEnds` are Stop, which
holds cs.mutex (`ServiceFree` says that it does not) and in between the collector's. A thread that
notifies of a change goes through "stop", "update" and "start", or through "swap" alone when the change
needs no restart. A configuration is a version for each group of fields the code compares. `MonitorLocks`
and `MonitorWrites` are a health check, which takes hm.mutex and then wants cs.mutex.

*The small parts.* Where every method holds its mutex throughout (`Alerts`, `FlowControl`) a call is a step.
`Routing` has no mutex and one caller. `Validation`, `DemoHub` and `WSClient` split a call where the lock is
dropped or held for reading only: `Get`/`DeleteExpired`, `SendTo`/`DropClient`, `SendMessage`/`SendOrRefuse`,
`SetDisconnected`/`CloseSendChannel`; a map read while it is written may end the process or not, as in Go.
`ErrorPolicy` splits HandleError at each access to the breaker's unguarded fields, Retry at its two reads of
`maxDelay`, at its atomic counter and at the average, and Reset at each counter it clears. `ConfigWatcher` has
the truncation and the writing of a file as two events, and a change of its mode as one. `EnhancedProducer`
runs a round's checkers as concurrent goroutines whose results are collected with hm.mutex held;
`CancelMonitor` and `StopPart` are the two halves of HealthMonitor.Stop, and `KafkaTurns` is the producer that
a monitor used alone looks at. Widths are kept where the code overflows: the routing hash (`HashBits`), the
limiter's product and the round-robin counter (`IntBits`), the retry delay and the sum behind its average
(`DurationBits`).

## 4. Runs

Every passing run explores its whole state space. `-workers 2` suffices; each takes at most about two
minutes.

| Run | Checks | Shows |
|---|---|---|
| `pool` | `OnePlacePerTask`, `CountsAreExact`, `StopQuiesces`, `ImplementsExecutor`, `AcceptedTasksRun`, `StopReturns` | with scaling and restarts a task is in one place, the counters agree with the places, the pool implements TaskExecutor, and accepted tasks run until Stop. Stop returns except when the scaler is between its look at the gauges and the mutex |
| `processor` | `NothingVanishes`, `ImplementsDelivery`, `AcceptedMessagesLeave`, `StopReturns` | accepted messages reach Kafka once; before Stop only an unencodable message and those behind it in its partition are lost. Stop returns except when the pool's Stop, which it calls, holds the mutex that the pool's scaler wants |
| `hub_safety` | `HeldOpenOrClosed`, `ConnectionsBounded` | the limit is passed by at most the register channel's capacity; a registered client can be sent to until Stop, none is lost open, and only a late pong panics before Stop |
| `hub_liveness` | `DeadClientsRemoved`, `ClosedClientsDrain` | a dead client leaves although unregistrations may be dropped; both goroutines of a closed client end |
| `consumer_safety` | `NoneSkipped`, `ImplementsAtLeastOnce`, `StopReturns`, `PartitionDrains` | crashes, rebalances and refused commits repeat messages but skip none (the member implements AtLeastOnce); Stop returns |
| `consumer_lost` | `CommittedWasProcessed` (violated) | handled is not processed: a retry cut short is marked, and so is one nobody performs |
| `consumer_service` | `NoSecondLife`, `ReloadApplied`, `StopReturns` | a stopped service started again consumes nothing, panics at its next Stop, and its health never says "stopped"; a changed group or topic list reaches the service unless two threads were at work together; Stop returns except in the two hangs it names |
| `pusher` | `HeldOpenOrClosed`, `DeadClientsRemoved`, `StopCompletes` | whoever removes a client closes it once; Stop gets past both wait groups and leaves no client open, up to a panic, which only a late send causes |
| `producer_safety` | `OnceAndInOrder`, `ImplementsDelivery`, `FirstRunIsOrderly` | each message once and in order, given up only after the cancel (the producer implements MessageDelivery); before a restart the simulator stops first and only a health check on the closed pool panics |
| `producer_liveness` | `StopReturns`, `MessagesLeave` | Stop returns except in the two deadlocks it names; a partial batch leaves by the ticker |
| `producer_lost` | `AllSent` (violated) | Stop does not send what was accepted |
| `parts` | one property for each of its parts, two for the pool, below | the small parts under every interleaving of their callers and every sequence of calls within the bounds |

| Property of `parts` | Part | Says |
|---|---|---|
| `ClientsAccounted`, `OvershootBounded` | ConnectionPool | no client is shared, leaked or used after close, and `currentSize` is exact; the limit is passed by fewer callers than were ever creating at the same time |
| `AlertsAreAccounted` | Alerts | an alert is stored, closed or counted; no aggregation hides a severer one; the history has no gaps |
| `LoneSaveIsLoaded` | ConfigWatcher | a save with no other event recent, a change of mode included, is loaded, unless its first event finds half a file |
| `OnlyRacesPanic` | DemoHub | one claim alone, with Run beside it, closes each channel once and sends to open ones; the process ends by two named races only |
| `RoundsAreWhole` | EnhancedProducer | the overall status GetHealth returns is that of the components it returns, while a round's results come in and the producer starts and stops |
| `RoutingKeepsTrack` | Routing | partitions exist but for the least hash; the dead-letter queue keeps the newest; sessions and rooms keep their names but for two made in one second |
| `ValidationHolds` | Validation | until Close every task is in one place and no worker is lost; panics come from the three known races |
| `ClientHolds` | WSClient | sends meet a closed channel only by the check before the lock; the statistics lose nothing |
| `ThrottlingHolds` | FlowControl | the limiter never lets more through than rate and capacity allow; thresholds never rise; partitions exist until the counter wraps |
| `ErrorsAreCounted` | ErrorPolicy | whoever counts, resets or lowers the limit in between: the average is at most the largest delay while its sum fits its width, no delay exceeds every limit there was, and only a Reset between a caller's count and its division ends the process; a breaker at rest and closed is below its threshold |

The type invariants, which include the channels' capacities, are conjuncts of `NothingVanishes` and of both
`HeldOpenOrClosed`; for the eight modules with proofs they are proved.

`CHECK_DEADLOCK FALSE` is set where the program may really stop for good: after a panic, after the
last Stop with all callers done, or in the deadlocks named above; the parts also end at their bounds.
`consumer_safety` keeps the check on.

### Bounds, and why they are enough

* `pool`: two callers and three tasks, so that Stop and another Submit meet one that has looked; a queue of two
  that becomes full, leaves a task waiting behind one in hand, and lets a submission fail; one worker that may become two and back (`MaxGoroutines` 3)
  exercises both directions of scaling and a retired worker; restarts are free.
* `processor`: two unencodable messages share a key and a partition (the first is retried and takes what is
  behind it along, the second is skipped), `m1` has another partition; batches of two, so that there are
  full, partial and flushed ones; three batches cover one queued, one running, one run inline.
* `hub_safety`: three clients, limit one, channels of one: a client in the map, one in the channel, one
  refused. `hub_liveness`: two clients, as one of them must find the channel full.
* `consumer_safety`: one partition of one or two messages of either kind, one retry, two
  disruptions: a crash or rebalance before and after the commit. Partitions do not share state but
  for the session, which ends for all.
* `pusher`: one client, one queue, one worker, one pusher with one retry and buffers of one: the
  properties are about one client and everybody who may remove it, who are all present; clients
  only share the queue.
* `producer_safety`: one worker with two samples per task and one outside caller race for a buffer
  of two; two Starts, so that every state a Stop leaves behind meets a Start.
  `producer_liveness`: one Start and no outside caller, since the loops and Stop are what it is about.

* `consumer_service`: the owner, one reload loop and the caller of UpdateConfig are three threads that may
  overlap in pairs or all together; two Starts, for the second life; two changes, so that one may
  come while the other is applied; configurations that differ in group, in time-outs or in topics,
  one for each outcome of the two comparisons.
* `parts`, of which every part has at least two of whatever may meet itself. Connections: three callers, size
  two (two see room together, a third waits), four clients; callers are symmetric, which is sound as the run
  has invariants only. Alerts: a mild and a severe one of one device, a window of one in four ticks, a history
  of three (so that it is cut). Watcher: three saves, of which two fall in one burst, and a change of mode
  that finds at most one event pending (`MaxPending` 2). Demo hub: two sockets and two claims, buffers of one.
  Routing: 5-bit hashes, all 32; a queue of two that five failures overflow, a lifetime of two in three
  seconds. Validation: two workers and two requesters, a queue of one, a cache of two for three keys. Client:
  two senders and two closers, a buffer of one, three messages. Flow: two ticks a second, rates one and three,
  4-bit integers (the product and the round-robin counter wrap), the history filled. Errors: two callers each,
  four retries, limits of five and three, durations of 5 bits (the delay's product and the average's sum
  overflow), a threshold of two, eight errors (it opens, is tried half-open and closes again).

### Fairness, and why the code justifies it

Weak fairness for every step a runnable goroutine can take: Go's scheduler is preemptive. Strong
fairness where a goroutine waits in a `select` with several ready cases: Go chooses among them at
random, so a done context is taken with probability one although the other cases keep being ready
(`ScalerExit`, `CollectorExit`, `WorkerEnds`, `ManagerEnds`, `WriterEnds`, `MonitorEnds`, `SystemEnds`,
`GeneratorEnds`, `BatcherStops`, `ReceiveUnregister`). Strong fairness for taking hc.mutex
(`StopHealth`, `GetStatus`): Go's mutexes hand over to a waiter that starved for a millisecond. No
fairness for what the environment does: callers, ticks (unless a property says what a tick leads to),
connections, peers, crashes, the caller of Stop. Hub's heartbeat is strongly fair for a client whose
reader is gone, because the ticker keeps ticking until the context is done and such a client's
last-seen time does not change any more. Sarama's Input is taken to accept messages while the producer
is open, and a task, a handler or a broker call to return.

### What TLC found

Kept as runs, under `findings`:

* `consumer_lost`: `docs/step-by-step/2.2.md:374` promises "消息丢失率: 0% (精确一次语义)". A message
  waiting for its retry when the session ends is marked and may be committed; one whose retry
  HandleError asks for is never retried and the next mark passes it.
* `producer_lost`: `cmd/producer/main.go:67` says stopping makes sure all messages were sent.
  batchProcessor leaves what is in `batchBuffer`, and sendBatch may give up its batch.

Met on the way, stated as the exceptions of a property or as panics of a model:

* `producer_service.go:185`: ProducerService.Stop waits for the monitoring loop with ps.mutex held, and a tick
  just before makes that loop want it; DeviceSimulator.Stop does the same to its generation loop (the
  exceptions in ProducerService's `StopReturns`; `tests/producer/producer_test.go:391` expects Stop to return).
* `consumer_service.go:318`: ConsumerService.Stop does the same to the health monitor, and the Prometheus
  collector's Stop to its loop (`Hangs`). No Start renews what Stop cancelled and closed
  (`SecondLifeIsDeaf`), so a hot reload that changes group or topics leaves a service that consumes
  nothing, and the status GetHealth returns stays "running" (`HealthNeverSaysStopped`).
* `config_manager.go:447`: two loops, or a loop and UpdateConfig, overlap, and the service may keep the older
  configuration (the premise of `ReloadApplied`).
* `health_monitor.go:459` asserts the type of a key GetStats does not have, so the first round of checks ends the
  process of a started EnhancedProducerService (`CheckPool`). Its tests expect the opposite:
  `tests/producer/enhanced_producer_service_test.go:166-171` ("Failed to stop service") and `553-560` ("Service took too
  long to stop") that Stop returns, `213-214` ("Expected status 200 for %s, got %d") that `/health` answers.
* `config_watcher.go:170`: of a burst of changes the first is loaded and the last dropped; a change of mode,
  which loads nothing, also makes the save after it one of a burst.
* `flow_control.go`: frequent callers of Allow earn no tokens, as fractions are dropped while the time is set
  forward; from the defaults the branch that raises the thresholds is not reached, and after they were
  lowered it never takes them above their start (`ThresholdsNeverRise`); ShouldDrop counts
  drops that are not made. `partitioner.go`: a wrapped round-robin counter gives a negative partition.
* `error_handling.go`: a delay that overflows passes under the cap, and enough of these make the
  average's sum wrap and the average exceed the largest delay; a Reset between a caller's count and its average
  makes it divide by zero (the exceptions in `MetricsBounded`). `error_handler.go:430`: the breaker counts an
  error that is not to be retried as a success. No program calls either of the two.
* `models/routing.go:217`: the least hash has a negative partition; a dead-letter queue of size 0 panics
  at its first message.
* `models/validation_system_new.go`: Close races with Submit, the cache deletes under a read lock.
* `client.go:300`, `cmd/websocket/main.go:125`: closing races with sending, and clients are deleted under a read
  lock. `cmd/websocket/main.go:357`: main waits for ever when its consumer replaces the ready channel first.
* `worker_pool.go:380`: Stop waits with pool.mutex for a scaler that may be waiting for it (the exception in
  BatchWorkerPool's `StopReturns`); `batch_processor.go:496` calls it, and so does not return either (the
  exception in BatchProcessor's).
* `worker_pool.go:140`: a task may be accepted after Stop has returned; it is stranded in the channel.
  `maxWorkers` bounds the list of workers (`363`): a retired worker is out of the list but never looks at
  `isActive`, and goes on taking tasks until the pool stops.
* `worker_pool_test.go:296` expects that queued tasks are never negative; the gauge is decremented
  before Submit's increment when the worker is faster (`CountsAreExact` says by how much).
* `batch_processor.go:229` announces that remaining messages are processed at exit; those in
  `messageBuffer` are not.
* `connection_pool.go:114`: size is compared before the connection is made (`OvershootBounded`).
* `hub.go:118`, `135`, `140`: a second Stop closes closed channels, and limit and ID are compared with a map
  that accepted clients have not reached.
* DataPusher's panics: a push goroutine still retrying when Stop closes the queues
  (`data_pusher.go:135`), a broadcast or a pong to a client removed meanwhile (`data_pusher.go:352`,
  `server.go:376`), a ping concurrent with the client's writer (`data_pusher.go:424`). Its liveness
  properties hold up to such a panic.
* ProducerService's panics: a health check on the closed connection pool, and after Restart, which
  reuses cancelled contexts and closed channels, a send to or a nil read from sarama's closed producer.

## 5. Proofs

| Theorem | States |
|---|---|
| `BatchWorkerPool_proofs`: `TypeCorrect`, `TasksInOnePlace`, `GaugeIsExact`, `TasksAreConserved`, `ScalingWithinLimits`, `CountsExact`, `StopLeavesNothingRunning`, `PoolImplementsExecutor` | the safety properties of `pool`, and the refinement, for every set of tasks and finite set of callers, every queue size and worker limit |
| `BatchProcessor_proofs`: `MessagesNeverVanish`, `ProcessorImplementsDelivery` | the safety property of `processor`, and the refinement, for every set of messages, keys and partitions and all sizes |
| `Parts_proofs`, ConnectionPool: `TypeCorrect`, `ClientsHaveOneOwner`, `SizeIsExact`, `ClientsAreAccounted`, `BoundedOvershoot` | the two properties of `parts` about it, for every finite set of callers and every size |
| `Parts_proofs`, the others: `AlertsAccounted`, `LoneSavesAreLoaded`, `OnlyRacesEndTheHub`, `HealthIsTold`, `RoutingTracks`, `TasksAreAccounted`, `ClientsHold`, `ThrottlingIsBounded`, `ErrorsCounted` | the nine other properties of `parts`, each for the part's own specification (`AMSpec`, `CWSpec`, ...) |
| `Parts_proofs`, together: `PartsKeepToThemselves`, `PartsKeepTheirPromises` | `PartsSpec` implies the specification of each part, hence all eleven properties of `parts` for every value of the constants |
| `ConsumerGroup_proofs`: `TypeCorrect`, `NothingSkipped`, `ConsumerIsAtLeastOnce`, `NeverRehandled`, `CommitsNeverRewind` | the safety properties of `consumer_safety`, the refinement among them, that only what is above the committed offset is handled (`CommittedNotRehandled`) and that commits never decrease (`CommitsAdvance`), for every set of partitions, every logs, any number of retries and disruptions |
| `ConsumerService_proofs`: `StoppedForGood`, `ReloadsArrive` | the invariants of `consumer_service`, for every set of configurations, any number of reload loops, starts and changes |
| `ProducerService_proofs`: `TypesCorrect`, `OnePlace`, `LossNeedsStop`, `InOrder`, `DeliveredOnceInOrder`, `ProducerImplementsDelivery`, `SimulatorFirst`, `PanicsOfFirstRun`, `OrderlyFirstRun` | those of `producer_safety`, the refinement among them, and that sendBatch gives messages up only after the cancel, for any number of workers, callers, devices, messages and restarts |
| `Hub_proofs`: `TypeCorrect`, `LimitHolds`, `ClientsHeldOrClosed`, `NoPanicBeforeStop` | those of `hub_safety`, for every finite set of clients, every limit and capacity |
| `DataPusher_proofs`: `TypeCorrect`, `ClientsHeldOrClosed` | the invariant of `pusher`, for any number of clients, workers, pushers and retries |

Assumptions: only the named `ASSUME` of each module (capacities are natural numbers, callers are finite or
disjoint from workers, alerts have ids of their own), which TLC evaluates on each run. Where a width in bits
is a parameter (`ErrorPolicy`, `FlowControl`, `Routing`) the assumption also says of its powers of two what
the provers cannot calculate: that they are natural numbers, that one is twice the other or not a multiple of
three.

*BatchWorkerPool.* One place per task is not inductive alone: one needs that a task in hand is held by a
goroutine in a holding phase, that goroutines beyond `spawned` are unborn, and that a worker retired by
the scaler still counts for the wait group. The gauges follow from cardinality lemmas: each step moves
one element between two finite sets. The refinement takes the invariant to rule out that a task
already refused or finished comes back.

*BatchProcessor.* The invariant says of each pair of places that they share no message (`Places`) and that a
batch not made yet is empty (`Fresh`), without which making it would drop what it held. What a step does is
then said once for all steps, as a `Change` of the three sets of messages waiting, sent and lost: it stays,
accepts one, delivers one, or loses some of one partition with an excuse. Places stay apart under each
kind of change, and each kind is a step of MessageDelivery or a stutter.

*ConnectionPool.* `SizeExact` says `currentSize` is the number of clients born and not closed, less
those under creation; its invariant counts callers by where they are. The overshoot bound is a
counting argument over the history variable `overlap`, the most callers that ever were between the look
at `currentSize` and its increment: whoever makes the size exceed the limit had seen room, and the others
that had seen it too are fewer than `overlap`.

*Alerts.* The history has no gap because the latest entry of each alert tells the status it has
now (`LatestTells`), or "closed" when it is not active any more: the next entry copies that status. Cutting
the history at its front keeps both. What an aggregation counts is only ever added to, and folding an
alert in keeps the highest severity (`FoldHolds`).

*ConfigWatcher.* A lone save is loaded, or was found half written, or its first event is still to come and
will be let through (`LoneSave`): the debounce only swallows what comes after.

*DemoHub.* A claim that is at work on a client took it from the map under a lock for reading; the client is
in the map still unless another claim was there at the same time (`ServesClients`). A channel is closed
only when its client is gone.

*EnhancedProducer.* The owner's list names each part once (`OwnerInOrder`), so the monitor runs only between its
start and its stop and no second loop writes what the first collects. Between two rounds the overall status is
that of the components (`WholeBetweenRounds`), and GetHealth waits while a round is collected.

*Routing.* The dead letters are in the order they failed in, by number and by time (`QueueInOrder`), so those
that have expired are a prefix and what is left is the newest. A session that is held is found, has ended, or
another of the same name was made after it in the same second.

*Validation.* The queue holds no task twice, the four places of a task are apart, and only Close closes the
queue, after it has cancelled the context (`ClosedWhenDone`).

*WSClient.* Whoever closes the channel has disconnected the client before (`CloseComesAfter`), so a sender
that saw it connected and meets it closed is in the race. The statistics are cardinalities of the
senders by where they are.

*FlowControl.* What has been spent and what is left in the bucket are within a full bucket and the time
counted so far (`LimiterHolds`); a product that wraps only loses tokens (`WrappedKeeps`). The thresholds do
not rise because while the status is not normal either the newest sample is not below the warning threshold or
the threshold has room (`PressureHolds`), and they are adapted only when the status changes: one of the two
newest samples is then too high for the branch that raises them, or there is room.

*ErrorPolicy.* The operation has run once for each attempt (`RunsFollowAttempts`). A closed breaker with too
many failures has somebody on the way to open it, or to forget those that had (`FailuresAreJudged`), so with
nobody at work it is below its threshold. No delay exceeds the greatest limit there has been, since the second
read of `maxDelay` may only see another of them (`DelaysLimited`). The average stays below the largest because
a mean of bounded values is bounded, rounding included (`QuotientBounded`, `MeanBounded`), as long as the sum
has fitted its width; and the total of one who has counted is positive unless a Reset came between
(`CountedInTotal`).

*ConsumerGroup.* The invariant orders `committed <= marked <= pos` for each partition within a session and
says that everything before `pos` has been handled. So a commit, which takes `marked`, never passes an
unhandled message, and the next session starts at `committed`, below which nothing is handled again. For
AtLeastOnce the position is `pos` within a session and `committed` between two: a crash or an end of a session
goes back, and Join, which finds no session open (`SessionInLoop`), is a stutter.

*ProducerService.* `SentInOrder` is about history; the invariant replaces it by the shape of the queue:
whatever is newer than a message of `batchBuffer` is in `batchBuffer` (`BufferIsNewest`), whatever is newer
than one of the batch is in one of the two (`BatchBeforeBuffer`). With each message in one place, what sarama
has is older than both, and nothing older is missing but what was abandoned. `BatchHasRoom` gives the batch's
capacity. MessageDelivery is implemented by the place a message is in (`StatusByPlace`): a step that moves a
message between channel and batch is a stutter, and an abandoned batch is lost at once. The order of Stop
needs what each stage has waited for (`Cancelled`, `FirstRun`): "kafka" is cancelled only after the workers'
wait, and a goroutine that is gone comes back only with the next Start. Frame lemmas (`StoppingFrame`, ...)
say what each process leaves alone, so that each part of the invariant is proved from the few steps that touch
it.

*ConsumerService.* `NoSecondLife` needs what a life leaves behind (`Remains`): a service that has run and does
not run has done contexts, one with a monitor runs, and queues closed before this life began mean a
second one; and that one thread at a time is in Stop, with cs.mutex (`StopsAlone`). For `ReloadApplied` the
invariant is a debt (`Owed`): as long as nobody overlapped, the one thread at work carries the manager's
configuration until it has been handed over, and service and manager agree when nobody is at work.

*Hub.* A client on its way to the event loop has no goroutine yet and is on its way once (`ArrivingAreNew`);
whoever is in the map, closed or about to be unregistered was taken in before (`KnownWereTaken`). So the loop
starts a client's goroutines once, and with unique IDs whoever it unregisters is the client whose entry it
deletes and whose channel it closes. The limit is a bound on a cardinality that each step changes by one.

*DataPusher.* The invariant follows a client's life (`Lives`): not upgraded, upgraded and open, in the map
and open, or out of it and closed; each of those who may remove it acts under clientsMux and finds it in the
map once. Queues are closed by Stop only (`QueuesClosedByStop`), so a push that panics comes after the
session ended.

Only model-checked: the liveness properties (`AcceptedTasksRun`, `StopReturns`, `AcceptedMessagesLeave`,
`DeadClientsRemoved`, `ClosedClientsDrain`, `PartitionDrains`, `MessagesLeave`, `StopCompletes`), as `ENABLED`
and fairness are beyond the prover. Every invariant, safety action property and refinement of a passing run is
proved. That the sum over a set of samples is what the code's loop adds up is not
needed by a proof: only that some sample is high or all are low.

## 6. Not modelled

In the modelled components: statistics, logging, latency measurement, formats, the contents of client filters,
authentication, HTTP handlers for health and statistics, and the simulated values. In ProducerService, device
administration and the attempts of the connection with their time-outs (one step that succeeds or does not);
the simulator is taken as enabled. In BatchProcessor, the arithmetic of the rate limiter and of back-pressure,
and the gauges. In ConsumerGroup, what a valid message's handler does.

In ConsumerService, loading and validating a configuration yield any of a small set. In the small parts:
getters, severity counts, topic and filter tables, message constructors, alert callbacks, the handlers of
configuration changes (which print), and the checks a validation rule makes. RetryManager's
SetBackoffType and the fixed, linear and jittered delays it chooses are left out: the exponential one is the default. The
random partitioner returns what it draws.

Components not modelled, with the reason: the device manager, the sample generator and the performance and
Prometheus figures (maps and counters under one mutex, floating-point values: nothing interleaves); data types
and their field checks; configuration loading (strings and defaults), with viper's file watcher, which no
program uses; `cmd/web` (static files and demonstration data); the browser's client and pages, whose
reconnection the demonstration server cannot tell from a new client; deployment files.
