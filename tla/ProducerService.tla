--------------------------- MODULE ProducerService ---------------------------
(***************************************************************************)
(* The program cmd/producer runs: ProducerService with its device          *)
(* simulator, its KafkaProducer, its health checker and the monitoring     *)
(* loop, from Start to Stop and to another Start (Restart).                *)
(*                                                                         *)
(* A sample is a message numbered in the order batchBuffer took it, so the *)
(* channel is the set of the numbers in it.  Sarama's producer takes what  *)
(* it is given until it is closed.  A panic ends the process.              *)
(* The simulator is enabled, as it is in the development configuration.    *)
(***************************************************************************)
EXTENDS Integers, FiniteSets

CONSTANTS Worker,         \* workers of the simulator's pool
          Caller,         \* callers of ProducerService.SendMessage
          DeviceCount, SensorCount, TaskQueueSize,
          BufferSize, BatchSize,
          MaxMessages, MaxStarts   \* bounds: messages accepted, calls of Start

ASSUME ProducerAssumption ==
  /\ Worker \cap Caller = {}
  /\ DeviceCount \in Nat \ {0} /\ SensorCount \in Nat \ {0} /\ TaskQueueSize \in Nat
  /\ BufferSize \in Nat \ {0} /\ BatchSize \in Nat \ {0}
  /\ MaxMessages \in Nat /\ MaxStarts \in Nat

Message == 1 .. MaxMessages
Sender  == Worker \cup Caller
Loops   == {"successes", "errors"}

VARIABLES
  starts, stage,    \* calls of Start; how far Start or Stop has come
  cancelled,        \* components whose context is done, for good
  poolRunning,      \* connectionPool.isRunning
  kafkaRunning,     \* kp.isRunning
  connected, open,  \* kp.producer # nil; it is not closed
  monitor, health,  \* monitoringLoop, healthCheckLoop
  generator, todo,  \* dataGenerationLoop and the devices left of its round
  taskQueue,        \* tasks in the pool's queue
  sender, left,     \* workers and callers; the samples left of a worker's task
  accepted,         \* messages taken by batchBuffer so far
  batchBuffer, batch, batcher,
  handler,          \* handleSuccesses and handleErrors
  handed,           \* history: how often sarama was given each message
  abandoned,        \* history: messages sendBatch gave up
  panic

service   == <<starts, stage, cancelled, poolRunning>>
producer  == <<kafkaRunning, connected, open>>
house     == <<monitor, health>>
simulator == <<generator, todo, taskQueue>>
senders   == <<sender, left>>
batching  == <<batch, batcher, handler, handed, abandoned>>
queue     == <<accepted, batchBuffer>>
vars == <<service, producer, house, simulator, senders, queue, batching, panic>>

\* ps.mutex, ds.mutex and kp.mutex: Stop holds each while it waits.
ServiceFree   == stage \in {"stopped", "up"}
SimulatorFree == stage \notin {"generator", "workers"}
KafkaFree     == stage \notin {"kafka", "close"}
Checking      == health \in {"begin", "get", "hold", "return", "rest"}   \* under hc.mutex
-----------------------------------------------------------------------------
TypeOK ==
  /\ starts \in 0 .. MaxStarts
  /\ stage \in {"stopped", "up", "monitor", "health", "simulator", "generator",
                "workers", "kafka", "close", "pool"}
  /\ cancelled \subseteq {"service", "health", "simulator", "workers", "kafka", "pool"}
  /\ poolRunning \in BOOLEAN /\ kafkaRunning \in BOOLEAN
  /\ connected \in BOOLEAN /\ open \in BOOLEAN
  /\ monitor \in {"gone", "select", "metrics", "status"}
  /\ health \in {"gone", "select", "begin", "get", "hold", "return", "rest"}
  /\ generator \in {"gone", "select", "snapshot", "queueing"}
  /\ todo \in 0 .. DeviceCount /\ taskQueue \in 0 .. TaskQueueSize
  /\ sender \in [Sender -> {"gone", "idle", "check", "buffer"}]
  /\ left \in [Worker -> 0 .. SensorCount]
  /\ accepted \in 0 .. MaxMessages
  /\ batchBuffer \subseteq Message /\ Cardinality(batchBuffer) <= BufferSize
  /\ batch \subseteq Message /\ Cardinality(batch) <= BatchSize
  /\ batcher \in {"gone", "select", "sending", "draining"}
  /\ handler \in [Loops -> {"gone", "running"}]
  /\ handed \in [Message -> 0 .. 2] /\ abandoned \subseteq Message
  /\ panic \in {"none", "closed input", "nil success", "closed pool"}

Init ==
  /\ starts = 0 /\ stage = "stopped" /\ cancelled = {}
  /\ poolRunning = FALSE /\ kafkaRunning = FALSE /\ connected = FALSE /\ open = FALSE
  /\ monitor = "gone" /\ health = "gone" /\ generator = "gone" /\ batcher = "gone"
  /\ todo = 0 /\ taskQueue = 0
  /\ sender = [s \in Sender |-> IF s \in Caller THEN "idle" ELSE "gone"]
  /\ left = [w \in Worker |-> 0]
  /\ accepted = 0 /\ batchBuffer = {} /\ batch = {}
  /\ handler = [h \in Loops |-> "gone"]
  /\ handed = [m \in Message |-> 0] /\ abandoned = {}
  /\ panic = "none"

Panics(why) == /\ panic' = why
               /\ UNCHANGED <<service, producer, house, simulator, senders, queue, batching>>

-----------------------------------------------------------------------------
(* ProducerService.Start and Stop, under ps.mutex throughout.              *)

\* The pool or the producer may still count as running.
StartFails ==
  /\ stage = "stopped" /\ starts < MaxStarts /\ (poolRunning \/ kafkaRunning)
  /\ starts' = starts + 1 /\ poolRunning' = TRUE
  /\ UNCHANGED <<stage, cancelled, producer, house, simulator, senders, queue, batching, panic>>

\* A producer is made unless there is one, and without one no loop is started.
\* Restart sleeps before it, so the last health loop has ended.
Start ==
  /\ stage = "stopped" /\ starts < MaxStarts /\ ~poolRunning /\ ~kafkaRunning
  /\ health = "gone"
  /\ starts' = starts + 1 /\ stage' = "up"
  /\ poolRunning' = TRUE /\ kafkaRunning' = TRUE
  /\ \/ connected' = TRUE /\ open' = (IF connected THEN open ELSE TRUE)
     \/ ~connected /\ UNCHANGED <<connected, open>>
  /\ batcher' = IF connected' THEN "select" ELSE "gone"
  /\ handler' = [h \in Loops |-> IF connected' THEN "running" ELSE "gone"]
  /\ generator' = "select" /\ monitor' = "select" /\ health' = "begin"
  /\ sender' = [s \in Sender |-> IF s \in Worker THEN "idle" ELSE sender[s]]
  /\ UNCHANGED <<cancelled, todo, taskQueue, left, queue, batch, handed, abandoned, panic>>

\* One stage of Stop: what it waits for, and the context it then cancels.
StopAt(from, condition, to, contexts) ==
  /\ stage = from /\ condition
  /\ stage' = to
  /\ cancelled' = cancelled \cup contexts
  /\ UNCHANGED <<starts, house, simulator, senders, queue, batching>>

StopWithoutCancel ==   \* mutant: ps.cancel comes after the wait
  StopAt("up", TRUE, "monitor", {}) /\ UNCHANGED <<poolRunning, producer, panic>>

StopBegin == StopAt("up", TRUE, "monitor", {"service"}) /\ UNCHANGED <<poolRunning, producer, panic>>
MonitorWait == /\ StopAt("monitor", monitor = "gone", "health", {})
               /\ UNCHANGED <<poolRunning, producer, panic>>
\* healthChecker.Stop cancels but does not wait for its loop.
StopHealth == /\ StopAt("health", ~Checking, "simulator", {"health"})
              /\ UNCHANGED <<poolRunning, producer, panic>>
StopSimulator == /\ StopAt("simulator", TRUE, "generator", {"simulator"})
                 /\ UNCHANGED <<poolRunning, producer, panic>>
GeneratorWait == /\ StopAt("generator", generator = "gone", "workers", {"workers"})
                 /\ UNCHANGED <<poolRunning, producer, panic>>
WorkersNotAwaited ==   \* mutant: the pool's Stop only cancels
  /\ StopAt("workers", TRUE, "kafka", {"kafka"})
  /\ UNCHANGED <<poolRunning, producer, panic>>
WorkersWait == /\ StopAt("workers", \A w \in Worker : sender[w] = "gone", "kafka", {"kafka"})
               /\ UNCHANGED <<poolRunning, producer, panic>>
KafkaNotAwaited ==   \* mutant: no kp.wg.Wait
  /\ StopAt("kafka", TRUE, "close", {})
  /\ UNCHANGED <<poolRunning, producer, panic>>
KafkaWait ==
  /\ StopAt("kafka", batcher = "gone" /\ \A h \in Loops : handler[h] = "gone", "close", {})
  /\ UNCHANGED <<poolRunning, producer, panic>>

\* Close may report errors of pending messages: then isRunning stays true.
CloseProducer ==
  /\ stage = "close" /\ (connected => open)
  /\ StopAt("close", TRUE, "pool", {})
  /\ open' = FALSE
  /\ kafkaRunning' \in (IF connected THEN BOOLEAN ELSE {FALSE})
  /\ UNCHANGED <<poolRunning, connected, panic>>
CloseTwice == stage = "close" /\ connected /\ ~open /\ Panics("closed input")

StopPool == /\ "pool" \notin cancelled
            /\ StopAt("pool", TRUE, "stopped", {"pool"})
            /\ poolRunning' = FALSE /\ UNCHANGED <<producer, panic>>
StopPoolTwice == stage = "pool" /\ "pool" \in cancelled /\ Panics("closed pool")

StopStep == \/ MonitorWait \/ StopHealth \/ StopSimulator \/ GeneratorWait \/ WorkersWait
            \/ KafkaWait \/ CloseProducer \/ CloseTwice \/ StopPool \/ StopPoolTwice
-----------------------------------------------------------------------------
(* monitoringLoop and healthCheckLoop.                                     *)

MonitorAt(from, to) ==
  /\ monitor = from /\ monitor' = to
  /\ UNCHANGED <<service, producer, health, simulator, senders, queue, batching, panic>>

MonitorTick == MonitorAt("select", "metrics")
GetMetrics  == ServiceFree /\ MonitorAt("metrics", "status")
GetStatus   == ~Checking /\ MonitorAt("status", "select")
MonitorEnds == "service" \in cancelled /\ MonitorAt("select", "gone")

HealthAt(from, to) ==
  /\ health = from /\ health' = to
  /\ UNCHANGED <<service, producer, monitor, simulator, senders, queue, batching, panic>>

HealthTick == HealthAt("select", "begin")
\* GetConnection and ReturnConnection look at isRunning first, without the mutex.
CheckPool  == HealthAt("begin", IF poolRunning THEN "get" ELSE "rest")
GetConnection ==
  \/ "pool" \notin cancelled /\ (HealthAt("get", "hold") \/ HealthAt("get", "rest"))
  \/ health = "get" /\ "pool" \in cancelled /\ Panics("closed pool")
ReturnConnection ==
  \/ HealthAt("hold", IF poolRunning THEN "return" ELSE "rest")
  \/ "pool" \notin cancelled /\ HealthAt("return", "rest")
  \/ health = "return" /\ "pool" \in cancelled /\ Panics("closed pool")
CheckRest  == KafkaFree /\ SimulatorFree /\ HealthAt("rest", "select")
HealthEnds == "health" \in cancelled /\ HealthAt("select", "gone")

HealthStep == CheckPool \/ GetConnection \/ ReturnConnection \/ CheckRest \/ HealthEnds
-----------------------------------------------------------------------------
(* DeviceSimulator: dataGenerationLoop and the workers of its pool.        *)

GeneratorAt(from, to, devices) ==
  /\ generator = from /\ generator' = to
  /\ todo' = devices
  /\ UNCHANGED <<service, producer, house, senders, queue, batching, panic>>

GeneratorTick == GeneratorAt("select", "snapshot", 0) /\ UNCHANGED taskQueue
Snapshot      == /\ SimulatorFree
                 /\ GeneratorAt("snapshot", "queueing", DeviceCount) /\ UNCHANGED taskQueue
\* A full queue means the device is skipped this round.
QueueTask == /\ todo > 0
             /\ GeneratorAt("queueing", IF todo = 1 THEN "select" ELSE "queueing", todo - 1)
             /\ taskQueue' = IF taskQueue < TaskQueueSize THEN taskQueue + 1 ELSE taskQueue
GeneratorEnds == /\ "simulator" \in cancelled
                 /\ GeneratorAt("select", "gone", 0) /\ UNCHANGED taskQueue

elsewhere == <<service, producer, house, generator, todo, batching, panic>>

WorkerTakes(w) ==
  /\ sender[w] = "idle" /\ taskQueue > 0
  /\ taskQueue' = taskQueue - 1
  /\ sender' = [sender EXCEPT ![w] = "check"]
  /\ left' = [left EXCEPT ![w] = SensorCount]
  /\ UNCHANGED <<queue, elsewhere>>

WorkerEnds(w) ==
  /\ sender[w] = "idle" /\ "workers" \in cancelled
  /\ sender' = [sender EXCEPT ![w] = "gone"]
  /\ UNCHANGED <<left, taskQueue, queue, elsewhere>>

CallerBegins(c) ==
  /\ sender[c] = "idle" /\ stage # "stopped"
  /\ sender' = [sender EXCEPT ![c] = "check"]
  /\ UNCHANGED <<left, taskQueue, queue, elsewhere>>

\* KafkaProducer.SendMessage: the flags are read without the mutex.  An error
\* ends a worker's task.
Returns(s) ==
  /\ sender' = [sender EXCEPT ![s] = "idle"]
  /\ left' = [w \in Worker |-> IF w = s THEN 0 ELSE left[w]]
  /\ UNCHANGED <<taskQueue, queue, elsewhere>>

SendCheck(s) ==
  /\ sender[s] = "check"
  /\ IF kafkaRunning /\ connected
       THEN sender' = [sender EXCEPT ![s] = "buffer"] /\ UNCHANGED <<left, taskQueue, queue, elsewhere>>
       ELSE Returns(s)

Buffered(s) ==
  /\ accepted' = accepted + 1
  /\ batchBuffer' = batchBuffer \cup {accepted'}
  /\ IF s \in Worker /\ left[s] > 1
       THEN /\ sender' = [sender EXCEPT ![s] = "check"]
            /\ left' = [left EXCEPT ![s] = @ - 1]
       ELSE /\ sender' = [sender EXCEPT ![s] = "idle"]
            /\ left' = [w \in Worker |-> IF w = s THEN 0 ELSE left[w]]
  /\ UNCHANGED <<taskQueue, elsewhere>>

\* A full buffer is an error, and so may a done context be; messages beyond
\* the bound are refused.
SendMessage(s) ==
  /\ sender[s] = "buffer"
  /\ \/ accepted < MaxMessages /\ Cardinality(batchBuffer) < BufferSize /\ Buffered(s)
     \/ Cardinality(batchBuffer) = BufferSize /\ Returns(s)
     \/ ("kafka" \in cancelled \/ accepted = MaxMessages) /\ Returns(s)

SenderStep(s) == SendCheck(s) \/ SendMessage(s)
WorkerStep(w) == WorkerTakes(w) \/ SenderStep(w)
-----------------------------------------------------------------------------
(* KafkaProducer: batchProcessor, sendBatch, handleSuccesses, handleErrors. *)

outside == <<service, producer, house, simulator, senders, accepted, handler, panic>>

Least(m, S) == m \in S /\ \A n \in S : m <= n

TakeMessage ==
  /\ batcher = "select"
  /\ \E m \in Message : /\ Least(m, batchBuffer)
                        /\ batchBuffer' = batchBuffer \ {m}
                        /\ batch' = batch \cup {m}
  /\ batcher' = IF Cardinality(batch) + 1 >= BatchSize THEN "sending" ELSE "select"
  /\ UNCHANGED <<handed, abandoned, outside>>

FlushFullOnly ==   \* mutant: the ticker flushes full batches only
  /\ batcher = "select" /\ Cardinality(batch) >= BatchSize
  /\ batcher' = "sending"
  /\ UNCHANGED <<batchBuffer, batch, handed, abandoned, outside>>

Flush ==
  /\ batcher = "select" /\ batch # {}
  /\ batcher' = "sending"
  /\ UNCHANGED <<batchBuffer, batch, handed, abandoned, outside>>

BatcherStops ==
  /\ batcher = "select" /\ "kafka" \in cancelled
  /\ batcher' = IF batch # {} THEN "draining" ELSE "gone"
  /\ UNCHANGED <<batchBuffer, batch, handed, abandoned, outside>>

\* sendBatch returns to the loop, or to the return that follows the last flush.
AfterBatch == IF batcher = "draining" THEN "gone" ELSE "select"

HandOverKeepingBatch ==   \* mutant: batch = batch[:0] is missing
  /\ batcher \in {"sending", "draining"} /\ open
  /\ \E m \in Message : Least(m, batch) /\ handed' = [handed EXCEPT ![m] = IF @ < 2 THEN @ + 1 ELSE 2]
  /\ batcher' = AfterBatch
  /\ UNCHANGED <<batchBuffer, batch, abandoned, outside>>

HandOverNewestFirst ==   \* mutant: the batch is sent from its end
  /\ batcher \in {"sending", "draining"} /\ open
  /\ \E m \in batch : /\ \A n \in batch : n <= m
                      /\ handed' = [handed EXCEPT ![m] = @ + 1]
                      /\ batch' = batch \ {m}
  /\ batcher' = IF batch' = {} THEN AfterBatch ELSE batcher
  /\ UNCHANGED <<batchBuffer, abandoned, outside>>

HandOver ==
  /\ batcher \in {"sending", "draining"} /\ open
  /\ \E m \in Message : /\ Least(m, batch)
                        /\ handed' = [handed EXCEPT ![m] = @ + 1]
                        /\ batch' = batch \ {m}
  /\ batcher' = IF batch' = {} THEN AfterBatch ELSE batcher
  /\ UNCHANGED <<batchBuffer, abandoned, outside>>

HandOverToClosed == batcher \in {"sending", "draining"} /\ ~open /\ Panics("closed input")

AbandonWhenBusy ==   \* mutant: sendBatch's select has a default case
  /\ batcher \in {"sending", "draining"}
  /\ abandoned' = abandoned \cup batch /\ batch' = {}
  /\ batcher' = AfterBatch
  /\ UNCHANGED <<batchBuffer, handed, outside>>

\* The done context is a ready case of sendBatch's select: the rest is lost.
AbandonBatch ==
  /\ batcher \in {"sending", "draining"} /\ "kafka" \in cancelled
  /\ abandoned' = abandoned \cup batch /\ batch' = {}
  /\ batcher' = AfterBatch
  /\ UNCHANGED <<batchBuffer, handed, outside>>

HandlerEnds(h) ==
  /\ handler[h] = "running" /\ "kafka" \in cancelled
  /\ handler' = [handler EXCEPT ![h] = "gone"]
  /\ UNCHANGED <<service, producer, house, simulator, senders, queue, batch, batcher,
                 handed, abandoned, panic>>

\* A closed Successes channel yields nil, whose Value handleSuccesses reads.
SuccessIsNil == handler["successes"] = "running" /\ ~open /\ Panics("nil success")

BatcherStep == TakeMessage \/ Flush \/ BatcherStops \/ HandOver \/ HandOverToClosed \/ AbandonBatch
-----------------------------------------------------------------------------
Next == /\ panic = "none"
        /\ \/ Start \/ StartFails \/ StopBegin \/ StopStep
           \/ MonitorTick \/ GetMetrics \/ GetStatus \/ MonitorEnds
           \/ HealthTick \/ HealthStep
           \/ GeneratorTick \/ Snapshot \/ QueueTask \/ GeneratorEnds
           \/ \E w \in Worker : WorkerTakes(w) \/ WorkerEnds(w)
           \/ \E c \in Caller : CallerBegins(c)
           \/ \E s \in Sender : SenderStep(s)
           \/ BatcherStep \/ SuccessIsNil
           \/ \E h \in Loops : HandlerEnds(h)

Spec == Init /\ [][Next]_vars

\* Goroutines that can run do run, a select with a done context among its ready
\* cases takes it in the end (Go picks at random), and hc.mutex, which the health
\* check gives up between two rounds, is not withheld from a waiter for ever.
Fairness ==
  /\ WF_vars(panic = "none" /\ StopStep)
  /\ SF_vars(panic = "none" /\ StopHealth)
  /\ WF_vars(panic = "none" /\ GetMetrics) /\ SF_vars(panic = "none" /\ GetStatus)
  /\ SF_vars(panic = "none" /\ MonitorEnds)
  /\ WF_vars(panic = "none" /\ HealthStep)
  /\ WF_vars(panic = "none" /\ (Snapshot \/ QueueTask))
  /\ SF_vars(panic = "none" /\ GeneratorEnds)
  /\ \A w \in Worker : /\ WF_vars(panic = "none" /\ WorkerStep(w))
                       /\ SF_vars(panic = "none" /\ WorkerEnds(w))
  /\ WF_vars(panic = "none" /\ BatcherStep)
  /\ SF_vars(panic = "none" /\ BatcherStops)
  /\ \A h \in Loops : WF_vars(panic = "none" /\ HandlerEnds(h))

FairSpec == Spec /\ Fairness
-----------------------------------------------------------------------------
(* Properties.                                                             *)

Once(b) == IF b THEN 1 ELSE 0

\* A message SendMessage accepted is in one place: the channel, the batch,
\* with sarama, given to it once, or abandoned.  No batch is sent twice.
MessageInOnePlace ==
  \A m \in Message :
    Once(m \in batchBuffer) + Once(m \in batch) + Once(m \in abandoned) + handed[m]
      = Once(m <= accepted)

\* sendBatch gives a message up only when the producer is being stopped.
LostOnlyByStop == abandoned # {} => "kafka" \in cancelled

\* Sarama gets the messages in the order SendMessage accepted them.
SentInOrder ==
  \A m, n \in Message : m < n /\ handed[n] > 0 => handed[m] > 0 \/ m \in abandoned

\* Sarama gets each accepted message at most once and in its turn.
OnceAndInOrder == MessageInOnePlace /\ SentInOrder

\* KafkaProducer promises what BatchProcessor does (MessageDelivery): a message it
\* accepts is handed over once, or given up, and that only after kp.cancel.
MessageStatus(m) ==
  IF m \in abandoned THEN "lost"
  ELSE IF m > accepted THEN "new"
  ELSE IF handed[m] > 0 THEN "sent" ELSE "accepted"

Delivery == INSTANCE MessageDelivery
              WITH closing <- "kafka" \in cancelled, Unencodable <- {},
                   group <- [m \in Message |-> "all"],
                   state <- [m \in Message |-> MessageStatus(m)]

ImplementsDelivery == Delivery!Spec

\* Stop takes the simulator down before the producer: no sample of a worker
\* meets a producer that is shutting down.
SimulatorStopsFirst ==
  "kafka" \in cancelled /\ starts = 1 =>
    generator = "gone" /\ \A w \in Worker : sender[w] = "gone"

\* Before a restart only a health check that begins after healthChecker.Stop
\* can bring the process down, on the closed connection pool.
FirstRunPanics == panic # "none" /\ starts = 1 => panic = "closed pool" /\ "health" \in cancelled

\* The first run is taken down in order: the only goroutine that may still meet
\* what has been closed is a health check.
FirstRunIsOrderly == SimulatorStopsFirst /\ FirstRunPanics

\* Stop returns, unless it holds the very mutex the goroutine it waits for
\* needs: ps.mutex and the monitoring loop, or ds.mutex and the generator.
StopReturns ==
  stage = "monitor" ~> \/ stage = "stopped" \/ panic # "none"
                       \/ stage = "monitor" /\ monitor = "metrics"
                       \/ stage = "generator" /\ generator = "snapshot"

\* Until the producer is stopped, whatever is in the channel is sent although
\* no further message fills its batch.
MessagesLeave ==
  \A m \in Message : m \in batchBuffer ~> (handed[m] > 0 \/ "kafka" \in cancelled \/ panic # "none")

\* What cmd/producer says of its stop command: all messages have been sent.
AllSent == "pool" \in cancelled => \A m \in Message : m <= accepted => handed[m] > 0
=============================================================================
