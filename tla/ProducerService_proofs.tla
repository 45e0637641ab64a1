----------------------- MODULE ProducerService_proofs -----------------------
(***************************************************************************)
(* Theorems about ProducerService, for every number of workers, callers,   *)
(* devices, samples and restarts, and every size of queue and batch.       *)
(***************************************************************************)
EXTENDS ProducerService, FiniteSetTheorems, TLAPS

\* batchProcessor waits with room in its batch and ends with an empty one.
BatchHasRoom ==
  /\ batcher = "select" => Cardinality(batch) < BatchSize
  /\ batcher = "gone" => batch = {}

\* The channel holds the newest messages, the batch the ones just before them:
\* with each message in one place, what sarama has is older than both.
BufferIsNewest ==
  \A m \in batchBuffer : \A n \in Message : m < n /\ n <= accepted => n \in batchBuffer
BatchBeforeBuffer ==
  \A m \in batch : \A n \in Message : m < n /\ n <= accepted => n \in batch \/ n \in batchBuffer

Delivered == /\ MessageInOnePlace /\ LostOnlyByStop
             /\ BufferIsNewest /\ BatchBeforeBuffer

\* What Stop has cancelled, and in the first run what it has waited for.
AfterHealth  == {"simulator", "generator", "workers", "kafka", "close", "pool"}
AfterBatcher == {"close", "pool", "stopped"}

Cancelled ==
  /\ starts = 0 => /\ stage = "stopped" /\ cancelled = {} /\ ~connected
                   /\ generator = "gone" /\ panic = "none"
  /\ stage \in AfterHealth => "health" \in cancelled
  /\ stage \in AfterBatcher => batcher = "gone" /\ \A h \in Loops : handler[h] = "gone"
  /\ "pool" \in cancelled => "health" \in cancelled

FirstRun ==
  starts = 1 =>
    /\ stage \in {"workers", "kafka", "close", "pool"} => generator = "gone"
    /\ "kafka" \in cancelled =>
         generator = "gone" /\ \A w \in Worker : sender[w] = "gone"
    /\ batcher # "gone" \/ handler["successes"] # "gone" => open
    /\ connected /\ ~open => stage \in {"pool", "stopped"}
    /\ FirstRunPanics

IInv == TypeOK /\ BatchHasRoom /\ Delivered /\ Cancelled /\ FirstRun

-----------------------------------------------------------------------------
\* Type correctness in parts: every action leaves most of them alone.
Flags  == /\ poolRunning \in BOOLEAN /\ kafkaRunning \in BOOLEAN
          /\ connected \in BOOLEAN /\ open \in BOOLEAN
Places == /\ stage \in {"stopped", "up", "monitor", "health", "simulator", "generator",
                        "workers", "kafka", "close", "pool"}
          /\ cancelled \subseteq {"service", "health", "simulator", "workers", "kafka", "pool"}
          /\ monitor \in {"gone", "select", "metrics", "status"}
          /\ health \in {"gone", "select", "begin", "get", "hold", "return", "rest"}
          /\ generator \in {"gone", "select", "snapshot", "queueing"}
          /\ batcher \in {"gone", "select", "sending", "draining"}
          /\ panic \in {"none", "closed input", "nil success", "closed pool"}
Counts == /\ starts \in 0 .. MaxStarts
          /\ todo \in 0 .. DeviceCount /\ taskQueue \in 0 .. TaskQueueSize
          /\ accepted \in 0 .. MaxMessages
Senders == /\ sender \in [Sender -> {"gone", "idle", "check", "buffer"}]
           /\ left \in [Worker -> 0 .. SensorCount]
           /\ handler \in [Loops -> {"gone", "running"}]
Sets   == /\ batchBuffer \subseteq Message /\ Cardinality(batchBuffer) <= BufferSize
          /\ batch \subseteq Message /\ Cardinality(batch) <= BatchSize
          /\ handed \in [Message -> 0 .. 2] /\ abandoned \subseteq Message

LEMMA TypeParts == TypeOK <=> Flags /\ Places /\ Counts /\ Senders /\ Sets
  BY DEF TypeOK, Flags, Places, Counts, Senders, Sets

LEMMA SetsFinite ==
  TypeOK => IsFiniteSet(batchBuffer) /\ IsFiniteSet(batch)
  <1> SUFFICES ASSUME TypeOK PROVE IsFiniteSet(batchBuffer) /\ IsFiniteSet(batch)
    OBVIOUS
  <1>1. IsFiniteSet(Message)
    BY FS_Interval, ProducerAssumption DEF Message
  <1>2. QED
    BY <1>1, FS_Subset DEF TypeOK

LEMMA InvInit == Init => IInv
  <1> SUFFICES ASSUME Init PROVE IInv
    OBVIOUS
  <1> USE ProducerAssumption
  <1>1. Cardinality({}) = 0
    BY FS_EmptySet
  <1>2. TypeOK
    <2>1. /\ sender \in [Sender -> {"gone", "idle", "check", "buffer"}]
          /\ handed \in [Message -> 0 .. 2] /\ handler \in [Loops -> {"gone", "running"}]
      BY DEF Init
    <2>2. left \in [Worker -> 0 .. SensorCount]
      BY DEF Init
    <2>3. /\ Cardinality(batchBuffer) <= BufferSize /\ Cardinality(batch) <= BatchSize
          /\ batchBuffer \subseteq Message /\ batch \subseteq Message /\ abandoned \subseteq Message
      BY <1>1 DEF Init
    <2>4. Flags
      BY Zenon DEF Init, Flags
    <2>5. Places
      BY DEF Init, Places
    <2>6. Counts
      BY DEF Init, Counts
    <2>7. QED
      BY <2>1, <2>2, <2>3, <2>4, <2>5, <2>6, TypeParts DEF Senders, Sets
  <1>3. Delivered
    BY DEF Init, Delivered, MessageInOnePlace, LostOnlyByStop, BufferIsNewest,
           BatchBeforeBuffer, Once, Message
  <1>4. Cancelled
    BY DEF Init, Cancelled, AfterHealth, AfterBatcher
  <1>5. BatchHasRoom /\ FirstRun
    BY DEF Init, BatchHasRoom, FirstRun
  <1>6. QED
    BY <1>2, <1>3, <1>4, <1>5 DEF IInv

-----------------------------------------------------------------------------
(* The processes, and what the steps of each leave alone.                  *)

Starting   == Start \/ StartFails
Stopping   == StopBegin \/ StopStep
Monitoring == MonitorTick \/ GetMetrics \/ GetStatus \/ MonitorEnds
Health     == HealthTick \/ HealthStep
Generating == GeneratorTick \/ Snapshot \/ QueueTask \/ GeneratorEnds
Sending    == \/ \E w \in Worker : WorkerTakes(w) \/ WorkerEnds(w)
              \/ \E c \in Caller : CallerBegins(c)
              \/ \E s \in Sender : SenderStep(s)
Delivering == BatcherStep \/ SuccessIsNil \/ \E h \in Loops : HandlerEnds(h)

LEMMA Processes ==
  Next => /\ panic = "none"
          /\ \/ Starting \/ Stopping \/ Monitoring \/ Health
             \/ Generating \/ Sending \/ Delivering
  BY Zenon DEF Next, Starting, Stopping, Monitoring, Health, Generating, Sending, Delivering

LEMMA StoppingFrame ==
  ASSUME Stopping
  PROVE  UNCHANGED <<starts, connected, house, simulator, senders, queue, batching>>
  <1> USE DEF service, producer
  <1>1. ASSUME Panics("closed input") \/ Panics("closed pool")
        PROVE  UNCHANGED <<starts, connected, house, simulator, senders, queue, batching>>
    BY <1>1, Zenon DEF Panics
  <1>2. CASE StopBegin \/ MonitorWait \/ StopHealth \/ StopSimulator
    BY <1>2, Zenon DEF StopBegin, MonitorWait, StopHealth, StopSimulator, StopAt
  <1>3. CASE GeneratorWait \/ WorkersWait \/ KafkaWait
    BY <1>3, Zenon DEF GeneratorWait, WorkersWait, KafkaWait, StopAt
  <1>4. CASE CloseProducer \/ StopPool
    BY <1>4, Zenon DEF CloseProducer, StopPool, StopAt
  <1>5. CASE CloseTwice \/ StopPoolTwice
    BY <1>1, <1>5, Zenon DEF CloseTwice, StopPoolTwice
  <1>6. QED
    BY <1>2, <1>3, <1>4, <1>5, Zenon DEF Stopping, StopStep

LEMMA HouseFrame ==
  ASSUME Monitoring \/ Health
  PROVE  UNCHANGED <<service, producer, simulator, senders, queue, batching>>
  <1> USE DEF house
  <1>1. CASE Monitoring
    BY <1>1, Zenon DEF Monitoring, MonitorTick, GetMetrics, GetStatus, MonitorEnds, MonitorAt
  <1>2. ASSUME NEW from, NEW to, HealthAt(from, to)
        PROVE  UNCHANGED <<service, producer, simulator, senders, queue, batching>>
    BY <1>2, Zenon DEF HealthAt
  <1>3. ASSUME Panics("closed pool")
        PROVE  UNCHANGED <<service, producer, simulator, senders, queue, batching>>
    BY <1>3, Zenon DEF Panics
  <1>4. CASE Health
    BY <1>2, <1>3, <1>4, Zenon DEF Health, HealthTick, HealthStep, CheckPool, GetConnection,
       ReturnConnection, CheckRest, HealthEnds
  <1>5. QED
    BY <1>1, <1>4, Zenon

LEMMA GeneratingFrame ==
  ASSUME Generating
  PROVE  UNCHANGED <<service, producer, house, senders, queue, batching, panic>>
  BY Zenon DEF Generating, GeneratorTick, Snapshot, QueueTask, GeneratorEnds, GeneratorAt

LEMMA SendingFrame ==
  ASSUME Sending
  PROVE  UNCHANGED elsewhere
  <1>1. ASSUME NEW s, Returns(s) \/ Buffered(s) PROVE UNCHANGED elsewhere
    BY <1>1, Zenon DEF Returns, Buffered
  <1>2. ASSUME NEW s, SenderStep(s) PROVE UNCHANGED elsewhere
    BY <1>1, <1>2, Zenon DEF SenderStep, SendCheck, SendMessage
  <1>3. QED
    BY <1>2, Zenon DEF Sending, WorkerTakes, WorkerEnds, CallerBegins

LEMMA DeliveringFrame ==
  ASSUME Delivering
  PROVE  UNCHANGED <<service, producer, house, simulator, senders, accepted>>
  <1> USE DEF outside, queue
  <1>1. ASSUME NEW why, Panics(why)
        PROVE  UNCHANGED <<service, producer, house, simulator, senders, accepted>>
    BY <1>1, Zenon DEF Panics
  <1>2. CASE BatcherStep
    BY <1>1, <1>2, Zenon DEF BatcherStep, TakeMessage, Flush, BatcherStops, HandOver,
       HandOverToClosed, AbandonBatch
  <1>3. ASSUME NEW h, HandlerEnds(h)
        PROVE  UNCHANGED <<service, producer, house, simulator, senders, accepted>>
    BY <1>3, Zenon DEF HandlerEnds
  <1>4. QED
    BY <1>1, <1>2, <1>3, Zenon DEF Delivering, SuccessIsNil
-----------------------------------------------------------------------------
(* Type correctness, one lemma for each part.                              *)

LEMMA FlagTypes ==
  ASSUME Flags, Next PROVE Flags'
  <1> USE DEF Flags, service, producer, house, simulator, senders, queue, batching
  <1>1. CASE Starting
    BY <1>1, Zenon DEF Starting, Start, StartFails
  <1>2. CASE Stopping
    <2>1. ASSUME Panics("closed input") \/ Panics("closed pool") PROVE Flags'
      BY <2>1, Zenon DEF Panics
    <2>2. CASE StopBegin \/ MonitorWait \/ StopHealth \/ StopSimulator
      BY <2>2, Zenon DEF StopBegin, MonitorWait, StopHealth, StopSimulator
    <2>3. CASE GeneratorWait \/ WorkersWait \/ KafkaWait
      BY <2>3, Zenon DEF GeneratorWait, WorkersWait, KafkaWait
    <2>4. CASE CloseProducer
      BY <2>4, Zenon DEF CloseProducer
    <2>5. CASE StopPool
      BY <2>5, Zenon DEF StopPool
    <2>6. CASE CloseTwice \/ StopPoolTwice
      BY <2>1, <2>6, Zenon DEF CloseTwice, StopPoolTwice
    <2>7. QED
      BY <1>2, <2>2, <2>3, <2>4, <2>5, <2>6, Zenon DEF Stopping, StopStep
  <1>3. CASE Monitoring \/ Health \/ Generating \/ Sending \/ Delivering
    BY <1>3, HouseFrame, GeneratingFrame, SendingFrame, DeliveringFrame, Zenon DEF elsewhere
  <1>4. QED
    BY <1>1, <1>2, <1>3, Processes, Zenon

LEMMA PlaceTypes ==
  ASSUME Places, Next PROVE Places'
  <1> USE DEF service, producer, house, simulator, senders, queue, batching
  <1>1. CASE Starting
    BY <1>1 DEF Starting, Start, StartFails, Places
  <1>2. CASE Stopping
    <2> DEFINE Fine == /\ stage' \in {"stopped", "up", "monitor", "health", "simulator", "generator",
                                      "workers", "kafka", "close", "pool"}
                       /\ cancelled' \subseteq {"service", "health", "simulator", "workers", "kafka", "pool"}
                       /\ panic' \in {"none", "closed input", "nil success", "closed pool"}
    <2>1. StopBegin \/ MonitorWait => Fine
      BY DEF StopBegin, MonitorWait, StopAt, Places
    <2>2. StopHealth \/ StopSimulator => Fine
      BY DEF StopHealth, StopSimulator, StopAt, Places
    <2>3. GeneratorWait \/ WorkersWait => Fine
      BY DEF GeneratorWait, WorkersWait, StopAt, Places
    <2>4. KafkaWait => Fine
      BY DEF KafkaWait, StopAt, Places
    <2>5. CloseProducer => Fine
      BY DEF CloseProducer, StopAt, Places
    <2>6. StopPool => Fine
      BY DEF StopPool, StopAt, Places
    <2>7. CloseTwice \/ StopPoolTwice => Fine
      BY DEF CloseTwice, StopPoolTwice, Panics, Places
    <2>8. Fine
      BY <1>2, <2>1, <2>2, <2>3, <2>4, <2>5, <2>6, <2>7, Zenon DEF Stopping, StopStep
    <2>9. QED
      BY <1>2, <2>8, StoppingFrame DEF Places
  <1>3. CASE Monitoring
    BY <1>3 DEF Monitoring, MonitorTick, GetMetrics, GetStatus, MonitorEnds, MonitorAt, Places
  <1>4. CASE Health
    <2>1. CASE HealthTick \/ CheckPool \/ CheckRest \/ HealthEnds
      BY <2>1 DEF HealthTick, CheckPool, CheckRest, HealthEnds, HealthAt, Places
    <2>2. CASE GetConnection \/ ReturnConnection
      BY <2>2 DEF GetConnection, ReturnConnection, HealthAt, Panics, Places
    <2>3. QED
      BY <1>4, <2>1, <2>2, Zenon DEF Health, HealthStep
  <1>5. CASE Generating
    <2>1. CASE GeneratorTick \/ Snapshot \/ GeneratorEnds
      BY <2>1
         DEF GeneratorTick, Snapshot, GeneratorEnds, GeneratorAt, service, house,
             batching, Places
    <2>2. CASE QueueTask
      <3>1. /\ generator' \in {"select", "queueing"}
            /\ UNCHANGED <<stage, cancelled, monitor, health, batcher, panic>>
        BY <2>2 DEF QueueTask, GeneratorAt, service, house, batching
      <3>2. /\ stage' \in {"stopped", "up", "monitor", "health", "simulator", "generator",
                          "workers", "kafka", "close", "pool"}
            /\ cancelled' \subseteq {"service", "health", "simulator", "workers", "kafka", "pool"}
        BY <3>1 DEF Places
      <3>3. /\ monitor' \in {"gone", "select", "metrics", "status"}
            /\ health' \in {"gone", "select", "begin", "get", "hold", "return", "rest"}
        BY <3>1 DEF Places
      <3>4. /\ batcher' \in {"gone", "select", "sending", "draining"}
            /\ panic' \in {"none", "closed input", "nil success", "closed pool"}
        BY <3>1 DEF Places
      <3>5. generator' \in {"gone", "select", "snapshot", "queueing"}
        BY <3>1
      <3>6. QED
        BY <3>2, <3>3, <3>4, <3>5, Zenon DEF Places
    <2>3. QED
      BY <1>5, <2>1, <2>2 DEF Generating
  <1>6. CASE Sending
    BY <1>6, SendingFrame DEF elsewhere, Places
  <1>7. CASE Delivering
    <2>1. batcher' \in {"gone", "select", "sending", "draining"}
      BY <1>7 DEF Delivering, BatcherStep, TakeMessage, Flush, BatcherStops, HandOver, AfterBatch,
         HandOverToClosed, AbandonBatch, SuccessIsNil, HandlerEnds, Panics, outside, Places
    <2>2. panic' \in {"none", "closed input", "nil success", "closed pool"}
      BY <1>7 DEF Delivering, BatcherStep, TakeMessage, Flush, BatcherStops, HandOver,
         HandOverToClosed, AbandonBatch, SuccessIsNil, HandlerEnds, Panics, outside, Places
    <2>3. QED
      BY <1>7, <2>1, <2>2, DeliveringFrame DEF Places
  <1>8. QED
    BY <1>1, <1>2, <1>3, <1>4, <1>5, <1>6, <1>7, Processes, Zenon

LEMMA CountTypes ==
  ASSUME Counts, Next PROVE Counts'
  <1> USE ProducerAssumption DEF service, producer, house, simulator, senders, queue, batching
  <1>1. CASE Starting
    <2>1. starts' = starts + 1 /\ starts < MaxStarts /\ UNCHANGED <<todo, taskQueue, accepted>>
      BY <1>1, Zenon DEF Starting, Start, StartFails
    <2>2. QED
      BY <2>1 DEF Counts
  <1>2. CASE Stopping \/ Monitoring \/ Health \/ Delivering
    BY <1>2, StoppingFrame, HouseFrame, DeliveringFrame DEF Counts
  <1>3. CASE Generating
    BY <1>3 DEF Generating, GeneratorTick, Snapshot, QueueTask, GeneratorEnds, GeneratorAt, Counts
  <1>4. CASE Sending
    <2>1. starts' = starts /\ todo' = todo
      BY <1>4, SendingFrame DEF elsewhere
    <2>2. ASSUME NEW s, Returns(s) PROVE taskQueue' = taskQueue /\ accepted' = accepted
      BY <2>2, Zenon DEF Returns
    <2>3. ASSUME NEW s, SendMessage(s)
          PROVE  taskQueue' = taskQueue /\ accepted' \in 0 .. MaxMessages
      BY <2>2, <2>3 DEF SendMessage, Buffered, Counts
    <2>4. ASSUME NEW s, SendCheck(s) PROVE taskQueue' = taskQueue /\ accepted' = accepted
      BY <2>2, <2>4, Zenon DEF SendCheck
    <2>5. taskQueue' \in 0 .. TaskQueueSize /\ accepted' \in 0 .. MaxMessages
      BY <1>4, <2>3, <2>4 DEF Sending, SenderStep, WorkerTakes, WorkerEnds, CallerBegins, Counts
    <2>6. QED
      BY <2>1, <2>5 DEF Counts
  <1>5. QED
    BY <1>1, <1>2, <1>3, <1>4, Processes, Zenon

LEMMA SenderTypes ==
  ASSUME Senders, Next PROVE Senders'
  <1> USE ProducerAssumption DEF service, producer, house, simulator, senders, queue, batching
  <1>1. CASE Starting
    <2>1. Start => /\ sender' \in [Sender -> {"gone", "idle", "check", "buffer"}]
                   /\ handler' \in [Loops -> {"gone", "running"}] /\ left' = left
      BY DEF Start, Senders
    <2>2. StartFails => UNCHANGED <<sender, left, handler>>
      BY Zenon DEF StartFails
    <2>3. QED
      BY <1>1, <2>1, <2>2 DEF Starting, Senders
  <1>2. CASE Stopping \/ Monitoring \/ Health \/ Generating
    BY <1>2, StoppingFrame, HouseFrame, GeneratingFrame DEF Senders
  <1>3. CASE Sending
    <2>1. handler' = handler
      BY <1>3, SendingFrame DEF elsewhere
    <2> DEFINE Fine == /\ sender' \in [Sender -> {"gone", "idle", "check", "buffer"}]
                       /\ left' \in [Worker -> 0 .. SensorCount]
    <2>2. ASSUME NEW w \in Worker, WorkerTakes(w) \/ WorkerEnds(w) PROVE Fine
      <3>1. w \in Sender
        BY DEF Sender
      <3>2. QED
        BY <2>2, <3>1 DEF WorkerTakes, WorkerEnds, Senders
    <2>3. ASSUME NEW c \in Caller, CallerBegins(c) PROVE Fine
      BY <2>3 DEF CallerBegins, Senders
    <2>4. ASSUME NEW s \in Sender, Returns(s) PROVE Fine
      BY <2>4 DEF Returns, Senders
    <2>5. ASSUME NEW s \in Sender, SendCheck(s) PROVE Fine
      BY <2>4, <2>5 DEF SendCheck, Senders
    <2>6. ASSUME NEW s \in Sender, Buffered(s) PROVE Fine
      <3>1. CASE s \in Worker /\ left[s] > 1
        BY <2>6, <3>1 DEF Buffered, Senders
      <3>2. CASE ~(s \in Worker /\ left[s] > 1)
        BY <2>6, <3>2 DEF Buffered, Senders
      <3>3. QED
        BY <3>1, <3>2
    <2>7. Fine
      BY <1>3, <2>2, <2>3, <2>4, <2>5, <2>6, Zenon DEF Sending, SenderStep, SendMessage
    <2>8. QED
      BY <2>1, <2>7 DEF Senders
  <1>4. CASE Delivering
    <2>1. sender' = sender /\ left' = left
      BY <1>4, DeliveringFrame
    <2>2. ASSUME NEW h \in Loops, HandlerEnds(h) PROVE handler' \in [Loops -> {"gone", "running"}]
      BY <2>2 DEF HandlerEnds, Senders
    <2>3. BatcherStep \/ SuccessIsNil => handler' = handler
      BY Zenon DEF BatcherStep, TakeMessage, Flush, BatcherStops, HandOver, HandOverToClosed,
         AbandonBatch, SuccessIsNil, Panics, outside
    <2>4. QED
      BY <1>4, <2>1, <2>2, <2>3 DEF Delivering, Senders
  <1>5. QED
    BY <1>1, <1>2, <1>3, <1>4, Processes, Zenon

LEMMA CancelledGrows ==
  ASSUME Next PROVE cancelled \subseteq cancelled'
  <1> USE DEF service
  <1>1. CASE Starting
    BY <1>1, Zenon DEF Starting, Start, StartFails
  <1>2. ASSUME NEW c, cancelled' = cancelled \cup c PROVE cancelled \subseteq cancelled'
    BY <1>2
  <1>3. CASE Stopping
    BY <1>2, <1>3, Zenon DEF Stopping, StopStep, StopBegin, MonitorWait, StopHealth, StopSimulator,
       GeneratorWait, WorkersWait, KafkaWait, CloseProducer, CloseTwice, StopPool,
       StopPoolTwice, StopAt, Panics
  <1>4. CASE Monitoring \/ Health \/ Generating \/ Sending \/ Delivering
    BY <1>4, HouseFrame, GeneratingFrame, SendingFrame, DeliveringFrame, Zenon DEF elsewhere
  <1>5. QED
    BY <1>1, <1>3, <1>4, Processes, Zenon

\* batchBuffer, batch, handed and abandoned change in the steps of the batcher
\* and where SendMessage buffers its message.
delivery == <<accepted, batchBuffer, batch, handed, abandoned>>

LEMMA DeliveryFrame ==
  ASSUME Next
  PROVE  \/ UNCHANGED <<delivery, batcher>>
         \/ Start /\ UNCHANGED delivery
         \/ BatcherStep /\ UNCHANGED accepted
         \/ \E s \in Sender : /\ accepted < MaxMessages /\ Cardinality(batchBuffer) < BufferSize
                              /\ Buffered(s) /\ UNCHANGED <<batch, batcher, handed, abandoned>>
  <1> USE DEF delivery, queue, batching
  <1>1. CASE Starting
    BY <1>1, Zenon DEF Starting, Start, StartFails
  <1>2. CASE Stopping \/ Monitoring \/ Health \/ Generating
    BY <1>2, StoppingFrame, HouseFrame, GeneratingFrame, Zenon
  <1>3. CASE Sending
    <2>1. UNCHANGED <<batch, batcher, handed, abandoned>>
      BY <1>3, SendingFrame, Zenon DEF elsewhere
    <2>2. ASSUME NEW s, Returns(s) PROVE UNCHANGED <<accepted, batchBuffer>>
      BY <2>2, Zenon DEF Returns
    <2>3. ASSUME NEW s \in Sender, SenderStep(s)
          PROVE  \/ UNCHANGED <<accepted, batchBuffer>>
                 \/ accepted < MaxMessages /\ Cardinality(batchBuffer) < BufferSize /\ Buffered(s)
      BY <2>2, <2>3, Zenon DEF SenderStep, SendCheck, SendMessage
    <2>4. ASSUME NEW s, WorkerTakes(s) \/ WorkerEnds(s) \/ CallerBegins(s)
          PROVE  UNCHANGED <<accepted, batchBuffer>>
      BY <2>4, Zenon DEF WorkerTakes, WorkerEnds, CallerBegins
    <2>5. QED
      BY <1>3, <2>1, <2>3, <2>4, Zenon DEF Sending
  <1>4. CASE Delivering
    <2>1. BatcherStep => accepted' = accepted
      BY <1>4, DeliveringFrame, Zenon
    <2>2. ASSUME NEW h, HandlerEnds(h) PROVE UNCHANGED <<delivery, batcher>>
      BY <2>2, Zenon DEF HandlerEnds
    <2>3. SuccessIsNil => UNCHANGED <<delivery, batcher>>
      BY Zenon DEF SuccessIsNil, Panics
    <2>4. QED
      BY <1>4, <2>1, <2>2, <2>3, Zenon DEF Delivering
  <1>5. QED
    BY <1>1, <1>2, <1>3, <1>4, Processes, Zenon

LEMMA BufferedStep ==
  ASSUME TypeOK, NEW s, accepted < MaxMessages, Buffered(s)
  PROVE  /\ accepted' = accepted + 1 /\ accepted + 1 \in Message
         /\ batchBuffer' = batchBuffer \cup {accepted + 1}
  <1>1. accepted' = accepted + 1 /\ batchBuffer' = batchBuffer \cup {accepted'}
    BY Zenon DEF Buffered
  <1>2. accepted \in 0 .. MaxMessages
    BY DEF TypeOK
  <1>3. QED
    BY <1>1, <1>2, ProducerAssumption DEF Message

\* A batch grows by one message while it has room, and a message given to sarama
\* had not been given to it before.
LEMMA SetTypes ==
  ASSUME TypeOK, BatchHasRoom, MessageInOnePlace, Cancelled, Next
  PROVE  Sets' /\ BatchHasRoom'
  <1> USE ProducerAssumption
  <1>1. /\ Sets /\ IsFiniteSet(batchBuffer) /\ IsFiniteSet(batch)
        /\ Cardinality(batchBuffer) \in Nat /\ Cardinality(batch) \in Nat
    BY TypeParts, SetsFinite, FS_CardinalityType
  <1>2. CASE UNCHANGED <<delivery, batcher>>
    BY <1>1, <1>2 DEF delivery, Sets, BatchHasRoom
  <1>3. CASE Start /\ UNCHANGED delivery
    <2>1. batch = {}
      BY <1>3 DEF Start, Cancelled, AfterBatcher, BatchHasRoom
    <2>2. Cardinality({}) = 0
      BY FS_EmptySet
    <2>3. QED
      BY <1>1, <1>3, <2>1, <2>2 DEF delivery, Sets, BatchHasRoom
  <1>4. ASSUME NEW s \in Sender, accepted < MaxMessages, Cardinality(batchBuffer) < BufferSize,
               Buffered(s), UNCHANGED <<batch, batcher, handed, abandoned>>
        PROVE  Sets' /\ BatchHasRoom'
    <2>1. accepted + 1 \in Message /\ batchBuffer' = batchBuffer \cup {accepted + 1}
      BY <1>4, BufferedStep
    <2>2. batchBuffer' \subseteq Message /\ Cardinality(batchBuffer') <= BufferSize
      <3>1. Cardinality(batchBuffer') \in {Cardinality(batchBuffer), Cardinality(batchBuffer) + 1}
        BY <1>1, <2>1, FS_AddElement
      <3>2. QED
        BY <1>1, <1>4, <2>1, <3>1 DEF Sets
    <2>3. QED
      BY <1>1, <1>4, <2>2 DEF Sets, BatchHasRoom
  <1>5. CASE BatcherStep
    <2>1. CASE TakeMessage
      <3>1. PICK m \in Message : batchBuffer' = batchBuffer \ {m} /\ batch' = batch \cup {m} /\ m \in batchBuffer
        BY <2>1 DEF TakeMessage, Least
      <3>2. /\ Cardinality(batchBuffer') \in {Cardinality(batchBuffer), Cardinality(batchBuffer) - 1}
            /\ Cardinality(batch') \in {Cardinality(batch), Cardinality(batch) + 1}
        BY <1>1, <3>1, FS_AddElement, FS_RemoveElement
      <3>3. /\ Cardinality(batch) < BatchSize /\ UNCHANGED <<handed, abandoned>>
            /\ batcher' = IF Cardinality(batch) + 1 >= BatchSize THEN "sending" ELSE "select"
        BY <2>1 DEF TakeMessage, BatchHasRoom
      <3>4. Sets'
        <4>1. batchBuffer' \subseteq Message /\ batch' \subseteq Message
          BY <1>1, <3>1 DEF Sets
        <4>2. Cardinality(batchBuffer') <= BufferSize /\ Cardinality(batch') <= BatchSize
          BY <1>1, <3>2, <3>3 DEF Sets
        <4>3. QED
          BY <1>1, <3>3, <4>1, <4>2 DEF Sets
      <3>5. batcher' = "select" => Cardinality(batch') < BatchSize
        BY <1>1, <3>2, <3>3
      <3>6. QED
        BY <3>3, <3>4, <3>5 DEF BatchHasRoom
    <2>2. CASE Flush \/ BatcherStops
      <3>1. UNCHANGED <<batchBuffer, batch, handed, abandoned>> /\ batcher' # "select"
        BY <2>2, Zenon DEF Flush, BatcherStops
      <3>2. batcher' = "gone" => batch = {}
        BY <2>2 DEF Flush, BatcherStops
      <3>3. QED
        BY <1>1, <3>1, <3>2 DEF Sets, BatchHasRoom
    <2>3. CASE HandOver
      <3>1. PICK m \in Message : /\ m \in batch /\ batch' = batch \ {m}
                                /\ handed' = [handed EXCEPT ![m] = @ + 1]
        BY <2>3 DEF HandOver, Least
      <3>2. handed[m] = 0
        <4>1. handed[m] \in 0 .. 2
          BY <1>1 DEF Sets
        <4>2. /\ Once(m \in batch) = 1 /\ Once(m \in batchBuffer) \in {0, 1}
              /\ Once(m \in abandoned) \in {0, 1} /\ Once(m <= accepted) \in {0, 1}
          BY <3>1 DEF Once
        <4>3. Once(m \in batchBuffer) + Once(m \in batch) + Once(m \in abandoned) + handed[m]
                = Once(m <= accepted)
          BY DEF MessageInOnePlace
        <4>4. QED
          BY <4>1, <4>2, <4>3
      <3>3. UNCHANGED <<batchBuffer, abandoned>> /\ batch' \subseteq batch
        BY <2>3, <3>1 DEF HandOver
      <3>4. handed' \in [Message -> 0 .. 2]
        BY <1>1, <3>1, <3>2 DEF Sets
      <3>5. Cardinality(batch') = Cardinality(batch) - 1
        BY <1>1, <3>1, FS_RemoveElement
      <3>6. Cardinality(batch') <= BatchSize
        BY <1>1, <3>5 DEF Sets
      <3>7. (batcher' = "gone" \/ batcher' = "select") => batch' = {}
        BY <2>3 DEF HandOver, AfterBatch
      <3>8. Cardinality({}) = 0
        BY FS_EmptySet
      <3>9. QED
        BY <1>1, <3>3, <3>4, <3>6, <3>7, <3>8 DEF Sets, BatchHasRoom
    <2>4. CASE HandOverToClosed
      BY <1>1, <2>4 DEF HandOverToClosed, Panics, queue, batching, Sets, BatchHasRoom
    <2>5. CASE AbandonBatch
      <3>1. batch' = {} /\ abandoned' = abandoned \cup batch /\ UNCHANGED <<batchBuffer, handed>>
        BY <2>5, Zenon DEF AbandonBatch
      <3>2. Cardinality({}) = 0
        BY FS_EmptySet
      <3>3. QED
        BY <1>1, <3>1, <3>2 DEF Sets, BatchHasRoom
    <2>6. QED
      BY <1>5, <2>1, <2>2, <2>3, <2>4, <2>5, Zenon DEF BatcherStep
  <1>6. QED
    BY <1>2, <1>3, <1>4, <1>5, DeliveryFrame, Zenon

-----------------------------------------------------------------------------
(* What sarama is given.                                                   *)

LEMMA DeliveredStep ==
  ASSUME TypeOK, Delivered, Cancelled, BatchHasRoom, Next
  PROVE  Delivered'
  <1> USE ProducerAssumption
  <1>1. /\ batchBuffer \subseteq Message /\ batch \subseteq Message /\ abandoned \subseteq Message
        /\ handed \in [Message -> 0 .. 2] /\ accepted \in 0 .. MaxMessages
    BY DEF TypeOK
  <1>2. MessageInOnePlace /\ BufferIsNewest /\ BatchBeforeBuffer
    BY DEF Delivered
  <1>3. "kafka" \in cancelled => "kafka" \in cancelled'
    BY CancelledGrows
  <1>4. ASSUME UNCHANGED delivery PROVE Delivered'
    BY <1>3, <1>4 DEF delivery, Delivered, MessageInOnePlace, LostOnlyByStop, BufferIsNewest,
       BatchBeforeBuffer
  <1>5. ASSUME NEW s \in Sender, accepted < MaxMessages, Buffered(s),
               UNCHANGED <<batch, batcher, handed, abandoned>>
        PROVE  Delivered'
    <2>1. /\ accepted' = accepted + 1 /\ accepted + 1 \in Message
          /\ batchBuffer' = batchBuffer \cup {accepted + 1}
      BY <1>5, BufferedStep
    <2>2. MessageInOnePlace'
      <3>1. SUFFICES ASSUME NEW m \in Message
                     PROVE  Once(m \in batchBuffer') + Once(m \in batch) + Once(m \in abandoned)
                              + handed[m] = Once(m <= accepted + 1)
        BY <1>5, <2>1 DEF MessageInOnePlace
      <3>2. Once(m \in batchBuffer) + Once(m \in batch) + Once(m \in abandoned) + handed[m]
              = Once(m <= accepted)
        BY <1>2 DEF MessageInOnePlace
      <3>3. handed[m] \in 0 .. 2 /\ m \in Int
        BY <1>1 DEF Message
      <3>4. CASE m = accepted + 1
        <4>1. Once(m <= accepted) = 0 /\ Once(m <= accepted + 1) = 1 /\ m \in batchBuffer'
          BY <1>1, <2>1, <3>3, <3>4 DEF Once
        <4>2. /\ Once(m \in batchBuffer) \in {0, 1} /\ Once(m \in batch) \in {0, 1}
              /\ Once(m \in abandoned) \in {0, 1}
          BY DEF Once
        <4>3. /\ Once(m \in batch) = 0 /\ Once(m \in abandoned) = 0 /\ handed[m] = 0
          BY <3>2, <3>3, <4>1, <4>2
        <4>4. Once(m \in batchBuffer') = 1
          BY <4>1 DEF Once
        <4>5. QED
          BY <4>1, <4>3, <4>4
      <3>5. CASE m # accepted + 1
        <4>1. (m \in batchBuffer' <=> m \in batchBuffer) /\ (m <= accepted + 1 <=> m <= accepted)
          BY <1>1, <2>1, <3>3, <3>5
        <4>2. QED
          BY <3>2, <4>1 DEF Once
      <3>6. QED
        BY <3>4, <3>5
    <2>3. BufferIsNewest'
      BY <1>1, <1>2, <2>1 DEF BufferIsNewest, Message
    <2>4. BatchBeforeBuffer'
      BY <1>1, <1>2, <1>5, <2>1 DEF BatchBeforeBuffer, Message
    <2>5. LostOnlyByStop'
      BY <1>3, <1>5 DEF Delivered, LostOnlyByStop
    <2>6. QED
      BY <2>2, <2>3, <2>4, <2>5 DEF Delivered
  <1>6. CASE BatcherStep /\ UNCHANGED accepted
    <2>1. CASE TakeMessage
      <3>1. PICK m \in Message : /\ Least(m, batchBuffer)
                                /\ batchBuffer' = batchBuffer \ {m} /\ batch' = batch \cup {m}
        BY <2>1, Zenon DEF TakeMessage
      <3>2. UNCHANGED <<handed, abandoned>>
        BY <2>1, Zenon DEF TakeMessage
      <3>3. MessageInOnePlace'
        <4>1. SUFFICES ASSUME NEW n \in Message
                       PROVE  Once(n \in batchBuffer') + Once(n \in batch') + Once(n \in abandoned)
                                + handed[n] = Once(n <= accepted)
          BY <1>6, <3>2 DEF MessageInOnePlace
        <4>2. Once(n \in batchBuffer) + Once(n \in batch) + Once(n \in abandoned) + handed[n]
                = Once(n <= accepted)
          BY <1>2 DEF MessageInOnePlace
        <4>3. handed[n] \in 0 .. 2
          BY <1>1
        <4>4. CASE n = m
          <5>1. n \in batchBuffer /\ n \notin batchBuffer' /\ n \in batch'
            BY <3>1, <4>4 DEF Least
          <5>2. Once(n \in abandoned) \in {0, 1} /\ Once(n <= accepted) \in {0, 1}
            BY DEF Once
          <5>3. n \notin batch
            BY <4>2, <4>3, <5>1, <5>2 DEF Once
          <5>4. QED
            BY <4>2, <5>1, <5>3 DEF Once
        <4>5. CASE n # m
          <5>1. (n \in batchBuffer' <=> n \in batchBuffer) /\ (n \in batch' <=> n \in batch)
            BY <3>1, <4>5
          <5>2. QED
            BY <4>2, <5>1 DEF Once
        <4>6. QED
          BY <4>4, <4>5
      <3>4. BufferIsNewest'
        BY <1>1, <1>2, <1>6, <3>1 DEF BufferIsNewest, Message, Least
      <3>5. BatchBeforeBuffer'
        BY <1>1, <1>2, <1>6, <3>1 DEF BufferIsNewest, BatchBeforeBuffer, Message, Least
      <3>6. LostOnlyByStop'
        BY <1>3, <3>2 DEF Delivered, LostOnlyByStop
      <3>7. QED
        BY <3>3, <3>4, <3>5, <3>6 DEF Delivered
    <2>2. CASE Flush \/ BatcherStops \/ HandOverToClosed
      <3>1. UNCHANGED delivery
        BY <1>6, <2>2, Zenon
           DEF Flush, BatcherStops, HandOverToClosed, Panics, delivery, queue, batching
      <3>2. QED
        BY <1>4, <3>1
    <2>3. CASE HandOver
      <3>1. PICK m \in Message : /\ Least(m, batch) /\ batch' = batch \ {m}
                                /\ handed' = [handed EXCEPT ![m] = @ + 1]
        BY <2>3, Zenon DEF HandOver
      <3>2. UNCHANGED <<batchBuffer, abandoned>>
        BY <2>3, Zenon DEF HandOver
      <3>3. MessageInOnePlace'
        <4>1. SUFFICES ASSUME NEW n \in Message
                       PROVE  Once(n \in batchBuffer) + Once(n \in batch') + Once(n \in abandoned)
                                + handed'[n] = Once(n <= accepted)
          BY <1>6, <3>2 DEF MessageInOnePlace
        <4>2. Once(n \in batchBuffer) + Once(n \in batch) + Once(n \in abandoned) + handed[n]
                = Once(n <= accepted)
          BY <1>2 DEF MessageInOnePlace
        <4>3. /\ handed[n] \in 0 .. 2
              /\ handed'[n] = IF n = m THEN handed[n] + 1 ELSE handed[n]
          BY <1>1, <3>1
        <4>4. CASE n = m
          <5>1. n \in batch /\ n \notin batch' /\ handed'[n] = handed[n] + 1
            BY <3>1, <4>3, <4>4 DEF Least
          <5>2. Once(n \in batch) = 1 /\ Once(n \in batch') = 0
            BY <5>1 DEF Once
          <5>3. Once(n \in batchBuffer) \in {0, 1} /\ Once(n \in abandoned) \in {0, 1}
            BY DEF Once
          <5>4. QED
            BY <4>2, <4>3, <5>1, <5>2, <5>3
        <4>5. CASE n # m
          <5>1. (n \in batch' <=> n \in batch) /\ handed'[n] = handed[n]
            BY <3>1, <4>3, <4>5
          <5>2. QED
            BY <4>2, <5>1 DEF Once
        <4>6. QED
          BY <4>4, <4>5
      <3>4. BufferIsNewest'
        BY <1>2, <1>6, <3>2 DEF BufferIsNewest
      <3>5. BatchBeforeBuffer'
        BY <1>1, <1>2, <1>6, <3>1, <3>2 DEF BatchBeforeBuffer, Message, Least
      <3>6. LostOnlyByStop'
        BY <1>3, <3>2 DEF Delivered, LostOnlyByStop
      <3>7. QED
        BY <3>3, <3>4, <3>5, <3>6 DEF Delivered
    <2>4. CASE AbandonBatch
      <3>1. /\ batch' = {} /\ abandoned' = abandoned \cup batch
            /\ UNCHANGED <<batchBuffer, handed>> /\ "kafka" \in cancelled
        BY <2>4, Zenon DEF AbandonBatch
      <3>2. MessageInOnePlace'
        <4>1. SUFFICES ASSUME NEW n \in Message
                       PROVE  Once(n \in batchBuffer) + Once(n \in batch') + Once(n \in abandoned')
                                + handed[n] = Once(n <= accepted)
          BY <1>6, <3>1 DEF MessageInOnePlace
        <4>2. Once(n \in batchBuffer) + Once(n \in batch) + Once(n \in abandoned) + handed[n]
                = Once(n <= accepted)
          BY <1>2 DEF MessageInOnePlace
        <4>3. handed[n] \in 0 .. 2
          BY <1>1
        <4>4. CASE n \in batch
          <5>1. n \notin batch' /\ n \in abandoned'
            BY <3>1, <4>4
          <5>2. Once(n \in batchBuffer) \in {0, 1} /\ Once(n <= accepted) \in {0, 1}
            BY DEF Once
          <5>3. n \notin abandoned
            BY <4>2, <4>3, <4>4, <5>2 DEF Once
          <5>4. QED
            BY <4>2, <4>3, <4>4, <5>1, <5>2, <5>3 DEF Once
        <4>5. CASE n \notin batch
          <5>1. n \notin batch' /\ (n \in abandoned' <=> n \in abandoned)
            BY <3>1, <4>5
          <5>2. QED
            BY <4>2, <4>5, <5>1 DEF Once
        <4>6. QED
          BY <4>4, <4>5
      <3>3. BufferIsNewest' /\ BatchBeforeBuffer'
        BY <1>2, <1>6, <3>1 DEF BufferIsNewest, BatchBeforeBuffer
      <3>4. LostOnlyByStop'
        BY <1>3, <3>1 DEF LostOnlyByStop
      <3>5. QED
        BY <3>2, <3>3, <3>4 DEF Delivered
    <2>5. QED
      BY <1>6, <2>1, <2>2, <2>3, <2>4, Zenon DEF BatcherStep
  <1>7. QED
    BY <1>4, <1>5, <1>6, DeliveryFrame, Zenon DEF delivery

-----------------------------------------------------------------------------
(* The order of Stop.                                                      *)

LEMMA StoppingFacts ==
  ASSUME Stopping
  PROVE  /\ stage # "stopped"
         /\ stage' \in AfterHealth => stage \in AfterHealth \/ "health" \in cancelled'
         /\ "pool" \in cancelled' => "pool" \in cancelled \/ stage = "pool"
         /\ stage' \in AfterBatcher =>
              stage \in AfterBatcher \/ (batcher = "gone" /\ \A h \in Loops : handler[h] = "gone")
         /\ stage' \in {"workers", "kafka", "close", "pool"} =>
              stage \in {"workers", "kafka", "close", "pool"} \/ generator = "gone"
         /\ "kafka" \in cancelled' =>
              "kafka" \in cancelled
                \/ (stage = "workers" /\ \A w \in Worker : sender[w] = "gone")
         /\ open' = open \/ (stage = "close" /\ stage' = "pool")
         /\ (connected /\ ~open /\ stage \in {"pool", "stopped"}) =>
              stage' \in {"pool", "stopped"}
         /\ \/ panic' = panic
            \/ panic' = "closed pool" /\ "pool" \in cancelled
            \/ stage = "close" /\ connected /\ ~open
  <1> USE DEF service, producer, AfterHealth, AfterBatcher
  <1>1. CASE StopBegin
    BY <1>1 DEF StopBegin, StopAt
  <1>2. CASE MonitorWait
    BY <1>2 DEF MonitorWait, StopAt
  <1>3. CASE StopHealth
    BY <1>3 DEF StopHealth, StopAt
  <1>4. CASE StopSimulator
    BY <1>4 DEF StopSimulator, StopAt
  <1>5. CASE GeneratorWait
    BY <1>5 DEF GeneratorWait, StopAt
  <1>6. CASE WorkersWait
    BY <1>6 DEF WorkersWait, StopAt
  <1>7. CASE KafkaWait
    BY <1>7 DEF KafkaWait, StopAt
  <1>8. CASE CloseProducer
    BY <1>8 DEF CloseProducer, StopAt
  <1>9. CASE StopPool
    BY <1>9 DEF StopPool, StopAt
  <1>10. CASE CloseTwice
    BY <1>10 DEF CloseTwice, Panics
  <1>11. CASE StopPoolTwice
    BY <1>11 DEF StopPoolTwice, Panics
  <1>12. QED
    BY <1>1, <1>2, <1>3, <1>4, <1>5, <1>6, <1>7, <1>8, <1>9, <1>10, <1>11, Zenon
       DEF Stopping, StopStep

LEMMA HouseFacts ==
  ASSUME Monitoring \/ Health
  PROVE  panic' = panic \/ (panic' = "closed pool" /\ "pool" \in cancelled)
  <1>1. ASSUME NEW from, NEW to, HealthAt(from, to) \/ MonitorAt(from, to) PROVE panic' = panic
    BY <1>1, Zenon DEF HealthAt, MonitorAt
  <1>2. CASE Monitoring
    BY <1>1, <1>2, Zenon DEF Monitoring, MonitorTick, GetMetrics, GetStatus, MonitorEnds
  <1>3. CASE Health
    BY <1>1, <1>3, Zenon DEF Health, HealthTick, HealthStep, CheckPool, GetConnection,
       ReturnConnection, CheckRest, HealthEnds, Panics
  <1>4. QED
    BY <1>2, <1>3, Zenon

LEMMA GeneratingFacts == Generating => generator # "gone"
  BY DEF Generating, GeneratorTick, Snapshot, QueueTask, GeneratorEnds, GeneratorAt

LEMMA SendingFacts ==
  ASSUME Senders, Sending, NEW w \in Worker, sender[w] = "gone"
  PROVE  sender'[w] = "gone"
  <1>1. w \in Sender /\ sender \in [Sender -> {"gone", "idle", "check", "buffer"}]
    BY DEF Sender, Senders
  <1>2. ASSUME NEW v \in Worker, WorkerTakes(v) \/ WorkerEnds(v) PROVE sender'[w] = "gone"
    BY <1>1, <1>2 DEF WorkerTakes, WorkerEnds
  <1>3. ASSUME NEW c \in Caller, CallerBegins(c) PROVE sender'[w] = "gone"
    BY <1>1, <1>3 DEF CallerBegins
  <1>4. ASSUME NEW s \in Sender, SenderStep(s) PROVE sender'[w] = "gone"
    <2>1. sender[s] # "gone"
      BY <1>4 DEF SenderStep, SendCheck, SendMessage
    <2>2. sender'[w] = sender[w]
      BY <1>1, <1>4, <2>1 DEF SenderStep, SendCheck, SendMessage, Returns, Buffered
    <2>3. QED
      BY <2>2
  <1>5. QED
    BY <1>2, <1>3, <1>4, Zenon DEF Sending

LEMMA DeliveringFacts ==
  ASSUME Senders, Delivering
  PROVE  /\ batcher = "gone" => batcher' = "gone"
         /\ \A h \in Loops : handler[h] = "gone" => handler'[h] = "gone"
         /\ \/ panic' = panic
            \/ ~open /\ (batcher # "gone" \/ handler["successes"] # "gone")
  <1> USE DEF service, producer, house, simulator, senders, queue, batching, outside
  <1>1. ASSUME NEW h \in Loops, HandlerEnds(h)
        PROVE  /\ batcher' = batcher /\ panic' = panic
               /\ \A g \in Loops : handler[g] = "gone" => handler'[g] = "gone"
    BY <1>1 DEF HandlerEnds, Senders
  <1>2. CASE BatcherStep
    <2>1. batcher # "gone" /\ handler' = handler
      BY <1>2 DEF BatcherStep, TakeMessage, Flush, BatcherStops, HandOver, HandOverToClosed,
         AbandonBatch, Panics
    <2>2. panic' = panic \/ ~open
      BY <1>2, Zenon DEF BatcherStep, TakeMessage, Flush, BatcherStops, HandOver,
         HandOverToClosed, AbandonBatch
    <2>3. QED
      BY <2>1, <2>2
  <1>3. CASE SuccessIsNil
    BY <1>3 DEF SuccessIsNil, Panics
  <1>4. QED
    BY <1>1, <1>2, <1>3 DEF Delivering

LEMMA CancelledStep ==
  ASSUME TypeOK, Cancelled, Next
  PROVE  Cancelled'
  <1> USE DEF service, producer, house, simulator, senders, queue, batching
  <1>1. Senders /\ starts \in Nat
    BY TypeParts, ProducerAssumption DEF Counts
  <1>2. CASE Start
    <2>1. /\ starts' = starts + 1 /\ stage' = "up" /\ cancelled' = cancelled
      BY <1>2, Zenon DEF Start
    <2>2. QED
      BY <1>1, <2>1 DEF Cancelled, AfterHealth, AfterBatcher
  <1>3. CASE StartFails
    <2>1. /\ starts' = starts + 1 /\ UNCHANGED <<stage, cancelled, batcher, handler>>
      BY <1>3, Zenon DEF StartFails
    <2>2. QED
      BY <1>1, <2>1 DEF Cancelled, AfterHealth, AfterBatcher
  <1>4. CASE Stopping
    <2>1. UNCHANGED <<starts, batcher, handler>> /\ starts # 0
      BY <1>4, StoppingFrame, StoppingFacts DEF Cancelled
    <2>2. "health" \in cancelled => "health" \in cancelled'
      BY CancelledGrows
    <2>3. stage' \in AfterHealth => "health" \in cancelled'
      BY <1>4, <2>2, StoppingFacts DEF Cancelled
    <2>4. "pool" \in cancelled' => "health" \in cancelled'
      BY <1>4, <2>2, StoppingFacts DEF Cancelled, AfterHealth
    <2>5. stage' \in AfterBatcher => batcher' = "gone" /\ \A h \in Loops : handler'[h] = "gone"
      BY <1>4, <2>1, StoppingFacts DEF Cancelled
    <2>6. QED
      BY <2>1, <2>3, <2>4, <2>5 DEF Cancelled
  <1>5. CASE Monitoring \/ Health
    <2>1. UNCHANGED <<starts, stage, cancelled, connected, generator, batcher, handler>>
      BY <1>5, HouseFrame, Zenon
    <2>2. starts = 0 => panic' = "none"
      BY <1>5, HouseFacts DEF Cancelled
    <2>3. QED
      BY <2>1, <2>2 DEF Cancelled
  <1>6. CASE Generating
    <2>1. UNCHANGED <<starts, stage, cancelled, connected, batcher, handler, panic>>
      BY <1>6, GeneratingFrame, Zenon
    <2>2. starts # 0
      BY <1>6, GeneratingFacts DEF Cancelled
    <2>3. QED
      BY <2>1, <2>2 DEF Cancelled
  <1>7. CASE Sending
    <2>1. UNCHANGED <<starts, stage, cancelled, connected, generator, batcher, handler, panic>>
      BY <1>7, SendingFrame, Zenon DEF elsewhere
    <2>2. QED
      BY <2>1 DEF Cancelled
  <1>8. CASE Delivering
    <2>1. UNCHANGED <<starts, stage, cancelled, connected, generator>>
      BY <1>8, DeliveringFrame, Zenon
    <2>2. stage \in AfterBatcher =>
            batcher' = "gone" /\ (\A h \in Loops : handler'[h] = "gone") /\ panic' = panic
      BY <1>1, <1>8, DeliveringFacts DEF Cancelled, Loops
    <2>3. starts = 0 => panic' = "none"
      BY <2>2 DEF Cancelled, AfterBatcher
    <2>4. QED
      BY <2>1, <2>2, <2>3 DEF Cancelled
  <1>9. QED
    BY <1>2, <1>3, <1>4, <1>5, <1>6, <1>7, <1>8, Processes, Zenon DEF Starting

\* The parts of FirstRun that no panic is about, and the panics themselves.
LEMMA FirstRunStep ==
  ASSUME TypeOK, Cancelled, FirstRun, Next
  PROVE  FirstRun'
  <1> USE DEF service, producer, house, simulator, senders, queue, batching
  <1>1. /\ Senders /\ starts \in Nat /\ panic = "none"
        /\ "health" \in cancelled => "health" \in cancelled'
    BY TypeParts, ProducerAssumption, Processes, CancelledGrows DEF Counts
  <1>2. CASE Starting
    <2>1. starts' = starts + 1 /\ cancelled' = cancelled /\ panic' = panic
      BY <1>2, Zenon DEF Starting, Start, StartFails
    <2>2. CASE starts # 0
      BY <1>1, <2>1, <2>2 DEF FirstRun
    <2>3. CASE starts = 0
      <3>1. /\ stage = "stopped" /\ cancelled' = {} /\ ~connected /\ panic' = "none"
            /\ batcher = "gone" /\ handler["successes"] = "gone"
        BY <2>1, <2>3 DEF Cancelled, AfterBatcher, Loops
      <3>2. CASE StartFails
        <4>1. UNCHANGED <<stage, connected, open, batcher, handler>>
          BY <3>2, Zenon DEF StartFails
        <4>2. QED
          BY <3>1, <4>1 DEF FirstRun, FirstRunPanics
      <3>3. CASE Start
        <4>1. /\ stage' = "up"
              /\ (connected' = TRUE /\ open' = TRUE)
                   \/ (~connected' /\ batcher' = "gone" /\ handler'["successes"] = "gone")
          <5>1. CASE connected' = TRUE /\ open' = (IF connected THEN open ELSE TRUE)
            BY <3>1, <3>3, <5>1 DEF Start
          <5>2. CASE ~connected /\ UNCHANGED <<connected, open>>
            <6>1. ~connected' /\ stage' = "up"
              BY <3>3, <5>2, Zenon DEF Start
            <6>2. /\ batcher' = IF connected' THEN "select" ELSE "gone"
                  /\ handler' = [h \in Loops |-> IF connected' THEN "running" ELSE "gone"]
              BY <3>3, Zenon DEF Start
            <6>3. QED
              BY <6>1, <6>2 DEF Loops
          <5>3. QED
            BY <3>3, <5>1, <5>2, Zenon DEF Start
        <4>2. QED
          BY <3>1, <4>1 DEF FirstRun, FirstRunPanics
      <3>4. QED
        BY <1>2, <3>2, <3>3, Zenon DEF Starting
    <2>4. QED
      BY <2>2, <2>3
  <1>3. CASE Stopping
    <2>1. UNCHANGED <<starts, connected, generator, sender, batcher, handler>>
      BY <1>3, StoppingFrame, Zenon
    <2> SUFFICES ASSUME starts = 1 PROVE FirstRun'
      BY <2>1 DEF FirstRun
    <2>2. /\ stage' \in {"workers", "kafka", "close", "pool"} => generator' = "gone"
          /\ "kafka" \in cancelled' =>
               generator' = "gone" /\ \A w \in Worker : sender'[w] = "gone"
      BY <1>3, <2>1, StoppingFacts DEF FirstRun
    <2>3. batcher' # "gone" \/ handler'["successes"] # "gone" => open'
      BY <1>3, <2>1, StoppingFacts DEF FirstRun, Cancelled, AfterBatcher, Loops
    <2>4. connected' /\ ~open' => stage' \in {"pool", "stopped"}
      BY <1>3, <2>1, StoppingFacts DEF FirstRun
    <2>5. panic' # "none" => panic' = "closed pool" /\ "health" \in cancelled'
      BY <1>1, <1>3, StoppingFacts DEF FirstRun, Cancelled
    <2>6. QED
      BY <2>2, <2>3, <2>4, <2>5 DEF FirstRun, FirstRunPanics
  <1>4. CASE Monitoring \/ Health
    <2>1. UNCHANGED <<starts, stage, cancelled, connected, open, generator, sender, batcher, handler>>
      BY <1>4, HouseFrame, Zenon
    <2>2. panic' # "none" => panic' = "closed pool" /\ "health" \in cancelled'
      BY <1>1, <1>4, HouseFacts DEF Cancelled
    <2>3. QED
      BY <2>1, <2>2 DEF FirstRun, FirstRunPanics
  <1>5. CASE Generating
    <2>1. UNCHANGED <<starts, stage, cancelled, connected, open, sender, batcher, handler, panic>>
      BY <1>5, GeneratingFrame, Zenon
    <2>2. QED
      BY <1>5, <2>1, GeneratingFacts DEF FirstRun, FirstRunPanics
  <1>6. CASE Sending
    <2>1. UNCHANGED <<starts, stage, cancelled, connected, open, generator, batcher, handler, panic>>
      BY <1>6, SendingFrame, Zenon DEF elsewhere
    <2>2. \A w \in Worker : sender[w] = "gone" => sender'[w] = "gone"
      BY <1>1, <1>6, SendingFacts
    <2>3. QED
      BY <2>1, <2>2 DEF FirstRun, FirstRunPanics
  <1>7. CASE Delivering
    <2>1. UNCHANGED <<starts, stage, cancelled, connected, open, generator, sender>>
      BY <1>7, DeliveringFrame, Zenon
    <2>2. starts = 1 => panic' = panic
      BY <1>1, <1>7, DeliveringFacts DEF FirstRun
    <2>3. starts = 1 => (batcher' # "gone" \/ handler'["successes"] # "gone" => open)
      BY <1>1, <1>7, DeliveringFacts DEF FirstRun, Loops
    <2>4. QED
      BY <2>1, <2>2, <2>3 DEF FirstRun, FirstRunPanics
  <1>8. QED
    BY <1>2, <1>3, <1>4, <1>5, <1>6, <1>7, Processes, Zenon

-----------------------------------------------------------------------------
(* The theorems.                                                           *)

LEMMA InvStep == IInv /\ [Next]_vars => IInv'
  <1>1. ASSUME IInv, Next PROVE IInv'
    <2>1. TypeOK /\ BatchHasRoom /\ Delivered /\ Cancelled /\ FirstRun
      BY <1>1 DEF IInv
    <2>2. Flags' /\ Places' /\ Counts' /\ Senders'
      BY <1>1, <2>1, TypeParts, FlagTypes, PlaceTypes, CountTypes, SenderTypes
    <2>3. Sets' /\ BatchHasRoom'
      BY <1>1, <2>1, SetTypes DEF Delivered
    <2>4. TypeOK'
      BY <2>2, <2>3, Zenon DEF TypeOK, Flags, Places, Counts, Senders, Sets
    <2>5. Delivered' /\ Cancelled' /\ FirstRun'
      BY <1>1, <2>1, DeliveredStep, CancelledStep, FirstRunStep
    <2>6. QED
      BY <2>3, <2>4, <2>5 DEF IInv
  <1>2. ASSUME IInv, UNCHANGED vars PROVE IInv'
    <2>a. /\ UNCHANGED <<starts, stage, cancelled, poolRunning, kafkaRunning, connected, open>>
          /\ UNCHANGED <<monitor, health, generator, todo, taskQueue, sender, left>>
          /\ UNCHANGED <<accepted, batchBuffer, batch, batcher, handler, handed, abandoned, panic>>
      BY <1>2, Zenon DEF vars, service, producer, house, simulator, senders, queue, batching
    <2>1. TypeOK'
      <3>1. Flags /\ Places /\ Counts /\ Senders /\ Sets
        BY <1>2, TypeParts DEF IInv
      <3>2. Flags'
        BY <2>a, <3>1, Zenon DEF Flags
      <3>3. Places'
        <4>1. /\ stage' = stage /\ cancelled' = cancelled /\ monitor' = monitor /\ health' = health
              /\ generator' = generator /\ batcher' = batcher /\ panic' = panic
          BY <2>a, Zenon
        <4>2. Places
          BY <3>1
        <4>3. stage' \in {"stopped", "up", "monitor", "health", "simulator", "generator",
                         "workers", "kafka", "close", "pool"}
          BY <4>1, <4>2 DEF Places
        <4>4. cancelled' \subseteq {"service", "health", "simulator", "workers", "kafka", "pool"}
          BY <4>1, <4>2 DEF Places
        <4>5. /\ monitor' \in {"gone", "select", "metrics", "status"}
              /\ health' \in {"gone", "select", "begin", "get", "hold", "return", "rest"}
          BY <4>1, <4>2 DEF Places
        <4>6. /\ generator' \in {"gone", "select", "snapshot", "queueing"}
              /\ batcher' \in {"gone", "select", "sending", "draining"}
              /\ panic' \in {"none", "closed input", "nil success", "closed pool"}
          BY <4>1, <4>2 DEF Places
        <4>7. QED
          BY <4>3, <4>4, <4>5, <4>6, Zenon DEF Places
      <3>4. Counts' /\ Senders'
        BY <2>a, <3>1, Zenon DEF Counts, Senders
      <3>5. Sets'
        BY <2>a, <3>1 DEF Sets
      <3>6. QED
        BY <3>2, <3>3, <3>4, <3>5, Zenon DEF TypeOK, Flags, Places, Counts, Senders, Sets
    <2>2. BatchHasRoom' /\ Cancelled'
      BY <1>2, <2>a DEF IInv, BatchHasRoom, Cancelled
    <2>3. FirstRun'
      BY <1>2, <2>a DEF IInv, FirstRun, FirstRunPanics
    <2>4. Delivered'
      BY <1>2, <2>a
         DEF IInv, Delivered, MessageInOnePlace, LostOnlyByStop, BufferIsNewest, BatchBeforeBuffer
    <2>5. QED
      BY <2>1, <2>2, <2>3, <2>4 DEF IInv
  <1>3. QED
    BY <1>1, <1>2

\* What sarama has is older than the batch and the channel, and is not missing
\* anything that was not abandoned.
LEMMA OrderFollows == IInv => SentInOrder
  <1> SUFFICES ASSUME IInv, NEW m \in Message, NEW n \in Message, m < n, handed[n] > 0
               PROVE  handed[m] > 0 \/ m \in abandoned
    BY DEF SentInOrder
  <1>1. /\ MessageInOnePlace /\ BufferIsNewest /\ BatchBeforeBuffer
        /\ handed[m] \in 0 .. 2 /\ handed[n] \in 0 .. 2 /\ accepted \in Int
        /\ m \in Int /\ n \in Int
    <2>1. handed \in [Message -> 0 .. 2] /\ accepted \in 0 .. MaxMessages
      BY DEF IInv, TypeOK
    <2>2. m \in Int /\ n \in Int /\ accepted \in Int
      BY <2>1, ProducerAssumption DEF Message
    <2>3. QED
      BY <2>1, <2>2 DEF IInv, Delivered
  <1>2. /\ Once(m \in batchBuffer) + Once(m \in batch) + Once(m \in abandoned) + handed[m]
             = Once(m <= accepted)
        /\ Once(n \in batchBuffer) + Once(n \in batch) + Once(n \in abandoned) + handed[n]
             = Once(n <= accepted)
    BY <1>1 DEF MessageInOnePlace
  <1>3. n <= accepted /\ n \notin batchBuffer /\ n \notin batch
    <2>1. /\ Once(n \in batchBuffer) \in {0, 1} /\ Once(n \in batch) \in {0, 1}
          /\ Once(n \in abandoned) \in {0, 1} /\ Once(n <= accepted) \in {0, 1}
      BY DEF Once
    <2>2. Once(n <= accepted) = 1 /\ Once(n \in batchBuffer) = 0 /\ Once(n \in batch) = 0
      BY <1>1, <1>2, <2>1
    <2>3. QED
      BY <2>2 DEF Once
  <1>4. m \notin batchBuffer /\ m \notin batch /\ m <= accepted
    BY <1>1, <1>3 DEF BufferIsNewest, BatchBeforeBuffer
  <1>5. Once(m \in batchBuffer) = 0 /\ Once(m \in batch) = 0 /\ Once(m <= accepted) = 1
    BY <1>4 DEF Once
  <1>6. QED
    BY <1>1, <1>2, <1>5 DEF Once

LEMMA Invariant == Spec => []IInv
  BY InvInit, InvStep, PTL DEF Spec

\* Every variable keeps its type, and neither batchBuffer nor the batch grows
\* past its capacity, whatever the numbers of workers, callers and restarts.
THEOREM TypesCorrect == Spec => []TypeOK
  <1>1. IInv => TypeOK
    BY DEF IInv
  <1>2. QED
    BY Invariant, <1>1, PTL

\* batchProcessor and sendBatch never duplicate a message and lose none but
\* those sendBatch gives up, for every size of buffer and batch.
THEOREM OnePlace == Spec => []MessageInOnePlace
  <1>1. IInv => MessageInOnePlace
    BY DEF IInv, Delivered
  <1>2. QED
    BY Invariant, <1>1, PTL

\* sendBatch gives messages up only once kp.cancel was called.
THEOREM LossNeedsStop == Spec => []LostOnlyByStop
  <1>1. IInv => LostOnlyByStop
    BY DEF IInv, Delivered
  <1>2. QED
    BY Invariant, <1>1, PTL

\* Messages reach sarama in the order SendMessage accepted them, however many
\* goroutines call it.
THEOREM InOrder == Spec => []SentInOrder
  BY Invariant, OrderFollows, PTL

\* When kp.cancel is called in the first run, no simulator goroutine is left.
THEOREM SimulatorFirst == Spec => []SimulatorStopsFirst
  <1>1. IInv => SimulatorStopsFirst
    BY DEF IInv, FirstRun, SimulatorStopsFirst
  <1>2. QED
    BY Invariant, <1>1, PTL

\* In the first run only a health check that outlives healthChecker.Stop panics.
THEOREM PanicsOfFirstRun == Spec => []FirstRunPanics
  <1>1. IInv => FirstRunPanics
    <2> SUFFICES ASSUME IInv PROVE FirstRunPanics
      OBVIOUS
    <2>1. CASE starts = 1
      BY <2>1 DEF IInv, FirstRun
    <2>2. CASE starts # 1
      BY <2>2 DEF FirstRunPanics
    <2>3. QED
      BY <2>1, <2>2
  <1>2. QED
    BY Invariant, <1>1, PTL

\* What SendMessage accepted reaches sarama once and in order, if at all.
THEOREM DeliveredOnceInOrder == Spec => []OnceAndInOrder
  <1>1. MessageInOnePlace /\ SentInOrder => OnceAndInOrder
    BY DEF OnceAndInOrder
  <1>2. QED
    BY <1>1, OnePlace, InOrder, PTL

\* Before a restart, Stop takes the service down in order.
THEOREM OrderlyFirstRun == Spec => []FirstRunIsOrderly
  <1>1. SimulatorStopsFirst /\ FirstRunPanics => FirstRunIsOrderly
    BY DEF FirstRunIsOrderly
  <1>2. QED
    BY <1>1, SimulatorFirst, PanicsOfFirstRun, PTL

-----------------------------------------------------------------------------
(* The promise of MessageDelivery.                                        *)
\* The places of a message tell its status.
StatusByPlace ==
  \A m \in Message :
    /\ m \in abandoned => MessageStatus(m) = "lost"
    /\ m \in batchBuffer \cup batch => MessageStatus(m) = "accepted"
    /\ m <= accepted /\ m \notin batchBuffer \cup batch \cup abandoned => MessageStatus(m) = "sent"
    /\ m > accepted => MessageStatus(m) = "new"

LEMMA StatusIsPlace ==
  ASSUME IInv, NEW m \in Message
  PROVE  /\ m \in abandoned => MessageStatus(m) = "lost"
         /\ m \in batchBuffer \cup batch => MessageStatus(m) = "accepted"
         /\ m <= accepted /\ m \notin batchBuffer \cup batch \cup abandoned
              => MessageStatus(m) = "sent"
         /\ m > accepted => MessageStatus(m) = "new"
         /\ m \in batch => m \notin batchBuffer /\ m \notin abandoned
         /\ m \in batchBuffer => m \notin abandoned
         /\ m \in batchBuffer \cup batch \cup abandoned => m <= accepted
  <1>1. Once(m \in batchBuffer) + Once(m \in batch) + Once(m \in abandoned) + handed[m]
          = Once(m <= accepted)
    BY DEF IInv, Delivered, MessageInOnePlace
  <1>2. handed[m] \in 0 .. 2 /\ accepted \in Int /\ m \in Int
    <2>1. handed \in [Message -> 0 .. 2] /\ accepted \in 0 .. MaxMessages
      BY DEF IInv, TypeOK
    <2>2. QED
      BY <2>1, ProducerAssumption DEF Message
  <1>3. /\ Once(m \in batchBuffer) \in {0, 1} /\ Once(m \in batch) \in {0, 1}
        /\ Once(m \in abandoned) \in {0, 1}
    BY DEF Once
  <1>4. /\ m \in batchBuffer <=> Once(m \in batchBuffer) = 1
        /\ m \in batch <=> Once(m \in batch) = 1
        /\ m \in abandoned <=> Once(m \in abandoned) = 1
        /\ m > accepted => Once(m <= accepted) = 0
        /\ m <= accepted => Once(m <= accepted) = 1
    BY <1>2 DEF Once
  <1>5. CASE m > accepted
    <2>1. m \notin batchBuffer \cup batch \cup abandoned
      BY <1>1, <1>2, <1>3, <1>4, <1>5
    <2>2. QED
      BY <1>2, <1>5, <2>1 DEF MessageStatus
  <1>6. CASE m <= accepted
    <2>1. m \in batchBuffer => m \notin batch /\ m \notin abandoned /\ handed[m] = 0
      BY <1>1, <1>2, <1>3, <1>4, <1>6
    <2>2. m \in batch => m \notin abandoned /\ handed[m] = 0
      BY <1>1, <1>2, <1>3, <1>4, <1>6
    <2>3. m \notin batchBuffer \cup batch \cup abandoned => handed[m] = 1
      BY <1>1, <1>2, <1>3, <1>4, <1>6
    <2>4. QED
      BY <1>2, <1>6, <2>1, <2>2, <2>3 DEF MessageStatus
  <1>7. QED
    BY <1>2, <1>5, <1>6

LEMMA StatusFollows == IInv => StatusByPlace
  BY StatusIsPlace DEF StatusByPlace

State == [m \in Message |-> MessageStatus(m)]

LEMMA DeliveryInit == Init => Delivery!Init
  <1> SUFFICES ASSUME Init PROVE Delivery!Init
    OBVIOUS
  <1>1. \A m \in Message : MessageStatus(m) = "new"
    BY ProducerAssumption DEF Init, MessageStatus, Message
  <1>2. QED
    BY <1>1 DEF Init, Delivery!Init

LEMMA DeliveryStep == IInv /\ IInv' /\ [Next]_vars => [Delivery!Next]_(Delivery!vars)
  <1> SUFFICES ASSUME IInv, IInv', [Next]_vars PROVE [Delivery!Next]_(Delivery!vars)
    OBVIOUS
  <1>s. /\ StatusByPlace
        /\ batch \cap (batchBuffer \cup abandoned) = {} /\ batchBuffer \cap abandoned = {}
        /\ \A m \in batchBuffer \cup batch \cup abandoned : m <= accepted
    <2>1. batchBuffer \subseteq Message /\ batch \subseteq Message /\ abandoned \subseteq Message
      BY DEF IInv, TypeOK
    <2>2. QED
      BY <2>1, StatusIsPlace, StatusFollows
  <1>p. StatusByPlace'
    BY StatusFollows, PTL
  <1>t. /\ batchBuffer \subseteq Message /\ batch \subseteq Message /\ accepted \in 0 .. MaxMessages
        /\ State = [m \in Message |-> State[m]] /\ State' = [m \in Message |-> State'[m]]
        /\ \A m \in Message : State[m] = MessageStatus(m) /\ State'[m] = MessageStatus(m)'
    BY DEF State, IInv, TypeOK
  <1>k. "kafka" \in cancelled => "kafka" \in cancelled'
    BY CancelledGrows DEF vars, service
  <1>1. ASSUME State' = State PROVE [Delivery!Next]_(Delivery!vars)
    <2>1. CASE "kafka" \in cancelled'
      BY <1>1, <2>1 DEF State, Delivery!Next, Delivery!Close
    <2>2. CASE "kafka" \notin cancelled' /\ "kafka" \notin cancelled
      BY <1>1, <2>2 DEF State, Delivery!vars
    <2>3. QED
      BY <1>k, <2>1, <2>2
  <1>2. CASE UNCHANGED <<accepted, batchBuffer, batch, handed, abandoned>>
    <2>1. State' = State
      BY <1>2 DEF State, MessageStatus
    <2>2. QED
      BY <1>1, <2>1
  <1>3. ASSUME NEW s \in Sender, accepted < MaxMessages, Buffered(s),
               UNCHANGED <<batch, batcher, handed, abandoned>>
        PROVE  Delivery!Next
    <2> DEFINE m == accepted + 1
    <2>1. m \in Message /\ accepted' = m /\ batchBuffer' = batchBuffer \cup {m}
      BY <1>3, BufferedStep DEF IInv
    <2>2. m \notin batchBuffer \cup batch \cup abandoned
      BY <1>s, <1>t
    <2>3. State[m] = "new" /\ State'[m] = "accepted"
      BY <1>s, <1>p, <1>t, <2>1 DEF StatusByPlace
    <2>4. ASSUME NEW n \in Message, n # m PROVE State'[n] = State[n]
      <3>1. n \in Int /\ (n <= accepted' <=> n <= accepted) /\ (n > accepted' <=> n > accepted)
        BY <1>t, <2>1, <2>4, ProducerAssumption DEF Message
      <3>2. MessageStatus(n)' = MessageStatus(n)
        BY <1>3, <3>1 DEF MessageStatus
      <3>3. QED
        BY <1>t, <3>2
    <2>5. State' = [State EXCEPT ![m] = "accepted"]
      BY <1>t, <2>3, <2>4
    <2>6. cancelled' = cancelled
      BY <1>3, Zenon DEF Buffered, elsewhere, service
    <2> HIDE DEF m
    <2>7. Delivery!Accept(m)
      BY <2>1, <2>3, <2>5, <2>6 DEF Delivery!Accept, Delivery!Move, State
    <2>8. QED
      BY <2>1, <2>7 DEF Delivery!Next
  <1>4. CASE BatcherStep /\ accepted' = accepted
    <2>1. CASE TakeMessage
      <3>1. PICK m \in Message : /\ Least(m, batchBuffer)
                                /\ batchBuffer' = batchBuffer \ {m} /\ batch' = batch \cup {m}
        BY <2>1, Zenon DEF TakeMessage
      <3>2. UNCHANGED <<handed, abandoned>>
        BY <2>1, Zenon DEF TakeMessage
      <3>3. State' = State
        BY <1>4, <3>2 DEF State, MessageStatus
      <3>4. QED
        BY <1>1, <3>3
    <2>2. CASE Flush \/ BatcherStops \/ HandOverToClosed
      <3>1. UNCHANGED <<accepted, batchBuffer, batch, handed, abandoned>>
        BY <2>2, <1>4, Zenon DEF Flush, BatcherStops, HandOverToClosed, Panics, queue, batching
      <3>2. QED
        BY <1>2, <3>1
    <2>3. CASE HandOver
      <3>1. PICK m \in Message : Least(m, batch) /\ batch' = batch \ {m}
        BY <2>3, Zenon DEF HandOver
      <3>2. UNCHANGED <<batchBuffer, abandoned, cancelled>>
        BY <2>3, Zenon DEF HandOver, outside, service
      <3>3. m \in batch /\ m <= accepted
        BY <1>s, <3>1 DEF Least
      <3>4. State[m] = "accepted" /\ State'[m] = "sent"
        BY <1>s, <1>p, <1>t, <1>4, <3>1, <3>2, <3>3 DEF StatusByPlace
      <3>5. ASSUME NEW n \in Message, n # m PROVE State'[n] = State[n]
        <4>1. n <= accepted \/ n > accepted
          BY <1>t, ProducerAssumption DEF Message
        <4>2. QED
          BY <1>s, <1>p, <1>t, <1>4, <3>1, <3>2, <3>5, <4>1 DEF StatusByPlace
      <3>6. State' = [State EXCEPT ![m] = "sent"]
        BY <1>t, <3>4, <3>5
      <3>7. Delivery!Deliver(m)
        BY <3>2, <3>4, <3>6 DEF Delivery!Deliver, Delivery!Move, State
      <3>8. QED
        BY <3>7 DEF Delivery!Next
    <2>4. CASE AbandonBatch
      <3>1. /\ batch' = {} /\ abandoned' = abandoned \cup batch
            /\ UNCHANGED <<batchBuffer, handed, cancelled>> /\ "kafka" \in cancelled
        BY <2>4, Zenon DEF AbandonBatch, outside, service
      <3>2. \A m \in batch : State[m] = "accepted" /\ State'[m] = "lost"
        BY <1>s, <1>p, <1>t, <3>1 DEF StatusByPlace
      <3>3. \A m \in Message \ batch : State'[m] = State[m]
        BY <1>t, <1>4, <3>1 DEF MessageStatus
      <3>4. CASE batch = {}
        <4>1. State' = State
          BY <1>t, <3>3, <3>4
        <4>2. QED
          BY <1>1, <4>1
      <3>5. CASE batch # {}
        <4>1. State' = [m \in Message |-> IF m \in batch THEN "lost" ELSE State[m]]
          BY <1>t, <3>2, <3>3
        <4>2. Delivery!Lose(batch)
          BY <1>t, <3>1, <3>2, <3>5, <4>1 DEF Delivery!Lose, State
        <4>3. QED
          BY <1>t, <4>2 DEF Delivery!Next
      <3>6. QED
        BY <3>4, <3>5
    <2>5. QED
      BY <1>4, <2>1, <2>2, <2>3, <2>4, Zenon DEF BatcherStep
  <1>5. CASE UNCHANGED vars
    BY <1>2, <1>5, Zenon DEF vars, queue, batching
  <1>6. QED
    BY <1>2, <1>3, <1>4, <1>5, DeliveryFrame, Zenon DEF delivery

\* KafkaProducer keeps the promise of MessageDelivery: what SendMessage accepts is
\* handed to sarama once, or given up after kp.cancel.
THEOREM ProducerImplementsDelivery == Spec => ImplementsDelivery
  <1>1. IInv /\ [Next]_vars => [Delivery!Next]_(Delivery!vars)
    BY InvStep, DeliveryStep
  <1>2. QED
    BY <1>1, InvInit, InvStep, DeliveryInit, PTL DEF Spec, ImplementsDelivery, Delivery!Spec
=============================================================================
