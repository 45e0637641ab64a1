---------------------------- MODULE BatchProcessor ----------------------------
(***************************************************************************)
(* BatchProcessor of internal/producer/batch_processor.go: SendMessage puts *)
(* messages in a bounded channel, a collector goroutine makes batches of   *)
(* them, a batch is executed by the worker pool or, when the pool refuses  *)
(* it, by the collector itself; executing a batch starts one goroutine per *)
(* partition, which hands the messages to Kafka's asynchronous producer.   *)
(*                                                                         *)
(* The worker pool appears here as what it promises, TaskExecutor, which   *)
(* BatchWorkerPool implements: a task is a batch.  What TaskExecutor leaves *)
(* open, that the pool's Stop may hang, is kept beside it ("scaling").     *)
(*                                                                         *)
(* Timers fire at any moment; the rate limiter and the backpressure        *)
(* controller may refuse any message; Input() of the asynchronous producer *)
(* takes a message sooner or later. The gauges are left out.               *)
(***************************************************************************)
EXTENDS Integers, Sequences, FiniteSets, SequencesExt

CONSTANTS
  Message,       (* message identities; each is offered at most once        *)
  Partition,
  Key,           (* message keys                                            *)
  keyOf,         (* [Message -> Key]                                        *)
  partitionOf,   (* [Key -> Partition]: the hash partitioner                *)
  Unencodable,   (* the messages whose value json.Marshal rejects           *)
  BufferSize,    (* capacity of messageBuffer                               *)
  BatchSize,     (* batchSize                                               *)
  MaxBatches     (* bound: batches ever made                                *)

ASSUME ProcessorAssumption ==
  /\ keyOf \in [Message -> Key]
  /\ partitionOf \in [Key -> Partition]
  /\ Unencodable \subseteq Message
  /\ BufferSize \in Nat \ {0}
  /\ BatchSize \in Nat \ {0}
  /\ MaxBatches \in Nat

Batch == 1..MaxBatches
PartitionOf(m) == partitionOf[keyOf[m]]

VARIABLES
  running,        (* bp.isRunning                                           *)
  ctxDone,        (* bp.ctx is done; a restart does not renew it            *)
  stopAt,         (* Stop holds bp.mutex: waits for bp.wg, then for the pool *)
  looking,        (* messages between SendMessage's look at isRunning and its *)
                  (* select                                                 *)
  loops,          (* the goroutines bp.wg counts                            *)
  messageBuffer,  (* the channel's contents                                 *)
  batchBuffer,
  inline,         (* the batch the collector executes itself, or 0          *)
  made,           (* batches made so far                                    *)
  remaining,      (* of each batch, the positions and messages not yet sent *)
  up, status,     (* the worker pool                                        *)
  scaling,        (* its scaler has decided to scale and wants pool.mutex    *)
  retried,        (* keys HandleError has granted their one retry           *)
  sent,           (* history: what the asynchronous producer took           *)
  lost            (* history: accepted messages given up                    *)

pool      == <<up, status>>
control   == <<running, ctxDone, stopAt, scaling>>
lifecycle == <<control, looking>>
outcome   == <<retried, sent, lost>>
vars == <<lifecycle, loops, messageBuffer, batchBuffer, inline, made, remaining,
          pool, outcome>>

Pool == INSTANCE TaskExecutor WITH Task <- Batch

Loop == {"collector", "metrics", "backpressure"}

Executing(b) == status[b] = "running" \/ inline = b
InBatch(b) == Range(remaining[b])
InBatches == UNION {InBatch(b) : b \in Batch}
Accepted == ToSet(messageBuffer) \cup ToSet(batchBuffer) \cup InBatches
              \cup sent \cup lost
-----------------------------------------------------------------------------
Init ==
  /\ running = FALSE /\ ctxDone = FALSE /\ stopAt = "idle"
  /\ loops = {}
  /\ messageBuffer = <<>>
  /\ batchBuffer = <<>>
  /\ inline = 0 /\ made = 0
  /\ remaining = [b \in Batch |-> <<>>]
  /\ Pool!Init
  /\ looking = {} /\ scaling = FALSE
  /\ retried = {}
  /\ sent = {} /\ lost = {}

Start ==
  /\ stopAt = "idle" /\ ~running
  /\ Pool!GoUp
  /\ loops' = Loop
  /\ running' = TRUE
  /\ UNCHANGED <<ctxDone, stopAt, looking, scaling, messageBuffer, batchBuffer, inline, made,
                 remaining, outcome>>

StopBegin ==
  /\ stopAt = "idle" /\ running
  /\ ctxDone' = TRUE
  /\ stopAt' = "loops"
  /\ UNCHANGED <<running, looking, scaling, loops, messageBuffer, batchBuffer, inline,
                 made, remaining, pool, outcome>>

(* bp.wg.Wait() returns, also from a collector that executes its last flush, *)
(* and workerPool.Stop() takes pool.mutex, cancels and waits ...           *)
StopPool ==
  /\ stopAt = "loops"
  /\ loops = {} /\ inline = 0
  /\ stopAt' = "pool"
  /\ UNCHANGED <<running, ctxDone, looking, scaling, loops, messageBuffer, batchBuffer,
                 inline, made, remaining, pool, outcome>>

(* ... for the scaler too: it returns unless that one wants the mutex.     *)
StopEnd ==
  /\ stopAt = "pool" /\ ~scaling
  /\ Pool!GoDown
  /\ stopAt' = "idle"
  /\ running' = FALSE
  /\ UNCHANGED <<ctxDone, looking, scaling, loops, messageBuffer, batchBuffer, inline,
                 made, remaining, outcome>>

(* checkAndScale of the pool: the gauges call for a change, ...            *)
ScalerDecides ==
  /\ up /\ ~scaling
  /\ scaling' = TRUE
  /\ UNCHANGED <<running, ctxDone, stopAt, looking, loops, messageBuffer, batchBuffer,
                 inline, made, remaining, pool, outcome>>

(* ... which is made under pool.mutex.                                     *)
ScalerActs ==
  /\ scaling /\ stopAt # "pool"
  /\ scaling' = FALSE
  /\ UNCHANGED <<running, ctxDone, stopAt, looking, loops, messageBuffer, batchBuffer,
                 inline, made, remaining, pool, outcome>>
-----------------------------------------------------------------------------
(* SendMessage reads isRunning without the mutex, so Stop may return       *)
(* before ...                                                              *)
LookAtRunning(m) ==
  /\ m \notin Accepted \cup looking
  /\ running
  /\ looking' = looking \cup {m}
  /\ UNCHANGED <<control, loops, messageBuffer, batchBuffer, inline, made, remaining,
                 pool, outcome>>

(* ... its select takes the send, even when the context is done as well.   *)
SendMessage(m) ==
  /\ m \in looking
  /\ looking' = looking \ {m}
  /\ Len(messageBuffer) < BufferSize
  /\ messageBuffer' = Append(messageBuffer, m)
  /\ UNCHANGED <<control, loops, batchBuffer, inline, made, remaining, pool, outcome>>

(* Over the rate, under backpressure, shutting down or full: the message   *)
(* is refused and may be offered again.                                    *)
RefuseMessage(m) ==
  /\ m \in looking
  /\ looking' = looking \ {m}
  /\ UNCHANGED <<control, loops, messageBuffer, batchBuffer, inline, made, remaining,
                 pool, outcome>>
-----------------------------------------------------------------------------
(* processBatch: buffer, the messages collected so far, becomes a batch,   *)
(* submitted to the pool or, if that is refused, executed by the collector.*)
MakeBatch(buffer) ==
  LET b == made + 1 IN
  /\ b \in Batch
  /\ made' = b
  /\ remaining' = [remaining EXCEPT ![b] = buffer]
  /\ \/ Pool!Accept(b) /\ inline' = 0
     \/ Pool!Refuse(b) /\ inline' = b

Selecting == "collector" \in loops /\ inline = 0

(* Mutant: "more than batchSize" for "at least batchSize".                 *)
CollectOneTooMany ==
  LET collected == Append(batchBuffer, Head(messageBuffer)) IN
  /\ Selecting
  /\ messageBuffer # <<>>
  /\ messageBuffer' = Tail(messageBuffer)
  /\ IF Len(collected) > BatchSize
     THEN batchBuffer' = <<>> /\ MakeBatch(collected)
     ELSE batchBuffer' = collected /\ UNCHANGED <<made, remaining, pool, inline>>
  /\ UNCHANGED <<lifecycle, loops, outcome>>

CollectMessage ==
  LET collected == Append(batchBuffer, Head(messageBuffer)) IN
  /\ Selecting
  /\ messageBuffer # <<>>
  /\ messageBuffer' = Tail(messageBuffer)
  /\ IF Len(collected) >= BatchSize
     THEN batchBuffer' = <<>> /\ MakeBatch(collected)
     ELSE batchBuffer' = collected /\ UNCHANGED <<made, remaining, pool, inline>>
  /\ UNCHANGED <<lifecycle, loops, outcome>>

(* Mutant: the buffer is submitted but not reset.                          *)
FlushTimeoutKeepsBuffer ==
  /\ Selecting
  /\ batchBuffer # <<>>
  /\ MakeBatch(batchBuffer)
  /\ UNCHANGED <<lifecycle, loops, messageBuffer, batchBuffer, outcome>>

(* Mutant: the ticker, too, flushes full batches only.                     *)
FlushOnlyFull ==
  /\ Selecting
  /\ Len(batchBuffer) >= BatchSize
  /\ MakeBatch(batchBuffer)
  /\ batchBuffer' = <<>>
  /\ UNCHANGED <<lifecycle, loops, messageBuffer, outcome>>

(* The ticker.                                                             *)
FlushTimeout ==
  /\ Selecting
  /\ batchBuffer # <<>>
  /\ MakeBatch(batchBuffer)
  /\ batchBuffer' = <<>>
  /\ UNCHANGED <<lifecycle, loops, messageBuffer, outcome>>

(* The context is done: the last flush, of batchBuffer alone, whatever     *)
(* messageBuffer holds.                                                    *)
CollectorExit ==
  /\ Selecting
  /\ ctxDone
  /\ IF batchBuffer # <<>>
     THEN batchBuffer' = <<>> /\ MakeBatch(batchBuffer)
     ELSE UNCHANGED <<batchBuffer, made, remaining, pool, inline>>
  /\ loops' = loops \ {"collector"}
  /\ UNCHANGED <<lifecycle, messageBuffer, outcome>>

(* An inline batch is done: back to the select, or the end.                *)
InlineDone ==
  /\ inline # 0
  /\ InBatch(inline) = {}
  /\ inline' = 0
  /\ UNCHANGED <<lifecycle, loops, messageBuffer, batchBuffer, made, remaining, pool,
                 outcome>>

(* Mutant: the loops look at isRunning instead of the context.             *)
MonitorExitWhenStopped(l) ==
  /\ l \in loops \cap {"metrics", "backpressure"}
  /\ ~running
  /\ loops' = loops \ {l}
  /\ UNCHANGED <<lifecycle, messageBuffer, batchBuffer, inline, made, remaining, pool,
                 outcome>>

MonitorExit(l) ==
  /\ l \in loops \cap {"metrics", "backpressure"}
  /\ ctxDone
  /\ loops' = loops \ {l}
  /\ UNCHANGED <<lifecycle, messageBuffer, batchBuffer, inline, made, remaining, pool,
                 outcome>>
-----------------------------------------------------------------------------
PoolTake(b) ==
  /\ Pool!Take(b)
  /\ UNCHANGED <<lifecycle, loops, messageBuffer, batchBuffer, inline, made, remaining,
                 outcome>>

(* sendBatch waits for the goroutines of all partitions.                   *)
PoolComplete(b) ==
  /\ InBatch(b) = {}
  /\ Pool!Complete(b)
  /\ UNCHANGED <<lifecycle, loops, messageBuffer, batchBuffer, inline, made, remaining,
                 outcome>>

(* The goroutine of partition p takes its messages in the batch's order.   *)
Portion(b, p) == {i \in DOMAIN remaining[b] : PartitionOf(remaining[b][i]) = p}

PartitionStep(b, p, i) ==
  /\ Executing(b)
  /\ i \in Portion(b, p) /\ \A j \in Portion(b, p) : i <= j
  /\ UNCHANGED <<lifecycle, loops, messageBuffer, batchBuffer, inline, made, pool>>

Advance(b, done) ==
  remaining' = [remaining EXCEPT ![b] =
                  Restrict(remaining[b], DOMAIN remaining[b] \ done)]

GiveUp(b, given) ==
  /\ Advance(b, given)
  /\ lost' = lost \cup {remaining[b][j] : j \in given}
  /\ UNCHANGED sent

(* sendPartitionBatch: producer.Input() takes the message, ...             *)
SendToKafka(b, p, i) ==
  /\ PartitionStep(b, p, i)
  /\ remaining[b][i] \notin Unencodable
  /\ sent' = sent \cup {remaining[b][i]}
  /\ Advance(b, {i})
  /\ UNCHANGED <<lost, retried>>

(* Mutant: gives up when Kafka is slow, context done or not.               *)
AbandonAnyTime(b, p, i) ==
  /\ PartitionStep(b, p, i)
  /\ remaining[b][i] \notin Unencodable
  /\ GiveUp(b, Portion(b, p))
  /\ UNCHANGED retried

(* Mutant: one partition's goroutine gives up the whole batch.             *)
AbandonBatch(b, p, i) ==
  /\ PartitionStep(b, p, i)
  /\ remaining[b][i] \notin Unencodable
  /\ ctxDone
  /\ GiveUp(b, DOMAIN remaining[b])
  /\ UNCHANGED retried

(* ... or the context is done and the rest of the partition is given up.   *)
AbandonPartition(b, p, i) ==
  /\ PartitionStep(b, p, i)
  /\ remaining[b][i] \notin Unencodable
  /\ ctxDone
  /\ GiveUp(b, Portion(b, p))
  /\ UNCHANGED retried

(* json.Marshal failed: the first time for a key HandleError asks for a    *)
(* retry, all of whose attempts marshal the same value and fail; that      *)
(* error is returned, and the messages behind this one are given up too.   *)
RetryUnencodable(b, p, i) ==
  /\ PartitionStep(b, p, i)
  /\ remaining[b][i] \in Unencodable /\ keyOf[remaining[b][i]] \notin retried
  /\ retried' = retried \cup {keyOf[remaining[b][i]]}
  /\ GiveUp(b, Portion(b, p))

(* Afterwards a failing message of that key is skipped.                    *)
SkipUnencodable(b, p, i) ==
  /\ PartitionStep(b, p, i)
  /\ remaining[b][i] \in Unencodable /\ keyOf[remaining[b][i]] \in retried
  /\ GiveUp(b, {i})
  /\ UNCHANGED retried
-----------------------------------------------------------------------------
Collector == CollectMessage \/ FlushTimeout \/ CollectorExit \/ InlineDone

SendPartitionBatch(b, p) ==
  \E i \in 1..BatchSize :
    \/ SendToKafka(b, p, i) \/ AbandonPartition(b, p, i)
    \/ RetryUnencodable(b, p, i) \/ SkipUnencodable(b, p, i)

Next ==
  \/ Start \/ StopBegin \/ StopPool \/ StopEnd
  \/ ScalerDecides \/ ScalerActs
  \/ \E m \in Message : LookAtRunning(m) \/ SendMessage(m) \/ RefuseMessage(m)
  \/ Collector
  \/ \E l \in Loop : MonitorExit(l)
  \/ \E b \in Batch : PoolTake(b) \/ PoolComplete(b)
  \/ \E b \in Batch, p \in Partition : SendPartitionBatch(b, p)

Spec == Init /\ [][Next]_vars

(* Goroutines that can run do run; a select that is offered ctx.Done again *)
(* and again takes it; the pool takes what is queued unless it is being    *)
(* stopped (BatchWorkerPool's AcceptedTasksRun); Kafka takes messages.     *)
Fairness ==
  /\ WF_vars(Collector) /\ WF_vars(FlushTimeout) /\ SF_vars(CollectorExit)
  /\ \A l \in Loop : WF_vars(MonitorExit(l))
  /\ \A b \in Batch :
       /\ WF_vars(~ctxDone /\ PoolTake(b))
       /\ WF_vars(PoolComplete(b))
       /\ \A p \in Partition : WF_vars(SendPartitionBatch(b, p))
  /\ WF_vars(StopPool) /\ WF_vars(StopEnd) /\ WF_vars(ScalerActs)

FairSpec == Spec /\ Fairness
-----------------------------------------------------------------------------
TypeOK ==
  /\ running \in BOOLEAN /\ ctxDone \in BOOLEAN
  /\ stopAt \in {"idle", "loops", "pool"}
  /\ scaling \in BOOLEAN /\ looking \subseteq Message
  /\ loops \subseteq Loop
  /\ messageBuffer \in Seq(Message) /\ Len(messageBuffer) <= BufferSize
  /\ batchBuffer \in Seq(Message) /\ Len(batchBuffer) < BatchSize
  /\ inline \in 0..made /\ made \in 0..MaxBatches
  /\ DOMAIN remaining = Batch
  /\ \A b \in Batch : DOMAIN remaining[b] \subseteq 1..BatchSize /\ InBatch(b) \subseteq Message
  /\ Pool!TypeOK
  /\ retried \subseteq Key
  /\ sent \subseteq Message
  /\ lost \subseteq Message

(* A message is in one place, on its way from its sender through the       *)
(* channel, the buffer and one batch to Kafka: nothing is sent twice.      *)
MessageInOnePlace ==
  /\ IsInjective(messageBuffer) /\ IsInjective(batchBuffer)
  /\ \A b \in Batch : IsInjective(remaining[b])
  /\ \A b, c \in Batch : b # c => InBatch(b) \cap InBatch(c) = {}
  /\ LET places == <<looking, ToSet(messageBuffer), ToSet(batchBuffer), InBatches,
                     sent, lost>>
     IN \A i, j \in DOMAIN places : i # j => places[i] \cap places[j] = {}

(* Before Stop the only messages given up are those that cannot be encoded *)
(* and those queued behind such a one in the same partition.               *)
NoSilentLoss ==
  ~ctxDone =>
    \A m \in lost : \E u \in lost \cap Unencodable : PartitionOf(u) = PartitionOf(m)

(* No accepted message is duplicated, and none vanishes unnoticed.         *)
NothingVanishes == TypeOK /\ MessageInOnePlace /\ NoSilentLoss

(* What SendMessage promises: see MessageDelivery.                         *)
MessageStatus(m) ==
  IF m \in sent THEN "sent"
  ELSE IF m \in lost THEN "lost"
  ELSE IF m \in Accepted THEN "accepted"
  ELSE "new"

Delivery == INSTANCE MessageDelivery
              WITH closing <- ctxDone, group <- [m \in Message |-> PartitionOf(m)],
                   state <- [m \in Message |-> MessageStatus(m)]

ImplementsDelivery == Delivery!Spec

(* Until Stop is called an accepted message reaches Kafka or is given up,  *)
(* with no further message needed to fill its batch.                       *)
AcceptedMessagesLeave ==
  \A m \in Message :
    (m \in Accepted) ~> (m \in sent \cup lost \/ ctxDone)

(* Stop returns unless the pool's scaler is caught before the mutex that the *)
(* Stop of the pool holds while it waits for the scaler.                   *)
StopReturns ==
  (stopAt # "idle") ~> (stopAt = "idle" \/ (stopAt = "pool" /\ scaling))
=============================================================================
