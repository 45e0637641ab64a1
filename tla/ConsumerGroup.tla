--------------------------- MODULE ConsumerGroup ---------------------------
(***************************************************************************)
(* One member of the Kafka consumer group (internal/services/consumer):    *)
(* KafkaConsumer runs sarama sessions, ConsumeClaim takes the messages of  *)
(* a partition one by one, DefaultMessageProcessor retries a failing one,  *)
(* DefaultErrorHandler decides whether the offset is marked, and marks are *)
(* committed by sarama's timer and at the end of a session.                *)
(*                                                                         *)
(* Offsets count messages: committed[p] = n means that the first n messages*)
(* of p will not be delivered again.  The broker and sarama are external.  *)
(***************************************************************************)
EXTENDS Integers, Sequences, FiniteSets

CONSTANTS Partitions,     \* the partitions this member is assigned
          Logs,           \* the message sequences a partition may hold
          MaxRetries,     \* ProcessorConfig.MaxRetries and ErrorHandlerConfig.MaxRetries
          MaxDisruptions  \* bound on rebalances, failed joins and crashes

Kinds == {"valid", "malformed"}   \* malformed: parseKafkaMessage or Validate fails

ASSUME ConsumerAssumption ==
  /\ Logs \subseteq Seq(Kinds)
  /\ MaxRetries \in Nat
  /\ MaxDisruptions \in Nat

VARIABLES
  log,         \* log[p]: the messages of partition p, all available from the start
  committed,   \* committed[p]: the broker's offset for the group
  isRunning,   \* KafkaConsumer.isRunning
  cancelled,   \* kc.ctx is done; no code creates a new one
  stopping,    \* Stop is inside wg.Wait, holding kc.mutex
  loop,        \* the goroutine of consume
  errorLoop,   \* the goroutine of handleErrors is alive
  session,     \* the sarama session of the current Consume call
  claim,       \* claim[p]: where ConsumeClaim of p is
  pos,         \* pos[p]: messages this session's claim has finished with
  marked,      \* marked[p]: highest offset marked in this session
  attempt,     \* attempt[p]: processMessageWithRetry's loop variable
  fate,        \* fate[p][o]: every way the handling of message o has ended
  disruptions

control == <<isRunning, cancelled, stopping, loop, errorLoop>>
claims  == <<claim, pos, marked, attempt, fate>>
vars    == <<log, committed, control, session, claims, disruptions>>

Fates == {"done", "rejected", "exhausted", "interrupted", "postponed"}

Offsets(p)  == 1 .. Len(log[p])
InHand(p)   == pos[p] + 1
SessionDone == session = "cancelled" \/ cancelled   \* session.Context().Done()
WaitGroupDone == loop = "none" /\ ~errorLoop

-----------------------------------------------------------------------------
TypeOK ==
  /\ log \in [Partitions -> Logs]
  /\ committed \in [Partitions -> Nat] /\ marked \in [Partitions -> Nat]
  /\ pos \in [Partitions -> Nat]
  /\ fate \in [Partitions -> Seq(SUBSET Fates)]
  /\ \A p \in Partitions : /\ committed[p] <= Len(log[p]) /\ marked[p] <= Len(log[p])
                           /\ pos[p] <= Len(log[p])
                           /\ Len(fate[p]) = Len(log[p])
  /\ isRunning \in BOOLEAN /\ cancelled \in BOOLEAN /\ stopping \in BOOLEAN
  /\ loop \in {"none", "check", "consuming", "sleep"} /\ errorLoop \in BOOLEAN
  /\ session \in {"none", "open", "cancelled"}
  /\ claim \in [Partitions -> {"exited", "select", "processing", "backoff", "handling"}]
  /\ attempt \in [Partitions -> 0 .. MaxRetries]
  /\ disruptions \in 0 .. MaxDisruptions

Init ==
  /\ log \in [Partitions -> Logs]
  /\ committed = [p \in Partitions |-> 0]
  /\ isRunning = FALSE /\ cancelled = FALSE /\ stopping = FALSE
  /\ loop = "none" /\ errorLoop = FALSE
  /\ session = "none"
  /\ claim = [p \in Partitions |-> "exited"]
  /\ pos = [p \in Partitions |-> 0] /\ marked = pos /\ attempt = pos
  /\ fate = [p \in Partitions |-> [o \in Offsets(p) |-> {}]]
  /\ disruptions = 0

-----------------------------------------------------------------------------
(* KafkaConsumer: Start, the consume and handleErrors goroutines, Stop.    *)

\* Start again after Stop is accepted, with the context already cancelled.
Start ==
  /\ ~isRunning /\ ~stopping
  /\ isRunning' = TRUE /\ loop' = "check" /\ errorLoop' = TRUE
  /\ UNCHANGED <<log, committed, cancelled, stopping, session, claims, disruptions>>

Stop ==
  /\ isRunning /\ ~stopping
  /\ cancelled' = TRUE /\ stopping' = TRUE
  /\ UNCHANGED <<log, committed, isRunning, loop, errorLoop, session, claims, disruptions>>

\* A consumerGroup.Close that fails makes Stop return with isRunning still set.
StopCompletes ==
  /\ stopping /\ WaitGroupDone
  /\ stopping' = FALSE /\ isRunning' \in BOOLEAN
  /\ UNCHANGED <<log, committed, cancelled, loop, errorLoop, session, claims, disruptions>>

HandleErrorsEnds ==
  /\ errorLoop /\ cancelled
  /\ errorLoop' = FALSE
  /\ UNCHANGED <<log, committed, isRunning, cancelled, stopping, loop, session, claims, disruptions>>

RejoinAfterCancel ==   \* the loop retries without looking at the context (mutant)
  /\ loop = "check" /\ cancelled
  /\ loop' = "sleep"
  /\ UNCHANGED <<log, committed, isRunning, cancelled, stopping, errorLoop, session, claims, disruptions>>

ConsumeEnds ==
  /\ loop = "check" /\ cancelled
  /\ loop' = "none"
  /\ UNCHANGED <<log, committed, isRunning, cancelled, stopping, errorLoop, session, claims, disruptions>>

\* Mutants.
JoinFromStart ==   \* Offsets.Initial = oldest on every join
  /\ loop = "check" /\ ~cancelled
  /\ loop' = "consuming" /\ session' = "open"
  /\ claim' = [p \in Partitions |-> "select"]
  /\ pos' = [p \in Partitions |-> 0] /\ marked' = pos' /\ attempt' = pos'
  /\ UNCHANGED <<log, committed, isRunning, cancelled, stopping, errorLoop, fate, disruptions>>

\* Consume joins the group; Setup runs, then one ConsumeClaim per partition
\* from the committed offset.
Join ==
  /\ loop = "check" /\ ~cancelled
  /\ loop' = "consuming" /\ session' = "open"
  /\ claim' = [p \in Partitions |-> "select"]
  /\ pos' = committed /\ marked' = committed
  /\ attempt' = [p \in Partitions |-> 0]
  /\ UNCHANGED <<log, committed, isRunning, cancelled, stopping, errorLoop, fate, disruptions>>

\* Consume returns an error: five seconds of sleep that Stop cannot shorten.
JoinFails ==
  /\ loop = "check" /\ ~cancelled /\ disruptions < MaxDisruptions
  /\ loop' = "sleep" /\ disruptions' = disruptions + 1
  /\ UNCHANGED <<log, committed, isRunning, cancelled, stopping, errorLoop, session, claims>>

SleepEnds ==
  /\ loop = "sleep"
  /\ loop' = "check"
  /\ UNCHANGED <<log, committed, isRunning, cancelled, stopping, errorLoop, session, claims, disruptions>>

(* What the group coordinator and sarama do to a session.                  *)
Rebalance ==
  /\ session = "open" /\ disruptions < MaxDisruptions
  /\ session' = "cancelled" /\ disruptions' = disruptions + 1
  /\ UNCHANGED <<log, committed, control, claims>>

AutoCommit(p) ==
  /\ session # "none" /\ committed[p] < marked[p]
  /\ committed' = [committed EXCEPT ![p] = marked[p]]
  /\ UNCHANGED <<log, control, session, claims, disruptions>>

\* All claims have returned: the marks are flushed, unless the broker refuses.
SessionEnds ==
  /\ session # "none" /\ SessionDone
  /\ \A p \in Partitions : claim[p] = "exited"
  /\ session' = "none" /\ loop' = "check"
  /\ committed' \in {committed, marked}
  /\ UNCHANGED <<log, isRunning, cancelled, stopping, errorLoop, claims, disruptions>>

\* The process dies; only the broker's offsets survive.
Crash ==
  /\ isRunning /\ disruptions < MaxDisruptions
  /\ isRunning' = FALSE /\ cancelled' = FALSE /\ stopping' = FALSE
  /\ loop' = "none" /\ errorLoop' = FALSE /\ session' = "none"
  /\ claim' = [p \in Partitions |-> "exited"]
  /\ disruptions' = disruptions + 1
  /\ UNCHANGED <<log, committed, pos, marked, attempt, fate>>

-----------------------------------------------------------------------------
(* ConsumeClaim, with processMessage and HandleError.                      *)

\* The handler is finished with the message in hand; mark: MarkMessage.
Finish(p, how, mark) ==
  /\ fate' = [fate EXCEPT ![p][InHand(p)] = @ \cup {how}]
  /\ pos' = [pos EXCEPT ![p] = InHand(p)]
  /\ marked' = IF mark THEN [marked EXCEPT ![p] = InHand(p)] ELSE marked
  /\ claim' = [claim EXCEPT ![p] = "select"]
  /\ attempt' = [attempt EXCEPT ![p] = 0]
  /\ UNCHANGED <<log, committed, control, session, disruptions>>

Goto(p, pc, n) ==
  /\ claim' = [claim EXCEPT ![p] = pc]
  /\ attempt' = [attempt EXCEPT ![p] = n]
  /\ UNCHANGED <<log, committed, control, session, pos, marked, fate, disruptions>>

\* HandleError with a retryable error: getRetryAttempt is 0, so the policy
\* refuses only when MaxRetries is 0 or the session's context is done.
HandleRetryable(p) ==
  IF SessionDone THEN Finish(p, "interrupted", TRUE)
  ELSE IF MaxRetries = 0 THEN Finish(p, "exhausted", TRUE)
  ELSE Goto(p, "handling", 0)

\* HandleError: a non-retryable error is given up at once; whether an error is
\* retryable depends on words in its text, so both are possible.
HandleError(p, how) == Finish(p, how, TRUE) \/ HandleRetryable(p)

\* Mutants.
MarkOnTake(p) ==   \* the offset is marked when the message is taken
  /\ claim[p] = "select" /\ InHand(p) \in Offsets(p)
  /\ claim' = [claim EXCEPT ![p] = "processing"]
  /\ marked' = [marked EXCEPT ![p] = InHand(p)]
  /\ UNCHANGED <<log, committed, control, session, pos, attempt, fate, disruptions>>

RetryInPlace(p) ==   \* "return true" starts the message again
  /\ claim[p] = "handling"
  /\ \/ Goto(p, "processing", 0)
     \/ SessionDone /\ Finish(p, "interrupted", TRUE)

\* select picks any ready case: a message may be taken after Done.
Take(p) ==
  /\ claim[p] = "select" /\ InHand(p) \in Offsets(p)
  /\ \/ log[p][InHand(p)] = "valid" /\ Goto(p, "processing", 0)
     \/ log[p][InHand(p)] = "malformed" /\ HandleError(p, "rejected")

Process(p) ==
  /\ claim[p] = "processing"
  /\ \/ Finish(p, "done", TRUE)
     \/ attempt[p] < MaxRetries /\ Goto(p, "backoff", attempt[p] + 1)
     \/ attempt[p] = MaxRetries /\ HandleError(p, "exhausted")

\* time.After(RetryDelay), the session's end, or ProcessingTimeout.
Backoff(p) ==
  /\ claim[p] = "backoff"
  /\ \/ Goto(p, "processing", attempt[p])
     \/ HandleRetryable(p)

HandlingEnds(p) ==
  /\ claim[p] = "handling"
  /\ \/ Finish(p, "postponed", FALSE)                   \* "return true": not marked
     \/ SessionDone /\ Finish(p, "interrupted", TRUE)   \* "return false": marked

ClaimExits(p) ==
  /\ claim[p] = "select" /\ SessionDone
  /\ Goto(p, "exited", 0)

ClaimStep(p) == Take(p) \/ Process(p) \/ Backoff(p) \/ HandlingEnds(p) \/ ClaimExits(p)

ConsumerStep == HandleErrorsEnds \/ ConsumeEnds \/ Join \/ SleepEnds \/ SessionEnds \/ StopCompletes

Next == \/ Start \/ Stop \/ JoinFails \/ Rebalance \/ Crash
        \/ ConsumerStep
        \/ \E p \in Partitions : ClaimStep(p) \/ AutoCommit(p)

Spec == Init /\ [][Next]_vars

\* Goroutines that can run do run, and so do sarama's timers; nobody has to
\* start, stop, rebalance or crash.
Fairness == /\ WF_vars(ConsumerStep)
            /\ WF_vars(HandleErrorsEnds)
            /\ \A p \in Partitions : /\ WF_vars(ClaimStep(p))
                                     /\ WF_vars(AutoCommit(p))

FairSpec == Spec /\ Fairness
-----------------------------------------------------------------------------
(* Properties.                                                             *)

\* Offsets grow from the broker's to the marked one to the claim's own.
OffsetsOrdered ==
  session # "none" => \A p \in Partitions : committed[p] <= marked[p] /\ marked[p] <= pos[p]

\* What may be below a committed offset: messages the member has handled to an
\* end, in this life or an earlier one, so a crash, a rebalance or a refused
\* commit never skips a message (MarkMessage, the session's flush, Join).
NoneSkipped ==
  \A p \in Partitions : \A o \in 1 .. committed[p] : fate[p][o] # {}

\* What the group has committed past is not handled again, by this session or
\* a later one: the same message is handled twice only when the first session
\* ended without its commit.
CommittedNotRehandled ==
  [][\A p \in Partitions : \A o \in Offsets(p) :
       fate'[p][o] # fate[p][o] => o > committed[p]]_vars

\* A commit never rewinds the group: no session end, crash or rejoin makes the
\* broker deliver a consumed message again after its commit.
CommitsAdvance ==
  [][\A p \in Partitions : committed'[p] >= committed[p]]_vars

\* The member is an at-least-once consumer: each session handles every message
\* from the committed offset on in turn, commits what it has handled, and a crash,
\* a rebalance or a refused commit makes the next one go back to what was committed.
Consumer == INSTANCE AtLeastOnce
              WITH length <- [p \in Partitions |-> Len(log[p])],
                   next <- IF session = "none" THEN committed ELSE pos,
                   handled <- [p \in Partitions |-> {o \in Offsets(p) : fate[p][o] # {}}]

ImplementsAtLeastOnce == Consumer!Spec

\* Stop gets past wg.Wait whatever the claims are doing: every wait of a claim
\* listens to the session's context.
StopReturns == stopping ~> ~stopping

\* No message blocks a partition: unless the consumer is stopped or down, every
\* message is handled to an end.
PartitionDrains ==
  \A p \in Partitions :
    isRunning ~> (~isRunning \/ cancelled \/ \A o \in Offsets(p) : fate[p][o] # {})

\* docs/step-by-step/2.2.md:374 "message loss rate: 0% (exactly-once semantics)":
\* every message the group has committed past and that parses was processed.
CommittedWasProcessed ==
  \A p \in Partitions : \A o \in 1 .. committed[p] :
    log[p][o] = "valid" => "done" \in fate[p][o]
=============================================================================
