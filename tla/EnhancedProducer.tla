------------------------- MODULE EnhancedProducer -------------------------
(***************************************************************************)
(* EnhancedProducerService: Start and Stop under eps.mutex, one part at a  *)
(* time, the HealthMonitor with its three checkers, and the /health        *)
(* while a round of checks holds hm.mutex.                                 *)
(*                                                                         *)
(* The other parts' own Start and Stop are in ProducerService,             *)
(* BatchProcessor, BatchWorkerPool, ConnectionPool and ConfigWatcher: here *)
(* they are done.  None of a service started for the first time refuses to *)
(* start, and CheckPool says why there is no second time.                  *)
(* A HealthMonitor may also be used alone, with the two other checkers and *)
(* a Kafka producer somebody else starts and stops.                        *)
(***************************************************************************)
EXTENDS Integers, Sequences

VARIABLES
  epService,   \* the whole service, or a HealthMonitor alone
  epOwner,     \* the caller of Start and Stop, and what is left to do
  epRunning,   \* eps.isRunning
  epKafka,     \* kafkaProducer.isRunning
  epDone,      \* hm.ctx is done
  epMonitor,   \* monitorLoop
  epCheck,     \* the round's checkers
  epResults,   \* results, the channel they send to
  epHealth,    \* hm.systemHealth.Components: each component's status
  epOverall,   \* hm.systemHealth.OverallStatus
  epAnswer,    \* history: what GetHealth last returned
  epPanic

owner == <<epService, epOwner, epRunning, epKafka, epDone>>
round == <<epMonitor, epCheck, epResults, epHealth, epOverall>>
epVars == <<owner, round, epAnswer, epPanic>>

Checkers == IF epService THEN {"kafka", "pool", "resources"} ELSE {"kafka", "resources"}
\* The parts in the order of Start and of Stop.
StartOrder == IF epService
  THEN <<"http", "health", "watcher", "pool", "kafka", "batch", "workers", "simulator">>
  ELSE <<"health">>
StopOrder == IF epService
  THEN <<"simulator", "workers", "batch", "kafka", "pool", "watcher", "health", "http">>
  ELSE <<"health">>
Idle == [does |-> "nothing", left |-> <<>>]

EPInit ==
  /\ epService \in BOOLEAN
  /\ epOwner = Idle /\ epRunning = FALSE /\ epKafka = FALSE /\ epDone = FALSE
  /\ epMonitor = "gone" /\ epCheck = [c \in Checkers |-> "none"] /\ epResults = {}
  /\ epHealth = [c \in Checkers |-> "unknown"] /\ epOverall = "unknown"
  /\ epAnswer = [overall |-> epOverall, health |-> epHealth] /\ epPanic = FALSE
-----------------------------------------------------------------------------
(* Start and Stop.                                                         *)

\* A Start of the running service is refused, and a Stop of one that does not
\* run does nothing.
Calls ==
  /\ epOwner = Idle
  /\ epOwner' = IF epRunning THEN [does |-> "stop", left |-> StopOrder]
                ELSE [does |-> "start", left |-> StartOrder]
  /\ UNCHANGED <<epService, epRunning, epKafka, epDone, round, epAnswer, epPanic>>

\* The monitor's loop begins a round at once, before the parts after it start.
StartPart ==
  /\ epOwner.does = "start" /\ epOwner.left # <<>>
  /\ LET part == Head(epOwner.left) IN
       /\ epMonitor' = IF part = "health" THEN "begin" ELSE epMonitor
       /\ epKafka'   = (epKafka \/ part = "kafka")
  /\ epOwner' = [epOwner EXCEPT !.left = Tail(@)]
  /\ UNCHANGED <<epService, epRunning, epDone, epCheck, epResults, epHealth, epOverall, epAnswer, epPanic>>

\* healthMonitor.Stop cancels hm.ctx, and then waits for the loop.
CancelMonitor ==
  /\ epOwner.does = "stop" /\ epOwner.left # <<>> /\ Head(epOwner.left) = "health"
  /\ ~epDone /\ epDone' = TRUE
  /\ UNCHANGED <<epService, epOwner, epRunning, epKafka, round, epAnswer, epPanic>>

\* kafkaProducer.Stop may fail, which Stop ignores, and leave the producer
\* running.
StopPart ==
  /\ epOwner.does = "stop" /\ epOwner.left # <<>>
  /\ LET part == Head(epOwner.left) IN
       /\ part = "health" => epDone /\ epMonitor = "gone"
       /\ epKafka' \in IF part = "kafka" THEN {FALSE, epKafka} ELSE {epKafka}
  /\ epOwner' = [epOwner EXCEPT !.left = Tail(@)]
  /\ UNCHANGED <<epService, epRunning, epDone, round, epAnswer, epPanic>>

CallEnds ==
  /\ epOwner # Idle /\ epOwner.left = <<>>
  /\ epRunning' = (epOwner.does = "start") /\ epOwner' = Idle
  /\ UNCHANGED <<epService, epKafka, epDone, round, epAnswer, epPanic>>

\* The producer beside a monitor used alone.
KafkaTurns ==
  /\ ~epService /\ epKafka' = ~epKafka
  /\ UNCHANGED <<epService, epOwner, epRunning, epDone, round, epAnswer, epPanic>>
-----------------------------------------------------------------------------
(* The health monitor.                                                     *)

RoundBegins ==
  /\ epMonitor = "begin" /\ epMonitor' = "collect"
  /\ epCheck' = [c \in Checkers |-> "checking"]
  /\ UNCHANGED <<owner, epResults, epHealth, epOverall, epAnswer, epPanic>>

CheckReturns(c, statuses) ==
  /\ epCheck[c] = "checking" /\ epCheck' = [epCheck EXCEPT ![c] = "sent"]
  /\ \E s \in statuses : epResults' = epResults \cup {[of |-> c, status |-> s]}
  /\ UNCHANGED <<owner, epMonitor, epHealth, epOverall, epAnswer, epPanic>>

Graded == {"healthy", "warning", "critical"}
CheckKafka     == CheckReturns("kafka", IF epKafka THEN Graded ELSE {"down"})
CheckResources == CheckReturns("resources", Graded)
\* The pool's checker takes "max_connections" of GetStats, which has no such
\* key, for an int: its goroutine panics and takes the process with it, although
\* the tests expect the service to answer /health and to stop.
CheckPool ==
  /\ epService /\ epCheck["pool"] = "checking" /\ epPanic' = TRUE
  /\ UNCHANGED <<owner, round, epAnswer>>

\* hm.mutex is held from the first result until the channel is closed, which is
\* when every checker has sent.
Collect ==
  /\ epMonitor = "collect"
  /\ \E r \in epResults :
       /\ epResults' = epResults \ {r}
       /\ epHealth' = [epHealth EXCEPT ![r.of] = r.status]
  /\ UNCHANGED <<owner, epMonitor, epCheck, epOverall, epAnswer, epPanic>>

OverallStatus(health) ==
  IF \E c \in Checkers : health[c] \in {"down", "critical"} THEN "critical"
  ELSE IF \E c \in Checkers : health[c] = "warning" THEN "warning" ELSE "healthy"

RoundEnds ==
  /\ epMonitor = "collect" /\ epResults = {} /\ \A c \in Checkers : epCheck[c] = "sent"
  /\ epMonitor' = "select" /\ epOverall' = OverallStatus(epHealth)
  /\ epCheck' = [c \in Checkers |-> "none"]
  /\ UNCHANGED <<owner, epResults, epHealth, epAnswer, epPanic>>

MonitorTick ==
  /\ epMonitor = "select" /\ epMonitor' = "begin"
  /\ UNCHANGED <<owner, epCheck, epResults, epHealth, epOverall, epAnswer, epPanic>>
MonitorEnds ==
  /\ epMonitor = "select" /\ epDone /\ epMonitor' = "gone"
  /\ UNCHANGED <<owner, epCheck, epResults, epHealth, epOverall, epAnswer, epPanic>>

GetHealthUnlocked ==   \* mutant: hm.mutex is not taken
  /\ epAnswer' = [overall |-> epOverall, health |-> epHealth]
  /\ UNCHANGED <<owner, round, epPanic>>
GetHealth ==
  /\ epMonitor # "collect"
  /\ epAnswer' = [overall |-> epOverall, health |-> epHealth]
  /\ UNCHANGED <<owner, round, epPanic>>
-----------------------------------------------------------------------------
EPNext ==
  /\ ~epPanic
  /\ \/ Calls \/ StartPart \/ CancelMonitor \/ StopPart \/ CallEnds \/ KafkaTurns
     \/ RoundBegins \/ CheckKafka \/ CheckResources \/ CheckPool
     \/ Collect \/ RoundEnds \/ MonitorTick \/ MonitorEnds \/ GetHealth

EPSpec == EPInit /\ [][EPNext]_epVars
-----------------------------------------------------------------------------
(* Properties.                                                             *)

\* While the checkers of a round come in one by one, and the producer they ask
\* starts and stops, GetHealth answers whole rounds: its overall status is that of
\* the components it returns with it, except before the first round.
RoundsAreWhole ==
  \/ epAnswer.overall = OverallStatus(epAnswer.health)
  \/ \A c \in Checkers : epAnswer.health[c] = "unknown"
=============================================================================
