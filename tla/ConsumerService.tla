-------------------------- MODULE ConsumerService --------------------------
(***************************************************************************)
(* ConsumerService: Start and Stop under cs.mutex, the health monitor, the *)
(* metrics loop and the Prometheus collector, and ConsumerConfigManager,   *)
(* whose hot reload stops, reconfigures and starts the service again.      *)
(*                                                                         *)
(* What KafkaConsumer.Stop and WebSocketServer.Stop wait for is in         *)
(* ConsumerGroup and DataPusher; here they return.  A configuration is     *)
(* its version of each group of fields the code compares.  No Stop renews  *)
(* a context, so those stay done.                                          *)
(***************************************************************************)
EXTENDS Integers, FiniteSets

CONSTANTS Loop,        \* goroutines EnableHotReload may have started
          Config,      \* records [group, timeout, topic]
          FirstConfig,
          MaxStarts,   \* bound: successful Starts
          MaxChanges   \* bound: changes of the manager's configuration

ASSUME ConfigAssumption ==
  /\ FirstConfig \in Config
  /\ Loop \cap {"owner", "updater"} = {}

\* Those who call the service: its owner, the manager's loops, and a caller of
\* the manager's UpdateConfig.
Notifier == Loop \cup {"updater"}
Thread   == Notifier \cup {"owner"}

VARIABLES
  running, config,          \* cs.isRunning, cs.config
  ctxDone,                  \* cs.ctx, and the contexts of Kafka and Prometheus
  kafka,                    \* kc.isRunning, and whether its loops consume
  queuesClosed,             \* the data pusher's queues
  lives,                    \* successful Starts
  monitor, metrics, system, \* the three loops
  status,                   \* hm.healthStatus
  reader,                   \* a caller of GetHealth
  pc, todo,                 \* where each thread is and the configuration it applies
  current, changes,         \* ccm.currentConfig
  overlapped,               \* history: two of the threads were at work together
  panic

service == <<running, config, ctxDone, kafka, queuesClosed, lives>>
loops   == <<monitor, metrics, system>>
health  == <<status, reader>>
manager == <<current, changes>>
vars    == <<service, loops, health, pc, todo, manager, overlapped, panic>>

Init ==
  /\ running = FALSE /\ config = FirstConfig /\ ctxDone = FALSE
  /\ kafka = [running |-> FALSE, consuming |-> FALSE]
  /\ queuesClosed = FALSE /\ lives = 0
  /\ monitor = "gone" /\ metrics = "gone" /\ system = "gone"
  /\ status = "none" /\ reader = "idle"
  /\ pc = [t \in Thread |-> IF t \in Loop THEN "off" ELSE "idle"]
  /\ todo = [t \in Thread |-> FirstConfig]
  /\ current = FirstConfig /\ changes = 0
  /\ overlapped = FALSE /\ panic = FALSE

\* cs.mutex is held across a wait by Stop only; ccm.mutex by UpdateConfig,
\* while it notifies; hm.mutex by a check and, shared, by GetHealth; and
\* pmc.mutex by the collector's Stop.
StopStages  == {"servers", "collector", "wait"}
Stopping    == \E t \in Thread : pc[t] \in StopStages
ServiceFree == ~Stopping
AtWork(t)   == pc[t] \in StopStages \cup {"stop", "update", "start", "swap"}
ManagerFree == ~AtWork("updater")
CollectorFree == \A t \in Thread : pc[t] # "collector"

\* t goes on to where; the history notes whether another thread is at work.
Goes(t, where) ==
  /\ pc' = [pc EXCEPT ![t] = where]
  /\ overlapped' = \/ overlapped
                   \/ where \in {"stop", "swap", "start"} /\ \E u \in Thread \ {t} : AtWork(u)
-----------------------------------------------------------------------------
(* Start and Stop.                                                         *)

\* What a thread does after Stop: a watcher goes on, the owner is done.
AfterStop(t) == IF t = "owner" THEN "idle" ELSE "update"
Rest(t)      == IF t \in Loop THEN "select" ELSE "idle"

OwnerCalls ==
  /\ pc["owner"] = "idle"
  /\ \E call \in {"start", "stop"} : Goes("owner", call)
  /\ UNCHANGED <<service, loops, health, todo, manager, panic>>

\* Start returns at the first error, with nothing started.
StartFails(t) ==
  /\ pc[t] = "start" /\ ServiceFree
  /\ Goes(t, Rest(t))
  /\ UNCHANGED <<service, loops, health, todo, manager, panic>>

StartEarly(t) ==   \* mutant: isRunning is set before the Kafka consumer has started
  /\ pc[t] = "start" /\ ServiceFree /\ ~running /\ lives < MaxStarts
  /\ running' = TRUE /\ lives' = lives + 1
  /\ kafka' \in {kafka, [running |-> TRUE, consuming |-> ~ctxDone]}
  /\ monitor' = "select" /\ metrics' = "select"
  /\ system' = IF system = "gone" THEN "select" ELSE system
  /\ Goes(t, Rest(t))
  /\ UNCHANGED <<config, ctxDone, queuesClosed, health, todo, manager, panic>>

\* Kafka's consume loop begins by looking at its context.
Start(t) ==
  /\ pc[t] = "start" /\ ServiceFree /\ ~running /\ ~kafka.running /\ lives < MaxStarts
  /\ running' = TRUE /\ lives' = lives + 1
  /\ kafka' = [running |-> TRUE, consuming |-> ~ctxDone]
  /\ monitor' = "select" /\ metrics' = "select"
  /\ system' = IF system = "gone" THEN "select" ELSE system
  /\ Goes(t, Rest(t))
  /\ UNCHANGED <<config, ctxDone, queuesClosed, health, todo, manager, panic>>

StopOfStopped(t) ==
  /\ pc[t] = "stop" /\ ServiceFree /\ ~running
  /\ Goes(t, AfterStop(t))
  /\ UNCHANGED <<service, loops, health, todo, manager, panic>>

StopBegin(t) ==
  /\ pc[t] = "stop" /\ ServiceFree /\ running
  /\ ctxDone' = TRUE
  /\ Goes(t, "servers")
  /\ UNCHANGED <<running, config, kafka, queuesClosed, lives, loops, health, todo, manager, panic>>

\* When the consumer group cannot be closed kc.isRunning stays set.  The data
\* pusher closes its queues, which no Start makes anew.  When the collector's
\* HTTP shutdown times out nobody waits for its loop.
StopServers(t) ==
  /\ pc[t] = "servers"
  /\ \E closed \in BOOLEAN : kafka' = [running |-> kafka.running /\ ~closed, consuming |-> FALSE]
  /\ panic' = queuesClosed /\ queuesClosed' = TRUE
  /\ \E where \in {"collector", "wait"} : Goes(t, where)
  /\ UNCHANGED <<running, config, ctxDone, lives, loops, health, todo, manager>>

CollectorWait(t) ==
  /\ pc[t] = "collector" /\ system = "gone"
  /\ Goes(t, "wait")
  /\ UNCHANGED <<service, loops, health, todo, manager, panic>>

StopEndsEarly(t) ==   \* mutant: isRunning is cleared before the wait for the loops
  /\ pc[t] = "wait"
  /\ running' = FALSE
  /\ Goes(t, AfterStop(t))
  /\ UNCHANGED <<config, ctxDone, kafka, queuesClosed, lives, loops, health, todo, manager, panic>>

StopEnds(t) ==
  /\ pc[t] = "wait" /\ monitor = "gone" /\ metrics = "gone"
  /\ running' = FALSE
  /\ Goes(t, AfterStop(t))
  /\ UNCHANGED <<config, ctxDone, kafka, queuesClosed, lives, loops, health, todo, manager, panic>>

\* UpdateConfig refuses while the service runs, and so ends a restart.
UpdateConfig(t) ==
  /\ pc[t] \in {"update", "swap"} /\ ServiceFree
  /\ IF running THEN Goes(t, Rest(t)) /\ UNCHANGED config
     ELSE /\ config' = todo[t]
          /\ Goes(t, IF pc[t] = "update" THEN "start" ELSE Rest(t))
  /\ todo' = [todo EXCEPT ![t] = FirstConfig]
  /\ UNCHANGED <<running, ctxDone, kafka, queuesClosed, lives, loops, health, manager, panic>>

ServiceStep(t) ==
  \/ StartFails(t) \/ Start(t) \/ StopOfStopped(t) \/ StopBegin(t) \/ StopServers(t)
  \/ CollectorWait(t) \/ StopEnds(t) \/ UpdateConfig(t)
-----------------------------------------------------------------------------
(* The loops, and GetHealth.                                               *)

others == <<service, pc, todo, manager, overlapped, panic>>

MonitorMoves(from, to) ==
  /\ monitor = from /\ monitor' = to
  /\ UNCHANGED <<others, metrics, system, reader>>

MonitorTick   == MonitorMoves("select", "locking") /\ UNCHANGED status
MonitorLocks  == reader = "idle" /\ MonitorMoves("locking", "checking") /\ UNCHANGED status
\* The new status asks cs.IsRunning, with hm.mutex held.
MonitorWrites == /\ ServiceFree /\ MonitorMoves("checking", "select")
                 /\ status' = IF running THEN "running" ELSE "stopped"
MonitorIgnoresDone == FALSE   \* mutant: the loop has no case for the done context
MonitorEnds   == ctxDone /\ MonitorMoves("select", "gone") /\ UNCHANGED status
MonitorStep   == MonitorLocks \/ MonitorWrites

\* The default answer asks cs.IsRunning with hm.mutex held for reading.
GetHealth ==
  /\ reader = "idle" /\ monitor # "checking" /\ status = "none"
  /\ reader' = "asking" /\ UNCHANGED <<others, loops, status>>
GetHealthReturns ==
  /\ reader = "asking" /\ ServiceFree
  /\ reader' = "idle" /\ UNCHANGED <<others, loops, status>>

\* The metrics loop needs pmc.mutex for a moment and changes nothing else here:
\* of its rounds only the last is left.
MetricsEnds == /\ metrics = "select" /\ ctxDone
               /\ metrics' = "gone" /\ UNCHANGED <<others, monitor, system, health>>

SystemTick == system = "select" /\ system' = "updating" /\ UNCHANGED <<others, monitor, metrics, health>>
UpdateSystemMetrics ==
  /\ system = "updating" /\ CollectorFree
  /\ system' = "select" /\ UNCHANGED <<others, monitor, metrics, health>>
SystemEnds == /\ system = "select" /\ ctxDone
              /\ system' = "gone" /\ UNCHANGED <<others, monitor, metrics, health>>

LoopStep == \/ MonitorStep \/ MonitorEnds \/ MetricsEnds
            \/ UpdateSystemMetrics \/ SystemEnds
-----------------------------------------------------------------------------
(* ConsumerConfigManager.                                                  *)

\* Restart needs group or topic; a reload looks at group and timeout.
NeedsRestartByGroup(old, new) == old.group # new.group   \* mutant: the topics are forgotten
NeedsRestart(old, new) == old.group # new.group \/ old.topic # new.topic
HasChanged(old, new)   == old.group # new.group \/ old.timeout # new.timeout
\* The new configuration is stored and t notifies the service's watcher.
Notifies(t, new) ==
  /\ changes < MaxChanges /\ changes' = changes + 1
  /\ current' = new /\ todo' = [todo EXCEPT ![t] = new]
  /\ Goes(t, IF NeedsRestart(current, new) THEN "stop" ELSE "swap")

\* Nothing keeps a second loop from being started, and DisableHotReload only
\* makes the loops skip their rounds.
EnableHotReload(l) ==
  /\ pc[l] = "off" /\ ManagerFree
  /\ Goes(l, "select")
  /\ UNCHANGED <<service, loops, health, todo, manager, panic>>
ManagerStops(l) ==
  /\ pc[l] = "select" /\ Goes(l, "ended")
  /\ UNCHANGED <<service, loops, health, todo, manager, panic>>

\* checkAndReloadConfig reads and validates the file, whatever it holds by then,
\* and takes ccm.mutex to compare.
Reload(l) ==
  /\ pc[l] = "select"
  /\ \E new \in Config : todo' = [todo EXCEPT ![l] = new]
  /\ Goes(l, "loaded")
  /\ UNCHANGED <<service, loops, health, manager, panic>>
CompareConfig(l) ==
  /\ pc[l] = "loaded" /\ ManagerFree
  /\ IF HasChanged(current, todo[l])
     THEN Notifies(l, todo[l])
     ELSE /\ todo' = [todo EXCEPT ![l] = FirstConfig]
          /\ Goes(l, "select") /\ UNCHANGED manager
  /\ UNCHANGED <<service, loops, health, panic>>

\* The manager's UpdateConfig, or LoadConfig: no comparison, and the watcher is
\* notified with ccm.mutex held.
ManagerUpdates ==
  /\ pc["updater"] = "idle"
  /\ \E new \in Config : Notifies("updater", new)
  /\ UNCHANGED <<service, loops, health, panic>>

ReloadStep(l) == EnableHotReload(l) \/ ManagerStops(l) \/ Reload(l) \/ CompareConfig(l)
-----------------------------------------------------------------------------
Next ==
  /\ ~panic
  /\ \/ OwnerCalls \/ \E t \in Thread : ServiceStep(t)
     \/ MonitorTick \/ SystemTick \/ LoopStep
     \/ GetHealth \/ GetHealthReturns
     \/ ManagerUpdates \/ \E l \in Loop : ReloadStep(l)

Spec == Init /\ [][Next]_vars

\* Goroutines that can move do, and a select takes a done context in the end.
Fairness ==
  /\ WF_vars(~panic /\ \E t \in Thread : pc[t] \in StopStages /\ ServiceStep(t))
  /\ WF_vars(~panic /\ MonitorStep) /\ SF_vars(~panic /\ MonitorEnds)
  /\ WF_vars(~panic /\ MetricsEnds)
  /\ WF_vars(~panic /\ UpdateSystemMetrics) /\ SF_vars(~panic /\ SystemEnds)

FairSpec == Spec /\ Fairness
-----------------------------------------------------------------------------
(* Properties.                                                             *)

\* The two ways Stop hangs: it holds cs.mutex and waits for a monitor that has
\* begun a check, or pmc.mutex and waits for the collector's loop.
Hangs ==
  \E t \in Thread :
    \/ pc[t] = "wait" /\ monitor \in {"locking", "checking"}
    \/ pc[t] = "collector" /\ system = "updating"

\* Stop returns, whoever calls it, unless it hangs in one of those two ways or
\* panics.
StopReturns == (\E t \in Thread : pc[t] = "servers") ~> (~Stopping \/ Hangs \/ panic)

\* GetHealth of a stopped service goes on saying that it runs: only a check
\* writes the status, and none ends while the service is not running.
HealthNeverSaysStopped == status # "stopped"

\* The running flag holds its promise in the first life only: a service started
\* again consumes nothing, and stopping that one closes closed queues.
SecondLifeIsDeaf ==
  /\ running /\ ~Stopping => (kafka.consuming <=> lives = 1)
  /\ panic => lives > 1

\* A service that was stopped is of no more use, and does not say so.
NoSecondLife == HealthNeverSaysStopped /\ SecondLifeIsDeaf

\* When no two threads were at work together, the service has the group and the
\* topics of the manager's configuration once all notifications are through.
ReloadApplied ==
  ~overlapped /\ (\A t \in Notifier : ~AtWork(t)) =>
    config.group = current.group /\ config.topic = current.topic
=============================================================================
