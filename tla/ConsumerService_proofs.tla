----------------------- MODULE ConsumerService_proofs -----------------------
(***************************************************************************)
(* Theorems about ConsumerService, for every set of configurations and of  *)
(* reload loops and every number of starts and changes.                    *)
(***************************************************************************)
EXTENDS ConsumerService, TLAPS

PC == StopStages \cup {"off", "idle", "select", "loaded", "ended", "start", "stop", "update", "swap"}

TypeOK ==
  /\ running \in BOOLEAN /\ ctxDone \in BOOLEAN /\ queuesClosed \in BOOLEAN
  /\ kafka \in [running : BOOLEAN, consuming : BOOLEAN]
  /\ lives \in Nat
  /\ monitor \in {"gone", "select", "locking", "checking"}
  /\ status \in {"none", "running", "stopped"}
  /\ pc \in [Thread -> PC] /\ DOMAIN todo = Thread
  /\ overlapped \in BOOLEAN /\ panic \in BOOLEAN

\* Stop holds cs.mutex: one thread at a time is in it, of a running service.
StopsAlone ==
  \A t \in Thread : pc[t] \in StopStages =>
    /\ running /\ ctxDone
    /\ \A u \in Thread : pc[u] \in StopStages => u = t

\* What a life leaves behind for the next one.
Remains ==
  /\ monitor # "gone" => running
  /\ running \/ ctxDone \/ queuesClosed => lives > 0
  /\ ~running /\ lives > 0 => ctxDone
  /\ running /\ queuesClosed /\ (\A t \in Thread : pc[t] \notin {"collector", "wait"}) => lives > 1

LivesInv == TypeOK /\ StopsAlone /\ Remains /\ NoSecondLife

LEMMA LivesInit == Init => LivesInv
  <1> SUFFICES ASSUME Init PROVE LivesInv
    OBVIOUS
  <1>1. \A t \in Thread : pc[t] \in {"off", "idle"}
    BY DEF Init
  <1>2. TypeOK
    BY DEF Init, TypeOK, PC
  <1>3. StopsAlone /\ Remains
    BY <1>1 DEF Init, StopsAlone, Remains, StopStages
  <1>4. NoSecondLife
    BY DEF Init, NoSecondLife, HealthNeverSaysStopped, SecondLifeIsDeaf
  <1>5. QED
    BY <1>2, <1>3, <1>4 DEF LivesInv

\* A step that leaves the service alone and moves a thread outside of Stop.
LEMMA Moving ==
  ASSUME LivesInv, NEW t \in Thread, NEW where \in PC \ StopStages, Goes(t, where),
         pc[t] \notin StopStages,
         running' = running, ctxDone' = ctxDone, kafka' = kafka, queuesClosed' = queuesClosed,
         lives' = lives, loops' = loops, health' = health, panic' = panic, DOMAIN todo' = Thread
  PROVE  LivesInv'
  <1>1. TypeOK' /\ StopsAlone' /\ Remains'
    BY DEF Goes, LivesInv, TypeOK, PC, StopStages, StopsAlone, Remains, loops, health
  <1>2. (\E u \in Thread : pc'[u] \in StopStages) <=> (\E u \in Thread : pc[u] \in StopStages)
    BY DEF Goes, LivesInv, TypeOK
  <1>3. NoSecondLife'
    BY <1>2 DEF LivesInv, NoSecondLife, HealthNeverSaysStopped, SecondLifeIsDeaf, Stopping,
                loops, health
  <1>4. QED
    BY <1>1, <1>3 DEF LivesInv

\* A step that moves no thread and leaves the service alone.
LEMMA LoopsMove ==
  ASSUME LivesInv, UNCHANGED others, monitor # "gone" \/ monitor' = "gone",
         monitor' \in {"gone", "select", "locking", "checking"}, status' \in {status, "running"}
  PROVE  LivesInv'
  <1>1. TypeOK' /\ StopsAlone' /\ Remains'
    BY DEF LivesInv, TypeOK, StopsAlone, Remains, others, service
  <1>2. NoSecondLife'
    BY DEF LivesInv, NoSecondLife, HealthNeverSaysStopped, SecondLifeIsDeaf, Stopping,
           others, service
  <1>3. QED
    BY <1>1, <1>2 DEF LivesInv

LEMMA LivesStep == LivesInv /\ [Next]_vars => LivesInv'
  <1> SUFFICES ASSUME LivesInv, [Next]_vars PROVE LivesInv'
    OBVIOUS
  <1>0. Thread = Loop \cup {"updater", "owner"}
    BY DEF Thread, Notifier
  <1>1. CASE OwnerCalls
    BY <1>1, <1>0, Moving DEF OwnerCalls, service, PC, StopStages, LivesInv, TypeOK
  <1>2. ASSUME NEW t \in Thread, ServiceStep(t) PROVE LivesInv'
    <2> USE DEF LivesInv
    <2>r. Rest(t) \in PC \ StopStages /\ AfterStop(t) \in PC \ StopStages
      BY DEF Rest, AfterStop, PC, StopStages
    <2>1. CASE StartFails(t)
      BY <2>1, <2>r, Moving DEF StartFails, service, StopStages, TypeOK
    <2>2. CASE Start(t)
      <3>1. ~Stopping /\ ~Stopping'
        BY <2>2, <2>r DEF Start, Goes, ServiceFree, Stopping, TypeOK
      <3>2. TypeOK'
        BY <2>2, <2>r DEF Start, Goes, TypeOK, health
      <3>3. StopsAlone'
        BY <3>1 DEF StopsAlone, Stopping
      <3>4. Remains'
        BY <2>2, <2>r DEF Start, TypeOK, Remains, health
      <3>5. NoSecondLife'
        <4>1. kafka'.consuming = ~ctxDone /\ lives' = lives + 1 /\ lives \in Nat
          BY <2>2 DEF Start, TypeOK
        <4>2. ctxDone <=> lives > 0
          BY <2>2 DEF Start, TypeOK, Remains
        <4>3. kafka'.consuming <=> lives' = 1
          <5>1. lives > 0 <=> lives' # 1
            BY <4>1
          <5>2. QED
            BY <4>1, <4>2, <5>1, Zenon
        <4>4. status' = status /\ panic' = panic
          BY <2>2 DEF Start, health
        <4>5. QED
          BY <4>1, <4>3, <4>4 DEF NoSecondLife, HealthNeverSaysStopped, SecondLifeIsDeaf
      <3>6. QED
        BY <3>2, <3>3, <3>4, <3>5
    <2>3. CASE StopOfStopped(t)
      BY <2>3, <2>r, Moving DEF StopOfStopped, service, StopStages, TypeOK
    <2>4. CASE StopBegin(t)
      <3>1. ~Stopping /\ \A u \in Thread : pc'[u] \in StopStages <=> u = t
        BY <2>4 DEF StopBegin, Goes, ServiceFree, Stopping, StopStages, TypeOK
      <3>2. TypeOK'
        BY <2>4 DEF StopBegin, Goes, TypeOK, PC, StopStages, loops, health
      <3>3. StopsAlone'
        BY <2>4, <3>1 DEF StopBegin, StopsAlone
      <3>4. Remains'
        BY <2>4, <3>1 DEF StopBegin, Goes, Remains, TypeOK, Stopping, StopStages, loops
      <3>5. NoSecondLife'
        BY <2>4, <3>1 DEF StopBegin, NoSecondLife, HealthNeverSaysStopped, SecondLifeIsDeaf,
                          Stopping, health
      <3>6. QED
        BY <3>2, <3>3, <3>4, <3>5
    <2>5. CASE StopServers(t)
      <3>1. /\ pc[t] = "servers" /\ running /\ ctxDone
            /\ pc'[t] \in {"collector", "wait"}
            /\ \A u \in Thread : pc'[u] \in StopStages <=> u = t
            /\ \A u \in Thread : pc[u] \notin {"collector", "wait"}
        BY <2>5 DEF StopServers, Goes, StopStages, TypeOK, StopsAlone
      <3>2. TypeOK'
        BY <2>5 DEF StopServers, Goes, TypeOK, PC, StopStages, loops, health
      <3>3. StopsAlone'
        BY <2>5, <3>1 DEF StopServers, StopsAlone
      <3>4. Remains'
        BY <2>5, <3>1 DEF StopServers, Remains, loops
      <3>5. NoSecondLife'
        BY <2>5, <3>1 DEF StopServers, Remains, NoSecondLife, HealthNeverSaysStopped,
                          SecondLifeIsDeaf, Stopping, StopStages, health
      <3>6. QED
        BY <3>2, <3>3, <3>4, <3>5
    <2>6. CASE CollectorWait(t)
      <3>1. /\ pc[t] = "collector" /\ pc'[t] = "wait"
            /\ \A u \in Thread : pc'[u] \in StopStages <=> pc[u] \in StopStages
            /\ UNCHANGED <<service, loops, health, panic, todo>>
        BY <2>6 DEF CollectorWait, Goes, StopStages, TypeOK
      <3>2. TypeOK'
        BY <2>6, <3>1 DEF CollectorWait, Goes, TypeOK, PC, StopStages, service, loops, health
      <3>3. StopsAlone'
        BY <3>1 DEF StopsAlone, service
      <3>4. Remains'
        BY <3>1 DEF Remains, service, loops, TypeOK
      <3>5. NoSecondLife'
        BY <3>1 DEF NoSecondLife, HealthNeverSaysStopped, SecondLifeIsDeaf, Stopping, StopStages,
                    service, health
      <3>6. QED
        BY <3>2, <3>3, <3>4, <3>5
    <2>7. CASE StopEnds(t)
      <3>1. ~running' /\ monitor' = "gone" /\ ctxDone /\ \A u \in Thread : pc'[u] \notin StopStages
        BY <2>7, <2>r DEF StopEnds, Goes, StopStages, TypeOK, StopsAlone, loops
      <3>2. TypeOK'
        BY <2>7, <2>r DEF StopEnds, Goes, TypeOK, loops, health
      <3>3. StopsAlone'
        BY <3>1 DEF StopsAlone
      <3>4. Remains'
        BY <2>7, <3>1 DEF StopEnds, Remains
      <3>5. NoSecondLife'
        BY <2>7, <3>1 DEF StopEnds, NoSecondLife, HealthNeverSaysStopped, SecondLifeIsDeaf, health
      <3>6. QED
        BY <3>2, <3>3, <3>4, <3>5
    <2>8. CASE UpdateConfig(t)
      <3>1. PICK where \in PC \ StopStages : Goes(t, where)
        BY <2>8, <2>r DEF UpdateConfig, PC, StopStages
      <3>2. QED
        BY <2>8, <3>1, Moving DEF UpdateConfig, StopStages, TypeOK
    <2>9. QED
      BY <1>2, <2>1, <2>2, <2>3, <2>4, <2>5, <2>6, <2>7, <2>8 DEF ServiceStep
  <1>3. CASE MonitorTick \/ SystemTick \/ GetHealth \/ GetHealthReturns
    BY <1>3, LoopsMove DEF MonitorTick, MonitorMoves, SystemTick, GetHealth, GetHealthReturns,
                           loops, health, LivesInv, TypeOK
  <1>4. CASE LoopStep
    <2>1. CASE MonitorWrites
      <3>1. running
        BY <2>1 DEF MonitorWrites, MonitorMoves, LivesInv, Remains
      <3>2. QED
        BY <2>1, <3>1, LoopsMove DEF MonitorWrites, MonitorMoves
    <2>2. QED
      BY <1>4, <2>1, LoopsMove DEF LoopStep, MonitorStep, MonitorLocks, MonitorMoves, MonitorEnds,
                                   MetricsEnds, UpdateSystemMetrics, SystemEnds, health, LivesInv, TypeOK
  <1>5. CASE ManagerUpdates
    <2>1. PICK where \in {"stop", "swap"} : Goes("updater", where)
      BY <1>5 DEF ManagerUpdates, Notifies
    <2>2. QED
      BY <1>5, <1>0, <2>1, Moving
         DEF ManagerUpdates, Notifies, service, PC, StopStages, LivesInv, TypeOK
  <1>6. ASSUME NEW l \in Loop, ReloadStep(l) PROVE LivesInv'
    <2>1. PICK where \in {"stop", "swap", "select", "ended", "loaded"} : Goes(l, where)
      BY <1>6 DEF ReloadStep, EnableHotReload, ManagerStops, Reload, CompareConfig, Notifies
    <2>2. DOMAIN todo' = Thread /\ pc[l] \notin StopStages
      BY <1>6 DEF ReloadStep, EnableHotReload, ManagerStops, Reload, CompareConfig, Notifies,
                  StopStages, LivesInv, TypeOK
    <2>3. UNCHANGED <<service, loops, health, panic>>
      BY <1>6 DEF ReloadStep, EnableHotReload, ManagerStops, Reload, CompareConfig
    <2>4. where \in PC \ StopStages /\ l \in Thread
      BY <1>0 DEF PC, StopStages
    <2>5. QED
      BY <2>1, <2>2, <2>3, <2>4, Moving DEF service
  <1>7. CASE UNCHANGED vars
    BY <1>7, LoopsMove DEF vars, others, service, loops, health, manager, LivesInv, TypeOK
  <1>8. QED
    BY <1>1, <1>2, <1>3, <1>4, <1>5, <1>6, <1>7 DEF Next

(* A service that was stopped is of no more use: started again it consumes *)
(* nothing and its Stop closes closed queues, and its health goes on saying *)
(* that it runs, whoever stops and starts it and however often.            *)
THEOREM StoppedForGood == Spec => []NoSecondLife
  <1>1. LivesInv => NoSecondLife
    BY DEF LivesInv
  <1>2. QED
    BY <1>1, LivesInit, LivesStep, PTL DEF Spec
-----------------------------------------------------------------------------
Agrees == config.group = current.group /\ config.topic = current.topic

\* As long as no two threads were at work together: one is at most, and what a
\* notified one has still to do brings the two configurations together.
AloneAtWork ==
  \A t \in Thread : AtWork(t) => \A u \in Thread : AtWork(u) => u = t
Owed ==
  /\ AtWork("owner") \/ (\A t \in Notifier : ~AtWork(t)) => Agrees
  /\ \A t \in Notifier :
       /\ pc[t] \in StopStages \cup {"stop", "update", "swap"} => todo[t] = current
       /\ pc[t] = "update" => ~running
       /\ pc[t] \in {"swap", "start"} => Agrees
ReloadInv ==
  /\ pc["owner"] \notin {"update", "swap"}
  /\ ~overlapped => AloneAtWork /\ Owed

LEMMA ReloadInit == Init => ReloadInv
  <1> SUFFICES ASSUME Init PROVE ReloadInv
    OBVIOUS
  <1>1. \A t \in Thread : pc[t] \in {"off", "idle"}
    BY DEF Init
  <1>2. "owner" \in Thread /\ Notifier \subseteq Thread
    BY DEF Thread
  <1>3. Agrees
    BY DEF Init, Agrees
  <1>4. QED
    BY <1>1, <1>2, <1>3 DEF ReloadInv, AloneAtWork, Owed, AtWork, StopStages

\* A step that ends with nobody's work overlapping: the thread that moves was
\* alone at work, or nobody was.
LEMMA GoesAlone ==
  ASSUME TypeOK, ReloadInv, NEW t \in Thread, NEW where, Goes(t, where), ~overlapped',
         where \in {"idle", "off", "select", "loaded", "ended"}
           \/ where \in {"stop", "swap", "start"} \/ AtWork(t)
  PROVE  /\ ~overlapped /\ AloneAtWork' /\ Owed
         /\ pc'[t] = where /\ \A u \in Thread \ {t} : pc'[u] = pc[u]
         /\ AtWork(t)' => \A u \in Thread \ {t} : ~AtWork(u)
  <1>1. ~overlapped /\ AloneAtWork /\ Owed
    BY DEF Goes, ReloadInv
  <1>2. pc'[t] = where /\ \A u \in Thread \ {t} : pc'[u] = pc[u]
    BY DEF Goes, TypeOK
  <1>3. AtWork(t)' => \A u \in Thread \ {t} : ~AtWork(u)
    <2> SUFFICES ASSUME AtWork(t)' PROVE \A u \in Thread \ {t} : ~AtWork(u)
      OBVIOUS
    <2>1. where \notin {"idle", "off", "select", "loaded", "ended"}
      BY <1>2 DEF AtWork, StopStages
    <2>2. CASE AtWork(t)
      BY <1>1, <2>2 DEF AloneAtWork
    <2>3. CASE where \in {"stop", "swap", "start"}
      BY <2>3 DEF Goes
    <2>4. QED
      BY <2>1, <2>2, <2>3
  <1>4. AloneAtWork'
    BY <1>1, <1>2, <1>3 DEF AloneAtWork, AtWork
  <1>5. QED
    BY <1>1, <1>2, <1>3, <1>4

\* Of a step of a thread that is at work before or after it, only that thread
\* and the two configurations matter.
LEMMA OwedByOne ==
  ASSUME TypeOK, ReloadInv, NEW t \in Thread, NEW where, Goes(t, where), ~overlapped',
         where \in {"idle", "off", "select", "loaded", "ended"}
           \/ where \in {"stop", "swap", "start"} \/ AtWork(t),
         AtWork(t) \/ AtWork(t)',
         t = "owner" => Agrees',
         t \in Notifier =>
           /\ where \in StopStages \cup {"stop", "update", "swap"} => todo'[t] = current'
           /\ where = "update" => ~running'
           /\ where \notin StopStages \cup {"stop", "update"} => Agrees'
  PROVE  Owed' /\ AloneAtWork'
  <1>0. ~overlapped /\ AloneAtWork /\ Owed
    BY DEF Goes, ReloadInv
  <1>1. /\ ~overlapped /\ AloneAtWork /\ Owed /\ AloneAtWork'
        /\ pc'[t] = where /\ \A u \in Thread \ {t} : pc'[u] = pc[u]
        /\ AtWork(t)' => \A u \in Thread \ {t} : ~AtWork(u)
    BY <1>0, GoesAlone
  <1>2. \A u \in Thread \ {t} : ~AtWork(u) /\ ~AtWork(u)'
    BY <1>1 DEF AloneAtWork, AtWork
  <1>3. "owner" \in Thread /\ Notifier \subseteq Thread /\ Thread = Notifier \cup {"owner"}
        /\ "owner" \notin Notifier
    BY ConfigAssumption DEF Thread, Notifier
  <1>4. ASSUME AtWork("owner")' \/ \A u \in Notifier : ~AtWork(u)' PROVE Agrees'
    <2>1. CASE t = "owner"
      BY <2>1
    <2>2. CASE t \in Notifier
      <3>1. ~AtWork(t)'
        BY <1>2, <1>3, <1>4, <2>2
      <3>2. where \notin StopStages \cup {"stop", "update"}
        BY <1>1, <3>1 DEF AtWork
      <3>3. QED
        BY <2>2, <3>2
    <2>3. QED
      BY <1>3, <2>1, <2>2
  <1>5. ASSUME NEW u \in Notifier
        PROVE  /\ pc'[u] \in StopStages \cup {"stop", "update", "swap"} => todo'[u] = current'
               /\ pc'[u] = "update" => ~running'
               /\ pc'[u] \in {"swap", "start"} => Agrees'
    <2>1. CASE u = t
      BY <1>1, <2>1 DEF StopStages
    <2>2. CASE u # t
      <3>1. pc'[u] \notin StopStages \cup {"stop", "update", "start", "swap"}
        BY <1>2, <1>3, <2>2 DEF AtWork
      <3>2. QED
        BY <3>1
    <2>3. QED
      BY <2>1, <2>2
  <1>6. QED
    BY <1>1, <1>4, <1>5 DEF Owed

\* A step that leaves the configurations alone and whose thread, if any, is at
\* work neither before nor after it.
LEMMA OwedAsBefore ==
  ASSUME ReloadInv, config' = config, current' = current, running' = running,
         ~overlapped' => ~overlapped,
         \A t \in Thread : AtWork(t) \/ AtWork(t)' => pc'[t] = pc[t] /\ todo'[t] = todo[t],
         pc'["owner"] \notin {"update", "swap"}
  PROVE  ReloadInv'
  <1>1. "owner" \in Thread /\ Notifier \subseteq Thread
    BY DEF Thread
  <1>2. \A t \in Thread : AtWork(t)' <=> AtWork(t)
    BY DEF AtWork
  <1>3. ASSUME AloneAtWork PROVE AloneAtWork'
    BY <1>2, <1>3 DEF AloneAtWork
  <1>4. ASSUME Owed PROVE Owed'
    <2>1. AtWork("owner")' \/ (\A t \in Notifier : ~AtWork(t)') => Agrees'
      BY <1>1, <1>2, <1>4 DEF Owed, Agrees
    <2>2. ASSUME NEW t \in Notifier
          PROVE  /\ pc'[t] \in StopStages \cup {"stop", "update", "swap"} => todo'[t] = current'
                 /\ pc'[t] = "update" => ~running'
                 /\ pc'[t] \in {"swap", "start"} => Agrees'
      BY <1>1, <1>4 DEF Owed, Agrees, AtWork
    <2>3. QED
      BY <2>1, <2>2 DEF Owed
  <1>5. QED
    BY <1>3, <1>4 DEF ReloadInv

LEMMA ReloadPreserved == TypeOK /\ StopsAlone /\ ReloadInv /\ [Next]_vars => ReloadInv'
  <1> SUFFICES ASSUME TypeOK, StopsAlone, ReloadInv, [Next]_vars PROVE ReloadInv'
    OBVIOUS
  <1>0. /\ "owner" \in Thread /\ Notifier \subseteq Thread /\ Thread = Notifier \cup {"owner"}
        /\ "owner" \notin Notifier /\ "updater" \in Notifier /\ Loop \subseteq Notifier
    BY ConfigAssumption DEF Thread, Notifier
  <1>1. CASE OwnerCalls
    <2>1. PICK call \in {"start", "stop"} : Goes("owner", call)
      BY <1>1 DEF OwnerCalls
    <2>2. pc'["owner"] = call /\ AtWork("owner")' /\ config' = config /\ current' = current
      BY <1>0, <1>1, <2>1 DEF OwnerCalls, Goes, TypeOK, AtWork, service, manager
    <2>3. ASSUME ~overlapped' PROVE Agrees'
      <3>1. Owed /\ \A t \in Notifier : ~AtWork(t)
        BY <1>0, <2>1, <2>2, <2>3, GoesAlone
      <3>2. QED
        BY <2>2, <3>1 DEF Owed, Agrees
    <2>4. ~overlapped' => Owed' /\ AloneAtWork'
      BY <1>0, <2>1, <2>2, <2>3, OwedByOne
    <2>5. QED
      BY <2>2, <2>4 DEF ReloadInv
  <1>2. ASSUME NEW t \in Thread, ServiceStep(t) PROVE ReloadInv'
    <2>1. AtWork(t) /\ (pc[t] \in {"update", "swap"} => t \in Notifier)
      BY <1>0, <1>2 DEF ServiceStep, StartFails, Start, StopOfStopped, StopBegin, StopServers,
             CollectorWait, StopEnds, UpdateConfig, AtWork, StopStages, ReloadInv
    <2>2. PICK where : Goes(t, where)
      BY <1>2 DEF ServiceStep, StartFails, Start, StopOfStopped, StopBegin, StopServers,
             CollectorWait, StopEnds, UpdateConfig
    <2>3. pc'[t] = where
      BY <2>2 DEF Goes, TypeOK
    <2>4. pc'["owner"] \notin {"update", "swap"}
      <3>1. CASE t = "owner"
        <4>1. pc["owner"] \notin {"update", "swap"} /\ ~UpdateConfig("owner")
          BY <1>0 DEF ReloadInv, UpdateConfig
        <4>2. Rest("owner") \notin {"update", "swap"} /\ AfterStop("owner") = "idle"
          BY DEF Rest, AfterStop
        <4>3. \E w : w \notin {"update", "swap"} /\ Goes("owner", w)
          BY <1>2, <3>1, <4>1, <4>2 DEF ServiceStep, StartFails, Start, StopOfStopped, StopBegin,
             StopServers, CollectorWait, StopEnds
        <4>4. QED
          BY <2>1, <3>1, <4>3 DEF Goes, TypeOK
      <3>2. CASE t # "owner"
        BY <1>0, <2>2, <3>2 DEF Goes, TypeOK, ReloadInv
      <3>3. QED
        BY <3>1, <3>2
    <2>5. ASSUME ~overlapped'
          PROVE  /\ t = "owner" => Agrees'
                 /\ t \in Notifier =>
                      /\ where \in StopStages \cup {"stop", "update", "swap"} => todo'[t] = current'
                      /\ where = "update" => ~running'
                      /\ where \notin StopStages \cup {"stop", "update"} => Agrees'
      <3>1. Owed
        BY <2>2, <2>5 DEF Goes, ReloadInv
      <3>2. /\ t = "owner" => Agrees
            /\ t \in Notifier =>
                 /\ pc[t] \in StopStages \cup {"stop", "update", "swap"} => todo[t] = current
                 /\ pc[t] = "update" => ~running
                 /\ pc[t] \in {"swap", "start"} => Agrees
        BY <2>1, <3>1 DEF Owed
      <3>3. CASE UpdateConfig(t)
        <4>1. t \in Notifier /\ todo[t] = current /\ current' = current
          BY <2>1, <3>2, <3>3 DEF UpdateConfig, manager
        <4>2. pc'[t] \in {"start", "idle", "select"}
          BY <1>0, <3>3 DEF UpdateConfig, Goes, TypeOK, Rest
        <4>3. Agrees'
          <5>1. CASE running
            BY <3>2, <3>3, <4>1, <5>1 DEF UpdateConfig, Agrees
          <5>2. CASE ~running
            BY <3>3, <4>1, <5>2 DEF UpdateConfig, Agrees
          <5>3. QED
            BY <5>1, <5>2
        <4>4. QED
          BY <1>0, <2>3, <4>1, <4>2, <4>3 DEF StopStages
      <3>4. CASE ~UpdateConfig(t)
        <4>1. config' = config /\ current' = current /\ todo' = todo
          BY <1>2, <3>4 DEF ServiceStep, StartFails, Start, StopOfStopped, StopBegin, StopServers,
             CollectorWait, StopEnds, service, manager
        <4>2. Agrees' <=> Agrees
          BY <4>1 DEF Agrees
        <4>3. t \in Notifier /\ pc[t] = "start" => where \in {"idle", "select"}
          BY <1>2, <2>3, <3>4 DEF ServiceStep, StartFails, Start, StopOfStopped, StopBegin,
             StopServers, CollectorWait, StopEnds, Goes, TypeOK, Rest, StopStages
        <4>4. t \in Notifier /\ pc[t] # "start" =>
                /\ pc[t] \in StopStages \cup {"stop"}
                /\ where \in StopStages \cup {"update"}
                /\ where = "update" => ~running'
          BY <1>0, <1>2, <2>3, <3>4 DEF ServiceStep, StartFails, Start, StopOfStopped, StopBegin,
             StopServers, CollectorWait, StopEnds, Goes, TypeOK, AfterStop, StopStages, service
        <4>5. QED
          BY <3>2, <4>1, <4>2, <4>3, <4>4 DEF StopStages
      <3>5. QED
        BY <3>3, <3>4
    <2>6. ~overlapped' => Owed' /\ AloneAtWork'
      BY <2>1, <2>2, <2>5, OwedByOne
    <2>7. QED
      BY <2>4, <2>6 DEF ReloadInv
  <1>3. CASE MonitorTick \/ SystemTick \/ GetHealth \/ GetHealthReturns \/ LoopStep \/ UNCHANGED vars
    <2>1. UNCHANGED <<service, pc, todo, manager, overlapped>>
      BY <1>3 DEF MonitorTick, SystemTick, GetHealth, GetHealthReturns, LoopStep, MonitorStep,
             MonitorLocks, MonitorWrites, MonitorMoves, MonitorEnds, MetricsEnds,
             UpdateSystemMetrics, SystemEnds, others, vars
    <2>2. QED
      BY <2>1, OwedAsBefore DEF service, manager, ReloadInv
  <1>4. ASSUME NEW t \in Notifier, NEW new, Notifies(t, new), pc[t] \in {"idle", "loaded"},
               UNCHANGED <<service, loops, health, panic>>
        PROVE  ReloadInv'
    <2>1. PICK where \in {"stop", "swap"} : Goes(t, where)
      BY <1>4 DEF Notifies
    <2>2. /\ pc'[t] = where /\ AtWork(t)' /\ pc'["owner"] \notin {"update", "swap"}
          /\ config' = config /\ current' = new /\ todo'[t] = new
      BY <1>0, <1>4, <2>1 DEF Notifies, Goes, TypeOK, AtWork, service, ReloadInv
    <2>3. ASSUME ~overlapped', where = "swap" PROVE Agrees'
      <3>1. Owed /\ \A u \in Thread \ {t} : ~AtWork(u)
        BY <1>0, <2>1, <2>2, <2>3, GoesAlone
      <3>2. ~AtWork(t)
        BY <1>4 DEF AtWork, StopStages
      <3>3. Agrees
        BY <1>0, <3>1, <3>2 DEF Owed
      <3>4. ~NeedsRestart(current, new)
        BY <1>4, <2>2, <2>3 DEF Notifies, Goes, TypeOK
      <3>5. QED
        BY <2>2, <3>3, <3>4 DEF Agrees, NeedsRestart
    <2>4. ~overlapped' => Owed' /\ AloneAtWork'
      BY <1>0, <2>1, <2>2, <2>3, OwedByOne DEF StopStages
    <2>5. QED
      BY <2>2, <2>4 DEF ReloadInv
  <1>5. CASE ManagerUpdates
    BY <1>0, <1>4, <1>5 DEF ManagerUpdates
  <1>6. ASSUME NEW l \in Loop, ReloadStep(l) PROVE ReloadInv'
    <2>1. CASE CompareConfig(l) /\ HasChanged(current, todo[l])
      BY <1>0, <1>4, <2>1 DEF CompareConfig
    <2>2. CASE ~(CompareConfig(l) /\ HasChanged(current, todo[l]))
      <3>1. PICK where \in {"select", "ended", "loaded"} : Goes(l, where)
        BY <1>6, <2>2 DEF ReloadStep, EnableHotReload, ManagerStops, Reload, CompareConfig
      <3>2. pc[l] \in {"off", "select", "loaded"} /\ UNCHANGED <<service, manager>>
        BY <1>6, <2>2 DEF ReloadStep, EnableHotReload, ManagerStops, Reload, CompareConfig
      <3>3. \A u \in Thread \ {l} : pc'[u] = pc[u] /\ todo'[u] = todo[u]
        BY <1>6, <2>2, <3>1 DEF ReloadStep, EnableHotReload, ManagerStops, Reload, CompareConfig,
           Goes, TypeOK
      <3>4. pc'[l] = where /\ l \in Thread /\ l # "owner"
        BY <1>0, <3>1 DEF Goes, TypeOK
      <3>5. ~AtWork(l) /\ ~AtWork(l)'
        BY <3>2, <3>4 DEF AtWork, StopStages
      <3>6. (~overlapped' => ~overlapped) /\ pc'["owner"] \notin {"update", "swap"}
        BY <1>0, <3>1, <3>3, <3>4 DEF Goes, ReloadInv
      <3>7. QED
        BY <3>2, <3>3, <3>5, <3>6, OwedAsBefore DEF service, manager
    <2>3. QED
      BY <2>1, <2>2
  <1>7. QED
    BY <1>1, <1>2, <1>3, <1>5, <1>6 DEF Next

\* When the owner, the reload loops and a caller of UpdateConfig come one at a
\* time, the service has the manager's group and topics whenever all
\* notifications are through, for every sequence of changes and restarts.
THEOREM ReloadsArrive == Spec => []ReloadApplied
  <1>1. Init => LivesInv /\ ReloadInv
    BY LivesInit, ReloadInit
  <1>2. LivesInv /\ ReloadInv /\ [Next]_vars => LivesInv' /\ ReloadInv'
    BY LivesStep, ReloadPreserved DEF LivesInv
  <1>3. ReloadInv => ReloadApplied
    BY DEF ReloadInv, Owed, Agrees, ReloadApplied
  <1>4. QED
    BY <1>1, <1>2, <1>3, PTL DEF Spec
=============================================================================
