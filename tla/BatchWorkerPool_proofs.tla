----------------------- MODULE BatchWorkerPool_proofs -----------------------
(***************************************************************************)
(* Theorems about BatchWorkerPool, for every set of tasks and callers and  *)
(* every queue size and worker count.                                      *)
(***************************************************************************)
EXTENDS BatchWorkerPool, SequenceTheorems, FiniteSetTheorems, TLAPS

(* n fresh goroutine numbers make a sequence of goroutines.                *)
LEMMA SpawnType ==
  ASSUME TypeOK, NEW n \in Nat, Spawn(n)
  PROVE  /\ workers' \in Seq(Goroutine)
         /\ spawned' \in 0..MaxGoroutines
         /\ phase' \in [Goroutine -> Phase]
  <1>1. [i \in 1..n |-> spawned + i] \in Seq(Goroutine)
    <2>1. \A i \in 1..n : spawned + i \in Goroutine
      BY PoolAssumption DEF TypeOK, Spawn, Goroutine
    <2>2. QED
      BY <2>1, IsASeq
  <1>2. workers' \in Seq(Goroutine)
    BY <1>1, ConcatProperties DEF Spawn, TypeOK
  <1>3. spawned' \in 0..MaxGoroutines
    BY PoolAssumption DEF TypeOK, Spawn
  <1>4. phase' \in [Goroutine -> Phase]
    BY DEF TypeOK, Spawn, Phase
  <1>5. QED
    BY <1>2, <1>3, <1>4

(* A goroutine that was holding a task is not among the fresh ones.        *)
LEMMA SpawnHands ==
  ASSUME TypeOK, NEW n \in Nat, Spawn(n)
  PROVE  /\ \A g \in Goroutine : Holding(g)' <=> Holding(g)
         /\ \A g \in Goroutine : (phase'[g] = "unborn") <=> (g > spawned')
  BY DEF TypeOK, Spawn, Holding, Goroutine

LEMMA TypeInit == Init => TypeOK
  <1> SUFFICES ASSUME Init PROVE TypeOK
    OBVIOUS
  <1>1. \A g \in Goroutine : phase[g] = "unborn" /\ held[g] = NoTask /\ g > spawned
    BY DEF Init, Goroutine
  <1>2. phase \in [Goroutine -> Phase] /\ held \in [Goroutine -> Task \cup {NoTask}]
    BY DEF Init, Phase
  <1>3. /\ taskQueue \in Seq(Task) /\ Len(taskQueue) <= QueueSize
        /\ workers \in Seq(Goroutine)
    BY PoolAssumption DEF Init
  <1>4. \A g \in Goroutine : (held[g] \in Task) <=> Holding(g)
    BY <1>1, PoolAssumption DEF Holding
  <1>5. spawned \in 0..MaxGoroutines
    BY PoolAssumption DEF Init
  <1>a. /\ caller \in [Caller -> {"idle", "checked", "sent"}]
        /\ offering \in [Caller -> Task \cup {NoTask}]
        /\ \A c \in Caller : (offering[c] \in Task) <=> Checked(c)
    BY PoolAssumption DEF Init, Checked
  <1>6. \A g \in Goroutine : (phase[g] = "unborn") <=> (g > spawned)
    BY <1>1
  <1>7. /\ isRunning \in BOOLEAN /\ cancelled \in BOOLEAN /\ stopping \in BOOLEAN
        /\ sampler \in {"off", "select"}
        /\ scaler \in {"off", "select", "up", "down"}
        /\ throughput \in BOOLEAN
        /\ finished \subseteq Task /\ refused \subseteq Task
    BY DEF Init
  <1>8. /\ utilization \in Int /\ lastCompleted \in Int
        /\ activeWorkers \in Int /\ queuedTasks \in Int /\ totalTasks \in Int
        /\ completedTasks \in Int /\ failedTasks \in Int
    BY DEF Init
  <1>9. QED
    BY <1>2, <1>3, <1>4, <1>5, <1>a, <1>6, <1>7, <1>8 DEF TypeOK

(* Every step keeps the types.                                             *)
LEMMA TypeStep == TypeOK /\ [Next]_vars => TypeOK'
  <1> SUFFICES ASSUME TypeOK, [Next]_vars PROVE TypeOK'
    OBVIOUS
  <1> USE PoolAssumption
  <1>1. CASE Start
    <2>1. InitialWorkers \in Nat /\ Spawn(InitialWorkers)
      BY <1>1 DEF Start
    <2>2. QED
      BY <1>1, <2>1, SpawnType, SpawnHands DEF Start, TypeOK, places, counters, Checked
  <1>2. CASE StopBegin
    BY <1>2 DEF TypeOK, StopBegin, places, monitors, counters, Holding, Checked
  <1>3. CASE StopEnd
    BY <1>3 DEF TypeOK, StopEnd, places, monitors, counters, Holding, Checked
  <1>a. ASSUME NEW c \in Caller, NEW t \in Task, SubmitLook(c, t) PROVE TypeOK'
    BY <1>a DEF TypeOK, SubmitLook, lifecycle, monitors, counters, Holding, Checked
  <1>4. ASSUME NEW c \in Caller, SubmitSend(c) PROVE TypeOK'
    <2>1. offering[c] \in Task
      BY <1>4 DEF TypeOK, SubmitSend
    <2>2. taskQueue' \in Seq(Task) /\ Len(taskQueue') = Len(taskQueue) + 1
      BY <1>4, <2>1 DEF TypeOK, SubmitSend
    <2>3. QED
      BY <1>4, <2>2 DEF TypeOK, SubmitSend, lifecycle, monitors, counters, Holding, Checked
  <1>5. ASSUME NEW c \in Caller, SubmitCount(c) PROVE TypeOK'
    BY <1>5 DEF TypeOK, SubmitCount, lifecycle, places, monitors, Holding, Checked
  <1>6. ASSUME NEW c \in Caller, SubmitRefuse(c) PROVE TypeOK'
    <2>1. offering[c] \in Task
      BY <1>6 DEF TypeOK, SubmitRefuse
    <2>2. QED
      BY <1>6, <2>1 DEF TypeOK, SubmitRefuse, lifecycle, monitors, counters, Holding, Checked
  <1>b. ASSUME NEW c \in Caller, NEW t \in Task, SubmitWhileStopped(c, t) PROVE TypeOK'
    BY <1>b DEF TypeOK, SubmitWhileStopped, lifecycle, monitors, counters, Holding, Checked
  <1>7. ASSUME NEW g \in Goroutine, Receive(g) PROVE TypeOK'
    <2>1. /\ taskQueue' \in Seq(Task) /\ Len(taskQueue') <= QueueSize
          /\ Head(taskQueue) \in Task
      BY <1>7 DEF TypeOK, Receive
    <2>2. QED
      BY <1>7, <2>1 DEF TypeOK, Receive, Phase, lifecycle, monitors, counters, Holding, Checked
  <1>8. ASSUME NEW g \in Goroutine, BeginExecute(g) PROVE TypeOK'
    BY <1>8 DEF TypeOK, BeginExecute, Phase, lifecycle, places, monitors, Holding, Checked
  <1>9. ASSUME NEW g \in Goroutine, NEW ok \in BOOLEAN, FinishTask(g, ok)
        PROVE  TypeOK'
    <2>1. held[g] \in Task
      BY <1>9 DEF TypeOK, FinishTask, Holding
    <2>2. QED
      BY <1>9, <2>1 DEF TypeOK, FinishTask, Phase, lifecycle, monitors, Holding, Checked
  <1>10. ASSUME NEW g \in Goroutine, ExitWorker(g) PROVE TypeOK'
    BY <1>10 DEF TypeOK, ExitWorker, Phase, lifecycle, places, monitors, counters, Holding,
                 Checked
  <1>11. CASE Sample
    BY <1>11 DEF TypeOK, Sample, lifecycle, places, counters, Holding, Checked
  <1>12. CASE SamplerExit
    BY <1>12 DEF TypeOK, SamplerExit, lifecycle, places, counters, Holding, Checked
  <1>13. CASE ScalerTick
    BY <1>13 DEF TypeOK, ScalerTick, lifecycle, places, counters, Holding, Checked
  <1>14. CASE ScaleUp
    <2> DEFINE added == MinOf(MaxWorkers - Len(workers), MaxOf(1, Len(workers) \div 4))
    <2>1. CASE isRunning /\ Len(workers) < MaxWorkers
      <3>1. added \in Nat
        BY <2>1 DEF TypeOK, MinOf, MaxOf
      <3>2. Spawn(added) /\ activeWorkers' = activeWorkers + added
        BY <1>14, <2>1 DEF ScaleUp
      <3> HIDE DEF added
      <3>3. QED
        BY <1>14, <3>1, <3>2, SpawnType, SpawnHands
           DEF ScaleUp, TypeOK, lifecycle, places, counters, Checked
    <2>2. CASE ~(isRunning /\ Len(workers) < MaxWorkers)
      BY <1>14, <2>2 DEF ScaleUp, TypeOK, lifecycle, places, counters, Holding, Checked
    <2>3. QED
      BY <2>1, <2>2
  <1>15. CASE ScaleDown
    <2> DEFINE removed == MinOf(MaxOf(1, Len(workers) \div 8), Len(workers) - MinWorkers)
    <2>1. CASE isRunning /\ Len(workers) > MinWorkers
      <3>1. removed \in Nat /\ removed <= Len(workers)
        BY <2>1 DEF TypeOK, MinOf, MaxOf
      <3>2. /\ workers' = SubSeq(workers, 1, Len(workers) - removed)
            /\ activeWorkers' = activeWorkers - removed
        BY <1>15, <2>1 DEF ScaleDown
      <3> HIDE DEF removed
      <3>3. workers' \in Seq(Goroutine)
        BY <3>1, <3>2 DEF TypeOK
      <3>4. QED
        BY <1>15, <3>1, <3>2, <3>3 DEF ScaleDown, TypeOK, lifecycle, places, counters, Holding,
                                       Checked
    <2>2. CASE ~(isRunning /\ Len(workers) > MinWorkers)
      BY <1>15, <2>2 DEF ScaleDown, TypeOK, lifecycle, places, counters, Holding, Checked
    <2>3. QED
      BY <2>1, <2>2
  <1>16. CASE ScalerExit
    BY <1>16 DEF TypeOK, ScalerExit, lifecycle, places, counters, Holding, Checked
  <1>17. CASE UNCHANGED vars
    BY <1>17 DEF TypeOK, vars, lifecycle, places, monitors, counters, Holding, Checked
  <1>18. QED
    BY <1>1, <1>2, <1>3, <1>4, <1>5, <1>6, <1>7, <1>8, <1>9, <1>10, <1>11,
       <1>12, <1>13, <1>14, <1>15, <1>16, <1>17, <1>a, <1>b
       DEF Next, Submit, WorkerStep, Monitor

(* Type correctness.                                                       *)
THEOREM TypeCorrect == Spec => []TypeOK
  <1>1. QED
    BY TypeInit, TypeStep, PTL DEF Spec
-----------------------------------------------------------------------------
(* The places a task can be in, step by step.                              *)

(* A fresh task appended to the channel: the channel's contents grow by it *)
(* and stay free of repetitions.                                           *)
LEMMA AppendFresh ==
  ASSUME NEW S, NEW q \in Seq(S), NEW t \in S, t \notin Range(q),
         \A i, j \in DOMAIN q : q[i] = q[j] => i = j
  PROVE  /\ Range(Append(q, t)) = Range(q) \cup {t}
         /\ \A i, j \in DOMAIN Append(q, t) :
              Append(q, t)[i] = Append(q, t)[j] => i = j
  <1>1. /\ DOMAIN Append(q, t) = 1..(Len(q) + 1)
        /\ DOMAIN q = 1..Len(q)
        /\ \A i \in 1..Len(q) : Append(q, t)[i] = q[i]
        /\ Append(q, t)[Len(q) + 1] = t
        /\ Len(q) \in Nat
    BY AppendProperties
  <1>2. QED
    BY <1>1 DEF Range

(* The head taken from the channel is no longer in it.                     *)
LEMMA TailUnique ==
  ASSUME NEW S, NEW q \in Seq(S), q # <<>>,
         \A i, j \in DOMAIN q : q[i] = q[j] => i = j
  PROVE  /\ Head(q) \in Range(q)
         /\ Range(Tail(q)) = Range(q) \ {Head(q)}
         /\ \A i, j \in DOMAIN Tail(q) : Tail(q)[i] = Tail(q)[j] => i = j
  <1>1. /\ DOMAIN q = 1..Len(q) /\ Len(q) \in Nat \ {0}
        /\ DOMAIN Tail(q) = 1..(Len(q) - 1)
        /\ \A i \in 1..(Len(q) - 1) : Tail(q)[i] = q[i + 1]
        /\ Head(q) = q[1]
    BY HeadTailProperties, LenProperties
  <1>2. \A i \in 2..Len(q) : q[i] = Tail(q)[i - 1] /\ i - 1 \in DOMAIN Tail(q)
    BY <1>1
  <1>3. Head(q) \in Range(q)
    BY <1>1 DEF Range
  <1>4. Range(Tail(q)) \subseteq Range(q) \ {Head(q)}
    BY <1>1 DEF Range
  <1>5. Range(q) \ {Head(q)} \subseteq Range(Tail(q))
    <2>1. ASSUME NEW i \in 1..Len(q), q[i] # Head(q) PROVE q[i] \in Range(Tail(q))
      <3>1. i \in 2..Len(q)
        BY <1>1, <2>1
      <3>2. QED
        BY <1>2, <3>1 DEF Range
    <2>2. QED
      BY <1>1, <2>1 DEF Range
  <1>6. \A i, j \in DOMAIN Tail(q) : Tail(q)[i] = Tail(q)[j] => i = j
    BY <1>1
  <1>7. QED
    BY <1>3, <1>4, <1>5, <1>6

(* Scaling up leaves every task where it is.                               *)
LEMMA ScaleUpHands ==
  ASSUME TypeOK, ScaleUp
  PROVE  \A g \in Goroutine : Holding(g)' <=> Holding(g)
  <1> DEFINE added == MinOf(MaxWorkers - Len(workers), MaxOf(1, Len(workers) \div 4))
  <1>1. CASE isRunning /\ Len(workers) < MaxWorkers
    <2>1. added \in Nat
      BY <1>1, PoolAssumption DEF TypeOK, MinOf, MaxOf
    <2>2. Spawn(added)
      BY <1>1 DEF ScaleUp
    <2> HIDE DEF added
    <2>3. QED
      BY <2>1, <2>2, SpawnHands
  <1>2. CASE ~(isRunning /\ Len(workers) < MaxWorkers)
    BY <1>2 DEF ScaleUp, Holding
  <1>3. QED
    BY <1>1, <1>2

(* A caller that sends its task or is refused holds it no longer.          *)
LEMMA OfferEnds ==
  ASSUME TypeOK, NEW c \in Caller, Checked(c),
         \A d, e \in Caller :
           Checked(d) /\ Checked(e) /\ offering[d] = offering[e] => d = e,
         NEW to \in {"idle", "sent"},
         caller' = [caller EXCEPT ![c] = to],
         offering' = [offering EXCEPT ![c] = NoTask]
  PROVE  /\ offering[c] \in InOffer
         /\ InOffer' = InOffer \ {offering[c]}
         /\ \A d, e \in Caller :
              Checked(d)' /\ Checked(e)' /\ offering'[d] = offering'[e] => d = e
  <1>1. /\ ~Checked(c)'
        /\ \A d \in Caller \ {c} :
             offering'[d] = offering[d] /\ (Checked(d)' <=> Checked(d))
    BY DEF TypeOK, Checked
  <1>2. QED
    BY <1>1 DEF InOffer

LEMMA OnePlaceInit == Init => OnePlacePerTask
  BY DEF Init, OnePlacePerTask, Queued, InHand, InOffer, Checked, Holding, Range

(* A worker's step or a submission moves one task from a place to the next;*)
(* every other step leaves all places alone.                               *)
LEMMA OnePlaceStep == TypeOK /\ OnePlacePerTask /\ [Next]_vars => OnePlacePerTask'
  <1> SUFFICES ASSUME TypeOK, OnePlacePerTask, [Next]_vars
               PROVE  OnePlacePerTask'
    OBVIOUS
  <1>0. ASSUME UNCHANGED places, \A g \in Goroutine : Holding(g)' <=> Holding(g),
               \A c \in Caller : Checked(c)' <=> Checked(c)
        PROVE  OnePlacePerTask'
    <2>1. InHand' = InHand
      BY <1>0 DEF InHand, places
    <2>2. InOffer' = InOffer /\ Queued' = Queued
      BY <1>0 DEF InOffer, Queued, places
    <2>3. QED
      BY <1>0, <2>1, <2>2 DEF OnePlacePerTask, places
  <1>1. CASE Start
    <2>1. InitialWorkers \in Nat /\ Spawn(InitialWorkers)
      BY <1>1, PoolAssumption DEF Start
    <2>2. QED
      BY <1>0, <1>1, <2>1, SpawnHands DEF Start, Checked
  <1>2. CASE StopBegin \/ StopEnd \/ Sample \/ SamplerExit \/ ScalerTick
              \/ ScaleDown \/ ScalerExit \/ UNCHANGED vars
    BY <1>0, <1>2 DEF StopBegin, StopEnd, Sample, SamplerExit, ScalerTick,
                      ScaleDown, ScalerExit, vars, Holding, Checked
  <1>3. CASE ScaleUp
    BY <1>0, <1>3, ScaleUpHands DEF ScaleUp, Checked
  <1>a. ASSUME NEW c \in Caller, NEW t \in Task, SubmitLook(c, t)
        PROVE  OnePlacePerTask'
    <2>1. /\ t \notin InOffer \cup Queued \cup InHand \cup finished \cup refused
          /\ ~Checked(c) /\ Checked(c)' /\ offering'[c] = t
          /\ \A d \in Caller \ {c} :
               offering'[d] = offering[d] /\ (Checked(d)' <=> Checked(d))
          /\ UNCHANGED <<taskQueue, held, phase, finished, refused>>
      BY <1>a DEF SubmitLook, Offered, TypeOK, Checked
    <2>2. /\ InHand' = InHand /\ Queued' = Queued
          /\ \A g \in Goroutine : Holding(g)' <=> Holding(g)
      BY <2>1 DEF InHand, Holding, Queued
    <2>3. InOffer' = InOffer \cup {t}
      BY <2>1 DEF InOffer
    <2>4. \A d, e \in Caller :
            Checked(d)' /\ Checked(e)' /\ offering'[d] = offering'[e] => d = e
      BY <2>1 DEF OnePlacePerTask, InOffer
    <2>5. QED
      BY <2>1, <2>2, <2>3, <2>4 DEF OnePlacePerTask
  <1>4. ASSUME NEW c \in Caller, SubmitSend(c) PROVE OnePlacePerTask'
    <2>1. PICK t \in Task : t = offering[c]
      BY <1>4 DEF SubmitSend, TypeOK
    <2>2. /\ taskQueue' = Append(taskQueue, t)
          /\ UNCHANGED <<held, phase, finished, refused>>
      BY <1>4, <2>1 DEF SubmitSend
    <2>3. /\ InOffer' = InOffer \ {t} /\ t \in InOffer
          /\ \A d, e \in Caller :
               Checked(d)' /\ Checked(e)' /\ offering'[d] = offering'[e] => d = e
      BY <1>4, <2>1, OfferEnds DEF SubmitSend, OnePlacePerTask
    <2>4. /\ Queued' = Queued \cup {t}
          /\ \A i, j \in DOMAIN taskQueue' : taskQueue'[i] = taskQueue'[j] => i = j
      <3>1. t \notin Range(taskQueue)
        BY <2>3 DEF OnePlacePerTask, Queued
      <3>2. QED
        BY <2>2, <3>1, AppendFresh DEF TypeOK, OnePlacePerTask, Queued
    <2>5. InHand' = InHand /\ \A g \in Goroutine : Holding(g)' <=> Holding(g)
      BY <2>2 DEF InHand, Holding
    <2>6. QED
      BY <2>2, <2>3, <2>4, <2>5 DEF OnePlacePerTask
  <1>5. ASSUME NEW c \in Caller, SubmitCount(c) PROVE OnePlacePerTask'
    BY <1>0, <1>5 DEF SubmitCount, Holding, Checked, TypeOK
  <1>6. ASSUME NEW c \in Caller, SubmitRefuse(c) PROVE OnePlacePerTask'
    <2>1. PICK t \in Task : t = offering[c]
      BY <1>6 DEF SubmitRefuse, TypeOK
    <2>2. /\ refused' = refused \cup {t}
          /\ UNCHANGED <<taskQueue, held, phase, finished>>
      BY <1>6, <2>1 DEF SubmitRefuse
    <2>3. /\ InOffer' = InOffer \ {t} /\ t \in InOffer
          /\ \A d, e \in Caller :
               Checked(d)' /\ Checked(e)' /\ offering'[d] = offering'[e] => d = e
      BY <1>6, <2>1, OfferEnds DEF SubmitRefuse, OnePlacePerTask
    <2>4. /\ InHand' = InHand /\ Queued' = Queued
          /\ \A g \in Goroutine : Holding(g)' <=> Holding(g)
      BY <2>2 DEF InHand, Holding, Queued
    <2>5. QED
      BY <2>2, <2>3, <2>4 DEF OnePlacePerTask
  <1>b. ASSUME NEW c \in Caller, NEW t \in Task, SubmitWhileStopped(c, t)
        PROVE  OnePlacePerTask'
    <2>1. /\ t \notin InOffer \cup Queued \cup InHand \cup finished \cup refused
          /\ refused' = refused \cup {t}
          /\ UNCHANGED <<taskQueue, held, phase, finished, offering, caller>>
      BY <1>b DEF SubmitWhileStopped, Offered
    <2>2. /\ InHand' = InHand /\ Queued' = Queued /\ InOffer' = InOffer
          /\ \A g \in Goroutine : Holding(g)' <=> Holding(g)
          /\ \A d \in Caller : Checked(d)' <=> Checked(d)
      BY <2>1 DEF InHand, Holding, Queued, InOffer, Checked
    <2>3. QED
      BY <2>1, <2>2 DEF OnePlacePerTask
  <1>7. ASSUME NEW g \in Goroutine, Receive(g) PROVE OnePlacePerTask'
    <2> DEFINE t == Head(taskQueue)
    <2>1. /\ t \in Queued /\ Queued' = Queued \ {t}
          /\ \A i, j \in DOMAIN taskQueue' : taskQueue'[i] = taskQueue'[j] => i = j
      BY <1>7, TailUnique DEF Receive, TypeOK, OnePlacePerTask, Queued
    <2>2. /\ ~Holding(g) /\ Holding(g)' /\ held'[g] = t
          /\ \A h \in Goroutine \ {g} :
               held'[h] = held[h] /\ (Holding(h)' <=> Holding(h))
          /\ UNCHANGED <<finished, refused>>
      BY <1>7 DEF Receive, TypeOK, Holding
    <2> HIDE DEF t
    <2>3. InHand' = InHand \cup {t}
      BY <2>2 DEF InHand
    <2>4. \A h \in Goroutine : Holding(h) => held[h] \in InHand
      BY DEF InHand
    <2>5. \A h, k \in Goroutine :
            Holding(h)' /\ Holding(k)' /\ held'[h] = held'[k] => h = k
      BY <2>1, <2>2, <2>4 DEF OnePlacePerTask
    <2>6. InOffer' = InOffer /\ UNCHANGED <<offering, caller>>
      BY <1>7 DEF Receive, InOffer, Checked
    <2>7. QED
      BY <2>1, <2>2, <2>3, <2>5, <2>6 DEF OnePlacePerTask, Checked
  <1>8. ASSUME NEW g \in Goroutine, BeginExecute(g) PROVE OnePlacePerTask'
    BY <1>0, <1>8 DEF BeginExecute, TypeOK, Holding, Checked
  <1>9. ASSUME NEW g \in Goroutine, NEW ok \in BOOLEAN, FinishTask(g, ok)
        PROVE  OnePlacePerTask'
    <2> DEFINE t == held[g]
    <2>1. /\ Holding(g) /\ ~Holding(g)' /\ finished' = finished \cup {t}
          /\ \A h \in Goroutine \ {g} :
               held'[h] = held[h] /\ (Holding(h)' <=> Holding(h))
          /\ UNCHANGED <<taskQueue, refused>> /\ Queued' = Queued
      BY <1>9 DEF FinishTask, TypeOK, Holding, Queued
    <2>2. t \in InHand /\ InHand' = InHand \ {t}
      BY <2>1 DEF InHand, OnePlacePerTask
    <2>3. InOffer' = InOffer /\ UNCHANGED <<offering, caller>>
      BY <1>9 DEF FinishTask, InOffer, Checked
    <2>4. QED
      BY <2>1, <2>2, <2>3 DEF OnePlacePerTask, Checked
  <1>10. ASSUME NEW g \in Goroutine, ExitWorker(g) PROVE OnePlacePerTask'
    BY <1>0, <1>10 DEF ExitWorker, TypeOK, Holding, Checked
  <1>11. QED
    BY <1>1, <1>2, <1>3, <1>4, <1>5, <1>6, <1>7, <1>8, <1>9, <1>10, <1>a, <1>b
       DEF Next, Submit, WorkerStep, Monitor

(* No task is ever in two places, and so none runs twice.                  *)
THEOREM TasksInOnePlace == Spec => []OnePlacePerTask
  <1>1. QED
    BY TypeCorrect, OnePlaceInit, OnePlaceStep, PTL DEF Spec
-----------------------------------------------------------------------------
(* After Stop.                                                             *)
LEMMA QuiesceStep == TypeOK /\ StopQuiesces /\ [Next]_vars => StopQuiesces'
  <1> SUFFICES ASSUME TypeOK, StopQuiesces, [Next]_vars PROVE StopQuiesces'
    OBVIOUS
  <1>1. CASE isRunning'
    <2>1. stopping' => cancelled'
      BY DEF StopQuiesces, Next, Start, StopBegin, StopEnd, Submit, SubmitLook, SubmitSend,
             SubmitCount, SubmitWhileStopped, SubmitRefuse, WorkerStep, Receive, BeginExecute,
             FinishTask, ExitWorker, Monitor, Sample, SamplerExit, ScalerTick,
             ScaleUp, ScaleDown, ScalerExit, vars, lifecycle
    <2>2. QED
      BY <1>1, <2>1 DEF StopQuiesces
  <1>2. CASE StopEnd
    <2>1. \A g \in Goroutine : ~Holding(g)'
      BY <1>2 DEF StopEnd, WaitGroupIsZero, Live, Holding
    <2>2. InHand' = {} /\ WaitGroupIsZero' /\ ~stopping'
      BY <1>2, <2>1 DEF StopEnd, WaitGroupIsZero, Live, InHand, monitors
    <2>3. QED
      BY <2>2 DEF StopQuiesces
  <1>3. CASE ~isRunning' /\ ~StopEnd
    <2>1. ~isRunning
      BY <1>3 DEF Next, Start, StopBegin, Submit, SubmitLook, SubmitSend, SubmitCount,
                  SubmitWhileStopped, SubmitRefuse, WorkerStep, Receive, BeginExecute, FinishTask,
                  ExitWorker, Monitor, Sample, SamplerExit, ScalerTick, ScaleUp,
                  ScaleDown, ScalerExit, vars, lifecycle
    <2>2. WaitGroupIsZero
      BY <2>1 DEF StopQuiesces
    <2>3. UNCHANGED <<phase, held, sampler, scaler>>
      BY <1>3, <2>1, <2>2
         DEF Next, Start, StopBegin, Submit, SubmitLook, SubmitSend, SubmitCount,
             SubmitWhileStopped, SubmitRefuse, WorkerStep, Receive, BeginExecute, FinishTask,
             ExitWorker, Monitor, Sample, SamplerExit, ScalerTick, ScaleUp,
             ScaleDown, ScalerExit, vars, WaitGroupIsZero, Live, places, monitors
    <2>4. ~stopping'
      BY <1>3, <2>1
         DEF StopQuiesces, Next, Start, StopBegin, Submit, SubmitLook, SubmitSend,
             SubmitCount, SubmitWhileStopped, SubmitRefuse, WorkerStep, Receive, BeginExecute,
             FinishTask, ExitWorker, Monitor, Sample, SamplerExit, ScalerTick,
             ScaleUp, ScaleDown, ScalerExit, vars, lifecycle
    <2>5. QED
      BY <2>1, <2>3, <2>4 DEF StopQuiesces, WaitGroupIsZero, Live, InHand, Holding
  <1>4. QED
    BY <1>1, <1>2, <1>3

(* When no Stop is in progress and the pool is not running, no goroutine   *)
(* of it is left, not even a worker scaleDown dropped from the list.       *)
THEOREM StopLeavesNothingRunning == Spec => []StopQuiesces
  <1>1. Init => StopQuiesces
    BY DEF Init, StopQuiesces, WaitGroupIsZero, Live, InHand, Holding
  <1>2. QED
    BY <1>1, TypeCorrect, QuiesceStep, PTL DEF Spec

-----------------------------------------------------------------------------
(* The executor the pool implements.                                       *)
IInv == TypeOK /\ OnePlacePerTask /\ StopQuiesces

LEMMA Invariance == Spec => []IInv
  <1>1. QED
    BY TypeCorrect, TasksInOnePlace, StopLeavesNothingRunning, PTL DEF IInv

Statuses == [t \in Task |-> TaskStatus(t)]

(* A step that moves no task maps to a stutter, if the pool stays up or down. *)
LEMMA StutterMap ==
  ASSUME UNCHANGED <<places, isRunning>>,
         \A g \in Goroutine : Holding(g)' <=> Holding(g),
         \A c \in Caller : Checked(c)' <=> Checked(c)
  PROVE  UNCHANGED Executor!vars
  <1>1. Queued' = Queued /\ InHand' = InHand /\ InOffer' = InOffer
    BY DEF places, Queued, InHand, InOffer
  <1>2. \A t \in Task : TaskStatus(t)' = TaskStatus(t)
    BY <1>1 DEF TaskStatus, places
  <1>3. QED
    BY <1>2 DEF Executor!vars

LEMMA RefineInit == Init => Executor!Init
  BY DEF Init, Executor!Init, TaskStatus, Queued, InHand, InOffer, Checked, Holding, Range

LEMMA RefineStep == IInv /\ IInv' /\ [Next]_vars => [Executor!Next]_(Executor!vars)
  <1> SUFFICES ASSUME IInv, IInv', [Next]_vars
               PROVE  [Executor!Next]_(Executor!vars)
    OBVIOUS
  <1>1. CASE Start
    <2>1. InitialWorkers \in Nat /\ Spawn(InitialWorkers)
      BY <1>1, PoolAssumption DEF Start
    <2>2. \A g \in Goroutine : Holding(g)' <=> Holding(g)
      BY <2>1, SpawnHands DEF IInv
    <2>3. \A t \in Task : TaskStatus(t)' = TaskStatus(t)
      BY <1>1, <2>2 DEF Start, places, TaskStatus, Queued, InHand, InOffer, Checked
    <2>4. QED
      BY <1>1, <2>3 DEF Start, Executor!Next, Executor!GoUp
  <1>2. CASE StopBegin \/ Sample \/ SamplerExit \/ ScalerTick
              \/ ScaleDown \/ ScalerExit \/ UNCHANGED vars
    BY <1>2, StutterMap DEF StopBegin, Sample, SamplerExit, ScalerTick,
                            ScaleDown, ScalerExit, vars, Holding, Checked, lifecycle
  <1>3. CASE ScaleUp
    BY <1>3, ScaleUpHands, StutterMap DEF IInv, ScaleUp, Checked, lifecycle
  <1>4. CASE StopEnd
    <2>1. InHand = {}
      BY <1>4 DEF StopEnd, WaitGroupIsZero, Live, InHand, Holding
    <2>2. \A t \in Task : TaskStatus(t) # "running"
      BY <2>1 DEF TaskStatus
    <2>3. \A t \in Task : TaskStatus(t)' = TaskStatus(t)
      BY <1>4 DEF StopEnd, places, TaskStatus, Queued, InHand, Holding, InOffer, Checked
    <2>4. isRunning /\ ~isRunning'
      BY <1>4 DEF StopEnd, IInv, StopQuiesces
    <2>5. QED
      BY <2>2, <2>3, <2>4 DEF Executor!Next, Executor!GoDown
  <1>a. ASSUME NEW c \in Caller, NEW t \in Task, SubmitLook(c, t)
        PROVE  Executor!Offer(t)
    <2>1. /\ t \notin InOffer \cup Queued \cup InHand \cup finished \cup refused
          /\ ~Checked(c) /\ Checked(c)' /\ offering'[c] = t
          /\ \A d \in Caller \ {c} :
               offering'[d] = offering[d] /\ (Checked(d)' <=> Checked(d))
          /\ UNCHANGED <<taskQueue, held, phase, finished, refused, isRunning>> /\ isRunning
      BY <1>a DEF SubmitLook, Offered, IInv, TypeOK, Checked, lifecycle
    <2>2. Queued' = Queued /\ InHand' = InHand
      BY <2>1 DEF Queued, InHand, Holding
    <2>3. InOffer' = InOffer \cup {t}
      BY <2>1 DEF InOffer
    <2>4. /\ TaskStatus(t) = "new" /\ TaskStatus(t)' = "offered"
          /\ \A u \in Task \ {t} : TaskStatus(u)' = TaskStatus(u)
      BY <2>1, <2>2, <2>3 DEF TaskStatus
    <2>5. QED
      BY <2>1, <2>4 DEF Executor!Offer, Executor!Move
  <1>5. ASSUME NEW c \in Caller, SubmitSend(c)
        PROVE  \E t \in Task : Executor!AcceptOffered(t)
    <2>1. PICK t \in Task : t = offering[c]
      BY <1>5 DEF SubmitSend, IInv, TypeOK
    <2>2. /\ taskQueue' = Append(taskQueue, t)
          /\ UNCHANGED <<held, phase, finished, refused, isRunning>>
      BY <1>5, <2>1 DEF SubmitSend, lifecycle
    <2>3. InOffer' = InOffer \ {t} /\ t \in InOffer
      BY <1>5, <2>1, OfferEnds DEF SubmitSend, IInv, OnePlacePerTask
    <2>4. t \notin Queued \cup InHand \cup finished \cup refused
      BY <2>3 DEF IInv, OnePlacePerTask
    <2>5. Queued' = Queued \cup {t}
      <3>1. /\ taskQueue \in Seq(Task) /\ t \notin Range(taskQueue)
            /\ \A i, j \in DOMAIN taskQueue : taskQueue[i] = taskQueue[j] => i = j
        BY <2>4 DEF IInv, TypeOK, OnePlacePerTask, Queued
      <3>2. Range(Append(taskQueue, t)) = Range(taskQueue) \cup {t}
        BY <3>1, AppendFresh
      <3>3. QED
        BY <2>2, <3>2 DEF Queued
    <2>6. InHand' = InHand
      BY <2>2 DEF InHand, Holding
    <2>7. /\ TaskStatus(t) = "offered" /\ TaskStatus(t)' = "queued"
          /\ \A u \in Task \ {t} : TaskStatus(u)' = TaskStatus(u)
      BY <2>2, <2>3, <2>4, <2>5, <2>6 DEF TaskStatus
    <2>8. Executor!AcceptOffered(t)
      BY <2>2, <2>7 DEF Executor!AcceptOffered, Executor!Move
    <2>9. QED
      BY <2>8
  <1>6. ASSUME NEW c \in Caller, SubmitCount(c) PROVE UNCHANGED Executor!vars
    BY <1>6, StutterMap DEF SubmitCount, Holding, Checked, IInv, TypeOK, lifecycle
  <1>7. ASSUME NEW c \in Caller, SubmitRefuse(c)
        PROVE  \E t \in Task : Executor!RefuseOffered(t)
    <2>1. PICK t \in Task : t = offering[c]
      BY <1>7 DEF SubmitRefuse, IInv, TypeOK
    <2>2. /\ refused' = refused \cup {t}
          /\ UNCHANGED <<taskQueue, held, phase, finished, isRunning>>
      BY <1>7, <2>1 DEF SubmitRefuse, lifecycle
    <2>3. InOffer' = InOffer \ {t} /\ t \in InOffer
      BY <1>7, <2>1, OfferEnds DEF SubmitRefuse, IInv, OnePlacePerTask
    <2>4. t \notin Queued \cup InHand \cup finished \cup refused
      BY <2>3 DEF IInv, OnePlacePerTask
    <2>5. Queued' = Queued /\ InHand' = InHand
      BY <2>2 DEF Queued, InHand, Holding
    <2>6. /\ TaskStatus(t) = "offered" /\ TaskStatus(t)' = "refused"
          /\ \A u \in Task \ {t} : TaskStatus(u)' = TaskStatus(u)
      BY <2>2, <2>3, <2>4, <2>5 DEF TaskStatus
    <2>7. Executor!RefuseOffered(t)
      BY <2>2, <2>6 DEF Executor!RefuseOffered, Executor!Move
    <2>8. QED
      BY <2>7
  <1>b. ASSUME NEW c \in Caller, NEW t \in Task, SubmitWhileStopped(c, t)
        PROVE  Executor!Refuse(t)
    <2>1. /\ t \notin InOffer \cup Queued \cup InHand \cup finished \cup refused
          /\ refused' = refused \cup {t}
          /\ UNCHANGED <<taskQueue, held, phase, finished, offering, caller, isRunning>>
      BY <1>b DEF SubmitWhileStopped, Offered, lifecycle
    <2>2. Queued' = Queued /\ InHand' = InHand /\ InOffer' = InOffer
      BY <2>1 DEF Queued, InHand, Holding, InOffer, Checked
    <2>3. /\ TaskStatus(t) = "new" /\ TaskStatus(t)' = "refused"
          /\ \A u \in Task \ {t} : TaskStatus(u)' = TaskStatus(u)
      BY <2>1, <2>2 DEF TaskStatus
    <2>4. QED
      BY <2>1, <2>3 DEF Executor!Refuse, Executor!Move
  <1>8. ASSUME NEW g \in Goroutine, Receive(g)
        PROVE  \E t \in Task : Executor!Take(t)
    <2>1. PICK t \in Task : t = Head(taskQueue)
      BY <1>8 DEF Receive, IInv, TypeOK
    <2>2. t \in Queued /\ Queued' = Queued \ {t}
      BY <1>8, <2>1, TailUnique DEF Receive, IInv, TypeOK, OnePlacePerTask, Queued
    <2>3. /\ held' = [held EXCEPT ![g] = t]
          /\ phase' = [phase EXCEPT ![g] = "received"] /\ phase[g] = "select"
          /\ UNCHANGED <<finished, refused, isRunning>> /\ InOffer' = InOffer
      BY <1>8, <2>1 DEF Receive, lifecycle, InOffer, Checked
    <2>4. InHand' = InHand \cup {t}
      BY <2>3, SMTT(20) DEF InHand, Holding, IInv, TypeOK
    <2>5. isRunning
      BY <2>3 DEF IInv, StopQuiesces, WaitGroupIsZero, Live
    <2>6. /\ TaskStatus(t) = "queued" /\ TaskStatus(t)' = "running"
          /\ \A u \in Task \ {t} : TaskStatus(u)' = TaskStatus(u)
      BY <2>2, <2>3, <2>4 DEF TaskStatus, IInv, OnePlacePerTask
    <2>7. Executor!Take(t)
      BY <2>3, <2>5, <2>6 DEF Executor!Take, Executor!Move
    <2>8. QED
      BY <2>7
  <1>9. ASSUME NEW g \in Goroutine, BeginExecute(g) PROVE UNCHANGED Executor!vars
    BY <1>9, StutterMap DEF BeginExecute, Holding, Checked, lifecycle, IInv, TypeOK
  <1>10. ASSUME NEW g \in Goroutine, NEW ok \in BOOLEAN, FinishTask(g, ok)
         PROVE  \E t \in Task : Executor!Complete(t)
    <2>1. PICK t \in Task : t = held[g]
      BY <1>10 DEF FinishTask, IInv, TypeOK, Holding
    <2>2. /\ Holding(g) /\ ~Holding(g)' /\ finished' = finished \cup {t}
          /\ \A h \in Goroutine \ {g} :
               held'[h] = held[h] /\ (Holding(h)' <=> Holding(h))
          /\ UNCHANGED <<taskQueue, refused, isRunning>>
          /\ Queued' = Queued /\ InOffer' = InOffer
      BY <1>10, <2>1 DEF FinishTask, IInv, TypeOK, Holding, Queued, lifecycle, InOffer, Checked
    <2>3. t \in InHand /\ InHand' = InHand \ {t}
      BY <2>1, <2>2 DEF InHand, IInv, OnePlacePerTask
    <2>4. isRunning
      BY <2>3 DEF IInv, StopQuiesces
    <2>5. /\ TaskStatus(t) = "running" /\ TaskStatus(t)' = "done"
          /\ \A u \in Task \ {t} : TaskStatus(u)' = TaskStatus(u)
      BY <2>2, <2>3 DEF TaskStatus, IInv, OnePlacePerTask
    <2>6. Executor!Complete(t)
      BY <2>2, <2>4, <2>5 DEF Executor!Complete, Executor!Move
    <2>7. QED
      BY <2>6
  <1>11. ASSUME NEW g \in Goroutine, ExitWorker(g) PROVE UNCHANGED Executor!vars
    BY <1>11, StutterMap DEF ExitWorker, Holding, Checked, lifecycle, IInv, TypeOK
  <1>12. QED
    BY <1>1, <1>2, <1>3, <1>4, <1>5, <1>6, <1>7, <1>8, <1>9, <1>10, <1>11, <1>a, <1>b
       DEF Next, Submit, WorkerStep, Monitor, Executor!Next

(* The pool is an executor: it runs what it accepted at most once, only    *)
(* between Start and the return of Stop, and is idle when Stop returns.    *)
THEOREM PoolImplementsExecutor == Spec => ImplementsExecutor
  <1>1. QED
    BY RefineInit, RefineStep, Invariance, PTL
       DEF Spec, ImplementsExecutor, Executor!Spec
-----------------------------------------------------------------------------
(* The workers pool.workers lists, and the gauge that counts them.         *)

(* Before the first Start the list is empty: what makes WorkerAccounting   *)
(* inductive.                                                              *)
ListedWorkers ==
  /\ WorkerAccounting
  /\ ~cancelled /\ ~isRunning => workers = <<>> /\ activeWorkers = 0

LEMMA SpawnLength ==
  ASSUME TypeOK, NEW n \in Nat, Spawn(n)
  PROVE  Len(workers') = Len(workers) + n
  <1> DEFINE fresh == [i \in 1..n |-> spawned + i]
  <1>1. fresh \in Seq(Goroutine)
    <2>1. \A i \in 1..n : spawned + i \in Goroutine
      BY PoolAssumption DEF TypeOK, Spawn, Goroutine
    <2>2. QED
      BY <2>1, IsASeq
  <1>2. Len(fresh) = n
    <2>1. DOMAIN fresh = 1..n
      OBVIOUS
    <2>2. QED
      BY <1>1, <2>1, LenProperties
  <1>3. workers \in Seq(Goroutine) /\ workers' = workers \o fresh
    BY DEF TypeOK, Spawn
  <1> HIDE DEF fresh
  <1>4. QED
    BY <1>1, <1>2, <1>3, ConcatProperties

LEMMA ListedStep ==
  TypeOK /\ StopQuiesces /\ ListedWorkers /\ [Next]_vars => ListedWorkers'
  <1> SUFFICES ASSUME TypeOK, StopQuiesces, ListedWorkers, [Next]_vars
               PROVE  ListedWorkers'
    OBVIOUS
  <1> USE PoolAssumption
  <1>0. ASSUME UNCHANGED <<isRunning, cancelled, workers, activeWorkers>>
        PROVE  ListedWorkers'
    BY <1>0 DEF ListedWorkers, WorkerAccounting
  <1>1. CASE Start
    <2>1. /\ InitialWorkers \in Nat /\ Spawn(InitialWorkers)
          /\ activeWorkers' = InitialWorkers /\ cancelled' = cancelled
          /\ isRunning' /\ ~isRunning
      BY <1>1 DEF Start
    <2>2. ~cancelled => Len(workers') = InitialWorkers
      BY <2>1, SpawnLength DEF ListedWorkers
    <2>3. QED
      BY <2>1, <2>2 DEF ListedWorkers, WorkerAccounting, MaxOf
  <1>2. CASE StopBegin \/ StopEnd
    BY <1>2 DEF StopBegin, StopEnd, StopQuiesces, ListedWorkers, WorkerAccounting
  <1>3. CASE ScaleUp
    <2> DEFINE added == MinOf(MaxWorkers - Len(workers), MaxOf(1, Len(workers) \div 4))
    <2>1. CASE isRunning /\ Len(workers) < MaxWorkers
      <3>1. added \in Nat /\ added <= MaxWorkers - Len(workers)
        BY <2>1 DEF TypeOK, MinOf, MaxOf
      <3>2. /\ Spawn(added) /\ activeWorkers' = activeWorkers + added
            /\ UNCHANGED <<isRunning, cancelled>>
        BY <1>3, <2>1 DEF ScaleUp, lifecycle
      <3> HIDE DEF added
      <3>3. Len(workers') = Len(workers) + added /\ Len(workers) \in Nat
        BY <3>1, <3>2, SpawnLength DEF TypeOK
      <3>4. QED
        BY <2>1, <3>1, <3>2, <3>3 DEF ListedWorkers, WorkerAccounting, MaxOf
    <2>2. CASE ~(isRunning /\ Len(workers) < MaxWorkers)
      BY <1>0, <1>3, <2>2 DEF ScaleUp, lifecycle
    <2>3. QED
      BY <2>1, <2>2
  <1>4. CASE ScaleDown
    <2> DEFINE removed == MinOf(MaxOf(1, Len(workers) \div 8), Len(workers) - MinWorkers)
    <2>1. CASE isRunning /\ Len(workers) > MinWorkers
      <3>1. removed \in Nat /\ removed <= Len(workers) - MinWorkers
        BY <2>1 DEF TypeOK, MinOf, MaxOf
      <3>2. /\ workers' = SubSeq(workers, 1, Len(workers) - removed)
            /\ activeWorkers' = activeWorkers - removed
            /\ UNCHANGED <<isRunning, cancelled>>
        BY <1>4, <2>1 DEF ScaleDown, lifecycle
      <3> HIDE DEF removed
      <3>3. Len(workers') = Len(workers) - removed /\ Len(workers) \in Nat
        BY <3>1, <3>2 DEF TypeOK
      <3>4. QED
        BY <2>1, <3>1, <3>2, <3>3, SMTT(20) DEF ListedWorkers, WorkerAccounting, MaxOf
    <2>2. CASE ~(isRunning /\ Len(workers) > MinWorkers)
      BY <1>0, <1>4, <2>2 DEF ScaleDown, lifecycle
    <2>3. QED
      BY <2>1, <2>2
  <1>5. ASSUME NEW c \in Caller, Submit(c) PROVE ListedWorkers'
    BY <1>0, <1>5 DEF Submit, SubmitLook, SubmitSend, SubmitCount, SubmitWhileStopped,
                      SubmitRefuse, lifecycle
  <1>6. ASSUME NEW g \in Goroutine, WorkerStep(g) PROVE ListedWorkers'
    BY <1>0, <1>6 DEF WorkerStep, Receive, BeginExecute, FinishTask, ExitWorker, lifecycle
  <1>7. CASE Sample \/ SamplerExit \/ ScalerTick \/ ScalerExit \/ UNCHANGED vars
    BY <1>0, <1>7 DEF Sample, SamplerExit, ScalerTick, ScalerExit, vars, lifecycle
  <1>8. QED
    BY <1>1, <1>2, <1>3, <1>4, <1>5, <1>6, <1>7 DEF Next, Monitor

(* Until the first Stop the gauge ActiveWorkers is the number of workers   *)
(* listed, and scaling stays between its limits.                           *)
THEOREM ScalingWithinLimits == Spec => []WorkerAccounting
  <1>1. Init => ListedWorkers
    BY DEF Init, ListedWorkers, WorkerAccounting
  <1>2. ListedWorkers => WorkerAccounting
    BY DEF ListedWorkers
  <1>3. QED
    BY <1>1, <1>2, TypeCorrect, StopLeavesNothingRunning, ListedStep, PTL DEF Spec
-----------------------------------------------------------------------------
(* The counters.                                                           *)
Received == {g \in Goroutine : phase[g] = "received"}
Hands == {g \in Goroutine : Holding(g)}

(* Cardinality before and after one member comes or goes.                  *)
LEMMA OneMore ==
  ASSUME NEW S, NEW T, NEW x, IsFiniteSet(S), x \notin S, T = S \cup {x}
  PROVE  Cardinality(T) = Cardinality(S) + 1
  BY FS_AddElement

LEMMA OneLess ==
  ASSUME NEW S, NEW T, NEW x, IsFiniteSet(S), x \in S, T = S \ {x}
  PROVE  Cardinality(T) = Cardinality(S) - 1
  BY FS_RemoveElement

LEMMA Finiteness ==
  /\ IsFiniteSet(Pending) /\ IsFiniteSet(Received) /\ IsFiniteSet(Hands)
  /\ Cardinality(Pending) \in Nat
  /\ Cardinality(Received) \in Nat
  /\ Cardinality(Hands) \in Nat
  <1>1. IsFiniteSet(Goroutine) /\ IsFiniteSet(Caller)
    BY PoolAssumption, FS_Interval DEF Goroutine
  <1>2. Pending \subseteq Caller /\ Received \subseteq Goroutine /\ Hands \subseteq Goroutine
    BY DEF Pending, Received, Hands
  <1>3. QED
    BY <1>1, <1>2, FS_Subset, FS_CardinalityType

Counted ==
  /\ QueueGaugeExact
  /\ TaskConservation

LEMMA CountedStep == TypeOK /\ Counted /\ [Next]_vars => Counted'
  <1> SUFFICES ASSUME TypeOK, Counted, [Next]_vars PROVE Counted'
    OBVIOUS
  <1> DEFINE P == Cardinality(Pending)
             R == Cardinality(Received)
             H == Cardinality(Hands)
             L == Len(taskQueue)
  <1>a. /\ queuedTasks + P = L + R
        /\ totalTasks + P = L + H + completedTasks + failedTasks
    BY DEF Counted, QueueGaugeExact, TaskConservation, Received, Hands
  <1>b. P \in Nat /\ R \in Nat /\ H \in Nat /\ L \in Nat
    BY Finiteness DEF TypeOK
  <1>c. /\ queuedTasks \in Int /\ totalTasks \in Int
        /\ completedTasks \in Int /\ failedTasks \in Int
    BY DEF TypeOK
  <1>d. Counted' <=>
          /\ queuedTasks' + P' = L' + R'
          /\ totalTasks' + P' = L' + H' + completedTasks' + failedTasks'
    BY DEF Counted, QueueGaugeExact, TaskConservation, Received, Hands
  <1>0. ASSUME UNCHANGED counters, taskQueue' = taskQueue,
               Pending' = Pending, Received' = Received, Hands' = Hands
        PROVE  Counted'
    BY <1>0, <1>a, <1>d DEF counters
  <1>1. CASE Start \/ ScaleUp
    <2>1. CASE UNCHANGED phase
      BY <1>0, <1>1, <2>1 DEF Start, ScaleUp, places, Pending, Received, Hands, Holding
    <2>2. CASE \E n : Spawn(n)
      <3>1. \A g \in Goroutine :
              /\ (phase'[g] = "received") <=> (phase[g] = "received")
              /\ Holding(g)' <=> Holding(g)
        BY <2>2 DEF Spawn, TypeOK, Holding, Goroutine
      <3>2. Received' = Received /\ Hands' = Hands
        BY <3>1 DEF Received, Hands
      <3>3. UNCHANGED <<taskQueue, caller, counters>>
        BY <1>1 DEF Start, ScaleUp, places
      <3>4. QED
        BY <1>0, <3>2, <3>3 DEF Pending
    <2>3. QED
      BY <1>1, <2>1, <2>2 DEF Start, ScaleUp
  <1>2. CASE StopBegin \/ StopEnd \/ Sample \/ SamplerExit \/ ScalerTick
              \/ ScaleDown \/ ScalerExit \/ UNCHANGED vars
    BY <1>0, <1>2 DEF StopBegin, StopEnd, Sample, SamplerExit, ScalerTick,
          ScaleDown, ScalerExit, vars, places, Pending, Received, Hands, Holding
  <1>e. ASSUME NEW c \in Caller, NEW t \in Task, SubmitLook(c, t) PROVE Counted'
    BY <1>0, <1>e DEF SubmitLook, TypeOK, Pending, Received, Hands, Holding
  <1>3. ASSUME NEW c \in Caller, SubmitSend(c) PROVE Counted'
    <2>1. c \notin Pending /\ Pending' = Pending \cup {c}
      BY <1>3 DEF SubmitSend, TypeOK, Pending, Checked
    <2>2. P' = P + 1
      BY <2>1, Finiteness, OneMore
    <2>3. L' = L + 1
      BY <1>3 DEF SubmitSend, TypeOK
    <2>4. R' = R /\ H' = H /\ UNCHANGED counters
      BY <1>3 DEF SubmitSend, Received, Hands, Holding
    <2> HIDE DEF P, R, H, L
    <2>5. QED
      BY <1>a, <1>b, <1>c, <1>d, <2>2, <2>3, <2>4 DEF counters
  <1>4. ASSUME NEW c \in Caller, SubmitCount(c) PROVE Counted'
    <2>1. c \in Pending /\ Pending' = Pending \ {c}
      BY <1>4 DEF SubmitCount, TypeOK, Pending
    <2>2. P' = P - 1
      BY <2>1, Finiteness, OneLess
    <2>3. L' = L /\ R' = R /\ H' = H
      BY <1>4 DEF SubmitCount, places, Received, Hands, Holding
    <2>4. /\ queuedTasks' = queuedTasks + 1 /\ totalTasks' = totalTasks + 1
          /\ UNCHANGED <<completedTasks, failedTasks>>
      BY <1>4 DEF SubmitCount
    <2> HIDE DEF P, R, H, L
    <2>5. QED
      BY <1>a, <1>b, <1>c, <1>d, <2>2, <2>3, <2>4
  <1>5. ASSUME NEW c \in Caller, SubmitRefuse(c) PROVE Counted'
    BY <1>0, <1>5 DEF SubmitRefuse, TypeOK, Checked, Pending, Received, Hands, Holding
  <1>f. ASSUME NEW c \in Caller, NEW t \in Task, SubmitWhileStopped(c, t) PROVE Counted'
    BY <1>0, <1>f DEF SubmitWhileStopped, Pending, Received, Hands, Holding
  <1>6. ASSUME NEW g \in Goroutine, Receive(g) PROVE Counted'
    <2>1. /\ g \notin Received /\ Received' = Received \cup {g}
          /\ g \notin Hands /\ Hands' = Hands \cup {g}
      BY <1>6 DEF Receive, TypeOK, Received, Hands, Holding
    <2>2. R' = R + 1 /\ H' = H + 1
      BY <2>1, Finiteness, OneMore
    <2>3. L' = L - 1
      BY <1>6 DEF Receive, TypeOK
    <2>4. P' = P /\ UNCHANGED counters
      BY <1>6 DEF Receive, Pending
    <2> HIDE DEF P, R, H, L
    <2>5. QED
      BY <1>a, <1>b, <1>c, <1>d, <2>2, <2>3, <2>4 DEF counters
  <1>7. ASSUME NEW g \in Goroutine, BeginExecute(g) PROVE Counted'
    <2>1. g \in Received /\ Received' = Received \ {g} /\ Hands' = Hands
      BY <1>7 DEF BeginExecute, TypeOK, Received, Hands, Holding
    <2>2. R' = R - 1 /\ H' = H
      BY <2>1, Finiteness, OneLess
    <2>3. /\ L' = L /\ P' = P /\ queuedTasks' = queuedTasks - 1
          /\ UNCHANGED <<totalTasks, completedTasks, failedTasks>>
      BY <1>7 DEF BeginExecute, Pending, places
    <2> HIDE DEF P, R, H, L
    <2>4. QED
      BY <1>a, <1>b, <1>c, <1>d, <2>2, <2>3
  <1>8. ASSUME NEW g \in Goroutine, NEW ok \in BOOLEAN, FinishTask(g, ok) PROVE Counted'
    <2>1. g \in Hands /\ Hands' = Hands \ {g} /\ Received' = Received
      BY <1>8 DEF FinishTask, TypeOK, Received, Hands, Holding
    <2>2. H' = H - 1 /\ R' = R
      BY <2>1, Finiteness, OneLess
    <2>3. /\ L' = L /\ P' = P /\ UNCHANGED <<queuedTasks, totalTasks>>
          /\ \/ completedTasks' = completedTasks + 1 /\ failedTasks' = failedTasks
             \/ completedTasks' = completedTasks /\ failedTasks' = failedTasks + 1
      BY <1>8 DEF FinishTask, Pending
    <2> HIDE DEF P, R, H, L
    <2>4. QED
      BY <1>a, <1>b, <1>c, <1>d, <2>2, <2>3
  <1>9. ASSUME NEW g \in Goroutine, ExitWorker(g) PROVE Counted'
    <2>1. Received' = Received /\ Hands' = Hands
      BY <1>9 DEF ExitWorker, TypeOK, Received, Hands, Holding
    <2>2. QED
      BY <1>0, <1>9, <2>1 DEF ExitWorker, places, Pending
  <1>10. QED
    BY <1>1, <1>2, <1>3, <1>4, <1>5, <1>6, <1>7, <1>8, <1>9, <1>e, <1>f
       DEF Next, Submit, WorkerStep, Monitor

LEMMA CountedInit == Init => Counted
  <1> SUFFICES ASSUME Init PROVE Counted
    OBVIOUS
  <1>1. Pending = {} /\ Received = {} /\ Hands = {}
    BY DEF Init, Pending, Received, Hands, Holding
  <1>2. /\ Cardinality(Pending) = 0 /\ Cardinality(Received) = 0
        /\ Cardinality(Hands) = 0
    BY <1>1, FS_EmptySet
  <1>3. /\ Len(taskQueue) = 0 /\ queuedTasks = 0 /\ totalTasks = 0
        /\ completedTasks = 0 /\ failedTasks = 0
    BY DEF Init
  <1>4. Counted <=>
          /\ queuedTasks + Cardinality(Pending) = Len(taskQueue) + Cardinality(Received)
          /\ totalTasks + Cardinality(Pending)
               = Len(taskQueue) + Cardinality(Hands) + completedTasks + failedTasks
    BY DEF Counted, QueueGaugeExact, TaskConservation, Received, Hands
  <1>5. QED
    BY <1>2, <1>3, <1>4

(* The gauge QueuedTasks is exact up to the adds still to come, ...        *)
THEOREM GaugeIsExact == Spec => []QueueGaugeExact
  <1>1. Counted => QueueGaugeExact
    BY DEF Counted
  <1>2. QED
    BY <1>1, CountedInit, CountedStep, TypeCorrect, PTL DEF Spec

(* ... and so is TotalTasks: no accepted task vanishes.                    *)
THEOREM TasksAreConserved == Spec => []TaskConservation
  <1>1. Counted => TaskConservation
    BY DEF Counted
  <1>2. QED
    BY <1>1, CountedInit, CountedStep, TypeCorrect, PTL DEF Spec

(* The gauge, the totals and the number of active workers are exact together. *)
THEOREM CountsExact == Spec => []CountsAreExact
  <1>1. QueueGaugeExact /\ TaskConservation /\ WorkerAccounting => CountsAreExact
    BY DEF CountsAreExact
  <1>2. QED
    BY <1>1, GaugeIsExact, TasksAreConserved, ScalingWithinLimits, PTL
=============================================================================
