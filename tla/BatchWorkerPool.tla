--------------------------- MODULE BatchWorkerPool ---------------------------
(***************************************************************************)
(* BatchWorkerPool of internal/producer/worker_pool.go: a bounded channel  *)
(* of tasks, worker goroutines that take tasks from it, a goroutine that   *)
(* samples the gauges and a goroutine that scales the workers.             *)
(*                                                                         *)
(* Every goroutine is a process; a step is what it does between two points *)
(* where another goroutine can be observed: a channel operation, an atomic *)
(* add, the acquisition of pool.mutex.  pool.mutex is held across steps    *)
(* only by Stop (which waits for the WaitGroup with the mutex held), so    *)
(* "stopping" is both that call's progress and the mutex.                  *)
(*                                                                         *)
(* Time is abstracted: a ticker may fire at any moment, and               *)
(* time.Since(lastScaleTime) may or may not exceed its limit when the      *)
(* scaler looks.  What a task does is abstracted to success or failure.    *)
(***************************************************************************)
EXTENDS Integers, Sequences, FiniteSets, Functions

CONSTANTS
  Task,            (* task identities; each is submitted at most once       *)
  NoTask,          (* what a worker holds between two tasks                 *)
  Caller,          (* goroutines that call Submit                           *)
  QueueSize,       (* capacity of taskQueue                                 *)
  InitialWorkers,  (* workerCount                                           *)
  MinWorkers,
  MaxWorkers,
  Adaptive,        (* the adaptive flag that starts sampler and scaler      *)
  MaxGoroutines    (* bound: worker goroutines ever spawned                 *)

ASSUME PoolAssumption ==
  /\ NoTask \notin Task
  /\ QueueSize \in Nat \ {0}
  /\ InitialWorkers \in Nat \ {0}
  /\ MinWorkers \in Nat \ {0}
  /\ MaxWorkers \in Nat \ {0}
  /\ MinWorkers <= InitialWorkers
  /\ MinWorkers <= MaxWorkers
  /\ Adaptive \in BOOLEAN
  /\ IsFiniteSet(Caller)
  /\ MaxGoroutines \in Nat

VARIABLES
  isRunning,       (* pool.isRunning                                        *)
  cancelled,       (* pool.ctx is done; a restart does not renew it         *)
  stopping,        (* a Stop call holds pool.mutex and waits for pool.wg    *)
  taskQueue,       (* the channel's contents                                *)
  workers,         (* pool.workers: the goroutines not marked inactive      *)
  spawned,         (* worker goroutines created so far, numbered from 1     *)
  phase,           (* where each worker goroutine is                        *)
  held,            (* the task a worker took from the channel               *)
  caller,          (* "checked": between the look at isRunning and the send; *)
                   (* "sent": between the send and the counters             *)
  offering,        (* the task of a caller that is about to send it         *)
  sampler,         (* metricsCollector goroutine                            *)
  scaler,          (* autoScaler goroutine; "up"/"down": wants pool.mutex   *)
  utilization,     (* QueueUtilization * QueueSize, as last sampled         *)
  throughput,      (* TasksPerSecond > 0, as last sampled                   *)
  lastCompleted,   (* the sampler's local copy of CompletedTasks            *)
  activeWorkers, queuedTasks, totalTasks, completedTasks, failedTasks,
  finished,        (* history: tasks whose execution ended                  *)
  refused          (* history: tasks Submit returned an error for           *)

lifecycle == <<isRunning, cancelled, stopping>>
places    == <<taskQueue, held, offering, finished, refused>>
monitors  == <<sampler, scaler, utilization, throughput, lastCompleted>>
counters  == <<queuedTasks, totalTasks, completedTasks, failedTasks>>
vars == <<lifecycle, places, monitors, counters,
          workers, spawned, phase, caller, activeWorkers>>

Goroutine == 1..MaxGoroutines
Phase == {"unborn", "select", "received", "executing", "exited"}
MaxOf(a, b) == IF a > b THEN a ELSE b
MinOf(a, b) == IF a < b THEN a ELSE b

Holding(g) == phase[g] \in {"received", "executing"}
Live(g) == phase[g] \in {"select", "received", "executing"}
(* isActive = FALSE: dropped from pool.workers by scaleDown. *)
Retired == (1..spawned) \ Range(workers)

Queued == Range(taskQueue)
InHand == {held[g] : g \in {h \in Goroutine : Holding(h)}}
Checked(c) == caller[c] = "checked"
InOffer == {offering[c] : c \in {d \in Caller : Checked(d)}}
Offered == InOffer \cup Queued \cup InHand \cup finished \cup refused
-----------------------------------------------------------------------------
Init ==
  /\ isRunning = FALSE /\ cancelled = FALSE /\ stopping = FALSE
  /\ taskQueue = <<>>
  /\ workers = <<>>
  /\ spawned = 0
  /\ phase = [g \in Goroutine |-> "unborn"]
  /\ held = [g \in Goroutine |-> NoTask]
  /\ caller = [c \in Caller |-> "idle"]
  /\ offering = [c \in Caller |-> NoTask]
  /\ sampler = "off" /\ scaler = "off"
  /\ utilization = 0 /\ throughput = FALSE /\ lastCompleted = 0
  /\ activeWorkers = 0
  /\ queuedTasks = 0 /\ totalTasks = 0 /\ completedTasks = 0 /\ failedTasks = 0
  /\ finished = {} /\ refused = {}

(* n more "go worker.run()", appended to pool.workers. *)
Spawn(n) ==
  /\ spawned + n <= MaxGoroutines
  /\ spawned' = spawned + n
  /\ workers' = workers \o [i \in 1..n |-> spawned + i]
  /\ phase' = [g \in Goroutine |->
                 IF g \in (spawned + 1)..(spawned + n) THEN "select" ELSE phase[g]]

(* The context of a stopped pool stays cancelled and pool.workers keeps    *)
(* its old entries, so a second Start gives workers that exit at once.     *)
Start ==
  /\ ~stopping /\ ~isRunning
  /\ Spawn(InitialWorkers)
  /\ activeWorkers' = InitialWorkers
  /\ IF Adaptive
     THEN sampler' = "select" /\ scaler' = "select" /\ lastCompleted' = 0
     ELSE UNCHANGED <<sampler, scaler, lastCompleted>>
  /\ isRunning' = TRUE
  /\ UNCHANGED <<cancelled, stopping, places, utilization, throughput,
                 counters, caller>>

(* Mutant: Stop waits without cancelling the context.                      *)
StopWithoutCancel ==
  /\ ~stopping /\ isRunning
  /\ stopping' = TRUE
  /\ UNCHANGED <<isRunning, cancelled, places, monitors, counters,
                 workers, spawned, phase, caller, activeWorkers>>

StopBegin ==
  /\ ~stopping /\ isRunning
  /\ stopping' = TRUE
  /\ cancelled' = TRUE
  /\ UNCHANGED <<isRunning, places, monitors, counters,
                 workers, spawned, phase, caller, activeWorkers>>

WaitGroupIsZero ==
  /\ \A g \in Goroutine : ~Live(g)
  /\ sampler = "off" /\ scaler = "off"

(* Mutant: waits for the workers the slice still lists.                    *)
StopWaitsForListedWorkers ==
  /\ stopping
  /\ \A g \in Range(workers) : ~Live(g)
  /\ sampler = "off" /\ scaler = "off"
  /\ stopping' = FALSE
  /\ isRunning' = FALSE
  /\ UNCHANGED <<cancelled, places, monitors, counters,
                 workers, spawned, phase, caller, activeWorkers>>

StopEnd ==
  /\ stopping
  /\ WaitGroupIsZero
  /\ stopping' = FALSE
  /\ isRunning' = FALSE
  /\ UNCHANGED <<cancelled, places, monitors, counters,
                 workers, spawned, phase, caller, activeWorkers>>
-----------------------------------------------------------------------------
(* Mutant: Submit does not look at isRunning.                              *)
SubmitLookUnchecked(c, t) ==
  /\ caller[c] = "idle" /\ t \notin Offered
  /\ caller' = [caller EXCEPT ![c] = "checked"]
  /\ offering' = [offering EXCEPT ![c] = t]
  /\ UNCHANGED <<lifecycle, taskQueue, held, finished, refused, monitors, counters,
                 workers, spawned, phase, activeWorkers>>

(* Submit reads isRunning without the mutex, so Stop may begin, and even   *)
(* return, before ...                                                      *)
SubmitLook(c, t) ==
  /\ caller[c] = "idle" /\ t \notin Offered
  /\ isRunning
  /\ caller' = [caller EXCEPT ![c] = "checked"]
  /\ offering' = [offering EXCEPT ![c] = t]
  /\ UNCHANGED <<lifecycle, taskQueue, held, finished, refused, monitors, counters,
                 workers, spawned, phase, activeWorkers>>

(* ... its select takes the send, which it may do whenever the channel has *)
(* room, even when the context is done as well.                            *)
SubmitSend(c) ==
  /\ Checked(c)
  /\ Len(taskQueue) < QueueSize
  /\ taskQueue' = Append(taskQueue, offering[c])
  /\ offering' = [offering EXCEPT ![c] = NoTask]
  /\ caller' = [caller EXCEPT ![c] = "sent"]
  /\ UNCHANGED <<lifecycle, held, finished, refused, monitors, counters,
                 workers, spawned, phase, activeWorkers>>

SubmitCount(c) ==
  /\ caller[c] = "sent"
  /\ caller' = [caller EXCEPT ![c] = "idle"]
  /\ queuedTasks' = queuedTasks + 1
  /\ totalTasks' = totalTasks + 1
  /\ UNCHANGED <<lifecycle, places, monitors, completedTasks, failedTasks,
                 workers, spawned, phase, activeWorkers>>

(* "worker pool is not running".                                           *)
SubmitWhileStopped(c, t) ==
  /\ caller[c] = "idle" /\ t \notin Offered
  /\ ~isRunning
  /\ refused' = refused \cup {t}
  /\ UNCHANGED <<lifecycle, taskQueue, held, offering, finished, monitors, counters,
                 workers, spawned, phase, caller, activeWorkers>>

(* The select takes the done context, or finds the queue full.             *)
SubmitRefuse(c) ==
  /\ Checked(c)
  /\ cancelled \/ Len(taskQueue) = QueueSize
  /\ refused' = refused \cup {offering[c]}
  /\ offering' = [offering EXCEPT ![c] = NoTask]
  /\ caller' = [caller EXCEPT ![c] = "idle"]
  /\ UNCHANGED <<lifecycle, taskQueue, held, finished, monitors, counters,
                 workers, spawned, phase, activeWorkers>>
-----------------------------------------------------------------------------
(* Mutant: the task stays at the head of the queue while it runs.          *)
ReceiveWithoutRemoving(g) ==
  /\ phase[g] = "select" /\ taskQueue # <<>>
  /\ held' = [held EXCEPT ![g] = Head(taskQueue)]
  /\ phase' = [phase EXCEPT ![g] = "received"]
  /\ UNCHANGED <<lifecycle, taskQueue, offering, finished, refused, monitors, counters,
                 workers, spawned, caller, activeWorkers>>

Receive(g) ==
  /\ phase[g] = "select" /\ taskQueue # <<>>
  /\ held' = [held EXCEPT ![g] = Head(taskQueue)]
  /\ taskQueue' = Tail(taskQueue)
  /\ phase' = [phase EXCEPT ![g] = "received"]
  /\ UNCHANGED <<lifecycle, offering, finished, refused, monitors, counters,
                 workers, spawned, caller, activeWorkers>>

(* Mutant: the task is not taken off the gauge.                            *)
BeginExecuteUncounted(g) ==
  /\ phase[g] = "received"
  /\ phase' = [phase EXCEPT ![g] = "executing"]
  /\ UNCHANGED <<lifecycle, places, monitors, counters, workers, spawned,
                 caller, activeWorkers>>

BeginExecute(g) ==
  /\ phase[g] = "received"
  /\ queuedTasks' = queuedTasks - 1
  /\ phase' = [phase EXCEPT ![g] = "executing"]
  /\ UNCHANGED <<lifecycle, places, monitors, totalTasks, completedTasks,
                 failedTasks, workers, spawned, caller, activeWorkers>>

(* Mutant: a failed task is counted as failed and as completed.            *)
FinishTaskCountsBoth(g, ok) ==
  /\ phase[g] = "executing"
  /\ completedTasks' = completedTasks + 1
  /\ failedTasks' = IF ok THEN failedTasks ELSE failedTasks + 1
  /\ finished' = finished \cup {held[g]}
  /\ held' = [held EXCEPT ![g] = NoTask]
  /\ phase' = [phase EXCEPT ![g] = "select"]
  /\ UNCHANGED <<lifecycle, taskQueue, offering, refused, monitors, queuedTasks,
                 totalTasks, workers, spawned, caller, activeWorkers>>

(* executeTask: the outcome counters; the durations are left out.          *)
FinishTask(g, ok) ==
  /\ phase[g] = "executing"
  /\ completedTasks' = IF ok THEN completedTasks + 1 ELSE completedTasks
  /\ failedTasks' = IF ok THEN failedTasks ELSE failedTasks + 1
  /\ finished' = finished \cup {held[g]}
  /\ held' = [held EXCEPT ![g] = NoTask]
  /\ phase' = [phase EXCEPT ![g] = "select"]
  /\ UNCHANGED <<lifecycle, taskQueue, offering, refused, monitors, queuedTasks,
                 totalTasks, workers, spawned, caller, activeWorkers>>

(* Mutant: a worker also leaves when it finds nothing to do.               *)
ExitWorkerWhenIdle(g) ==
  /\ phase[g] = "select"
  /\ cancelled \/ taskQueue = <<>>
  /\ phase' = [phase EXCEPT ![g] = "exited"]
  /\ UNCHANGED <<lifecycle, places, monitors, counters,
                 workers, spawned, caller, activeWorkers>>

(* The loop leaves on the context only; isActive is never consulted.       *)
ExitWorker(g) ==
  /\ phase[g] = "select"
  /\ cancelled
  /\ phase' = [phase EXCEPT ![g] = "exited"]
  /\ UNCHANGED <<lifecycle, places, monitors, counters,
                 workers, spawned, caller, activeWorkers>>
-----------------------------------------------------------------------------
Sample ==
  /\ sampler = "select"
  /\ utilization' = queuedTasks
  /\ throughput' = (completedTasks > lastCompleted)
  /\ lastCompleted' = completedTasks
  /\ UNCHANGED <<lifecycle, places, sampler, scaler, counters,
                 workers, spawned, phase, caller, activeWorkers>>

SamplerExit ==
  /\ sampler = "select" /\ cancelled
  /\ sampler' = "off"
  /\ UNCHANGED <<lifecycle, places, scaler, utilization, throughput,
                 lastCompleted, counters, workers, spawned, phase, caller,
                 activeWorkers>>

(* checkAndScale decides on the sampled gauges before it takes the mutex:  *)
(* more than 80% of the queue used and work done since the last sample, or *)
(* less than 20% used (and, unmodelled, long enough since the last change).*)
ScalerTick ==
  /\ scaler = "select"
  /\ \/ /\ 10 * utilization > 8 * QueueSize /\ throughput
        /\ activeWorkers < MaxWorkers
        /\ scaler' = "up"
     \/ /\ 10 * utilization < 2 * QueueSize
        /\ activeWorkers > MinWorkers
        /\ scaler' = "down"
  /\ UNCHANGED <<lifecycle, places, sampler, utilization, throughput,
                 lastCompleted, counters, workers, spawned, phase, caller,
                 activeWorkers>>

ScaleUp ==
  LET current == Len(workers)
      added == MinOf(MaxWorkers - current, MaxOf(1, current \div 4))
  IN
  /\ scaler = "up" /\ ~stopping
  /\ scaler' = "select"
  /\ IF isRunning /\ current < MaxWorkers
     THEN Spawn(added) /\ activeWorkers' = activeWorkers + added
     ELSE UNCHANGED <<workers, spawned, phase, activeWorkers>>
  /\ UNCHANGED <<lifecycle, places, sampler, utilization, throughput,
                 lastCompleted, counters, caller>>

(* Mutant: the removal is not clipped at minWorkers (and removes one more).*)
ScaleDownUnclipped ==
  LET current == Len(workers)
      removed == MinOf(current, MaxOf(1, current \div 8) + 1)
  IN
  /\ scaler = "down" /\ ~stopping
  /\ scaler' = "select"
  /\ IF isRunning /\ current > MinWorkers
     THEN /\ workers' = SubSeq(workers, 1, current - removed)
          /\ activeWorkers' = activeWorkers - removed
     ELSE UNCHANGED <<workers, activeWorkers>>
  /\ UNCHANGED <<lifecycle, places, sampler, utilization, throughput,
                 lastCompleted, counters, spawned, phase, caller>>

ScaleDown ==
  LET current == Len(workers)
      removed == MinOf(MaxOf(1, current \div 8), current - MinWorkers)
  IN
  /\ scaler = "down" /\ ~stopping
  /\ scaler' = "select"
  /\ IF isRunning /\ current > MinWorkers
     THEN /\ workers' = SubSeq(workers, 1, current - removed)
          /\ activeWorkers' = activeWorkers - removed
     ELSE UNCHANGED <<workers, activeWorkers>>
  /\ UNCHANGED <<lifecycle, places, sampler, utilization, throughput,
                 lastCompleted, counters, spawned, phase, caller>>

ScalerExit ==
  /\ scaler = "select" /\ cancelled
  /\ scaler' = "off"
  /\ UNCHANGED <<lifecycle, places, sampler, utilization, throughput,
                 lastCompleted, counters, workers, spawned, phase, caller,
                 activeWorkers>>
-----------------------------------------------------------------------------
WorkerStep(g) ==
  \/ Receive(g)
  \/ BeginExecute(g)
  \/ \E ok \in BOOLEAN : FinishTask(g, ok)
  \/ ExitWorker(g)

Submit(c) ==
  \/ \E t \in Task : SubmitLook(c, t) \/ SubmitWhileStopped(c, t)
  \/ SubmitSend(c) \/ SubmitCount(c) \/ SubmitRefuse(c)

Monitor == Sample \/ SamplerExit \/ ScalerTick \/ ScaleUp \/ ScaleDown \/ ScalerExit

Next ==
  \/ Start \/ StopBegin \/ StopEnd
  \/ \E c \in Caller : Submit(c)
  \/ \E g \in Goroutine : WorkerStep(g)
  \/ Monitor

Spec == Init /\ [][Next]_vars

(* Goroutines that can run do run, tasks end, and Go's select, which picks *)
(* among the ready cases at random, does not pick a ticker for ever.       *)
Fairness ==
  /\ \A g \in Goroutine : WF_vars(WorkerStep(g))
  /\ WF_vars(StopEnd)
  /\ WF_vars(SamplerExit)
  /\ WF_vars(ScaleUp) /\ WF_vars(ScaleDown)
  /\ SF_vars(ScalerExit)

FairSpec == Spec /\ Fairness
-----------------------------------------------------------------------------
TypeOK ==
  /\ isRunning \in BOOLEAN /\ cancelled \in BOOLEAN /\ stopping \in BOOLEAN
  /\ taskQueue \in Seq(Task) /\ Len(taskQueue) <= QueueSize
  /\ workers \in Seq(Goroutine)
  /\ spawned \in 0..MaxGoroutines
  /\ phase \in [Goroutine -> Phase]
  /\ held \in [Goroutine -> Task \cup {NoTask}]
  /\ \A g \in Goroutine : (held[g] \in Task) <=> Holding(g)
  /\ \A g \in Goroutine : (phase[g] = "unborn") <=> (g > spawned)
  /\ caller \in [Caller -> {"idle", "checked", "sent"}]
  /\ offering \in [Caller -> Task \cup {NoTask}]
  /\ \A c \in Caller : (offering[c] \in Task) <=> Checked(c)
  /\ sampler \in {"off", "select"}
  /\ scaler \in {"off", "select", "up", "down"}
  /\ utilization \in Int /\ throughput \in BOOLEAN /\ lastCompleted \in Int
  /\ activeWorkers \in Int
  /\ queuedTasks \in Int /\ totalTasks \in Int
  /\ completedTasks \in Int /\ failedTasks \in Int
  /\ finished \subseteq Task /\ refused \subseteq Task

Pending == {c \in Caller : caller[c] = "sent"}

(* Every task taken in is in exactly one place: with a caller about to send *)
(* it, in the channel, with one worker, finished or refused; so no task    *)
(* runs twice.                                                             *)
OnePlacePerTask ==
  /\ \A i, j \in DOMAIN taskQueue : taskQueue[i] = taskQueue[j] => i = j
  /\ \A g, h \in Goroutine :
       Holding(g) /\ Holding(h) /\ held[g] = held[h] => g = h
  /\ \A c, d \in Caller :
       Checked(c) /\ Checked(d) /\ offering[c] = offering[d] => c = d
  /\ InOffer \cap (Queued \cup InHand \cup finished \cup refused) = {}
  /\ Queued \cap (InHand \cup finished \cup refused) = {}
  /\ InHand \cap (finished \cup refused) = {}
  /\ finished \cap refused = {}

(* The gauge QueuedTasks is off from the channel's length by exactly the   *)
(* sends and receives whose atomic add has not happened yet.               *)
QueueGaugeExact ==
  queuedTasks + Cardinality(Pending)
    = Len(taskQueue) + Cardinality({g \in Goroutine : phase[g] = "received"})

(* TotalTasks is the number of tasks queued, in hand, completed or failed, *)
(* less the submissions still to be counted: no accepted task vanishes.    *)
TaskConservation ==
  totalTasks + Cardinality(Pending)
    = Len(taskQueue) + Cardinality({g \in Goroutine : Holding(g)})
      + completedTasks + failedTasks

(* Until the first Stop, ActiveWorkers is the number of listed workers and *)
(* scaling keeps it between minWorkers and what Start or maxWorkers allow. *)
WorkerAccounting ==
  ~cancelled /\ isRunning =>
    /\ activeWorkers = Len(workers)
    /\ Len(workers) \in MinWorkers..MaxOf(InitialWorkers, MaxWorkers)

(* The pool's figures: the gauge, the totals and the active workers are     *)
(* exact but for the updates under way.                                    *)
CountsAreExact == QueueGaugeExact /\ TaskConservation /\ WorkerAccounting

(* Once Stop has returned no goroutine of the pool is left, retired workers *)
(* included, and the tasks still in the channel are the only ones not done. *)
StopQuiesces ==
  /\ stopping => isRunning /\ cancelled
  /\ ~isRunning => WaitGroupIsZero /\ InHand = {}

(* The pool is an executor: see TaskExecutor.                              *)
TaskStatus(t) ==
  IF t \in finished THEN "done"
  ELSE IF t \in refused THEN "refused"
  ELSE IF t \in Queued THEN "queued"
  ELSE IF t \in InHand THEN "running"
  ELSE IF t \in InOffer THEN "offered"
  ELSE "new"

Executor == INSTANCE TaskExecutor
              WITH up <- isRunning, status <- [t \in Task |-> TaskStatus(t)]

ImplementsExecutor == Executor!Spec

(* An accepted task is executed unless the pool is stopped first.          *)
AcceptedTasksRun ==
  \A t \in Task : (t \in Queued) ~> (t \in finished \/ cancelled)

(* Stop returns unless the scaler is caught between its sampling and the   *)
(* mutex, which Stop holds while it waits for the scaler: the one deadlock. *)
StopReturns == stopping ~> (~stopping \/ scaler \in {"up", "down"})

=============================================================================
