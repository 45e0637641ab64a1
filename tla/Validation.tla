----------------------------- MODULE Validation -----------------------------
(***************************************************************************)
(* internal/models/validation_system_new.go: the ValidationWorkerPool, the *)
(* ValidationCache, and the rules and recovery handlers of an engine while *)
(* several goroutines validate.                                            *)
(*                                                                         *)
(* Get deletes an expired entry under the read lock, attemptRecovery reads *)
(* the handlers under none.  A map written while another goroutine is at   *)
(* it may or may not be noticed by the Go runtime, which then ends the     *)
(* process.                                                                *)
(***************************************************************************)
EXTENDS Integers, Sequences, FiniteSets, SequencesExt

CONSTANTS Requester,   \* goroutines that submit, look up or validate
          Workers,     \* workers of the pool
          QueueSize,   \* capacity of taskQueue
          CacheKey, CacheSize, CacheTtl,
          MaxTasks,    \* bound: tasks submitted
          MaxCacheNow  \* bound: the clock

ASSUME ValidationAssumption == Workers \in Nat

VARIABLES
  vdQueue, vdClosed,  \* p.taskQueue
  vdDone,             \* p.ctx
  vdBusy,             \* tasks workers hold
  vdIdle,             \* workers that wait for a task
  vdAnswered,         \* tasks whose Result has been sent
  vdGivenUp,          \* tasks SubmitTask did not put in the queue
  vdTasks,            \* tasks submitted so far
  vdClose,            \* where Close is
  vdCaller,           \* where each caller is, and the key it looks up
  vdCache, vdNow,     \* c.cache: when each result was made
  vdPanic

pool   == <<vdQueue, vdClosed, vdDone, vdBusy, vdIdle, vdAnswered, vdGivenUp, vdTasks, vdClose>>
cacheAndEngine == <<vdCaller, vdCache, vdNow>>
vdVars == <<pool, vdCaller, vdCache, vdNow, vdPanic>>

VDInit ==
  /\ vdQueue = <<>> /\ vdClosed = FALSE /\ vdDone = FALSE /\ vdBusy = {} /\ vdIdle = Workers
  /\ vdAnswered = {} /\ vdGivenUp = {} /\ vdTasks = 0 /\ vdClose = "no"
  /\ vdCaller = [c \in Requester |-> [at |-> "idle", key |-> 0]]
  /\ vdCache = <<>> /\ vdNow = 0 /\ vdPanic = FALSE
-----------------------------------------------------------------------------
(* ValidationWorkerPool.                                                   *)

\* The select sends if there is room, or returns if the context is done; when
\* both can happen either may; and a closed queue is ready, to panic.
SubmitTask ==
  /\ vdTasks < MaxTasks /\ vdTasks' = vdTasks + 1
  /\ \/ /\ Len(vdQueue) < QueueSize \/ vdClosed
        /\ vdPanic' = vdClosed
        /\ vdQueue' = Append(vdQueue, vdTasks') /\ UNCHANGED vdGivenUp
     \/ /\ vdDone
        /\ vdGivenUp' = vdGivenUp \cup {vdTasks'} /\ UNCHANGED <<vdQueue, vdPanic>>
  /\ UNCHANGED <<vdClosed, vdDone, vdBusy, vdIdle, vdAnswered, vdClose, cacheAndEngine>>

\* Each task makes an engine of its own, whose ten workers nobody ends.
TakeTask ==
  /\ vdIdle > 0 /\ vdQueue # <<>> /\ ~vdClosed
  /\ vdIdle' = vdIdle - 1 /\ vdBusy' = vdBusy \cup {Head(vdQueue)} /\ vdQueue' = Tail(vdQueue)
  /\ UNCHANGED <<vdClosed, vdDone, vdAnswered, vdGivenUp, vdTasks, vdClose, cacheAndEngine, vdPanic>>
AnswerOrDrop(task) ==   \* mutant: a default drops the answer nobody takes at once
  /\ task \in vdBusy /\ vdBusy' = vdBusy \ {task}
  /\ vdAnswered' \in {vdAnswered, vdAnswered \cup {task}} /\ vdIdle' = vdIdle + 1
  /\ UNCHANGED <<vdQueue, vdClosed, vdDone, vdGivenUp, vdTasks, vdClose, cacheAndEngine, vdPanic>>
Answer(task) ==
  /\ task \in vdBusy /\ vdBusy' = vdBusy \ {task}
  /\ \/ vdAnswered' = vdAnswered \cup {task} /\ vdIdle' = vdIdle + 1
     \/ vdDone /\ UNCHANGED <<vdAnswered, vdIdle>>
  /\ UNCHANGED <<vdQueue, vdClosed, vdDone, vdGivenUp, vdTasks, vdClose, cacheAndEngine, vdPanic>>
WorkerEnds ==
  /\ vdIdle > 0 /\ vdDone /\ vdIdle' = vdIdle - 1
  /\ UNCHANGED <<vdQueue, vdClosed, vdDone, vdBusy, vdAnswered, vdGivenUp, vdTasks, vdClose, cacheAndEngine, vdPanic>>

Close ==
  /\ vdClose \in {"no", "ended"} /\ vdClose' = "wait" /\ vdDone' = TRUE
  /\ UNCHANGED <<vdQueue, vdClosed, vdBusy, vdIdle, vdAnswered, vdGivenUp, vdTasks, cacheAndEngine, vdPanic>>
CloseEnds ==
  /\ vdClose = "wait" /\ vdIdle = 0 /\ vdBusy = {}
  /\ vdClose' = "ended" /\ vdClosed' = TRUE /\ vdPanic' = vdClosed
  /\ UNCHANGED <<vdQueue, vdDone, vdBusy, vdIdle, vdAnswered, vdGivenUp, vdTasks, cacheAndEngine>>
-----------------------------------------------------------------------------
(* ValidationCache.                                                        *)

Goes(c, from, to, k) == vdCaller[c].at = from /\ vdCaller' = [vdCaller EXCEPT ![c] = [at |-> to, key |-> k]]
None(places) == \A c \in Requester : vdCaller[c].at \notin places
Expired(k)   == vdNow - vdCache[k] > CacheTtl

\* The age of a result is read under the lock, and an expired one deleted under
\* it too, though it is only the lock for reading.
Get(c, k) ==
  /\ Goes(c, "idle", IF k \in DOMAIN vdCache /\ Expired(k) THEN "deleting" ELSE "reading", k)
  /\ UNCHANGED <<pool, vdNow, vdCache, vdPanic>>
GetReturns(c) ==
  /\ Goes(c, "reading", "idle", 0)
  /\ UNCHANGED <<pool, vdNow, vdCache, vdPanic>>
DeleteExpired(c) ==
  /\ Goes(c, "deleting", "idle", 0)
  /\ vdCache' = [j \in DOMAIN vdCache \ {vdCaller[c].key} |-> vdCache[j]]
  /\ vdPanic' \in {FALSE, \E d \in Requester \ {c} : vdCaller[d].at \in {"reading", "deleting"}}
  /\ UNCHANGED <<pool, vdNow>>

\* The entry with the oldest result makes room, also for a key that has one.
Oldest == {k \in DOMAIN vdCache : \A j \in DOMAIN vdCache : vdCache[k] <= vdCache[j]}
Set(k) ==
  /\ None({"reading", "deleting"})
  /\ \E out \in IF Cardinality(DOMAIN vdCache) >= CacheSize THEN {{o} : o \in Oldest} ELSE {{}} :
       vdCache' = [j \in (DOMAIN vdCache \ out) \cup {k} |-> IF j = k THEN vdNow ELSE vdCache[j]]
  /\ UNCHANGED <<pool, vdNow, vdCaller, vdPanic>>
CacheTick == vdNow < MaxCacheNow /\ vdNow' = vdNow + 1 /\ UNCHANGED <<pool, vdCaller, vdCache, vdPanic>>
-----------------------------------------------------------------------------
(* An engine: Validate reads the rules under e.mutex, and the recovery     *)
(* handlers under nothing.                                                 *)

Validate(c)  == /\ None({"registering"}) /\ Goes(c, "idle", "rules", 0)
                /\ UNCHANGED <<pool, vdNow, vdCache, vdPanic>>
RulesDone(c) == Goes(c, "rules", "recovery", 0) /\ UNCHANGED <<pool, vdNow, vdCache, vdPanic>>
Recovered(c) == Goes(c, "recovery", "idle", 0) /\ UNCHANGED <<pool, vdNow, vdCache, vdPanic>>
RegisterRule(c) == /\ None({"rules", "registering"}) /\ Goes(c, "idle", "registering", 0)
                   /\ UNCHANGED <<pool, vdNow, vdCache, vdPanic>>
RuleRegistered(c) == /\ Goes(c, "registering", "idle", 0)
                     /\ vdPanic' \in {FALSE, ~None({"recovery"})}
                     /\ UNCHANGED <<pool, vdNow, vdCache>>
-----------------------------------------------------------------------------
\* The three share nothing: each behaviour uses one of them.
VDNext(part) ==
  /\ ~vdPanic
  /\ \/ part = "pool" /\ \/ SubmitTask \/ TakeTask \/ WorkerEnds \/ Close \/ CloseEnds
                         \/ \E task \in vdBusy : Answer(task)
     \/ part = "cache" /\ \/ \E c \in Requester : (\E k \in CacheKey : Get(c, k)) \/ GetReturns(c) \/ DeleteExpired(c)
                          \/ (\E k \in CacheKey : Set(k)) \/ CacheTick
     \/ part = "engine" /\ \E c \in Requester : Validate(c) \/ RulesDone(c) \/ Recovered(c) \/ RegisterRule(c) \/ RuleRegistered(c)

VDSpec == VDInit /\ [][\E part \in {"pool", "cache", "engine"} : VDNext(part)]_vdVars
-----------------------------------------------------------------------------
(* Properties.                                                             *)

\* Until Close is called every task submitted is queued, with a worker or
\* answered, one of them, and the workers are all there; afterwards a task may
\* be left in the queue for ever, or be validated and not answered.
TaskPlaces == <<ToSet(vdQueue), vdBusy, vdAnswered, vdGivenUp>>
TasksAccounted ==
  /\ \A i, j \in 1 .. 4 : i # j => TaskPlaces[i] \cap TaskPlaces[j] = {}
  /\ ~vdDone => /\ 1 .. vdTasks = ToSet(vdQueue) \cup vdBusy \cup vdAnswered
                /\ vdIdle + Cardinality(vdBusy) = Workers

\* The process ends in three ways: a task submitted to a closed pool, or a pool
\* closed twice; an expired result deleted while another caller looks one up; a
\* handler registered while another caller recovers.
OnlyKnownRacesPanic ==
  vdPanic => \/ vdDone /\ vdClosed
             \/ ~None({"reading", "deleting"})
             \/ ~None({"recovery"})

ValidationHolds == TasksAccounted /\ OnlyKnownRacesPanic
=============================================================================
