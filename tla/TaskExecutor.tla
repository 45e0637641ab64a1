---------------------------- MODULE TaskExecutor ----------------------------
(***************************************************************************)
(* What a worker pool promises to whoever submits tasks to it, whatever    *)
(* its queue, its workers and its scaling look like: an offered task is    *)
(* refused or accepted once; only a pool that is up begins to consider a   *)
(* task, but the answer may come when it is down again; an accepted task   *)
(* runs at most once, only between a start of the pool and the return of   *)
(* the stop that ends it; when that stop returns no task is running.  A    *)
(* task that is accepted too late to be taken before the pool goes down,   *)
(* or even afterwards, may stay "queued" for ever.                         *)
(***************************************************************************)
CONSTANT Task

VARIABLES up, status

vars == <<up, status>>

Status == {"new", "offered", "refused", "queued", "running", "done"}

TypeOK ==
  /\ up \in BOOLEAN
  /\ status \in [Task -> Status]

Init ==
  /\ up = FALSE
  /\ status = [t \in Task |-> "new"]

Move(t, from, to) ==
  /\ status[t] = from
  /\ status' = [status EXCEPT ![t] = to]

GoUp ==
  /\ ~up
  /\ up' = TRUE
  /\ UNCHANGED status

GoDown ==
  /\ up
  /\ \A t \in Task : status[t] # "running"
  /\ up' = FALSE
  /\ UNCHANGED status

(* The pool was seen to be up; the task is not in its queue yet.           *)
Offer(t) == up /\ Move(t, "new", "offered") /\ UNCHANGED up

AcceptOffered(t) == Move(t, "offered", "queued") /\ UNCHANGED up

RefuseOffered(t) == Move(t, "offered", "refused") /\ UNCHANGED up

(* The two halves in one, for a submitter that the pool outlives.          *)
Accept(t) == up /\ Move(t, "new", "queued") /\ UNCHANGED up

Refuse(t) == Move(t, "new", "refused") /\ UNCHANGED up

Take(t) == up /\ Move(t, "queued", "running") /\ UNCHANGED up

Complete(t) == up /\ Move(t, "running", "done") /\ UNCHANGED up

Next ==
  \/ GoUp
  \/ GoDown
  \/ \E t \in Task : \/ Offer(t) \/ AcceptOffered(t) \/ RefuseOffered(t)
                     \/ Accept(t) \/ Refuse(t) \/ Take(t) \/ Complete(t)

Spec == Init /\ [][Next]_vars
=============================================================================
