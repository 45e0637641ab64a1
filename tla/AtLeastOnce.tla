----------------------------- MODULE AtLeastOnce -----------------------------
(***************************************************************************)
(* What a member of a consumer group promises for each partition: messages *)
(* are handled one after the other from the committed offset on, a commit  *)
(* takes in handled messages only and is never taken back, and whatever    *)
(* ends a session makes the next one start from what was committed.  So a  *)
(* message may be handled more than once, and none is passed over.         *)
(***************************************************************************)
EXTENDS Integers

CONSTANT Partitions

VARIABLES
  length,      (* length[p]: the messages of p are 1 .. length[p]             *)
  committed,   (* committed[p]: how many of them will not be delivered again  *)
  next,        (* next[p]: how many are behind the session                    *)
  handled      (* handled[p]: those handled at least once                     *)

vars == <<length, committed, next, handled>>

Init ==
  /\ length \in [Partitions -> Nat]
  /\ committed = [p \in Partitions |-> 0]
  /\ next = committed
  /\ handled = [p \in Partitions |-> {}]

Handle(p) ==
  /\ next[p] < length[p]
  /\ next' = [next EXCEPT ![p] = @ + 1]
  /\ handled' = [handled EXCEPT ![p] = @ \cup {next[p] + 1}]
  /\ UNCHANGED <<length, committed>>

(* How far a commit may reach. *)
CommitHandled ==
  /\ committed' \in [Partitions -> Nat]
  /\ \A p \in Partitions : committed[p] <= committed'[p] /\ committed'[p] <= next[p]

Commit ==
  /\ CommitHandled
  /\ UNCHANGED <<length, next, handled>>

(* A session ends, with a last commit or without. *)
EndSession ==
  /\ CommitHandled
  /\ next' = committed'
  /\ UNCHANGED <<length, handled>>

Next == Commit \/ EndSession \/ \E p \in Partitions : Handle(p)

Spec == Init /\ [][Next]_vars
=============================================================================
