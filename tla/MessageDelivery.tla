--------------------------- MODULE MessageDelivery ---------------------------
(***************************************************************************)
(* What a batching producer promises for each message it accepts: it is    *)
(* delivered at most once, and is lost only while the producer is closing  *)
(* or because a message of the same group is unfit to be sent.             *)
(***************************************************************************)
CONSTANTS Message, Unencodable, group

VARIABLES closing, state

vars == <<closing, state>>

Init ==
  /\ closing = FALSE
  /\ state = [m \in Message |-> "new"]

Move(m, from, to) ==
  /\ state[m] = from
  /\ state' = [state EXCEPT ![m] = to]
  /\ UNCHANGED closing

Accept(m) == Move(m, "new", "accepted")
Deliver(m) == m \notin Unencodable /\ Move(m, "accepted", "sent")

(* Several messages are lost together: all of one group, and with an       *)
(* excuse.                                                                 *)
Lose(L) ==
  /\ L # {}
  /\ \A m \in L : state[m] = "accepted"
  /\ \A m, n \in L : group[m] = group[n]
  /\ closing \/ L \cap Unencodable # {}
  /\ state' = [m \in Message |-> IF m \in L THEN "lost" ELSE state[m]]
  /\ UNCHANGED closing

Close ==
  /\ closing' = TRUE
  /\ UNCHANGED state

Next ==
  \/ \E m \in Message : Accept(m) \/ Deliver(m)
  \/ \E L \in SUBSET Message : Lose(L)
  \/ Close

Spec == Init /\ [][Next]_vars
=============================================================================
