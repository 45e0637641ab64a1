------------------------------- MODULE Alerts -------------------------------
(***************************************************************************)
(* AlertManagerImpl and AlertAggregator of internal/models.  Every method  *)
(* holds the mutex throughout, so each is a step; what is hard is a long   *)
(* sequence of them.  The manager folds an alert into the aggregation of   *)
(* its device and type, and forgets it, when the last one folded has a     *)
(* timestamp within the window; timestamps are the devices', not the       *)
(* manager's.  An alert may come again (Kafka redelivers).                 *)
(***************************************************************************)
EXTENDS Integers, Sequences, FiniteSets

CONSTANTS AlertSet,     \* records [id, key, severity]: key is device and type
          Window,       \* aggregationWindow
          MaxHistory,   \* maxHistorySize
          MaxNow        \* bound: the clock

\* An id names one alert.
ASSUME AlertAssumption ==
  /\ MaxHistory \in Nat
  /\ \A a \in AlertSet : a.severity \in Int
  /\ \A a, b \in AlertSet : a.id = b.id => a = b

VARIABLES
  amNow,
  amAlerts,         \* am.alerts: the status of each alert stored
  amAggregations,   \* am.aggregations: [ids, severity, last] by key
  amHistory,        \* am.history
  amGroups,         \* aa.aggregations of an AlertAggregator
  amAdded, amClosed, amExpired   \* history: ids added, closed, in aggregations removed

amVars == <<amNow, amAlerts, amAggregations, amHistory, amGroups, amAdded, amClosed, amExpired>>

Key(k)    == {a \in AlertSet : a.key = k}
Highest(s, t) == IF s > t THEN s ELSE t   \* isHigherSeverity
With(f, k, v) == [x \in DOMAIN f \cup {k} |-> IF x = k THEN v ELSE f[x]]
Minus(f, K)   == [x \in DOMAIN f \ K |-> f[x]]

AMInit ==
  /\ amNow = 1
  /\ amAlerts = <<>> /\ amAggregations = <<>> /\ amHistory = <<>> /\ amGroups = <<>>
  /\ amAdded = {} /\ amClosed = {} /\ amExpired = {}

AddHistory(h) ==
  LET longer == Append(amHistory, h) IN
  amHistory' = IF Len(longer) > MaxHistory THEN Tail(longer) ELSE longer
-----------------------------------------------------------------------------
(* AlertManagerImpl.                                                       *)

FirstOf(a, at) == [ids |-> {a.id}, severity |-> a.severity, last |-> at]
InWindow(g) == amNow - g.last <= Window
FoldLatest(g, a, at) ==   \* mutant: the severity of the latest alert
  [ids |-> g.ids \cup {a.id}, severity |-> a.severity, last |-> at]
Fold(g, a, at) ==
  [ids |-> g.ids \cup {a.id}, severity |-> Highest(g.severity, a.severity), last |-> at]

Store(a) ==
  /\ amAlerts' = With(amAlerts, a.id, "active")
  /\ AddHistory([id |-> a.id, action |-> "created", old |-> "none", new |-> "active"])

\* An aggregation out of its window is neither renewed nor replaced: the alert is
\* stored beside it.
AddAlert(a, at) ==
  /\ amAdded' = amAdded \cup {a.id}
  /\ IF a.key \notin DOMAIN amAggregations
     THEN amAggregations' = With(amAggregations, a.key, FirstOf(a, at)) /\ Store(a)
     ELSE IF InWindow(amAggregations[a.key])
     THEN /\ amAggregations' = With(amAggregations, a.key, Fold(amAggregations[a.key], a, at))
          /\ UNCHANGED <<amAlerts, amHistory>>
     ELSE UNCHANGED amAggregations /\ Store(a)
  /\ UNCHANGED <<amNow, amGroups, amClosed, amExpired>>

CanTransition(from, to) ==
  \/ from = "active" /\ to \in {"acknowledged", "resolved", "closed"}
  \/ from = "acknowledged" /\ to \in {"resolved", "closed"}
  \/ from = "resolved" /\ to \in {"closed", "active"}

UpdateAlertStatus(id, new) ==
  /\ id \in DOMAIN amAlerts /\ CanTransition(amAlerts[id], new)
  /\ amAlerts' = IF new = "closed" THEN Minus(amAlerts, {id}) ELSE [amAlerts EXCEPT ![id] = new]
  /\ amClosed' = IF new = "closed" THEN amClosed \cup {id} ELSE amClosed
  /\ AddHistory([id |-> id, action |-> "status_changed", old |-> amAlerts[id], new |-> new])
  /\ UNCHANGED <<amNow, amAggregations, amGroups, amAdded, amExpired>>

CleanupExpiredAggregations ==
  LET expired == {k \in DOMAIN amAggregations : amNow - amAggregations[k].last > 2 * Window} IN
  /\ expired # {} /\ amAggregations' = Minus(amAggregations, expired)
  /\ amExpired' = amExpired \cup UNION {amAggregations[k].ids : k \in expired}
  /\ UNCHANGED <<amNow, amAlerts, amHistory, amGroups, amAdded, amClosed>>
-----------------------------------------------------------------------------
(* AlertAggregator: the window runs from the last update, and a group out  *)
(* of its window is replaced.                                              *)

Aggregate(a) ==
  /\ amGroups' = With(amGroups, a.key,
       IF a.key \in DOMAIN amGroups /\ amNow - amGroups[a.key].last <= Window
       THEN Fold(amGroups[a.key], a, amNow) ELSE FirstOf(a, amNow))
  /\ UNCHANGED <<amNow, amAlerts, amAggregations, amHistory, amAdded, amClosed, amExpired>>
CleanupExpired ==
  LET expired == {k \in DOMAIN amGroups : amNow - amGroups[k].last > 2 * Window} IN
  /\ expired # {} /\ amGroups' = Minus(amGroups, expired)
  /\ UNCHANGED <<amNow, amAlerts, amAggregations, amHistory, amAdded, amClosed, amExpired>>

Tick == /\ amNow < MaxNow /\ amNow' = amNow + 1
        /\ UNCHANGED <<amAlerts, amAggregations, amHistory, amGroups, amAdded, amClosed, amExpired>>
-----------------------------------------------------------------------------
\* A device's timestamp may lie behind the manager's clock.  The two aggregators
\* share nothing: a behaviour uses one of them.
AMNext ==
  \/ amGroups = <<>> /\ \E a \in AlertSet, late \in 0 .. 1 : AddAlert(a, amNow - late)
  \/ \E a \in AlertSet, new \in {"active", "acknowledged", "resolved", "closed"} : UpdateAlertStatus(a.id, new)
  \/ CleanupExpiredAggregations \/ Tick
  \/ amAdded = {} /\ \E a \in AlertSet : Aggregate(a)
  \/ CleanupExpired

AMSpec == AMInit /\ [][AMNext]_amVars
-----------------------------------------------------------------------------
(* Properties.                                                             *)

SeverityOf(id) == (CHOOSE a \in AlertSet : a.id = id).severity
HasHighest(g)  == /\ \E id \in g.ids : SeverityOf(id) = g.severity
                  /\ \A id \in g.ids : SeverityOf(id) <= g.severity

\* No alert is dropped without a trace, and none is hidden behind a milder one:
\* an added alert is stored, was closed, or is counted in an aggregation (until
\* that is cleaned up), whose severity is the highest of those counted; and the
\* history, as far back as it is kept, tells each alert's statuses without a gap.
AlertsAreAccounted ==
  /\ amAdded \subseteq DOMAIN amAlerts \cup amClosed \cup amExpired
                       \cup UNION {amAggregations[k].ids : k \in DOMAIN amAggregations}
  /\ \A k \in DOMAIN amAggregations : HasHighest(amAggregations[k])
  /\ \A k \in DOMAIN amGroups : HasHighest(amGroups[k])
  /\ \A i, j \in 1 .. Len(amHistory) :
       /\ i < j /\ amHistory[i].id = amHistory[j].id
       /\ \A n \in i + 1 .. j - 1 : amHistory[n].id # amHistory[i].id
       /\ amHistory[j].action = "status_changed"
       => amHistory[j].old = amHistory[i].new /\ amHistory[i].new # "closed"
=============================================================================
