------------------------------- MODULE MCParts -------------------------------
(***************************************************************************)
(* The small parts, checked together.  They share no state: a behaviour    *)
(* runs the one that focus names, and leaves the others where they start.  *)
(***************************************************************************)
EXTENDS ConnectionPool, Alerts, ConfigWatcher, DemoHub, EnhancedProducer, Routing,
        Validation, WSClient, FlowControl, ErrorPolicy, TLC

VARIABLE focus

small == <<amVars, cwVars, dhVars, epVars, rtVars, vdVars, wcVars, fcVars, errVars>>

Symmetry == Permutations(Caller)

\* Two alerts of one device and type, mild and severe.
MCAlertSet == {[id |-> "a1", key |-> "k", severity |-> 1], [id |-> "a2", key |-> "k", severity |-> 4]}

PartsInit ==
  /\ Init /\ AMInit /\ CWInit /\ DHInit /\ EPInit /\ RTInit /\ VDInit /\ WCInit /\ FCInit /\ ERRInit
  /\ focus \in {"connections", "alerts", "watcher", "demo hub", "enhanced", "partition",
                "queue", "sessions", "rooms",
                "pool", "cache", "engine", "send", "filter", "limiter", "pressure", "spread",
                "retry", "breaker"}
  /\ focus # "enhanced" => epService

ConnectionsNext == Next /\ UNCHANGED small
AlertsNext     == AMNext /\ UNCHANGED <<vars, cwVars, dhVars, epVars, rtVars, vdVars, wcVars, fcVars, errVars>>
WatcherNext    == CWNext /\ UNCHANGED <<vars, amVars, dhVars, epVars, rtVars, vdVars, wcVars, fcVars, errVars>>
DemoHubNext    == DHNext /\ UNCHANGED <<vars, amVars, cwVars, epVars, rtVars, vdVars, wcVars, fcVars, errVars>>
EnhancedNext   == EPNext /\ UNCHANGED <<vars, amVars, cwVars, dhVars, rtVars, vdVars, wcVars, fcVars, errVars>>
RoutingNext    == RTNext(focus) /\ UNCHANGED <<vars, amVars, cwVars, dhVars, epVars, vdVars, wcVars, fcVars, errVars>>
ValidationNext == VDNext(focus) /\ UNCHANGED <<vars, amVars, cwVars, dhVars, epVars, rtVars, wcVars, fcVars, errVars>>
ClientNext     == WCNext(focus) /\ UNCHANGED <<vars, amVars, cwVars, dhVars, epVars, rtVars, vdVars, fcVars, errVars>>
FlowNext       == FCNext(focus) /\ UNCHANGED <<vars, amVars, cwVars, dhVars, epVars, rtVars, vdVars, wcVars, errVars>>
ErrorNext      == ERRNext(focus) /\ UNCHANGED <<vars, amVars, cwVars, dhVars, epVars, rtVars, vdVars, wcVars, fcVars>>

PartsNext ==
  /\ UNCHANGED focus
  /\ \/ focus = "connections" /\ ConnectionsNext
     \/ focus = "alerts"   /\ AlertsNext
     \/ focus = "watcher"  /\ WatcherNext
     \/ focus = "demo hub" /\ DemoHubNext
     \/ focus = "enhanced" /\ EnhancedNext
     \/ focus \in {"partition", "queue", "sessions", "rooms"} /\ RoutingNext
     \/ focus \in {"pool", "cache", "engine"}                 /\ ValidationNext
     \/ focus \in {"send", "filter"}                          /\ ClientNext
     \/ focus \in {"limiter", "pressure", "spread"}           /\ FlowNext
     \/ focus \in {"retry", "breaker"}                        /\ ErrorNext

PartsSpec == PartsInit /\ [][PartsNext]_<<vars, small, focus>>
=============================================================================
