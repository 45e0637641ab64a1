------------------------------ MODULE WSClient ------------------------------
(***************************************************************************)
(* internal/services/websocket: a Client, those who send to it and close   *)
(* it, and the DefaultMessageRouter that finds it in the hub's map.        *)
(*                                                                         *)
(* SendMessage asks IsConnected and sends afterwards, without the lock;    *)
(* Close clears connected and closes the channel, in two steps.  The       *)
(* filter has a list of devices, which stands for those of types and       *)
(* locations too, one of sensors or alert levels, and a time range.        *)
(***************************************************************************)
EXTENDS Integers, FiniteSets

CONSTANTS Sender,      \* goroutines in SendMessage
          Closer,      \* goroutines in Close
          Device,
          SendBuffer,  \* capacity of Send (256 in the code)
          MaxMessages  \* bound: messages sent

ASSUME ClientAssumption == IsFiniteSet(Sender) /\ IsFiniteSet(Closer)

VARIABLES
  wcConnected,
  wcSend,        \* the channel: its length, and whether it is closed
  wcSender,      \* each sender: idle, checked, queued or refused
  wcCloser,      \* each closer: idle, marked or closed
  wcStats,       \* ClientStats: MessagesSent and ErrorCount
  wcOutcomes,    \* history: messages queued, and refused for a full channel
  wcFilter,      \* Filter, replaced as a whole
  wcVerdict,     \* the data matched last, and what the filter said of it
  wcHub,         \* the hub's map holds the client
  wcRouter,      \* the router: idle, or about to change the client it found
  wcSubscribed,  \* Subscriptions holds the one filter
  wcRace,        \* history: a sender saw the client connected and Close began
  wcPanic

send     == <<wcConnected, wcSend, wcSender, wcCloser, wcStats, wcOutcomes, wcRace>>
matching == <<wcFilter, wcVerdict>>
routing  == <<wcHub, wcRouter, wcSubscribed>>
wcVars   == <<send, matching, routing, wcPanic>>

Nil    == [id |-> "nil", sensors |-> {}, at |-> 0]
Data   == {Nil} \cup [id : Device, sensors : SUBSET {"temperature"}, at : 1..2]
Filter == [enabled : BOOLEAN, devices : {{}, {CHOOSE d \in Device : TRUE}},
           sensors : SUBSET {"temperature"}, since : {0, 2}]   \* since 0: no TimeRange

WCInit ==
  /\ wcConnected = TRUE /\ wcSend = [length |-> 0, closed |-> FALSE]
  /\ wcSender = [s \in Sender |-> "idle"] /\ wcCloser = [c \in Closer |-> "idle"]
  /\ wcStats = [sent |-> 0, errors |-> 0] /\ wcOutcomes = [queued |-> 0, refused |-> 0]
  /\ wcFilter = [enabled |-> FALSE, devices |-> {}, sensors |-> {}, since |-> 0]
  /\ wcVerdict = [data |-> Nil, matches |-> TRUE]
  /\ wcHub = TRUE /\ wcRouter = "idle" /\ wcSubscribed = FALSE
  /\ wcRace = FALSE /\ wcPanic = "no"
-----------------------------------------------------------------------------
(* SendMessage and Close.                                                  *)

SendMessageUnasked(s) ==   \* mutant: SendMessage does not look at connected
  /\ wcSender[s] = "idle" /\ wcOutcomes.queued + wcOutcomes.refused < MaxMessages
  /\ wcSender' = [wcSender EXCEPT ![s] = "checked"]
  /\ UNCHANGED <<wcConnected, wcSend, wcCloser, wcStats, wcOutcomes, wcRace, matching, routing, wcPanic>>
SendMessage(s) ==
  /\ wcSender[s] = "idle" /\ wcOutcomes.queued + wcOutcomes.refused < MaxMessages
  /\ wcConnected                              \* or ErrClientDisconnected
  /\ wcSender' = [wcSender EXCEPT ![s] = "checked"]
  /\ UNCHANGED <<wcConnected, wcSend, wcCloser, wcStats, wcOutcomes, wcRace, matching, routing, wcPanic>>
SendOrRefuse(s) ==
  LET queued == wcSend.length < SendBuffer IN
  /\ wcSender[s] = "checked"
  /\ IF wcSend.closed THEN wcPanic' = "send" /\ UNCHANGED <<wcSend, wcSender, wcOutcomes>>
     ELSE /\ wcSend' = IF queued THEN [wcSend EXCEPT !.length = @ + 1] ELSE wcSend
          /\ wcSender' = [wcSender EXCEPT ![s] = IF queued THEN "queued" ELSE "refused"]
          /\ wcOutcomes' = IF queued THEN [wcOutcomes EXCEPT !.queued = @ + 1]
                                     ELSE [wcOutcomes EXCEPT !.refused = @ + 1]
          /\ UNCHANGED wcPanic
  /\ UNCHANGED <<wcConnected, wcCloser, wcStats, wcRace, matching, routing>>
UpdateStats(s) ==
  /\ wcSender[s] \in {"queued", "refused"} /\ wcSender' = [wcSender EXCEPT ![s] = "idle"]
  /\ wcStats' = IF wcSender[s] = "queued" THEN [wcStats EXCEPT !.sent = @ + 1]
                                          ELSE [wcStats EXCEPT !.errors = @ + 1]
  /\ UNCHANGED <<wcConnected, wcSend, wcCloser, wcOutcomes, wcRace, matching, routing, wcPanic>>
\* The writer takes a message.
Written ==
  /\ wcSend.length > 0 /\ wcSend' = [wcSend EXCEPT !.length = @ - 1]
  /\ UNCHANGED <<wcConnected, wcSender, wcCloser, wcStats, wcOutcomes, wcRace, matching, routing, wcPanic>>

SetDisconnected(c) ==
  /\ wcCloser[c] = "idle" /\ wcCloser' = [wcCloser EXCEPT ![c] = "marked"]
  /\ wcConnected' = FALSE
  /\ wcRace' = (wcRace \/ \E s \in Sender : wcSender[s] = "checked")
  /\ UNCHANGED <<wcSend, wcSender, wcStats, wcOutcomes, matching, routing, wcPanic>>
CloseSendChannel(c) ==
  /\ wcCloser[c] = "marked" /\ wcCloser' = [wcCloser EXCEPT ![c] = "closed"]
  /\ wcSend' = [wcSend EXCEPT !.closed = TRUE]
  /\ wcPanic' = IF wcSend.closed THEN "close" ELSE wcPanic
  /\ UNCHANGED <<wcConnected, wcSender, wcStats, wcOutcomes, wcRace, matching, routing>>
-----------------------------------------------------------------------------
(* MatchesDeviceData and MatchesAlert, which the hub asks of each client.  *)

\* A missing device fails a device list and a list of alert levels, and passes
\* a list of sensors.
Passes(f, kind, data) ==
  /\ f.devices # {} => data # Nil /\ data.id \in f.devices
  /\ f.sensors # {} => \/ data # Nil /\ f.sensors \cap data.sensors # {}
                       \/ data = Nil /\ kind = "device_data"
\* The time range reads the device without asking for it.
ReadsTime(f, kind, data) == f.enabled /\ Passes(f, kind, data) /\ f.since # 0
Match ==
  \E kind \in {"device_data", "alert"}, data \in Data :
    LET f == wcFilter IN
    /\ wcVerdict' = [data |-> data, matches |-> f.enabled => Passes(f, kind, data) /\ data.at >= f.since]
    /\ wcPanic' = IF ReadsTime(f, kind, data) /\ data = Nil THEN "nil" ELSE wcPanic
    /\ UNCHANGED <<send, wcFilter, routing>>
UpdateFilter ==
  /\ wcRouter = "filter" /\ wcRouter' = "idle"
  /\ wcFilter' \in Filter
  /\ UNCHANGED <<send, wcVerdict, wcHub, wcSubscribed, wcPanic>>
-----------------------------------------------------------------------------
(* The router finds the client, and changes it when it may have left.      *)

GetClient(what) ==
  /\ wcHub /\ wcRouter = "idle" /\ wcRouter' = what     \* or ErrClientNotFound
  /\ UNCHANGED <<send, matching, wcHub, wcSubscribed, wcPanic>>
Subscribe ==
  /\ wcRouter = "subscribe" /\ wcRouter' = "idle" /\ wcSubscribed' = TRUE
  /\ UNCHANGED <<send, matching, wcHub, wcPanic>>
Unsubscribe ==            \* or ErrSubscriptionNotFound
  /\ wcRouter = "unsubscribe" /\ wcRouter' = "idle" /\ wcSubscribed' = FALSE
  /\ UNCHANGED <<send, matching, wcHub, wcPanic>>
LeavesHub ==
  /\ wcHub /\ wcHub' = FALSE
  /\ UNCHANGED <<send, matching, wcRouter, wcSubscribed, wcPanic>>
-----------------------------------------------------------------------------
WCNext(part) ==
  /\ wcPanic = "no"
  /\ \/ part = "send" /\ \/ \E s \in Sender : SendMessage(s) \/ SendOrRefuse(s) \/ UpdateStats(s)
                         \/ \E c \in Closer : SetDisconnected(c) \/ CloseSendChannel(c)
                         \/ Written
     \/ part = "filter" /\ \/ Match \/ UpdateFilter \/ Subscribe \/ Unsubscribe \/ LeavesHub
                           \/ \E what \in {"filter", "subscribe", "unsubscribe"} : GetClient(what)

WCSpec == WCInit /\ [][\E part \in {"send", "filter"} : WCNext(part)]_wcVars
-----------------------------------------------------------------------------
(* Properties.                                                             *)

\* A message meets the closed channel only if its sender had seen the client
\* connected before Close began, and Close panics only if called twice.
OnlyRacesMeetClose ==
  /\ wcPanic = "send"  => wcRace
  /\ wcPanic = "close" => Cardinality({c \in Closer : wcCloser[c] = "closed"}) > 1

\* The statistics count each message once, behind those still to be counted.
StatsFollow ==
  LET counting(at) == Cardinality({s \in Sender : wcSender[s] = at}) IN
  /\ wcStats.sent   + counting("queued")  = wcOutcomes.queued
  /\ wcStats.errors + counting("refused") = wcOutcomes.refused
  /\ wcSend.length <= wcOutcomes.queued

\* Data without a device ends the process only where no device list stands
\* before the time range.
OnlyTimeReadsNil == wcPanic = "nil" => wcFilter.enabled /\ wcFilter.since # 0 /\ wcFilter.devices = {}

\* SendMessage and Close are safe but for their race and a second Close, the
\* statistics lose nothing, and a device list keeps the time range from reading
\* a missing device.
ClientHolds == OnlyRacesMeetClose /\ StatsFollow /\ OnlyTimeReadsNil
=============================================================================
