------------------------------ MODULE DemoHub ------------------------------
(***************************************************************************)
(* cmd/websocket: the hub with its clients, the claims of the consumer     *)
(* group that broadcast to it, and main, which waits for the consumer.     *)
(*                                                                         *)
(* Run takes h.mutex to change the map.  BroadcastToFiltered takes it for  *)
(* reading only, and yet deletes the clients whose buffer is full: with a  *)
(* claim for each partition several of them do so together.  A map that is *)
(* read while it is written may or may not be noticed by the Go runtime,   *)
(* which then ends the process.  Nobody sends to h.broadcast.              *)
(***************************************************************************)
EXTENDS Integers, FiniteSets

CONSTANTS Socket,       \* WebSocket clients
          Claim,        \* running ConsumeClaims
          Buffer,       \* capacity of a client's send channel
          MaxDevices,   \* bound: messages taken from the claims
          MaxFailures   \* bound: Consume calls that fail before Setup

VARIABLES
  dhReader,    \* readPump: new, registering, reading, filtering, leaving, gone
  dhWriter,    \* writePump runs
  dhClients,   \* h.clients
  dhSend,      \* each send channel: length, and whether it is closed
  dhClaim,     \* each broadcaster: what it is about to do, to whom, whom it has seen
  dhDevices,   \* messages taken so far
  dhTogether,  \* history: a client was dropped while another claim broadcast
  dhMain,      \* main: starting, waiting for which ready channel, or serving
  dhReady,     \* kafkaConsumer.ready: its number, and whether it is closed
  dhPanic

sockets == <<dhReader, dhWriter>>
startup == <<dhMain, dhReady>>
claims  == <<dhClaim, dhDevices>>
dhVars  == <<sockets, startup, claims, dhClients, dhSend, dhTogether, dhPanic>>

Resting == [does |-> "wait", at |-> CHOOSE s \in Socket : TRUE, seen |-> {}]

DHInit ==
  /\ dhReader = [s \in Socket |-> "new"] /\ dhWriter = [s \in Socket |-> FALSE]
  /\ dhClients = {} /\ dhSend = [s \in Socket |-> [length |-> 0, closed |-> FALSE]]
  /\ dhClaim = [b \in Claim |-> Resting] /\ dhDevices = 0
  /\ dhTogether = FALSE /\ dhPanic = FALSE
  /\ dhMain = [at |-> "starting", on |-> 0] /\ dhReady = [number |-> 0, closed |-> FALSE]

Broadcasting(b) == dhClaim[b].does # "wait"
Unread == \A b \in Claim : ~Broadcasting(b)   \* h.mutex can be locked
-----------------------------------------------------------------------------
(* main and the consumer.                                                  *)

MainWaits ==
  /\ dhMain.at = "starting" /\ dhMain' = [at |-> "waiting", on |-> dhReady.number]
  /\ UNCHANGED <<sockets, dhReady, claims, dhClients, dhSend, dhTogether, dhPanic>>
\* A channel replaced before it was closed keeps main waiting for ever.  The
\* sessions after the first change ready too, when nobody waits for it.
MainServes ==
  /\ dhMain.at = "waiting" /\ dhMain.on = dhReady.number /\ dhReady.closed
  /\ dhMain' = [dhMain EXCEPT !.at = "serving"]
  /\ UNCHANGED <<sockets, dhReady, claims, dhClients, dhSend, dhTogether, dhPanic>>
Setup ==
  /\ ~dhReady.closed /\ dhReady' = [dhReady EXCEPT !.closed = TRUE]
  /\ UNCHANGED <<sockets, dhMain, claims, dhClients, dhSend, dhTogether, dhPanic>>
\* Consume fails before Setup, and the loop replaces ready and tries again.
ConsumeFails ==
  /\ ~dhReady.closed /\ dhReady.number < MaxFailures
  /\ dhReady' = [number |-> dhReady.number + 1, closed |-> FALSE]
  /\ UNCHANGED <<sockets, dhMain, claims, dhClients, dhSend, dhTogether, dhPanic>>
-----------------------------------------------------------------------------
(* A client, and Run.                                                      *)

Reads(s, from, to) ==
  /\ dhReader[s] = from /\ dhReader' = [dhReader EXCEPT ![s] = to]
  /\ UNCHANGED <<startup, claims, dhTogether>>

ServeWS(s)    == dhMain.at = "serving" /\ Reads(s, "new", "registering") /\ UNCHANGED <<dhWriter, dhClients, dhSend, dhPanic>>
Register(s)   == /\ Unread /\ Reads(s, "registering", "reading")
                 /\ dhClients' = dhClients \cup {s} /\ dhWriter' = [dhWriter EXCEPT ![s] = TRUE]
                 /\ UNCHANGED <<dhSend, dhPanic>>
SetFilter(s)  == Reads(s, "reading", "filtering") /\ UNCHANGED <<dhWriter, dhClients, dhSend, dhPanic>>
FilterSet(s)  == Reads(s, "filtering", "reading") /\ UNCHANGED <<dhWriter, dhClients, dhSend, dhPanic>>
ReadFails(s)  == Reads(s, "reading", "leaving") /\ UNCHANGED <<dhWriter, dhClients, dhSend, dhPanic>>

CloseSend(s) == /\ dhSend' = [dhSend EXCEPT ![s].closed = TRUE]
                /\ dhPanic' = dhSend[s].closed
UnregisterAlways(s) ==   \* mutant: the map is not looked at
  /\ Unread /\ Reads(s, "leaving", "gone") /\ UNCHANGED dhWriter
  /\ dhClients' = dhClients \ {s} /\ CloseSend(s)
Unregister(s) ==
  /\ Unread /\ Reads(s, "leaving", "gone") /\ UNCHANGED dhWriter
  /\ dhClients' = dhClients \ {s}
  /\ IF s \in dhClients THEN CloseSend(s) ELSE UNCHANGED <<dhSend, dhPanic>>

\* writePump sends the message with all that is queued behind it.
WritePump(s) ==
  /\ dhWriter[s]
  /\ \/ dhSend[s].length > 0 /\ dhSend' = [dhSend EXCEPT ![s].length = 0] /\ UNCHANGED dhWriter
     \/ dhSend[s].closed /\ dhSend[s].length = 0 /\ dhWriter' = [dhWriter EXCEPT ![s] = FALSE] /\ UNCHANGED dhSend
  /\ UNCHANGED <<dhReader, startup, claims, dhClients, dhTogether, dhPanic>>
\* It takes what there is and fails; the reader notices, now or later.
WriteFails(s) ==
  /\ dhWriter[s] /\ dhWriter' = [dhWriter EXCEPT ![s] = FALSE]
  /\ dhSend' \in {dhSend, [dhSend EXCEPT ![s].length = 0]}
  /\ UNCHANGED <<dhReader, startup, claims, dhClients, dhTogether, dhPanic>>
-----------------------------------------------------------------------------
(* BroadcastToFiltered, one claim at a time or several.                    *)

Moves(b, does, s) == dhClaim' = [dhClaim EXCEPT ![b] = [does |-> does, at |-> s, seen |-> @.seen \cup {s}]]

ConsumeClaim(b) ==
  /\ dhReady.closed /\ ~Broadcasting(b) /\ dhDevices < MaxDevices
  /\ dhDevices' = dhDevices + 1 /\ dhClaim' = [dhClaim EXCEPT ![b].does = "next"]
  /\ UNCHANGED <<sockets, startup, dhClients, dhSend, dhTogether, dhPanic>>
\* The filter is read: one that is being written may end the process.
NextClient(b, s) ==
  /\ dhClaim[b].does = "next" /\ s \in dhClients \ dhClaim[b].seen
  /\ \E matches \in BOOLEAN : Moves(b, IF matches THEN "send" ELSE "next", s)
  /\ dhPanic' \in {FALSE, dhReader[s] = "filtering"}
  /\ UNCHANGED <<sockets, startup, dhDevices, dhClients, dhSend, dhTogether>>
SendTo(b) ==
  LET s == dhClaim[b].at IN
  /\ dhClaim[b].does = "send"
  /\ dhPanic' = dhSend[s].closed
  /\ IF dhSend[s].length < Buffer
     THEN dhSend' = [dhSend EXCEPT ![s].length = @ + 1] /\ Moves(b, "next", s)
     ELSE UNCHANGED dhSend /\ Moves(b, "drop", s)
  /\ UNCHANGED <<sockets, startup, dhDevices, dhClients, dhTogether>>
DropClient(b) ==
  LET s == dhClaim[b].at  together == \E c \in Claim \ {b} : Broadcasting(c) IN
  /\ dhClaim[b].does = "drop"
  /\ dhClients' = dhClients \ {s}
  /\ dhSend' = [dhSend EXCEPT ![s].closed = TRUE]
  /\ dhTogether' = (dhTogether \/ together)
  /\ dhPanic' \in {dhSend[s].closed, dhSend[s].closed \/ together}
  /\ Moves(b, "next", s)
  /\ UNCHANGED <<sockets, startup, dhDevices>>
BroadcastEnds(b) ==
  /\ dhClaim[b].does = "next" /\ dhClients \subseteq dhClaim[b].seen
  /\ dhClaim' = [dhClaim EXCEPT ![b] = Resting]
  /\ UNCHANGED <<sockets, startup, dhDevices, dhClients, dhSend, dhTogether, dhPanic>>
-----------------------------------------------------------------------------
DHNext ==
  /\ ~dhPanic
  /\ \/ MainWaits \/ MainServes \/ Setup \/ ConsumeFails
     \/ \E s \in Socket : \/ ServeWS(s) \/ Register(s) \/ SetFilter(s) \/ FilterSet(s) \/ ReadFails(s)
                          \/ Unregister(s) \/ WritePump(s) \/ WriteFails(s)
     \/ \E b \in Claim : \/ ConsumeClaim(b) \/ (\E s \in Socket : NextClient(b, s))
                         \/ SendTo(b) \/ DropClient(b) \/ BroadcastEnds(b)

DHSpec == DHInit /\ [][DHNext]_dhVars
-----------------------------------------------------------------------------
(* Properties.                                                             *)

\* A channel is closed when its client has left the map, and then only; a reader
\* that has gone leaves no client behind.
ClosedWhenGone ==
  \A s \in Socket :
    /\ dhSend[s].closed <=> dhReader[s] \in {"reading", "filtering", "leaving", "gone"} /\ s \notin dhClients
    /\ dhReader[s] = "gone" => s \notin dhClients

\* The hub's process ends by two of its own races only: a client dropped by one
\* claim while another broadcasts, and a filter read while it is set.  One claim
\* alone, and Run beside it, close each channel once and send to open ones.
OnlyRacesPanic ==
  IF dhPanic THEN dhTogether \/ \E s \in Socket : dhReader[s] = "filtering"
  ELSE ClosedWhenGone
=============================================================================
