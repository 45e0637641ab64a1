---------------------------------- MODULE Hub ----------------------------------
(***************************************************************************)
(* Hub of internal/services/websocket/hub.go: the registry of WebSocket    *)
(* clients and the event loop that registers and unregisters them and      *)
(* copies each message into their Send channels.                           *)
(*                                                                         *)
(* Everything between h.mutex.Lock and Unlock is one step; what happens    *)
(* outside the mutex (a receive and the handler it leads to, checkHeartbeats' *)
(* scan and its UnregisterClient calls, the two halves of Stop) is several. *)
(* A send on, or a close of, a closed channel panics and ends the process. *)
(* Payloads are abstract: a channel of messages is the number it holds, and *)
(* how full a Send channel is does not matter, for a send to a full one is  *)
(* dropped and nobody waits.  Whether LastSeen is two heartbeat intervals   *)
(* old is left open for a client that is still being read.                  *)
(***************************************************************************)
EXTENDS Integers, Sequences, FiniteSets

CONSTANTS
  Client,          (* the *Client objects of the run                         *)
  Id,              (* client IDs                                             *)
  IdOf(_),         (* client.ID                                              *)
  NoClient,        (* a missing entry of the clients map                     *)
  Feed,            (* the message channels: broadcast, and the filtered ones *)
  MaxConnections,  (* config.MaxConnections                                  *)
  BufferSize       (* config.MessageBufferSize, capacity of every Hub channel *)

ASSUME HubAssumption ==
  /\ IsFiniteSet(Client) /\ IsFiniteSet(Id)
  /\ NoClient \notin Client
  /\ \A c \in Client : IdOf(c) \in Id
  /\ MaxConnections \in Nat \ {0}
  /\ BufferSize \in Nat \ {0}
  /\ Feed \subseteq {"broadcast", "deviceDataChan", "alertChan"}

VARIABLES
  clients,       (* h.clients                                               *)
  register,      (* contents of the register channel                        *)
  unregister,    (* contents of the unregister channel                      *)
  feed,          (* messages waiting in the three message channels          *)
  loop,          (* the event loop: what it is doing, for which client      *)
  heart,         (* the heartbeat goroutine                                 *)
  stale,         (* clients checkHeartbeats found stale, not yet handled    *)
  ctxDone,       (* h.cancel() has been called                              *)
  stopped,       (* Stop has closed the clients                             *)
  conn,          (* each client's socket                                    *)
  sendClosed,    (* close(client.Send) has happened                         *)
  reader,        (* each client's handleClient goroutine                    *)
  writer,        (* each client's clientWriter goroutine                    *)
  panic          (* what panicked, "none" while the process runs            *)

channels == <<register, unregister, feed>>
sockets == <<conn, sendClosed>>
routines == <<loop, heart, stale, reader, writer>>
lifecycle == <<ctxDone, stopped, panic>>
vars == <<clients, channels, sockets, routines, lifecycle>>

Connected == {i \in Id : clients[i] # NoClient}
Registered == {clients[i] : i \in Connected}
Idle == [at |-> "select", client |-> NoClient]
Running == panic = "none"
-----------------------------------------------------------------------------
(* NewHub; a client's socket and Send channel are made with the client. *)
Init ==
  /\ clients = [i \in Id |-> NoClient]
  /\ register = <<>> /\ unregister = <<>>
  /\ feed = [f \in Feed |-> 0]
  /\ loop = [at |-> "off", client |-> NoClient]
  /\ heart = "off" /\ stale = {}
  /\ ctxDone = FALSE /\ stopped = FALSE
  /\ conn = [c \in Client |-> "new"]
  /\ sendClosed = [c \in Client |-> FALSE]
  /\ reader = [c \in Client |-> "none"]
  /\ writer = [c \in Client |-> "none"]
  /\ panic = "none"

Start ==
  /\ loop.at = "off"
  /\ loop' = Idle /\ heart' = "ticking"
  /\ UNCHANGED <<clients, channels, sockets, stale, reader, writer, lifecycle>>

(* Mutant: "more than" for "at least" the limit. *)
RegisterOverLimit(c) ==
  /\ conn[c] = "new"
  /\ Cardinality(Connected) <= MaxConnections
  /\ clients[IdOf(c)] = NoClient
  /\ Len(register) < BufferSize
  /\ register' = Append(register, c)
  /\ conn' = [conn EXCEPT ![c] = "open"]
  /\ UNCHANGED <<clients, unregister, feed, sendClosed, routines, lifecycle>>

(* Accepted when the map has room and no entry with the ID, and the channel
   has a free slot; select may take the free slot although ctx is done.  A
   refused client leaves the hub as it was. *)
RegisterClient(c) ==
  /\ conn[c] = "new"
  /\ Cardinality(Connected) < MaxConnections
  /\ clients[IdOf(c)] = NoClient
  /\ Len(register) < BufferSize
  /\ register' = Append(register, c)
  /\ conn' = [conn EXCEPT ![c] = "open"]
  /\ UNCHANGED <<clients, unregister, feed, sendClosed, routines, lifecycle>>

(* Mutant: the client is queued although the channel is full. *)
EnqueueUnbounded(c) == unregister' = Append(unregister, c)

(* The select of UnregisterClient: queued, or given up because the channel
   is full or ctx is done.  Nobody looks at the error. *)
Enqueue(c) ==
  /\ Len(unregister) < BufferSize
  /\ unregister' = Append(unregister, c)
GiveUp ==
  /\ Len(unregister) = BufferSize \/ ctxDone
  /\ UNCHANGED unregister

(* BroadcastToAll, PushDeviceData, PushAlert; a refused message changes nothing. *)
Push(f) ==
  /\ feed[f] < BufferSize
  /\ feed' = [feed EXCEPT ![f] = @ + 1]
  /\ UNCHANGED <<clients, register, unregister, sockets, routines, lifecycle>>

(* Send without blocking to each client of S: a full channel drops the
   message, a closed one panics. *)
SendTo(S, who) ==
  panic' = IF \E c \in S : sendClosed[c] THEN who ELSE panic

(* Any goroutine may broadcast to the clients a group filter matches. *)
BroadcastToGroup ==
  /\ \E S \in SUBSET Registered \ {{}} : SendTo(S, "caller")
  /\ UNCHANGED <<clients, channels, sockets, routines, ctxDone, stopped>>
-----------------------------------------------------------------------------
(* run: a select over the ready cases, then the handler. *)
ReceiveRegister ==
  /\ loop.at = "select" /\ register # <<>>
  /\ loop' = [at |-> "register", client |-> Head(register)]
  /\ register' = Tail(register)
  /\ UNCHANGED <<clients, unregister, feed, sockets, heart, stale, reader,
                 writer, lifecycle>>

ReceiveUnregister ==
  /\ loop.at = "select" /\ unregister # <<>>
  /\ loop' = [at |-> "unregister", client |-> Head(unregister)]
  /\ unregister' = Tail(unregister)
  /\ UNCHANGED <<clients, register, feed, sockets, heart, stale, reader,
                 writer, lifecycle>>

ReceiveMessage(f) ==
  /\ loop.at = "select" /\ feed[f] > 0
  /\ loop' = [at |-> f, client |-> NoClient]
  /\ feed' = [feed EXCEPT ![f] = @ - 1]
  /\ UNCHANGED <<clients, register, unregister, sockets, heart, stale, reader,
                 writer, lifecycle>>

LoopEnds ==
  /\ loop.at = "select" /\ ctxDone
  /\ loop' = [loop EXCEPT !.at = "ended"]
  /\ UNCHANGED <<clients, channels, sockets, heart, stale, reader, writer,
                 lifecycle>>

HandleClientRegister ==
  /\ loop.at = "register"
  /\ clients' = [clients EXCEPT ![IdOf(loop.client)] = loop.client]
  /\ reader' = [reader EXCEPT ![loop.client] = "starting"]
  /\ loop' = Idle
  /\ UNCHANGED <<channels, sockets, heart, stale, writer, lifecycle>>

(* Mutant: the client is closed without looking it up first. *)
UnregisterUnchecked ==
  LET c == loop.client IN
  /\ loop.at = "unregister"
  /\ clients' = [clients EXCEPT ![IdOf(c)] = NoClient]
  /\ panic' = IF sendClosed[c] THEN "loop" ELSE panic
  /\ sendClosed' = [sendClosed EXCEPT ![c] = TRUE]
  /\ conn' = [conn EXCEPT ![c] = "closed"]
  /\ loop' = Idle
  /\ UNCHANGED <<channels, heart, stale, reader, writer, ctxDone, stopped>>

(* Mutant: the entry is not deleted. *)
UnregisterKeepsEntry ==
  LET c == loop.client IN
  /\ loop.at = "unregister"
  /\ IF clients[IdOf(c)] # NoClient
     THEN /\ sendClosed' = [sendClosed EXCEPT ![c] = TRUE]
          /\ conn' = [conn EXCEPT ![c] = "closed"]
     ELSE UNCHANGED <<conn, sendClosed>>
  /\ loop' = Idle
  /\ UNCHANGED <<clients, channels, heart, stale, reader, writer, lifecycle>>

(* Mutant: the entry is deleted, Send stays open. *)
UnregisterLeavesOpen ==
  LET c == loop.client IN
  /\ loop.at = "unregister"
  /\ clients' = [clients EXCEPT ![IdOf(c)] = NoClient]
  /\ loop' = Idle
  /\ UNCHANGED <<channels, sockets, heart, stale, reader, writer, lifecycle>>

(* The entry is looked up by ID, the client closed is the one in hand. *)
HandleClientUnregister ==
  LET c == loop.client IN
  /\ loop.at = "unregister"
  /\ \/ /\ clients[IdOf(c)] # NoClient
        /\ clients' = [clients EXCEPT ![IdOf(c)] = NoClient]
        /\ IF sendClosed[c]
           THEN panic' = "loop" /\ UNCHANGED <<conn, sendClosed>>
           ELSE /\ sendClosed' = [sendClosed EXCEPT ![c] = TRUE]
                /\ conn' = [conn EXCEPT ![c] = "closed"]
                /\ UNCHANGED panic
     \/ /\ clients[IdOf(c)] = NoClient
        /\ UNCHANGED <<clients, conn, sendClosed, panic>>
  /\ loop' = Idle
  /\ UNCHANGED <<channels, heart, stale, reader, writer, ctxDone, stopped>>

(* handleBroadcast reaches every client, handleDeviceData and handleAlert
   those whose filter matches. *)
HandleMessage(f) ==
  /\ loop.at = f
  /\ \E S \in SUBSET Registered :
       /\ f = "broadcast" => S = Registered
       /\ SendTo(S, "loop")
  /\ loop' = Idle
  /\ UNCHANGED <<clients, channels, sockets, heart, stale, reader, writer,
                 ctxDone, stopped>>
-----------------------------------------------------------------------------
(* handleClient: start the writer, then read until the socket fails. *)
ReaderStarts(c) ==
  /\ reader[c] = "starting"
  /\ reader' = [reader EXCEPT ![c] = "reading"]
  /\ writer' = [writer EXCEPT ![c] = "running"]
  /\ UNCHANGED <<clients, channels, sockets, loop, heart, stale, lifecycle>>

(* A ping message is to be answered; other messages are only logged. *)
ReadPing(c) ==
  /\ reader[c] = "reading" /\ conn[c] = "open"
  /\ reader' = [reader EXCEPT ![c] = "pong"]
  /\ UNCHANGED <<clients, channels, sockets, loop, heart, stale, writer,
                 lifecycle>>

(* handlePing's send: nothing keeps Send from being closed meanwhile. *)
SendPong(c) ==
  /\ reader[c] = "pong"
  /\ SendTo({c}, "reader")
  /\ reader' = [reader EXCEPT ![c] = "reading"]
  /\ UNCHANGED <<clients, channels, sockets, loop, heart, stale, writer,
                 ctxDone, stopped>>

(* The peer is gone, the deadline passed, or the socket was closed here. *)
ReadFails(c) ==
  /\ reader[c] = "reading"
  /\ reader' = [reader EXCEPT ![c] = "leaving"]
  /\ UNCHANGED <<clients, channels, sockets, loop, heart, stale, writer,
                 lifecycle>>

(* The deferred UnregisterClient. *)
ReaderLeaves(c) ==
  /\ reader[c] = "leaving"
  /\ Enqueue(c) \/ GiveUp
  /\ reader' = [reader EXCEPT ![c] = "done"]
  /\ UNCHANGED <<clients, register, feed, sockets, loop, heart, stale, writer,
                 lifecycle>>

(* clientWriter closes the socket when a write or a ping fails ... *)
WriterEnds(c) ==
  /\ writer[c] = "running"
  /\ writer' = [writer EXCEPT ![c] = "done"]
  /\ conn' = [conn EXCEPT ![c] = "closed"]
  /\ UNCHANGED <<clients, channels, sendClosed, loop, heart, stale, reader,
                 lifecycle>>
WriteFails(c) == WriterEnds(c)

(* Mutant: the receive's "ok" is ignored, nil messages are written. *)
SendIsClosedIgnored(c) ==
  /\ sendClosed[c] /\ writer[c] = "running"
  /\ UNCHANGED vars

(* ... or once it has drained the closed Send channel. *)
SendIsClosed(c) == sendClosed[c] /\ WriterEnds(c)
-----------------------------------------------------------------------------
(* Mutant: clients that nobody reads any more are not looked at. *)
CheckHeartbeatsOfRead ==
  /\ heart = "ticking" /\ stale = {}
  /\ stale' \in SUBSET {c \in Registered : reader[c] # "done"} \ {{}}
  /\ UNCHANGED <<clients, channels, sockets, loop, heart, reader, writer,
                 lifecycle>>

(* checkHeartbeats: the scan under RLock, then UnregisterClient for each. *)
CheckHeartbeats ==
  /\ heart = "ticking" /\ stale = {}
  /\ stale' \in SUBSET Registered \ {{}}
  /\ UNCHANGED <<clients, channels, sockets, loop, heart, reader, writer,
                 lifecycle>>

UnregisterStale(c) ==
  /\ c \in stale
  /\ Enqueue(c)
  /\ stale' = stale \ {c}
  /\ UNCHANGED <<clients, register, feed, sockets, loop, heart, reader, writer,
                 lifecycle>>

SkipStale(c) ==
  /\ c \in stale
  /\ GiveUp
  /\ stale' = stale \ {c}
  /\ UNCHANGED <<clients, register, feed, sockets, loop, heart, reader, writer,
                 lifecycle>>

HeartbeatEnds ==
  /\ heart = "ticking" /\ stale = {} /\ ctxDone
  /\ heart' = "ended"
  /\ UNCHANGED <<clients, channels, sockets, loop, stale, reader, writer,
                 lifecycle>>
-----------------------------------------------------------------------------
(* Stop: cancel, then close every client under the mutex.  The entries stay
   in the map, so a second Stop closes them again. *)
StopCancel ==
  /\ loop.at # "off" /\ ~ctxDone
  /\ ctxDone' = TRUE
  /\ UNCHANGED <<clients, channels, sockets, routines, stopped, panic>>

StopCloseClients ==
  /\ ctxDone
  /\ IF \E c \in Registered : sendClosed[c]
     THEN panic' = "stop" /\ UNCHANGED <<conn, sendClosed, stopped>>
     ELSE /\ sendClosed' = [c \in Client |-> sendClosed[c] \/ c \in Registered]
          /\ conn' = [c \in Client |-> IF c \in Registered THEN "closed" ELSE conn[c]]
          /\ stopped' = TRUE
          /\ UNCHANGED panic
  /\ UNCHANGED <<clients, channels, routines, ctxDone>>
-----------------------------------------------------------------------------
LoopStep ==
  \/ ReceiveRegister \/ ReceiveUnregister \/ LoopEnds
  \/ HandleClientRegister \/ HandleClientUnregister
  \/ \E f \in Feed : ReceiveMessage(f) \/ HandleMessage(f)

ClientStep(c) ==
  \/ RegisterClient(c)
  \/ ReaderStarts(c) \/ ReadPing(c) \/ SendPong(c)
  \/ ReadFails(c) \/ ReaderLeaves(c)
  \/ WriteFails(c) \/ SendIsClosed(c)
  \/ UnregisterStale(c) \/ SkipStale(c)

HubStep ==
  \/ Start \/ BroadcastToGroup \/ CheckHeartbeats \/ HeartbeatEnds
  \/ StopCancel \/ StopCloseClients
  \/ \E f \in Feed : Push(f)

Next ==
  /\ Running
  /\ LoopStep \/ HubStep \/ \E c \in Client : ClientStep(c)

Spec == Init /\ [][Next]_vars

(* Go's select picks among ready cases at random, and map iteration, which
   gives the order of the stale clients, starts at a random entry: a case
   ready again and again is taken (SF).  A client nobody reads any more does
   not change its LastSeen, so the scans do find it stale (SF).  Goroutines
   that can move do (WF). *)
Fairness ==
  /\ SF_vars(Running /\ ReceiveUnregister)
  /\ WF_vars(Running /\ LoopStep)
  /\ \A c \in Client :
       /\ WF_vars(Running /\ ReaderStarts(c))
       /\ WF_vars(Running /\ SendPong(c))
       /\ WF_vars(Running /\ conn[c] = "closed" /\ ReadFails(c))
       /\ WF_vars(Running /\ ReaderLeaves(c))
       /\ WF_vars(Running /\ SendIsClosed(c))
       /\ SF_vars(Running /\ reader[c] = "done" /\ CheckHeartbeats /\ c \in stale')
       /\ SF_vars(Running /\ UnregisterStale(c))
       /\ WF_vars(Running /\ SkipStale(c))

FairSpec == Spec /\ Fairness
-----------------------------------------------------------------------------
(* Type correctness: every channel within its capacity, and a client in the
   map stands under its own ID. *)
LoopAt == {"off", "select", "ended", "register", "unregister"} \cup Feed
TypeOK ==
  /\ clients \in [Id -> Client \cup {NoClient}]
  /\ \A i \in Connected : IdOf(clients[i]) = i
  /\ register \in Seq(Client) /\ Len(register) <= BufferSize
  /\ unregister \in Seq(Client) /\ Len(unregister) <= BufferSize
  /\ feed \in [Feed -> 0..BufferSize]
  /\ loop \in [at : LoopAt, client : Client \cup {NoClient}]
  /\ loop.at \in {"register", "unregister"} <=> loop.client # NoClient
  /\ heart \in {"off", "ticking", "ended"} /\ stale \subseteq Client
  /\ ctxDone \in BOOLEAN /\ stopped \in BOOLEAN
  /\ conn \in [Client -> {"new", "open", "closed"}]
  /\ sendClosed \in [Client -> BOOLEAN]
  /\ reader \in [Client -> {"none", "starting", "reading", "pong", "leaving", "done"}]
  /\ writer \in [Client -> {"none", "running", "done"}]
  /\ panic \in {"none", "loop", "reader", "caller", "stop"}

UniqueIds == \A c, d \in Client : IdOf(c) = IdOf(d) => c = d
Arriving == IF loop.at = "register" THEN 1 ELSE 0

(* RegisterClient compares the map with the limit although accepted clients
   may still be on their way to it: the limit can be passed, but only by the
   capacity of the register channel. *)
ConnectionsBounded ==
  Cardinality(Connected) + Len(register) + Arriving <= MaxConnections + BufferSize

(* Until Stop closes them, the clients in the map can be sent to: heartbeat
   and reader may both unregister a client, in any order with a broadcast,
   and the map never keeps one whose Send is closed.  This is what keeps the
   event loop's sends from panicking. *)
RegisteredAreOpen ==
  ~stopped => \A c \in Registered : ~sendClosed[c]

(* When client IDs are unique, the event loop, BroadcastToGroup's callers and
   the first Stop never send on or close a closed channel: before Stop has
   closed the clients only a reader answering a ping can panic. *)
PanicsOnlyAfterStop ==
  UniqueIds => (panic \in {"loop", "caller", "stop"} => stopped)

(* When client IDs are unique, a client the loop has taken in is never lost:
   it is in the map or its Send channel has been closed, so its writer
   goroutine and its socket do not outlive its registration. *)
NoOrphans ==
  UniqueIds => \A c \in Client :
                 reader[c] # "none" => c \in Registered \/ sendClosed[c]

(* A client taken in is in the map and open, or it has been closed, and
   nobody meets the closed channel but a reader that answers a ping. *)
HeldOpenOrClosed == TypeOK /\ RegisteredAreOpen /\ NoOrphans /\ PanicsOnlyAfterStop

(* A client whose reader has given up leaves the map, even if the reader's
   own unregistration was dropped because the channel was full: the heartbeat
   tries again until the hub is stopped. *)
DeadClientsRemoved ==
  \A c \in Client :
    (reader[c] = "done" /\ c \in Registered)
      ~> (c \notin Registered \/ ctxDone \/ ~Running)

(* Once a client's Send channel is closed both of its goroutines end. *)
ClosedClientsDrain ==
  \A c \in Client :
    sendClosed[c] ~> ((reader[c] = "done" /\ writer[c] = "done") \/ ~Running)

=============================================================================
