----------------------------- MODULE DataPusher -----------------------------
(***************************************************************************)
(* The WebSocket side of the consumer service: push goroutines started by  *)
(* WebSocketIntegratedProcessor for every processed message, the queues and*)
(* workers of WebSocketDataPusher, its client map, the reader and writer   *)
(* of each client of WebSocketServer, and the order in which               *)
(* ConsumerService.Stop takes them down.                                   *)
(*                                                                         *)
(* A payload is a unit in a queue; whether a client's filter lets it       *)
(* through is a free choice, and so is the passing of time.  A panic ends  *)
(* the process.                                                            *)
(***************************************************************************)
EXTENDS Integers, FiniteSets

CONSTANTS Client,       \* connections, each with an ID of its own (a UUID)
          Kind,         \* {"device", "alert"}: one queue each
          WorkerCount,  \* workers per queue
          Pusher,       \* push goroutines that may be in flight
          QueueSize, BufferSize, PushRetries

ASSUME PusherAssumption ==
  /\ WorkerCount \in Nat \ {0} /\ QueueSize \in Nat /\ BufferSize \in Nat /\ PushRetries \in Nat

Worker == Kind \X (1 .. WorkerCount)

VARIABLES
  stop,       \* how far ConsumerService.Stop has come
  queue,      \* queue[k]: payloads in deviceDataQueue or alertQueue
  queuesOpen, \* neither queue is closed
  clients,    \* dp.clients
  send, buf,  \* client.Send: "none", "open" or "closed", and how much it holds
  conn,       \* client.Conn: "none", "up" or "down"
  handler,    \* handleWebSocket of the client
  reader, writer,
  worker, todo,     \* todo[w]: the snapshot a broadcast still has to serve
  removing,   \* clients with a "go RemoveClient" under way
  manager, visits,  \* clientManager and the clients it still has to visit
  pusher, tries,
  panic

peers   == <<send, buf, conn, handler, reader, writer>>
workers == <<worker, todo>>
house   == <<manager, visits>>
pushers == <<pusher, tries>>
vars    == <<stop, queue, queuesOpen, clients, peers, workers, removing, house, pushers, panic>>

Stages == <<"running", "cancelled", "kafka", "queues", "clients", "http", "wait", "done">>
Past(s) == \E i, j \in DOMAIN Stages : i >= j /\ Stages[i] = stop /\ Stages[j] = s

ServerDone  == Past("cancelled")   \* ws.ctx and dp.ctx derive from cs.ctx
SessionDone == Past("kafka")       \* the push goroutines' context

-----------------------------------------------------------------------------
TypeOK ==
  /\ \E i \in DOMAIN Stages : stop = Stages[i]
  /\ queue \in [Kind -> 0 .. QueueSize] /\ queuesOpen \in BOOLEAN
  /\ clients \subseteq Client /\ removing \subseteq Client /\ visits \subseteq Client
  /\ send \in [Client -> {"none", "open", "closed"}]
  /\ buf \in [Client -> 0 .. BufferSize]
  /\ conn \in [Client -> {"none", "up", "down"}]
  /\ handler \in [Client -> {"none", "upgraded", "added", "returned"}]
  /\ reader \in [Client -> {"none", "loop", "reading", "pong", "leaving", "gone"}]
  /\ writer \in [Client -> {"none", "select", "writing", "gone"}]
  /\ worker \in [Worker -> {"select", "sending", "gone"}]
  /\ todo \in [Worker -> SUBSET Client]
  /\ manager \in {"select", "pinging", "cleaning", "gone"}
  /\ pusher \in [Pusher -> {"idle", "push", "backoff"}]
  /\ tries \in [Pusher -> 0 .. PushRetries]
  /\ panic \in {"none", "closed queue", "closed client", "concurrent write"}

\* The service is started: workers and client manager run, nobody is connected.
Init ==
  /\ stop = "running"
  /\ queue = [k \in Kind |-> 0] /\ queuesOpen = TRUE
  /\ clients = {} /\ removing = {} /\ visits = {}
  /\ send = [c \in Client |-> "none"] /\ conn = send /\ handler = send
  /\ reader = send /\ writer = send
  /\ buf = [c \in Client |-> 0]
  /\ worker = [w \in Worker |-> "select"] /\ todo = [w \in Worker |-> {}]
  /\ manager = "select"
  /\ pusher = [i \in Pusher |-> "idle"] /\ tries = [i \in Pusher |-> 0]
  /\ panic = "none"

Panics(why) == /\ panic' = why
               /\ UNCHANGED <<stop, queue, queuesOpen, clients, peers, workers, removing, house, pushers>>

-----------------------------------------------------------------------------
(* WebSocketIntegratedProcessor: one goroutine per processed message.      *)

\* Messages are processed until kafkaConsumer.Stop has returned.
Publish(i) ==
  /\ pusher[i] = "idle" /\ ~Past("queues")
  /\ pusher' = [pusher EXCEPT ![i] = "push"]
  /\ tries' = [tries EXCEPT ![i] = 0]
  /\ UNCHANGED <<stop, queue, queuesOpen, clients, peers, workers, removing, house, panic>>

PushTurn(i, pc, n) ==
  /\ pusher' = [pusher EXCEPT ![i] = pc]
  /\ tries' = [tries EXCEPT ![i] = n]
  /\ UNCHANGED <<stop, queuesOpen, clients, peers, workers, removing, house, panic>>

PushFails(i) ==
  /\ UNCHANGED queue
  /\ IF tries[i] < PushRetries THEN PushTurn(i, "backoff", tries[i] + 1)
                               ELSE PushTurn(i, "idle", 0)

PushOverfull(i) ==   \* mutant: one payload more than the queue holds
  /\ pusher[i] = "push"
  /\ \E k \in Kind :
       \/ /\ queuesOpen /\ queue[k] <= QueueSize
          /\ queue' = [queue EXCEPT ![k] = @ + 1]
          /\ PushTurn(i, "idle", 0)
       \/ ~queuesOpen /\ Panics("closed queue")
       \/ SessionDone /\ PushFails(i)

\* The select of PushDeviceData and PushAlert: a send on a closed queue and a
\* done context are both ready cases.
Push(i) ==
  /\ pusher[i] = "push"
  /\ \E k \in Kind :
       \/ /\ queuesOpen /\ queue[k] < QueueSize
          /\ queue' = [queue EXCEPT ![k] = @ + 1]
          /\ PushTurn(i, "idle", 0)
       \/ ~queuesOpen /\ Panics("closed queue")
       \/ SessionDone /\ PushFails(i)
       \/ queuesOpen /\ queue[k] = QueueSize /\ ~SessionDone /\ PushFails(i)

PushBackoff(i) ==
  /\ pusher[i] = "backoff" /\ UNCHANGED queue
  /\ \/ PushTurn(i, "push", tries[i])
     \/ SessionDone /\ PushTurn(i, "idle", 0)

-----------------------------------------------------------------------------
(* WebSocketDataPusher: workers, RemoveClient, clientManager.              *)

\* A payload is taken and the client map is copied under the read lock.
Receive(w) ==
  /\ worker[w] = "select" /\ queue[w[1]] > 0
  /\ queue' = [queue EXCEPT ![w[1]] = @ - 1]
  /\ worker' = [worker EXCEPT ![w] = "sending"]
  /\ todo' = [todo EXCEPT ![w] = clients]
  /\ UNCHANGED <<stop, queuesOpen, clients, peers, removing, house, pushers, panic>>

WorkerEnds(w) ==
  /\ worker[w] = "select"
  /\ ServerDone \/ (~queuesOpen /\ queue[w[1]] = 0)
  /\ worker' = [worker EXCEPT ![w] = "gone"]
  /\ UNCHANGED <<stop, queue, queuesOpen, clients, peers, todo, removing, house, pushers, panic>>

Served(w, c) ==
  /\ todo' = [todo EXCEPT ![w] = @ \ {c}]
  /\ UNCHANGED <<stop, queue, queuesOpen, clients, send, conn, handler, reader, writer,
                 worker, house, pushers, panic>>

\* The client may have been removed since the snapshot.
SendTo(w, c) ==
  /\ worker[w] = "sending" /\ c \in todo[w]
  /\ \/ Served(w, c) /\ UNCHANGED <<buf, removing>>     \* the filter does not match
     \/ /\ send[c] = "open" /\ buf[c] < BufferSize
        /\ buf' = [buf EXCEPT ![c] = @ + 1]
        /\ Served(w, c) /\ UNCHANGED removing
     \/ /\ send[c] = "open" /\ buf[c] = BufferSize
        /\ removing' = removing \cup {c}
        /\ Served(w, c) /\ UNCHANGED buf
     \/ send[c] = "closed" /\ Panics("closed client")

BroadcastEnds(w) ==
  /\ worker[w] = "sending" /\ todo[w] = {}
  /\ worker' = [worker EXCEPT ![w] = "select"]
  /\ UNCHANGED <<stop, queue, queuesOpen, clients, peers, todo, removing, house, pushers, panic>>

RemovedTwice(S) ==   \* mutant: the map entry stays
  /\ conn' = [c \in Client |-> IF c \in S \cap clients THEN "down" ELSE conn[c]]
  /\ send' = [c \in Client |-> IF c \in S \cap clients THEN "closed" ELSE send[c]]
  /\ UNCHANGED clients

\* RemoveClient: only a client still in the map is closed.
Removed(S) ==
  /\ conn' = [c \in Client |-> IF c \in S \cap clients THEN "down" ELSE conn[c]]
  /\ send' = [c \in Client |-> IF c \in S \cap clients THEN "closed" ELSE send[c]]
  /\ clients' = clients \ S

RemoveClient(c) ==
  /\ c \in removing
  /\ removing' = removing \ {c}
  /\ Removed({c})
  /\ UNCHANGED <<stop, queue, queuesOpen, buf, handler, reader, writer, workers, house, pushers, panic>>

ManagerTick ==
  /\ manager = "select"
  /\ manager' = "pinging" /\ visits' = clients
  /\ UNCHANGED <<stop, queue, queuesOpen, clients, peers, workers, removing, pushers, panic>>

\* WriteMessage from a second goroutine: gorilla panics if it meets the writer.
Ping(c) ==
  /\ manager = "pinging" /\ c \in visits
  /\ \/ /\ visits' = visits \ {c}
        /\ \/ conn[c] = "up" /\ UNCHANGED removing
           \/ removing' = removing \cup {c}
        /\ UNCHANGED <<stop, queue, queuesOpen, clients, peers, workers, manager, pushers, panic>>
     \/ conn[c] = "up" /\ writer[c] = "writing" /\ Panics("concurrent write")

\* Any client may have been silent for ClientTimeout.
PingsEnd ==
  /\ manager = "pinging" /\ visits = {}
  /\ manager' = "cleaning" /\ visits' \in SUBSET clients
  /\ UNCHANGED <<stop, queue, queuesOpen, clients, peers, workers, removing, pushers, panic>>

CleanupInactive(c) ==
  /\ manager = "cleaning" /\ c \in visits
  /\ visits' = visits \ {c}
  /\ Removed({c})
  /\ UNCHANGED <<stop, queue, queuesOpen, buf, handler, reader, writer, workers, removing, manager, pushers, panic>>

CleanupEnds ==
  /\ manager = "cleaning" /\ visits = {}
  /\ manager' = "select"
  /\ UNCHANGED <<stop, queue, queuesOpen, clients, peers, workers, removing, visits, pushers, panic>>

ManagerWithoutDone ==   \* mutant: the select has only the ticker
  manager = "select" /\ ServerDone /\ UNCHANGED vars

ManagerEnds ==
  /\ manager = "select" /\ ServerDone
  /\ manager' = "gone"
  /\ UNCHANGED <<stop, queue, queuesOpen, clients, peers, workers, removing, visits, pushers, panic>>

-----------------------------------------------------------------------------
(* WebSocketServer: handleWebSocket, clientReader, clientWriter.           *)

elsewhere == <<stop, queue, queuesOpen, workers, removing, house, pushers, panic>>

Upgrade(c) ==
  /\ handler[c] = "none" /\ ~Past("wait")
  /\ handler' = [handler EXCEPT ![c] = "upgraded"]
  /\ conn' = [conn EXCEPT ![c] = "up"]
  /\ send' = [send EXCEPT ![c] = "open"]
  /\ UNCHANGED <<clients, buf, reader, writer, elsewhere>>

AddClientUnlessDone(c) ==   \* mutant: a stopped pusher refuses, Send stays open
  /\ handler[c] = "upgraded"
  /\ IF ServerDone
       THEN /\ handler' = [handler EXCEPT ![c] = "returned"]
            /\ conn' = [conn EXCEPT ![c] = "down"]
            /\ UNCHANGED clients
       ELSE /\ handler' = [handler EXCEPT ![c] = "added"]
            /\ clients' = clients \cup {c}
            /\ UNCHANGED conn
  /\ UNCHANGED <<send, buf, reader, writer, elsewhere>>

AddClient(c) ==
  /\ handler[c] = "upgraded"
  /\ handler' = [handler EXCEPT ![c] = "added"]
  /\ clients' = clients \cup {c}
  /\ UNCHANGED <<send, buf, conn, reader, writer, elsewhere>>

StartClient(c) ==
  /\ handler[c] = "added"
  /\ handler' = [handler EXCEPT ![c] = "returned"]
  /\ reader' = [reader EXCEPT ![c] = "loop"]
  /\ writer' = [writer EXCEPT ![c] = "select"]
  /\ UNCHANGED <<clients, send, buf, conn, elsewhere>>

ReaderMoves(c, from, to) ==
  /\ reader[c] = from
  /\ reader' = [reader EXCEPT ![c] = to]
  /\ UNCHANGED <<clients, send, buf, conn, handler, writer, elsewhere>>

\* The context is looked at between two reads only.
ReaderLoops(c) ==
  \/ ServerDone /\ ReaderMoves(c, "loop", "leaving")
  \/ ~ServerDone /\ ReaderMoves(c, "loop", "reading")

\* A filter or an unknown message only leads back to the loop; a ping to a pong.
ReadMessage(c) ==
  /\ conn[c] = "up"
  /\ ReaderMoves(c, "reading", "loop") \/ ReaderMoves(c, "reading", "pong")

ReadErrorIgnored(c) == ReaderMoves(c, "reading", "loop")   \* mutant: continue, not return

\* The connection is down, or the peer is gone or silent for too long.
ReadFails(c) == ReaderMoves(c, "reading", "leaving")

SendPong(c) ==
  /\ reader[c] = "pong"
  /\ \/ /\ send[c] = "open"
        /\ reader' = [reader EXCEPT ![c] = "loop"]
        /\ buf' = [buf EXCEPT ![c] = IF @ < BufferSize THEN @ + 1 ELSE @]
        /\ UNCHANGED <<clients, send, conn, handler, writer, elsewhere>>
     \/ send[c] = "closed" /\ Panics("closed client")

\* wg.Done comes first, then RemoveClient and Conn.Close.
ReaderForgets(c) ==   \* mutant: RemoveClient is left to the others
  /\ reader[c] = "leaving"
  /\ reader' = [reader EXCEPT ![c] = "gone"]
  /\ conn' = [conn EXCEPT ![c] = "down"]
  /\ UNCHANGED <<clients, send, buf, handler, writer, elsewhere>>

ReaderLeaves(c) ==
  /\ reader[c] = "leaving"
  /\ reader' = [reader EXCEPT ![c] = "gone"]
  /\ send' = [send EXCEPT ![c] = IF c \in clients THEN "closed" ELSE @]
  /\ clients' = clients \ {c}
  /\ conn' = [conn EXCEPT ![c] = "down"]
  /\ UNCHANGED <<buf, handler, writer, elsewhere>>

WriterTakes(c) ==
  /\ writer[c] = "select" /\ buf[c] > 0
  /\ buf' = [buf EXCEPT ![c] = @ - 1]
  /\ writer' = [writer EXCEPT ![c] = "writing"]
  /\ UNCHANGED <<clients, send, conn, handler, reader, elsewhere>>

WriterTicks(c) ==
  /\ writer[c] = "select"
  /\ writer' = [writer EXCEPT ![c] = "writing"]
  /\ UNCHANGED <<clients, send, buf, conn, handler, reader, elsewhere>>

WriteDone(c) ==
  /\ writer[c] = "writing" /\ conn[c] = "up"
  /\ writer' = [writer EXCEPT ![c] = "select"]
  /\ UNCHANGED <<clients, send, buf, conn, handler, reader, elsewhere>>

\* The writer's deferred Conn.Close is what wakes the reader.
WriterGone(c) ==
  /\ writer' = [writer EXCEPT ![c] = "gone"]
  /\ conn' = [conn EXCEPT ![c] = "down"]
  /\ UNCHANGED <<clients, send, buf, handler, reader, elsewhere>>

WriteFails(c) == writer[c] = "writing" /\ WriterGone(c)

WriterEnds(c) ==
  /\ writer[c] = "select"
  /\ ServerDone \/ (send[c] = "closed" /\ buf[c] = 0)
  /\ WriterGone(c)

-----------------------------------------------------------------------------
(* ConsumerService.Stop: cancel, kafkaConsumer.Stop, webSocketServer.Stop. *)

StopAt(from, to) ==
  /\ stop = from /\ stop' = to
  /\ UNCHANGED <<queue, buf, handler, reader, writer, workers, removing, house, pushers, panic>>

WaitGroupZero == \A c \in Client : /\ reader[c] \in {"none", "leaving", "gone"}
                                   /\ writer[c] \in {"none", "gone"}

Cancel      == StopAt("running", "cancelled") /\ UNCHANGED <<queuesOpen, clients, send, conn>>
StopKafka   == StopAt("cancelled", "kafka") /\ UNCHANGED <<queuesOpen, clients, send, conn>>
CloseQueues == StopAt("kafka", "queues") /\ queuesOpen' = FALSE /\ UNCHANGED <<clients, send, conn>>
PusherWait  == /\ manager = "gone" /\ \A w \in Worker : worker[w] = "gone"
               /\ StopAt("queues", "clients") /\ UNCHANGED <<queuesOpen, clients, send, conn>>
CloseClients == StopAt("clients", "http") /\ Removed(clients) /\ UNCHANGED queuesOpen
Shutdown    == StopAt("http", "wait") /\ UNCHANGED <<queuesOpen, clients, send, conn>>
ServerWait  == WaitGroupZero /\ StopAt("wait", "done") /\ UNCHANGED <<queuesOpen, clients, send, conn>>

StopStep == StopKafka \/ CloseQueues \/ PusherWait \/ CloseClients \/ Shutdown \/ ServerWait

PusherStep(i) == Push(i) \/ PushBackoff(i)
WorkerStep(w) == Receive(w) \/ WorkerEnds(w) \/ BroadcastEnds(w) \/ \E c \in Client : SendTo(w, c)
ManagerStep   == \/ PingsEnd \/ CleanupEnds \/ ManagerEnds
                 \/ \E c \in Client : Ping(c) \/ CleanupInactive(c)
HandlerStep(c) == AddClient(c) \/ StartClient(c)
ReaderStep(c) == ReaderLoops(c) \/ SendPong(c) \/ ReaderLeaves(c) \/ (conn[c] = "down" /\ ReadFails(c))
WriterStep(c) == WriterTakes(c) \/ WriteDone(c) \/ WriterEnds(c) \/ (conn[c] = "down" /\ WriteFails(c))

Next == /\ panic = "none"
        /\ \/ Cancel \/ StopStep \/ ManagerTick \/ ManagerStep
           \/ \E i \in Pusher : Publish(i) \/ PusherStep(i)
           \/ \E w \in Worker : WorkerStep(w)
           \/ \E c \in Client : \/ Upgrade(c) \/ HandlerStep(c) \/ RemoveClient(c)
                                \/ ReaderStep(c) \/ ReadMessage(c) \/ ReadFails(c)
                                \/ WriterStep(c) \/ WriterTicks(c) \/ WriteFails(c)

Spec == Init /\ [][Next]_vars

\* Runnable goroutines run; peers, tickers and Stop's caller need not act.
Fairness ==
  /\ WF_vars(panic = "none" /\ StopStep)
  /\ WF_vars(panic = "none" /\ ManagerStep) /\ SF_vars(panic = "none" /\ ManagerEnds)
  /\ \A i \in Pusher : WF_vars(panic = "none" /\ PusherStep(i))
  /\ \A w \in Worker : /\ WF_vars(panic = "none" /\ WorkerStep(w))
                       /\ SF_vars(panic = "none" /\ WorkerEnds(w))
  /\ \A c \in Client : /\ WF_vars(panic = "none" /\ HandlerStep(c))
                       /\ WF_vars(panic = "none" /\ ReaderStep(c))
                       /\ WF_vars(panic = "none" /\ WriterStep(c))
                       /\ SF_vars(panic = "none" /\ WriterEnds(c))
                       /\ WF_vars(panic = "none" /\ RemoveClient(c))
FairSpec == Spec /\ Fairness

-----------------------------------------------------------------------------
(* Properties.                                                             *)

\* Whoever removes a client - a full buffer, a failed ping, the cleanup, its
\* reader, Stop - closes it exactly once: what is in the map is still open.
RegisteredAreOpen == \A c \in clients : send[c] = "open"

\* No client is lost: once its reader is gone nobody will call RemoveClient for
\* it again, so by then it is out of the map and closed.
NoOrphans == \A c \in Client :
  reader[c] = "gone" => c \notin clients /\ send[c] = "closed" /\ conn[c] = "down"

\* What a late send meets: a push, a queue closed by Stop when no session was
\* left to be served; a broadcast or a pong, a client that is out of the map.
OnlyLateSendsPanic ==
  /\ panic = "closed queue"  => SessionDone
  /\ panic = "closed client" => \E c \in Client \ clients : send[c] = "closed"

\* A client is in the map and open, or it has been closed, once, and only a send
\* that comes too late ends the process.
HeldOpenOrClosed == TypeOK /\ RegisteredAreOpen /\ NoOrphans /\ OnlyLateSendsPanic

\* A client whose connection is down leaves the map, whichever of its two
\* goroutines noticed, unless the process panics first.
DeadClientsRemoved ==
  \A c \in Client : conn[c] = "down" ~> (c \notin clients \/ panic # "none")

\* ConsumerService.Stop gets past both wait groups although readers only see
\* the context between reads.
StopReturns == Past("cancelled") ~> (stop = "done" \/ panic # "none")

\* A client accepted while the server goes down is closed all the same.
StopClosesAll ==
  (stop = "done") ~> (panic # "none" \/ \A c \in Client : send[c] \in {"none", "closed"})

\* Stop gets to its end, and then no client stays open.
StopCompletes == StopReturns /\ StopClosesAll
=============================================================================
