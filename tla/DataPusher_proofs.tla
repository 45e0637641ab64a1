--------------------------- MODULE DataPusher_proofs ---------------------------
(***************************************************************************)
(* Theorems about DataPusher, for every set of clients, queues and push    *)
(* goroutines, every number of workers and every capacity.                 *)
(***************************************************************************)
EXTENDS DataPusher, TLAPS

\* A client's life: it is upgraded with an open Send channel, added to the map,
\* and from then on in the map and open, or out of it and closed.
LifeOf(c) ==
  /\ handler[c] = "none"     => send[c] = "none" /\ c \notin clients
  /\ handler[c] = "upgraded" => send[c] = "open" /\ c \notin clients
  /\ handler[c] \in {"added", "returned"} => IF c \in clients THEN send[c] = "open" ELSE send[c] = "closed"
  /\ reader[c] # "none" => handler[c] = "returned"
  /\ reader[c] = "gone" => c \notin clients /\ conn[c] = "down"

Lives == \A c \in Client : LifeOf(c)

\* The queues are closed late in Stop.
AfterKafka == {"kafka", "queues", "clients", "http", "wait", "done"}
QueuesClosedByStop == queuesOpen \/ stop \in AfterKafka

IInv == TypeOK /\ Lives /\ QueuesClosedByStop /\ OnlyLateSendsPanic
-----------------------------------------------------------------------------
LEMMA StagesAre ==
  /\ DOMAIN Stages = 1 .. 8
  /\ Stages[1] = "running" /\ Stages[2] = "cancelled" /\ Stages[3] = "kafka" /\ Stages[4] = "queues"
  /\ Stages[5] = "clients" /\ Stages[6] = "http" /\ Stages[7] = "wait" /\ Stages[8] = "done"
  BY DEF Stages

LEMMA StageOf == TypeOK => stop \in {"running", "cancelled"} \cup AfterKafka
  <1> SUFFICES ASSUME NEW j \in DOMAIN Stages, stop = Stages[j]
               PROVE  stop \in {"running", "cancelled"} \cup AfterKafka
    BY DEF TypeOK
  <1>1. j \in 1 .. 8
    BY StagesAre
  <1>2. QED
    BY <1>1, StagesAre DEF AfterKafka

LEMMA SessionDoneIs == SessionDone <=> stop \in AfterKafka
  BY StagesAre DEF SessionDone, Past, AfterKafka

\* The bounded counters.
LEMMA CounterTypes ==
  ASSUME TypeOK
  PROVE  /\ \A k \in Kind : queue[k] \in 0 .. QueueSize
         /\ \A c \in Client : buf[c] \in 0 .. BufferSize
         /\ \A i \in Pusher : tries[i] \in 0 .. PushRetries
  <1>1. /\ queue \in [Kind -> 0 .. QueueSize] /\ buf \in [Client -> 0 .. BufferSize]
        /\ tries \in [Pusher -> 0 .. PushRetries]
    BY DEF TypeOK
  <1>2. QED
    BY <1>1

LEMMA TypeStep == TypeOK /\ [Next]_vars => TypeOK'
  <1> SUFFICES ASSUME TypeOK, [Next]_vars PROVE TypeOK'
    OBVIOUS
  <1> USE PusherAssumption
  <1>1. ASSUME NEW i \in Pusher, Publish(i) PROVE TypeOK'
    <2>1. tries' \in [Pusher -> 0 .. PushRetries] /\ pusher' \in [Pusher -> {"idle", "push", "backoff"}]
      <3>1. 0 \in 0 .. PushRetries
        OBVIOUS
      <3>2. QED
        BY <1>1, <3>1 DEF TypeOK, Publish
    <2>2. QED
      BY <1>1, <2>1 DEF TypeOK, peers, workers, house, Publish
  <1>2. ASSUME NEW i \in Pusher, Push(i) PROVE TypeOK'
    <2>1. ASSUME NEW pc \in {"idle", "push", "backoff"}, NEW n \in 0 .. PushRetries, PushTurn(i, pc, n),
                 queue' \in [Kind -> 0 .. QueueSize]
          PROVE  TypeOK'
      BY <2>1 DEF PushTurn, TypeOK, peers, workers, house
    <2>2. 0 \in 0 .. PushRetries /\ tries[i] \in 0 .. PushRetries
      BY CounterTypes
    <2>3. PICK k \in Kind :
            \/ /\ queuesOpen /\ queue[k] < QueueSize
               /\ queue' = [queue EXCEPT ![k] = @ + 1]
               /\ PushTurn(i, "idle", 0)
            \/ Panics("closed queue")
            \/ PushFails(i)
      BY <1>2 DEF Push
    <2>4. CASE /\ queue[k] < QueueSize /\ queue' = [queue EXCEPT ![k] = @ + 1]
               /\ PushTurn(i, "idle", 0)
      <3>1. queue[k] + 1 \in 0 .. QueueSize
        BY <2>4, CounterTypes
      <3>2. queue' \in [Kind -> 0 .. QueueSize]
        BY <2>4, <3>1 DEF TypeOK
      <3>3. QED
        BY <2>1, <2>2, <2>4, <3>2
    <2>5. CASE Panics("closed queue")
      BY <2>5 DEF Panics, TypeOK, peers, workers, house, pushers
    <2>6. CASE PushFails(i)
      <3>1. queue' \in [Kind -> 0 .. QueueSize]
        BY <2>6 DEF PushFails, TypeOK
      <3>2. CASE tries[i] < PushRetries
        <4>1. PushTurn(i, "backoff", tries[i] + 1) /\ tries[i] + 1 \in 0 .. PushRetries
          BY <2>2, <2>6, <3>2 DEF PushFails
        <4>2. QED
          BY <2>1, <3>1, <4>1
      <3>3. CASE ~(tries[i] < PushRetries)
        <4>1. PushTurn(i, "idle", 0)
          BY <2>6, <3>3 DEF PushFails
        <4>2. QED
          BY <2>1, <2>2, <3>1, <4>1
      <3>4. QED
        BY <3>2, <3>3
    <2>7. QED
      BY <2>3, <2>4, <2>5, <2>6
  <1>3. ASSUME NEW i \in Pusher, PushBackoff(i) PROVE TypeOK'
    <2>1. ASSUME NEW pc \in {"idle", "push", "backoff"}, NEW n \in 0 .. PushRetries, PushTurn(i, pc, n),
                 queue' \in [Kind -> 0 .. QueueSize]
          PROVE  TypeOK'
      BY <2>1 DEF PushTurn, TypeOK, peers, workers, house
    <2>2. 0 \in 0 .. PushRetries /\ tries[i] \in 0 .. PushRetries 
      BY CounterTypes
    <2>5. queue' \in [Kind -> 0 .. QueueSize]
      BY <1>3 DEF PushBackoff, TypeOK
    <2>3. PushTurn(i, "push", tries[i]) \/ PushTurn(i, "idle", 0)
      BY <1>3 DEF PushBackoff
    <2>4. QED
      BY <2>1, <2>2, <2>3, <2>5
  <1>4. ASSUME NEW w \in Worker, Receive(w) PROVE TypeOK'
    <2>1. w[1] \in Kind
      BY DEF Worker
    <2>2. queue[w[1]] - 1 \in 0 .. QueueSize
      BY <1>4, <2>1, CounterTypes DEF Receive
    <2>3. queue' \in [Kind -> 0 .. QueueSize]
      BY <1>4, <2>1, <2>2 DEF Receive, TypeOK
    <2>4. worker' \in [Worker -> {"select", "sending", "gone"}] /\ todo' \in [Worker -> SUBSET Client]
      BY <1>4 DEF Receive, TypeOK
    <2>5. QED
      BY <1>4, <2>3, <2>4 DEF Receive, TypeOK, peers, house, pushers
  <1>5. ASSUME NEW w \in Worker, WorkerEnds(w) PROVE TypeOK'
    BY <1>5 DEF TypeOK, Worker, peers, workers, house, pushers, WorkerEnds
  <1>6. ASSUME NEW w \in Worker, BroadcastEnds(w) PROVE TypeOK'
    BY <1>6 DEF TypeOK, Worker, peers, workers, house, pushers, BroadcastEnds
  <1>7. ASSUME NEW w \in Worker, NEW c \in Client, SendTo(w, c) PROVE TypeOK'
    <2>1. CASE Panics("closed client")
      BY <2>1 DEF Panics, TypeOK, peers, workers, house, pushers
    <2>2. CASE Served(w, c)
      <3>1. todo' \in [Worker -> SUBSET Client]
        BY <2>2 DEF Served, TypeOK
      <3>2. buf' \in [Client -> 0 .. BufferSize] /\ removing' \subseteq Client /\ panic' = panic
        <4>1. CASE buf[c] < BufferSize /\ buf' = [buf EXCEPT ![c] = @ + 1] /\ UNCHANGED removing
          <5>1. buf[c] + 1 \in 0 .. BufferSize
            BY <4>1, CounterTypes
          <5>2. QED
            BY <2>2, <4>1, <5>1 DEF TypeOK, Served
        <4>2. CASE UNCHANGED buf /\ removing' \in {removing, removing \cup {c}}
          BY <2>2, <4>2 DEF TypeOK, Served
        <4>3. UNCHANGED panic
          BY <2>2 DEF Served
        <4>4. QED
          BY <1>7, <4>1, <4>2, <4>3 DEF SendTo, Panics, peers
      <3>3. QED
        BY <2>2, <3>1, <3>2 DEF Served, TypeOK, house, pushers
    <2>3. QED
      BY <1>7, <2>1, <2>2 DEF SendTo
  <1>8. ASSUME NEW c \in Client, RemoveClient(c) PROVE TypeOK'
    BY <1>8 DEF TypeOK, Worker, peers, workers, house, pushers, RemoveClient, Removed
  <1>9. ASSUME ManagerTick PROVE TypeOK'
    BY <1>9 DEF TypeOK, Worker, peers, workers, house, pushers, ManagerTick
  <1>10. ASSUME NEW c \in Client, Ping(c) PROVE TypeOK'
    <2>1. CASE Panics("concurrent write")
      BY <2>1 DEF Panics, TypeOK, peers, workers, house, pushers
    <2>2. CASE ~Panics("concurrent write")
      <3>1. /\ visits' = visits \ {c} /\ removing' \in {removing, removing \cup {c}}
            /\ UNCHANGED <<stop, queue, queuesOpen, clients, peers, workers, manager, pushers, panic>>
        BY <1>10, <2>2 DEF Ping
      <3>2. visits' \subseteq Client /\ removing' \subseteq Client
        BY <3>1 DEF TypeOK
      <3>3. QED
        BY <3>1, <3>2 DEF TypeOK, peers, workers, pushers
    <2>3. QED
      BY <2>1, <2>2
  <1>11. ASSUME PingsEnd PROVE TypeOK'
    BY <1>11 DEF TypeOK, Worker, peers, workers, house, pushers, PingsEnd
  <1>12. ASSUME NEW c \in Client, CleanupInactive(c) PROVE TypeOK'
    BY <1>12 DEF TypeOK, Worker, peers, workers, house, pushers, CleanupInactive, Removed
  <1>13. ASSUME CleanupEnds PROVE TypeOK'
    BY <1>13 DEF TypeOK, Worker, peers, workers, house, pushers, CleanupEnds
  <1>14. ASSUME ManagerEnds PROVE TypeOK'
    BY <1>14 DEF TypeOK, Worker, peers, workers, house, pushers, ManagerEnds
  <1>15. ASSUME NEW c \in Client, Upgrade(c) PROVE TypeOK'
    BY <1>15 DEF TypeOK, Worker, peers, workers, house, pushers, elsewhere, Upgrade
  <1>16. ASSUME NEW c \in Client, AddClient(c) PROVE TypeOK'
    BY <1>16 DEF TypeOK, Worker, peers, workers, house, pushers, elsewhere, AddClient
  <1>17. ASSUME NEW c \in Client, StartClient(c) PROVE TypeOK'
    BY <1>17 DEF TypeOK, Worker, peers, workers, house, pushers, elsewhere, StartClient
  <1>18. ASSUME NEW c \in Client, ReaderLoops(c) PROVE TypeOK'
    <2>1. PICK to \in {"loop", "reading", "pong", "leaving"} : reader' = [reader EXCEPT ![c] = to]
      BY <1>18 DEF ReaderLoops, ReaderMoves
    <2>2. UNCHANGED <<clients, send, buf, conn, handler, writer, elsewhere>>
      BY <1>18 DEF ReaderLoops, ReaderMoves
    <2>3. QED
      BY <2>1, <2>2 DEF TypeOK, elsewhere, workers, house, pushers
  <1>19. ASSUME NEW c \in Client, ReadMessage(c) PROVE TypeOK'
    <2>1. PICK to \in {"loop", "reading", "pong", "leaving"} : reader' = [reader EXCEPT ![c] = to]
      BY <1>19 DEF ReadMessage, ReaderMoves
    <2>2. UNCHANGED <<clients, send, buf, conn, handler, writer, elsewhere>>
      BY <1>19 DEF ReadMessage, ReaderMoves
    <2>3. QED
      BY <2>1, <2>2 DEF TypeOK, elsewhere, workers, house, pushers
  <1>20. ASSUME NEW c \in Client, ReadFails(c) PROVE TypeOK'
    BY <1>20 DEF TypeOK, Worker, peers, workers, house, pushers, elsewhere, ReadFails, ReaderMoves
  <1>21. ASSUME NEW c \in Client, SendPong(c) PROVE TypeOK'
    <2>1. CASE Panics("closed client")
      BY <2>1 DEF Panics, TypeOK, peers, workers, house, pushers
    <2>2. CASE ~Panics("closed client")
      <3>1. /\ reader' = [reader EXCEPT ![c] = "loop"]
            /\ buf' = [buf EXCEPT ![c] = IF @ < BufferSize THEN @ + 1 ELSE @]
            /\ UNCHANGED <<clients, send, conn, handler, writer, elsewhere>>
        BY <1>21, <2>2 DEF SendPong
      <3>2. (IF buf[c] < BufferSize THEN buf[c] + 1 ELSE buf[c]) \in 0 .. BufferSize
        BY CounterTypes
      <3>3. buf' \in [Client -> 0 .. BufferSize]
        BY <3>1, <3>2 DEF TypeOK
      <3>4. QED
        BY <3>1, <3>3 DEF TypeOK, elsewhere, workers, house, pushers
    <2>3. QED
      BY <2>1, <2>2
  <1>22. ASSUME NEW c \in Client, ReaderLeaves(c) PROVE TypeOK'
    BY <1>22 DEF TypeOK, Worker, peers, workers, house, pushers, elsewhere, ReaderLeaves
  <1>23. ASSUME NEW c \in Client, WriterTakes(c) PROVE TypeOK'
    <2>1. buf[c] - 1 \in 0 .. BufferSize
      BY <1>23, CounterTypes DEF WriterTakes
    <2>2. buf' \in [Client -> 0 .. BufferSize]
      BY <1>23, <2>1 DEF WriterTakes, TypeOK
    <2>3. QED
      BY <1>23, <2>2 DEF WriterTakes, TypeOK, elsewhere, workers, house, pushers
  <1>24. ASSUME NEW c \in Client, WriterTicks(c) PROVE TypeOK'
    BY <1>24 DEF TypeOK, Worker, peers, workers, house, pushers, elsewhere, WriterTicks
  <1>25. ASSUME NEW c \in Client, WriteDone(c) PROVE TypeOK'
    BY <1>25 DEF TypeOK, Worker, peers, workers, house, pushers, elsewhere, WriteDone
  <1>26. ASSUME NEW c \in Client, WriteFails(c) PROVE TypeOK'
    BY <1>26 DEF TypeOK, Worker, peers, workers, house, pushers, elsewhere, WriteFails, WriterGone
  <1>27. ASSUME NEW c \in Client, WriterEnds(c) PROVE TypeOK'
    BY <1>27 DEF TypeOK, Worker, peers, workers, house, pushers, elsewhere, WriterEnds, WriterGone
  <1>28. ASSUME Cancel PROVE TypeOK'
    <2>1. \E j \in DOMAIN Stages : stop' = Stages[j]
      BY <1>28, StagesAre DEF Cancel, StopAt
    <2>2. QED
      BY <1>28, <2>1 DEF TypeOK, peers, workers, house, pushers, Cancel, StopAt
  <1>29. ASSUME StopKafka PROVE TypeOK'
    <2>1. \E j \in DOMAIN Stages : stop' = Stages[j]
      BY <1>29, StagesAre DEF StopKafka, StopAt
    <2>2. QED
      BY <1>29, <2>1 DEF TypeOK, peers, workers, house, pushers, StopKafka, StopAt
  <1>30. ASSUME CloseQueues PROVE TypeOK'
    <2>1. \E j \in DOMAIN Stages : stop' = Stages[j]
      BY <1>30, StagesAre DEF CloseQueues, StopAt
    <2>2. QED
      BY <1>30, <2>1 DEF TypeOK, peers, workers, house, pushers, CloseQueues, StopAt
  <1>31. ASSUME PusherWait PROVE TypeOK'
    <2>1. \E j \in DOMAIN Stages : stop' = Stages[j]
      BY <1>31, StagesAre DEF PusherWait, StopAt
    <2>2. QED
      BY <1>31, <2>1 DEF TypeOK, peers, workers, house, pushers, PusherWait, StopAt
  <1>32. ASSUME CloseClients PROVE TypeOK'
    <2>1. \E j \in DOMAIN Stages : stop' = Stages[j]
      BY <1>32, StagesAre DEF CloseClients, StopAt
    <2>2. QED
      BY <1>32, <2>1 DEF TypeOK, peers, workers, house, pushers, CloseClients, Removed, StopAt
  <1>33. ASSUME Shutdown PROVE TypeOK'
    <2>1. \E j \in DOMAIN Stages : stop' = Stages[j]
      BY <1>33, StagesAre DEF Shutdown, StopAt
    <2>2. QED
      BY <1>33, <2>1 DEF TypeOK, peers, workers, house, pushers, Shutdown, StopAt
  <1>34. ASSUME ServerWait PROVE TypeOK'
    <2>1. \E j \in DOMAIN Stages : stop' = Stages[j]
      BY <1>34, StagesAre DEF ServerWait, StopAt
    <2>2. QED
      BY <1>34, <2>1 DEF TypeOK, peers, workers, house, pushers, ServerWait, StopAt
  <1>35. CASE UNCHANGED vars
    BY <1>35 DEF TypeOK, Worker, vars, peers, workers, house, pushers
  <1>36. QED
    BY <1>1, <1>2, <1>3, <1>4, <1>5, <1>6, <1>7, <1>8, <1>9, <1>10, <1>11, <1>12, <1>13,
       <1>14, <1>15, <1>16, <1>17, <1>18, <1>19, <1>20, <1>21, <1>22, <1>23, <1>24, <1>25,
       <1>26, <1>27, <1>28, <1>29, <1>30, <1>31, <1>32, <1>33, <1>34, <1>35
       DEF Next, StopStep, PusherStep, WorkerStep, ManagerStep, HandlerStep, ReaderStep,
           WriterStep

\* A step that touches one client.
Untouched(d) ==
  /\ handler'[d] = handler[d] /\ send'[d] = send[d] /\ conn'[d] = conn[d] /\ reader'[d] = reader[d]
  /\ d \in clients' <=> d \in clients

LEMMA LivesByOne ==
  ASSUME Lives, NEW c \in Client, \A d \in Client \ {c} : Untouched(d), LifeOf(c)'
  PROVE  Lives'
  <1>1. ASSUME NEW d \in Client \ {c} PROVE LifeOf(d)'
    <2>1. LifeOf(d)
      BY DEF Lives, LifeOf
    <2>2. QED
      BY <2>1 DEF LifeOf, Untouched
  <1>2. \A d \in Client : LifeOf(d)'
    BY <1>1
  <1>3. QED
    BY <1>2 DEF Lives, LifeOf

LEMMA LivesStep == TypeOK /\ Lives /\ [Next]_vars => Lives'
  <1> SUFFICES ASSUME TypeOK, Lives, [Next]_vars PROVE Lives'
    OBVIOUS
  <1>1. ASSUME NEW i \in Pusher, Publish(i) PROVE Lives'
    BY <1>1 DEF TypeOK, Lives, LifeOf, peers, workers, house, pushers, Publish
  <1>2. ASSUME NEW i \in Pusher, Push(i) PROVE Lives'
    <2>1. UNCHANGED <<clients, send, conn, handler, reader>>
      BY <1>2 DEF Push, PushTurn, PushFails, Panics, peers
    <2>2. QED
      BY <2>1 DEF Lives, LifeOf
  <1>3. ASSUME NEW i \in Pusher, PushBackoff(i) PROVE Lives'
    <2>1. UNCHANGED <<clients, send, conn, handler, reader>>
      BY <1>3 DEF PushBackoff, PushTurn, peers
    <2>2. QED
      BY <2>1 DEF Lives, LifeOf
  <1>4. ASSUME NEW w \in Worker, Receive(w) PROVE Lives'
    BY <1>4 DEF TypeOK, Lives, LifeOf, peers, workers, house, pushers, Receive
  <1>5. ASSUME NEW w \in Worker, WorkerEnds(w) PROVE Lives'
    BY <1>5 DEF TypeOK, Lives, LifeOf, peers, workers, house, pushers, WorkerEnds
  <1>6. ASSUME NEW w \in Worker, BroadcastEnds(w) PROVE Lives'
    BY <1>6 DEF TypeOK, Lives, LifeOf, peers, workers, house, pushers, BroadcastEnds
  <1>7. ASSUME NEW w \in Worker, NEW c \in Client, SendTo(w, c) PROVE Lives'
    <2>1. UNCHANGED <<clients, send, conn, handler, reader>>
      BY <1>7 DEF SendTo, Served, Panics, peers
    <2>2. QED
      BY <2>1 DEF Lives, LifeOf
  <1>8. ASSUME NEW c \in Client, RemoveClient(c) PROVE Lives'
    BY <1>8 DEF TypeOK, Lives, LifeOf, peers, workers, house, pushers, RemoveClient, Removed
  <1>9. ASSUME ManagerTick PROVE Lives'
    BY <1>9 DEF TypeOK, Lives, LifeOf, peers, workers, house, pushers, ManagerTick
  <1>10. ASSUME NEW c \in Client, Ping(c) PROVE Lives'
    <2>1. UNCHANGED <<clients, send, conn, handler, reader>>
      BY <1>10 DEF Ping, Panics, peers
    <2>2. QED
      BY <2>1 DEF Lives, LifeOf
  <1>11. ASSUME PingsEnd PROVE Lives'
    BY <1>11 DEF TypeOK, Lives, LifeOf, peers, workers, house, pushers, PingsEnd
  <1>12. ASSUME NEW c \in Client, CleanupInactive(c) PROVE Lives'
    BY <1>12 DEF TypeOK, Lives, LifeOf, peers, workers, house, pushers, CleanupInactive, Removed
  <1>13. ASSUME CleanupEnds PROVE Lives'
    BY <1>13 DEF TypeOK, Lives, LifeOf, peers, workers, house, pushers, CleanupEnds
  <1>14. ASSUME ManagerEnds PROVE Lives'
    BY <1>14 DEF TypeOK, Lives, LifeOf, peers, workers, house, pushers, ManagerEnds
  <1>15. ASSUME NEW c \in Client, Upgrade(c) PROVE Lives'
    <2>1. \A d \in Client \ {c} : Untouched(d)
      BY <1>15 DEF TypeOK, Untouched, Upgrade
    <2>2. /\ handler[c] = "none" /\ handler'[c] = "upgraded" /\ send'[c] = "open"
          /\ clients' = clients /\ reader'[c] = reader[c]
      BY <1>15 DEF TypeOK, Upgrade
    <2>3. LifeOf(c)
      BY DEF Lives, LifeOf
    <2>4. LifeOf(c)'
      BY <2>2, <2>3 DEF LifeOf
    <2>5. QED
      BY <2>1, <2>4, LivesByOne
  <1>16. ASSUME NEW c \in Client, AddClient(c) PROVE Lives'
    <2>1. \A d \in Client \ {c} : Untouched(d)
      BY <1>16 DEF TypeOK, Untouched, AddClient
    <2>2. /\ handler[c] = "upgraded" /\ handler'[c] = "added" /\ send'[c] = send[c]
          /\ c \in clients' /\ reader'[c] = reader[c]
      BY <1>16 DEF TypeOK, AddClient
    <2>3. LifeOf(c)
      BY DEF Lives, LifeOf
    <2>4. LifeOf(c)'
      BY <2>2, <2>3 DEF LifeOf
    <2>5. QED
      BY <2>1, <2>4, LivesByOne
  <1>17. ASSUME NEW c \in Client, StartClient(c) PROVE Lives'
    <2>1. \A d \in Client \ {c} : Untouched(d)
      BY <1>17 DEF TypeOK, Untouched, StartClient
    <2>2. /\ handler[c] = "added" /\ handler'[c] = "returned" /\ reader'[c] = "loop"
          /\ clients' = clients /\ send'[c] = send[c]
      BY <1>17 DEF TypeOK, StartClient
    <2>3. LifeOf(c)
      BY DEF Lives, LifeOf
    <2>4. LifeOf(c)'
      BY <2>2, <2>3 DEF LifeOf
    <2>5. QED
      BY <2>1, <2>4, LivesByOne
  <1>18. ASSUME NEW c \in Client, ReaderLoops(c) PROVE Lives'
    <2>1. PICK to \in {"loop", "reading", "pong", "leaving"} : reader' = [reader EXCEPT ![c] = to]
      BY <1>18 DEF ReaderLoops, ReaderMoves
    <2>2. UNCHANGED <<clients, send, buf, conn, handler, writer, elsewhere>>
      BY <1>18 DEF ReaderLoops, ReaderMoves
    <2>4. reader[c] \notin {"none", "gone"}
      BY <1>18 DEF ReaderLoops, ReaderMoves
    <2>5. \A d \in Client \ {c} : Untouched(d)
      BY <2>1, <2>2 DEF TypeOK, Untouched
    <2>6. LifeOf(c)'
      BY <2>1, <2>2, <2>4 DEF TypeOK, Lives, LifeOf
    <2>3. QED
      BY <2>5, <2>6, LivesByOne
  <1>19. ASSUME NEW c \in Client, ReadMessage(c) PROVE Lives'
    <2>1. PICK to \in {"loop", "reading", "pong", "leaving"} : reader' = [reader EXCEPT ![c] = to]
      BY <1>19 DEF ReadMessage, ReaderMoves
    <2>2. UNCHANGED <<clients, send, buf, conn, handler, writer, elsewhere>>
      BY <1>19 DEF ReadMessage, ReaderMoves
    <2>4. reader[c] \notin {"none", "gone"}
      BY <1>19 DEF ReadMessage, ReaderMoves
    <2>5. \A d \in Client \ {c} : Untouched(d)
      BY <2>1, <2>2 DEF TypeOK, Untouched
    <2>6. LifeOf(c)'
      BY <2>1, <2>2, <2>4 DEF TypeOK, Lives, LifeOf
    <2>3. QED
      BY <2>5, <2>6, LivesByOne
  <1>20. ASSUME NEW c \in Client, ReadFails(c) PROVE Lives'
    <2>1. /\ reader' = [reader EXCEPT ![c] = "leaving"] /\ reader[c] \notin {"none", "gone"}
          /\ UNCHANGED <<clients, send, conn, handler>>
      BY <1>20 DEF ReadFails, ReaderMoves
    <2>2. \A d \in Client \ {c} : Untouched(d)
      BY <2>1 DEF TypeOK, Untouched
    <2>3. LifeOf(c)'
      BY <2>1 DEF TypeOK, Lives, LifeOf
    <2>4. QED
      BY <2>2, <2>3, LivesByOne
  <1>21. ASSUME NEW c \in Client, SendPong(c) PROVE Lives'
    <2>1. UNCHANGED <<clients, send, conn, handler>>
      BY <1>21 DEF SendPong, Panics, peers
    <2>2. reader[c] = "pong" /\ reader' \in {reader, [reader EXCEPT ![c] = "loop"]}
      BY <1>21 DEF SendPong, Panics, peers
    <2>6. reader \in [Client -> {"none", "loop", "reading", "pong", "leaving", "gone"}]
      BY DEF TypeOK
    <2>3. \A d \in Client : reader'[d] = "gone" => reader[d] = "gone"
      BY <2>2, <2>6
    <2>4. \A d \in Client : reader'[d] # "none" => reader[d] # "none"
      BY <2>2, <2>6
    <2>5. QED
      BY <2>1, <2>3, <2>4 DEF Lives, LifeOf
  <1>22. ASSUME NEW c \in Client, ReaderLeaves(c) PROVE Lives'
    <2>1. \A d \in Client \ {c} : Untouched(d)
      BY <1>22 DEF TypeOK, Untouched, ReaderLeaves
    <2>2. /\ handler'[c] = handler[c] /\ reader[c] = "leaving" /\ c \notin clients'
          /\ send'[c] = (IF c \in clients THEN "closed" ELSE send[c]) /\ conn'[c] = "down"
      BY <1>22 DEF TypeOK, ReaderLeaves
    <2>3. LifeOf(c)
      BY DEF Lives, LifeOf
    <2>4. LifeOf(c)'
      BY <2>2, <2>3 DEF LifeOf
    <2>5. QED
      BY <2>1, <2>4, LivesByOne
  <1>23. ASSUME NEW c \in Client, WriterTakes(c) PROVE Lives'
    BY <1>23 DEF TypeOK, Lives, LifeOf, peers, workers, house, pushers, elsewhere, WriterTakes
  <1>24. ASSUME NEW c \in Client, WriterTicks(c) PROVE Lives'
    BY <1>24 DEF TypeOK, Lives, LifeOf, peers, workers, house, pushers, elsewhere, WriterTicks
  <1>25. ASSUME NEW c \in Client, WriteDone(c) PROVE Lives'
    BY <1>25 DEF TypeOK, Lives, LifeOf, peers, workers, house, pushers, elsewhere, WriteDone
  <1>26. ASSUME NEW c \in Client, WriteFails(c) PROVE Lives'
    BY <1>26
       DEF TypeOK, Lives, LifeOf, peers, workers, house, pushers, elsewhere, WriteFails,
           WriterGone
  <1>27. ASSUME NEW c \in Client, WriterEnds(c) PROVE Lives'
    BY <1>27
       DEF TypeOK, Lives, LifeOf, peers, workers, house, pushers, elsewhere, WriterEnds,
           WriterGone
  <1>28. ASSUME Cancel PROVE Lives'
    BY <1>28 DEF TypeOK, Lives, LifeOf, peers, workers, house, pushers, Cancel, StopAt
  <1>29. ASSUME StopKafka PROVE Lives'
    BY <1>29 DEF TypeOK, Lives, LifeOf, peers, workers, house, pushers, StopKafka, StopAt
  <1>30. ASSUME CloseQueues PROVE Lives'
    BY <1>30 DEF TypeOK, Lives, LifeOf, peers, workers, house, pushers, CloseQueues, StopAt
  <1>31. ASSUME PusherWait PROVE Lives'
    BY <1>31 DEF TypeOK, Lives, LifeOf, peers, workers, house, pushers, PusherWait, StopAt
  <1>32. ASSUME CloseClients PROVE Lives'
    BY <1>32
       DEF TypeOK, Lives, LifeOf, peers, workers, house, pushers, CloseClients, Removed,
           StopAt
  <1>33. ASSUME Shutdown PROVE Lives'
    BY <1>33 DEF TypeOK, Lives, LifeOf, peers, workers, house, pushers, Shutdown, StopAt
  <1>34. ASSUME ServerWait PROVE Lives'
    BY <1>34 DEF TypeOK, Lives, LifeOf, peers, workers, house, pushers, ServerWait, StopAt
  <1>35. CASE UNCHANGED vars
    BY <1>35 DEF TypeOK, Lives, LifeOf, vars, peers, workers, house, pushers
  <1>36. QED
    BY <1>1, <1>2, <1>3, <1>4, <1>5, <1>6, <1>7, <1>8, <1>9, <1>10, <1>11, <1>12, <1>13,
       <1>14, <1>15, <1>16, <1>17, <1>18, <1>19, <1>20, <1>21, <1>22, <1>23, <1>24, <1>25,
       <1>26, <1>27, <1>28, <1>29, <1>30, <1>31, <1>32, <1>33, <1>34, <1>35
       DEF Next, StopStep, PusherStep, WorkerStep, ManagerStep, HandlerStep, ReaderStep,
           WriterStep
-----------------------------------------------------------------------------
(* Panics.                                                                 *)

LEMMA QueuesStep == QueuesClosedByStop /\ [Next]_vars => QueuesClosedByStop'
  <1> SUFFICES ASSUME QueuesClosedByStop, [Next]_vars PROVE QueuesClosedByStop'
    OBVIOUS
  <1>1. ASSUME NEW i \in Pusher, Publish(i) PROVE QueuesClosedByStop'
    BY <1>1 DEF QueuesClosedByStop, AfterKafka, peers, workers, house, pushers, Publish
  <1>2. ASSUME NEW i \in Pusher, Push(i) PROVE QueuesClosedByStop'
    BY <1>2
       DEF QueuesClosedByStop, AfterKafka, peers, workers, house, pushers, Push, PushTurn,
           PushFails, Panics
  <1>3. ASSUME NEW i \in Pusher, PushBackoff(i) PROVE QueuesClosedByStop'
    BY <1>3
       DEF QueuesClosedByStop, AfterKafka, peers, workers, house, pushers, PushBackoff,
           PushTurn
  <1>4. ASSUME NEW w \in Worker, Receive(w) PROVE QueuesClosedByStop'
    BY <1>4 DEF QueuesClosedByStop, AfterKafka, peers, workers, house, pushers, Receive
  <1>5. ASSUME NEW w \in Worker, WorkerEnds(w) PROVE QueuesClosedByStop'
    BY <1>5 DEF QueuesClosedByStop, AfterKafka, peers, workers, house, pushers, WorkerEnds
  <1>6. ASSUME NEW w \in Worker, BroadcastEnds(w) PROVE QueuesClosedByStop'
    BY <1>6 DEF QueuesClosedByStop, AfterKafka, peers, workers, house, pushers, BroadcastEnds
  <1>7. ASSUME NEW w \in Worker, NEW c \in Client, SendTo(w, c) PROVE QueuesClosedByStop'
    <2>1. UNCHANGED <<stop, queuesOpen>>
      BY <1>7 DEF SendTo, Served, Panics
    <2>2. QED
      BY <2>1 DEF QueuesClosedByStop
  <1>8. ASSUME NEW c \in Client, RemoveClient(c) PROVE QueuesClosedByStop'
    BY <1>8
       DEF QueuesClosedByStop, AfterKafka, peers, workers, house, pushers, RemoveClient,
           Removed
  <1>9. ASSUME ManagerTick PROVE QueuesClosedByStop'
    BY <1>9 DEF QueuesClosedByStop, AfterKafka, peers, workers, house, pushers, ManagerTick
  <1>10. ASSUME NEW c \in Client, Ping(c) PROVE QueuesClosedByStop'
    <2>1. UNCHANGED <<stop, queuesOpen>>
      BY <1>10 DEF Ping, Panics
    <2>2. QED
      BY <2>1 DEF QueuesClosedByStop
  <1>11. ASSUME PingsEnd PROVE QueuesClosedByStop'
    BY <1>11 DEF QueuesClosedByStop, AfterKafka, peers, workers, house, pushers, PingsEnd
  <1>12. ASSUME NEW c \in Client, CleanupInactive(c) PROVE QueuesClosedByStop'
    BY <1>12
       DEF QueuesClosedByStop, AfterKafka, peers, workers, house, pushers, CleanupInactive,
           Removed
  <1>13. ASSUME CleanupEnds PROVE QueuesClosedByStop'
    BY <1>13 DEF QueuesClosedByStop, AfterKafka, peers, workers, house, pushers, CleanupEnds
  <1>14. ASSUME ManagerEnds PROVE QueuesClosedByStop'
    BY <1>14 DEF QueuesClosedByStop, AfterKafka, peers, workers, house, pushers, ManagerEnds
  <1>15. ASSUME NEW c \in Client, Upgrade(c) PROVE QueuesClosedByStop'
    BY <1>15 DEF QueuesClosedByStop, AfterKafka, peers, workers, house, pushers, elsewhere, Upgrade
  <1>16. ASSUME NEW c \in Client, AddClient(c) PROVE QueuesClosedByStop'
    BY <1>16
       DEF QueuesClosedByStop, AfterKafka, peers, workers, house, pushers, elsewhere,
           AddClient
  <1>17. ASSUME NEW c \in Client, StartClient(c) PROVE QueuesClosedByStop'
    BY <1>17
       DEF QueuesClosedByStop, AfterKafka, peers, workers, house, pushers, elsewhere,
           StartClient
  <1>18. ASSUME NEW c \in Client, ReaderLoops(c) PROVE QueuesClosedByStop'
    BY <1>18
       DEF QueuesClosedByStop, AfterKafka, peers, workers, house, pushers, elsewhere,
           ReaderLoops, ReaderMoves
  <1>19. ASSUME NEW c \in Client, ReadMessage(c) PROVE QueuesClosedByStop'
    BY <1>19
       DEF QueuesClosedByStop, AfterKafka, peers, workers, house, pushers, elsewhere,
           ReadMessage, ReaderMoves
  <1>20. ASSUME NEW c \in Client, ReadFails(c) PROVE QueuesClosedByStop'
    BY <1>20
       DEF QueuesClosedByStop, AfterKafka, peers, workers, house, pushers, elsewhere,
           ReadFails, ReaderMoves
  <1>21. ASSUME NEW c \in Client, SendPong(c) PROVE QueuesClosedByStop'
    BY <1>21
       DEF QueuesClosedByStop, AfterKafka, peers, workers, house, pushers, elsewhere,
           SendPong, Panics
  <1>22. ASSUME NEW c \in Client, ReaderLeaves(c) PROVE QueuesClosedByStop'
    BY <1>22
       DEF QueuesClosedByStop, AfterKafka, peers, workers, house, pushers, elsewhere,
           ReaderLeaves
  <1>23. ASSUME NEW c \in Client, WriterTakes(c) PROVE QueuesClosedByStop'
    BY <1>23
       DEF QueuesClosedByStop, AfterKafka, peers, workers, house, pushers, elsewhere,
           WriterTakes
  <1>24. ASSUME NEW c \in Client, WriterTicks(c) PROVE QueuesClosedByStop'
    BY <1>24
       DEF QueuesClosedByStop, AfterKafka, peers, workers, house, pushers, elsewhere,
           WriterTicks
  <1>25. ASSUME NEW c \in Client, WriteDone(c) PROVE QueuesClosedByStop'
    BY <1>25
       DEF QueuesClosedByStop, AfterKafka, peers, workers, house, pushers, elsewhere,
           WriteDone
  <1>26. ASSUME NEW c \in Client, WriteFails(c) PROVE QueuesClosedByStop'
    BY <1>26
       DEF QueuesClosedByStop, AfterKafka, peers, workers, house, pushers, elsewhere,
           WriteFails, WriterGone
  <1>27. ASSUME NEW c \in Client, WriterEnds(c) PROVE QueuesClosedByStop'
    BY <1>27
       DEF QueuesClosedByStop, AfterKafka, peers, workers, house, pushers, elsewhere,
           WriterEnds, WriterGone
  <1>28. ASSUME Cancel PROVE QueuesClosedByStop'
    BY <1>28 DEF QueuesClosedByStop, AfterKafka, peers, workers, house, pushers, Cancel, StopAt
  <1>29. ASSUME StopKafka PROVE QueuesClosedByStop'
    BY <1>29 DEF QueuesClosedByStop, AfterKafka, peers, workers, house, pushers, StopKafka, StopAt
  <1>30. ASSUME CloseQueues PROVE QueuesClosedByStop'
    BY <1>30 DEF QueuesClosedByStop, AfterKafka, peers, workers, house, pushers, CloseQueues, StopAt
  <1>31. ASSUME PusherWait PROVE QueuesClosedByStop'
    BY <1>31 DEF QueuesClosedByStop, AfterKafka, peers, workers, house, pushers, PusherWait, StopAt
  <1>32. ASSUME CloseClients PROVE QueuesClosedByStop'
    BY <1>32
       DEF QueuesClosedByStop, AfterKafka, peers, workers, house, pushers, CloseClients,
           Removed, StopAt
  <1>33. ASSUME Shutdown PROVE QueuesClosedByStop'
    BY <1>33 DEF QueuesClosedByStop, AfterKafka, peers, workers, house, pushers, Shutdown, StopAt
  <1>34. ASSUME ServerWait PROVE QueuesClosedByStop'
    BY <1>34 DEF QueuesClosedByStop, AfterKafka, peers, workers, house, pushers, ServerWait, StopAt
  <1>35. CASE UNCHANGED vars
    BY <1>35 DEF QueuesClosedByStop, AfterKafka, vars, peers, workers, house, pushers
  <1>36. QED
    BY <1>1, <1>2, <1>3, <1>4, <1>5, <1>6, <1>7, <1>8, <1>9, <1>10, <1>11, <1>12, <1>13,
       <1>14, <1>15, <1>16, <1>17, <1>18, <1>19, <1>20, <1>21, <1>22, <1>23, <1>24, <1>25,
       <1>26, <1>27, <1>28, <1>29, <1>30, <1>31, <1>32, <1>33, <1>34, <1>35
       DEF Next, StopStep, PusherStep, WorkerStep, ManagerStep, HandlerStep, ReaderStep,
           WriterStep

\* What the step that panics finds.
LEMMA PanicsAre ==
  [Next]_vars =>
    \/ panic' = panic \/ panic' = "concurrent write"
    \/ panic' = "closed queue" /\ ~queuesOpen /\ UNCHANGED <<stop, queuesOpen>>
    \/ panic' = "closed client" /\ UNCHANGED <<clients, send>> /\ \E c \in Client : send[c] = "closed"
  <1> DEFINE Found == \/ panic' = panic \/ panic' = "concurrent write"
                      \/ panic' = "closed queue" /\ ~queuesOpen /\ UNCHANGED <<stop, queuesOpen>>
                      \/ panic' = "closed client" /\ UNCHANGED <<clients, send>> /\ \E d \in Client : send[d] = "closed"
  <1> SUFFICES ASSUME [Next]_vars PROVE Found
    OBVIOUS
  <1>1. ASSUME NEW i \in Pusher, Publish(i) PROVE Found
    BY <1>1 DEF peers, workers, house, pushers, Publish
  <1>2. ASSUME NEW i \in Pusher, Push(i) PROVE Found
    BY <1>2 DEF peers, workers, house, pushers, Push, PushTurn, PushFails, Panics
  <1>3. ASSUME NEW i \in Pusher, PushBackoff(i) PROVE Found
    BY <1>3 DEF peers, workers, house, pushers, PushBackoff, PushTurn
  <1>4. ASSUME NEW w \in Worker, Receive(w) PROVE Found
    BY <1>4 DEF peers, workers, house, pushers, Receive
  <1>5. ASSUME NEW w \in Worker, WorkerEnds(w) PROVE Found
    BY <1>5 DEF peers, workers, house, pushers, WorkerEnds
  <1>6. ASSUME NEW w \in Worker, BroadcastEnds(w) PROVE Found
    BY <1>6 DEF peers, workers, house, pushers, BroadcastEnds
  <1>7. ASSUME NEW w \in Worker, NEW c \in Client, SendTo(w, c) PROVE Found
    BY <1>7 DEF peers, workers, house, pushers, SendTo, Served, Panics
  <1>8. ASSUME NEW c \in Client, RemoveClient(c) PROVE Found
    BY <1>8 DEF peers, workers, house, pushers, RemoveClient, Removed
  <1>9. ASSUME ManagerTick PROVE Found
    BY <1>9 DEF peers, workers, house, pushers, ManagerTick
  <1>10. ASSUME NEW c \in Client, Ping(c) PROVE Found
    BY <1>10 DEF peers, workers, house, pushers, Ping, Panics
  <1>11. ASSUME PingsEnd PROVE Found
    BY <1>11 DEF peers, workers, house, pushers, PingsEnd
  <1>12. ASSUME NEW c \in Client, CleanupInactive(c) PROVE Found
    BY <1>12 DEF peers, workers, house, pushers, CleanupInactive, Removed
  <1>13. ASSUME CleanupEnds PROVE Found
    BY <1>13 DEF peers, workers, house, pushers, CleanupEnds
  <1>14. ASSUME ManagerEnds PROVE Found
    BY <1>14 DEF peers, workers, house, pushers, ManagerEnds
  <1>15. ASSUME NEW c \in Client, Upgrade(c) PROVE Found
    BY <1>15 DEF peers, workers, house, pushers, elsewhere, Upgrade
  <1>16. ASSUME NEW c \in Client, AddClient(c) PROVE Found
    BY <1>16 DEF peers, workers, house, pushers, elsewhere, AddClient
  <1>17. ASSUME NEW c \in Client, StartClient(c) PROVE Found
    BY <1>17 DEF peers, workers, house, pushers, elsewhere, StartClient
  <1>18. ASSUME NEW c \in Client, ReaderLoops(c) PROVE Found
    BY <1>18 DEF peers, workers, house, pushers, elsewhere, ReaderLoops, ReaderMoves
  <1>19. ASSUME NEW c \in Client, ReadMessage(c) PROVE Found
    BY <1>19 DEF peers, workers, house, pushers, elsewhere, ReadMessage, ReaderMoves
  <1>20. ASSUME NEW c \in Client, ReadFails(c) PROVE Found
    BY <1>20 DEF peers, workers, house, pushers, elsewhere, ReadFails, ReaderMoves
  <1>21. ASSUME NEW c \in Client, SendPong(c) PROVE Found
    BY <1>21 DEF peers, workers, house, pushers, elsewhere, SendPong, Panics
  <1>22. ASSUME NEW c \in Client, ReaderLeaves(c) PROVE Found
    BY <1>22 DEF peers, workers, house, pushers, elsewhere, ReaderLeaves
  <1>23. ASSUME NEW c \in Client, WriterTakes(c) PROVE Found
    BY <1>23 DEF peers, workers, house, pushers, elsewhere, WriterTakes
  <1>24. ASSUME NEW c \in Client, WriterTicks(c) PROVE Found
    BY <1>24 DEF peers, workers, house, pushers, elsewhere, WriterTicks
  <1>25. ASSUME NEW c \in Client, WriteDone(c) PROVE Found
    BY <1>25 DEF peers, workers, house, pushers, elsewhere, WriteDone
  <1>26. ASSUME NEW c \in Client, WriteFails(c) PROVE Found
    BY <1>26 DEF peers, workers, house, pushers, elsewhere, WriteFails, WriterGone
  <1>27. ASSUME NEW c \in Client, WriterEnds(c) PROVE Found
    BY <1>27 DEF peers, workers, house, pushers, elsewhere, WriterEnds, WriterGone
  <1>28. ASSUME Cancel PROVE Found
    BY <1>28 DEF peers, workers, house, pushers, Cancel, StopAt
  <1>29. ASSUME StopKafka PROVE Found
    BY <1>29 DEF peers, workers, house, pushers, StopKafka, StopAt
  <1>30. ASSUME CloseQueues PROVE Found
    BY <1>30 DEF peers, workers, house, pushers, CloseQueues, StopAt
  <1>31. ASSUME PusherWait PROVE Found
    BY <1>31 DEF peers, workers, house, pushers, PusherWait, StopAt
  <1>32. ASSUME CloseClients PROVE Found
    BY <1>32 DEF peers, workers, house, pushers, CloseClients, Removed, StopAt
  <1>33. ASSUME Shutdown PROVE Found
    BY <1>33 DEF peers, workers, house, pushers, Shutdown, StopAt
  <1>34. ASSUME ServerWait PROVE Found
    BY <1>34 DEF peers, workers, house, pushers, ServerWait, StopAt
  <1>35. CASE UNCHANGED vars
    BY <1>35 DEF vars, peers, workers, house, pushers
  <1>36. QED
    BY <1>1, <1>2, <1>3, <1>4, <1>5, <1>6, <1>7, <1>8, <1>9, <1>10, <1>11, <1>12, <1>13,
       <1>14, <1>15, <1>16, <1>17, <1>18, <1>19, <1>20, <1>21, <1>22, <1>23, <1>24, <1>25,
       <1>26, <1>27, <1>28, <1>29, <1>30, <1>31, <1>32, <1>33, <1>34, <1>35
       DEF Next, StopStep, PusherStep, WorkerStep, ManagerStep, HandlerStep, ReaderStep,
           WriterStep

\* A process that has panicked takes no step, so only the step that panics counts.
LEMMA PanicStep == IInv /\ [Next]_vars => OnlyLateSendsPanic'
  <1> SUFFICES ASSUME TypeOK, Lives, QueuesClosedByStop, OnlyLateSendsPanic, [Next]_vars
               PROVE  OnlyLateSendsPanic'
    BY DEF IInv
  <1>1. CASE UNCHANGED vars
    BY <1>1, SessionDoneIs DEF OnlyLateSendsPanic, SessionDone, Past, vars, peers
  <1>2. CASE panic = "none"
    <2>1. CASE panic' \in {"none", "concurrent write"}
      BY <2>1 DEF OnlyLateSendsPanic
    <2>2. CASE panic' = "closed queue" /\ ~queuesOpen /\ UNCHANGED <<stop, queuesOpen>>
      <3>1. stop \in AfterKafka
        BY <2>2 DEF QueuesClosedByStop
      <3>2. SessionDone'
        BY <2>2, <3>1, SessionDoneIs DEF SessionDone, Past
      <3>3. QED
        BY <2>2, <3>2 DEF OnlyLateSendsPanic
    <2>3. CASE panic' = "closed client" /\ UNCHANGED <<clients, send>> /\ \E c \in Client : send[c] = "closed"
      <3>1. PICK c \in Client : send[c] = "closed"
        BY <2>3
      <3>2. c \notin clients
        BY <3>1 DEF Lives, LifeOf, TypeOK
      <3>3. QED
        BY <2>3, <3>1, <3>2 DEF OnlyLateSendsPanic
    <2>4. QED
      BY <1>2, <2>1, <2>2, <2>3, PanicsAre
  <1>3. QED
    BY <1>1, <1>2 DEF Next
-----------------------------------------------------------------------------
LEMMA InvInit == Init => IInv
  <1> SUFFICES ASSUME Init PROVE IInv
    OBVIOUS
  <1> USE PusherAssumption
  <1>1. \E i \in DOMAIN Stages : stop = Stages[i]
    BY StagesAre DEF Init
  <1>2. queue \in [Kind -> 0 .. QueueSize] /\ buf \in [Client -> 0 .. BufferSize] /\ tries \in [Pusher -> 0 .. PushRetries]
    BY DEF Init
  <1>3. TypeOK
    BY <1>1, <1>2 DEF Init, TypeOK
  <1>4. Lives /\ QueuesClosedByStop /\ OnlyLateSendsPanic
    BY DEF Init, Lives, LifeOf, QueuesClosedByStop, OnlyLateSendsPanic
  <1>5. QED
    BY <1>3, <1>4 DEF IInv

LEMMA InvStep == IInv /\ [Next]_vars => IInv'
  BY TypeStep, LivesStep, QueuesStep, PanicStep DEF IInv

\* Every channel stays within its capacity.
THEOREM TypeCorrect == Spec => []TypeOK
  <1>1. IInv => TypeOK
    BY DEF IInv
  <1>2. QED
    BY <1>1, InvInit, InvStep, PTL DEF Spec

\* A client is in the map and open or out of it and closed, whoever removed it; and
\* only a send that comes too late ends the process.
THEOREM ClientsHeldOrClosed == Spec => []HeldOpenOrClosed
  <1>1. IInv => HeldOpenOrClosed
    <2> SUFFICES ASSUME IInv PROVE HeldOpenOrClosed
      OBVIOUS
    <2>1. RegisteredAreOpen
      <3> SUFFICES ASSUME NEW c \in clients PROVE send[c] = "open"
        BY DEF RegisteredAreOpen
      <3>1. c \in Client /\ handler[c] \in {"none", "upgraded", "added", "returned"}
        BY DEF IInv, TypeOK
      <3>2. QED
        BY <3>1 DEF IInv, Lives, LifeOf
    <2>2. NoOrphans
      BY DEF IInv, Lives, LifeOf, NoOrphans
    <2>3. QED
      BY <2>1, <2>2 DEF IInv, HeldOpenOrClosed
  <1>2. QED
    BY <1>1, InvInit, InvStep, PTL DEF Spec
===============================================================================
