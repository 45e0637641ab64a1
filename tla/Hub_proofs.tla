------------------------------ MODULE Hub_proofs ------------------------------
(***************************************************************************)
(* Theorems about Hub, for every finite set of clients and IDs, every      *)
(* limit and every capacity of the channels.                               *)
(***************************************************************************)
EXTENDS Hub, TLAPS, FiniteSetTheorems

\* A client on its way to the event loop has no goroutines yet, and is on its
\* way once.
ArrivingAreNew ==
  /\ \A i \in 1 .. Len(register) : reader[register[i]] = "none" /\ conn[register[i]] # "new"
  /\ \A i, j \in 1 .. Len(register) : register[i] = register[j] => i = j
  /\ loop.at = "register" => /\ reader[loop.client] = "none" /\ conn[loop.client] # "new"
                             /\ \A i \in 1 .. Len(register) : register[i] # loop.client

\* Whoever is in the map, closed, or about to be unregistered has been taken in.
KnownWereTaken ==
  /\ \A c \in Client : (sendClosed[c] \/ c \in stale \/ c \in Registered) => reader[c] # "none"
  /\ \A c \in Client : reader[c] # "none" => conn[c] # "new"
  /\ \A i \in 1 .. Len(unregister) : reader[unregister[i]] # "none"
  /\ loop.at = "unregister" => reader[loop.client] # "none"

IInv == TypeOK /\ ArrivingAreNew /\ KnownWereTaken
Safe == RegisteredAreOpen /\ NoOrphans /\ PanicsOnlyAfterStop
-----------------------------------------------------------------------------
(* Channels.                                                               *)

LEMMA TailOfSeq ==
  ASSUME NEW S, NEW s \in Seq(S), s # <<>>
  PROVE  /\ Head(s) = s[1] /\ Head(s) \in S /\ 1 \in 1 .. Len(s)
         /\ Tail(s) \in Seq(S) /\ Len(Tail(s)) = Len(s) - 1
         /\ \A i \in 1 .. Len(Tail(s)) : i + 1 \in 1 .. Len(s) /\ Tail(s)[i] = s[i + 1]
  OBVIOUS

LEMMA AppendToSeq ==
  ASSUME NEW S, NEW s \in Seq(S), NEW e \in S
  PROVE  /\ Append(s, e) \in Seq(S) /\ Len(Append(s, e)) = Len(s) + 1 /\ Len(s) \in Nat
         /\ \A i \in 1 .. Len(Append(s, e)) :
              \/ i \in 1 .. Len(s) /\ Append(s, e)[i] = s[i]
              \/ i = Len(s) + 1 /\ Append(s, e)[i] = e
  OBVIOUS
-----------------------------------------------------------------------------
(* Types and places.                                                       *)

LEMMA TypeInit == Init => TypeOK
  <1> SUFFICES ASSUME Init PROVE TypeOK
    OBVIOUS
  <1>1. /\ clients \in [Id -> Client \cup {NoClient}] /\ Connected = {}
        /\ feed \in [Feed -> 0..BufferSize]
    BY HubAssumption DEF Init, Connected
  <1>2. /\ loop \in [at : LoopAt, client : Client \cup {NoClient}]
        /\ loop.at \in {"register", "unregister"} <=> loop.client # NoClient
    BY DEF Init, LoopAt
  <1>3. /\ conn \in [Client -> {"new", "open", "closed"}] /\ sendClosed \in [Client -> BOOLEAN]
        /\ reader \in [Client -> {"none", "starting", "reading", "pong", "leaving", "done"}]
        /\ writer \in [Client -> {"none", "running", "done"}]
    BY DEF Init
  <1>4. /\ register \in Seq(Client) /\ Len(register) <= BufferSize
        /\ unregister \in Seq(Client) /\ Len(unregister) <= BufferSize
    BY HubAssumption DEF Init
  <1>5. QED
    BY <1>1, <1>2, <1>3, <1>4 DEF Init, TypeOK

LEMMA TypeStep == TypeOK /\ [Next]_vars => TypeOK'
  <1> SUFFICES ASSUME TypeOK, [Next]_vars PROVE TypeOK'
    OBVIOUS
  <1> USE HubAssumption
  <1>1. ASSUME Start PROVE TypeOK'
    BY <1>1, TailOfSeq, AppendToSeq
       DEF TypeOK, LoopAt, Connected, Registered, Idle, channels, sockets, routines,
           lifecycle, Start
  <1>2. ASSUME BroadcastToGroup PROVE TypeOK'
    BY <1>2, TailOfSeq, AppendToSeq
       DEF TypeOK, LoopAt, Connected, Registered, Idle, channels, sockets, routines,
           lifecycle, BroadcastToGroup, SendTo
  <1>3. ASSUME CheckHeartbeats PROVE TypeOK'
    BY <1>3, TailOfSeq, AppendToSeq
       DEF TypeOK, LoopAt, Connected, Registered, Idle, channels, sockets, routines,
           lifecycle, CheckHeartbeats
  <1>4. ASSUME HeartbeatEnds PROVE TypeOK'
    BY <1>4, TailOfSeq, AppendToSeq
       DEF TypeOK, LoopAt, Connected, Registered, Idle, channels, sockets, routines,
           lifecycle, HeartbeatEnds
  <1>5. ASSUME StopCancel PROVE TypeOK'
    BY <1>5, TailOfSeq, AppendToSeq
       DEF TypeOK, LoopAt, Connected, Registered, Idle, channels, sockets, routines,
           lifecycle, StopCancel
  <1>6. ASSUME StopCloseClients PROVE TypeOK'
    <2>1. CASE \E c \in Registered : sendClosed[c]
      BY <1>6, <2>1 DEF StopCloseClients, TypeOK, Connected, channels, sockets, routines, lifecycle
    <2>2. CASE ~\E c \in Registered : sendClosed[c]
      <3>1. /\ sendClosed' = [c \in Client |-> sendClosed[c] \/ c \in Registered]
            /\ conn' = [c \in Client |-> IF c \in Registered THEN "closed" ELSE conn[c]]
            /\ UNCHANGED panic /\ UNCHANGED <<clients, channels, routines, ctxDone>> /\ stopped' = TRUE
        BY <1>6, <2>2 DEF StopCloseClients
      <3>2. sendClosed' \in [Client -> BOOLEAN] /\ conn' \in [Client -> {"new", "open", "closed"}]
        BY <3>1 DEF TypeOK
      <3>3. QED
        BY <3>1, <3>2 DEF TypeOK, Connected, channels, sockets, routines, lifecycle
    <2>3. QED
      BY <2>1, <2>2
  <1>7. ASSUME NEW f \in Feed, Push(f) PROVE TypeOK'
    BY <1>7, TailOfSeq, AppendToSeq
       DEF TypeOK, LoopAt, Connected, Registered, Idle, channels, sockets, routines,
           lifecycle, Push
  <1>8. ASSUME ReceiveRegister PROVE TypeOK'
    BY <1>8, TailOfSeq, AppendToSeq
       DEF TypeOK, LoopAt, Connected, Registered, Idle, channels, sockets, routines,
           lifecycle, ReceiveRegister
  <1>9. ASSUME ReceiveUnregister PROVE TypeOK'
    BY <1>9, TailOfSeq, AppendToSeq
       DEF TypeOK, LoopAt, Connected, Registered, Idle, channels, sockets, routines,
           lifecycle, ReceiveUnregister
  <1>10. ASSUME LoopEnds PROVE TypeOK'
    BY <1>10, TailOfSeq, AppendToSeq
       DEF TypeOK, LoopAt, Connected, Registered, Idle, channels, sockets, routines,
           lifecycle, LoopEnds
  <1>11. ASSUME HandleClientRegister PROVE TypeOK'
    BY <1>11, TailOfSeq, AppendToSeq
       DEF TypeOK, LoopAt, Connected, Registered, Idle, channels, sockets, routines,
           lifecycle, HandleClientRegister
  <1>12. ASSUME HandleClientUnregister PROVE TypeOK'
    <2> DEFINE c == loop.client
    <2>1. c \in Client /\ IdOf(c) \in Id
      BY <1>12 DEF HandleClientUnregister, TypeOK
    <2>2. /\ clients' \in {clients, [clients EXCEPT ![IdOf(c)] = NoClient]}
          /\ conn' \in {conn, [conn EXCEPT ![c] = "closed"]}
          /\ sendClosed' \in {sendClosed, [sendClosed EXCEPT ![c] = TRUE]}
          /\ panic' \in {panic, "loop"} /\ loop' = Idle
          /\ UNCHANGED <<channels, heart, stale, reader, writer, ctxDone, stopped>>
      BY <1>12 DEF HandleClientUnregister
    <2>3. clients' \in [Id -> Client \cup {NoClient}] /\ \A i \in Connected' : IdOf(clients'[i]) = i
      BY <2>1, <2>2 DEF TypeOK, Connected
    <2>4. /\ loop' \in [at : LoopAt, client : Client \cup {NoClient}]
          /\ loop'.at = "select" /\ loop'.client = NoClient
      BY <2>2 DEF Idle, LoopAt
    <2>5. conn' \in [Client -> {"new", "open", "closed"}] /\ sendClosed' \in [Client -> BOOLEAN]
      BY <2>1, <2>2 DEF TypeOK
    <2>6. QED
      BY <2>2, <2>3, <2>4, <2>5 DEF TypeOK, channels
  <1>13. ASSUME NEW f \in Feed, ReceiveMessage(f) PROVE TypeOK'
    <2>1. /\ feed' = [feed EXCEPT ![f] = @ - 1] /\ feed[f] > 0 /\ feed[f] \in 0 .. BufferSize
          /\ loop' = [at |-> f, client |-> NoClient]
          /\ UNCHANGED <<clients, register, unregister, sockets, heart, stale, reader, writer, lifecycle>>
      BY <1>13 DEF ReceiveMessage, TypeOK
    <2>2. feed' \in [Feed -> 0 .. BufferSize]
      <3>1. feed[f] - 1 \in 0 .. BufferSize
        BY <2>1
      <3>2. QED
        BY <2>1, <3>1 DEF TypeOK
    <2>3. /\ loop' \in [at : LoopAt, client : Client \cup {NoClient}]
          /\ loop'.at \in {"register", "unregister"} <=> loop'.client # NoClient
      BY <2>1 DEF LoopAt
    <2>4. QED
      BY <2>1, <2>2, <2>3 DEF TypeOK, Connected, sockets, lifecycle
  <1>14. ASSUME NEW f \in Feed, HandleMessage(f) PROVE TypeOK'
    BY <1>14, TailOfSeq, AppendToSeq
       DEF TypeOK, LoopAt, Connected, Registered, Idle, channels, sockets, routines,
           lifecycle, HandleMessage, SendTo
  <1>15. ASSUME NEW c \in Client, RegisterClient(c) PROVE TypeOK'
    BY <1>15, TailOfSeq, AppendToSeq
       DEF TypeOK, LoopAt, Connected, Registered, Idle, channels, sockets, routines,
           lifecycle, RegisterClient
  <1>16. ASSUME NEW c \in Client, ReaderStarts(c) PROVE TypeOK'
    BY <1>16, TailOfSeq, AppendToSeq
       DEF TypeOK, LoopAt, Connected, Registered, Idle, channels, sockets, routines,
           lifecycle, ReaderStarts
  <1>17. ASSUME NEW c \in Client, ReadPing(c) PROVE TypeOK'
    BY <1>17, TailOfSeq, AppendToSeq
       DEF TypeOK, LoopAt, Connected, Registered, Idle, channels, sockets, routines,
           lifecycle, ReadPing
  <1>18. ASSUME NEW c \in Client, SendPong(c) PROVE TypeOK'
    BY <1>18, TailOfSeq, AppendToSeq
       DEF TypeOK, LoopAt, Connected, Registered, Idle, channels, sockets, routines,
           lifecycle, SendPong, SendTo
  <1>19. ASSUME NEW c \in Client, ReadFails(c) PROVE TypeOK'
    BY <1>19, TailOfSeq, AppendToSeq
       DEF TypeOK, LoopAt, Connected, Registered, Idle, channels, sockets, routines,
           lifecycle, ReadFails
  <1>20. ASSUME NEW c \in Client, ReaderLeaves(c) PROVE TypeOK'
    <2>1. unregister' \in Seq(Client) /\ Len(unregister') <= BufferSize
      <3>1. CASE Enqueue(c)
        BY <3>1, AppendToSeq DEF Enqueue, TypeOK
      <3>2. CASE GiveUp
        BY <3>2 DEF GiveUp, TypeOK
      <3>3. QED
        BY <1>20, <3>1, <3>2 DEF ReaderLeaves
    <2>2. reader' = [reader EXCEPT ![c] = "done"]
      BY <1>20 DEF ReaderLeaves
    <2>3. UNCHANGED <<clients, register, feed, sockets, loop, heart, stale, writer, lifecycle>>
      BY <1>20 DEF ReaderLeaves
    <2>4. QED
      BY <2>1, <2>2, <2>3 DEF TypeOK, Connected, sockets, lifecycle
  <1>21. ASSUME NEW c \in Client, WriteFails(c) PROVE TypeOK'
    BY <1>21, TailOfSeq, AppendToSeq
       DEF TypeOK, LoopAt, Connected, Registered, Idle, channels, sockets, routines,
           lifecycle, WriteFails, WriterEnds
  <1>22. ASSUME NEW c \in Client, SendIsClosed(c) PROVE TypeOK'
    BY <1>22, TailOfSeq, AppendToSeq
       DEF TypeOK, LoopAt, Connected, Registered, Idle, channels, sockets, routines,
           lifecycle, SendIsClosed, WriterEnds
  <1>23. ASSUME NEW c \in Client, UnregisterStale(c) PROVE TypeOK'
    BY <1>23, TailOfSeq, AppendToSeq
       DEF TypeOK, LoopAt, Connected, Registered, Idle, channels, sockets, routines,
           lifecycle, UnregisterStale, Enqueue
  <1>24. ASSUME NEW c \in Client, SkipStale(c) PROVE TypeOK'
    BY <1>24, TailOfSeq, AppendToSeq
       DEF TypeOK, LoopAt, Connected, Registered, Idle, channels, sockets, routines,
           lifecycle, SkipStale, GiveUp
  <1>25. CASE UNCHANGED vars
    BY <1>25 DEF TypeOK, LoopAt, Connected, vars, channels, sockets, routines, lifecycle
  <1>26. QED
    BY <1>1, <1>2, <1>3, <1>4, <1>5, <1>6, <1>7, <1>8, <1>9, <1>10, <1>11, <1>12, <1>13,
       <1>14, <1>15, <1>16, <1>17, <1>18, <1>19, <1>20, <1>21, <1>22, <1>23, <1>24, <1>25
       DEF Next, LoopStep, HubStep, ClientStep

LEMMA PlacesStep == IInv /\ [Next]_vars => (ArrivingAreNew /\ KnownWereTaken)'
  <1> SUFFICES ASSUME TypeOK, ArrivingAreNew, KnownWereTaken, [Next]_vars
               PROVE  (ArrivingAreNew /\ KnownWereTaken)'
    BY DEF IInv
  <1> USE HubAssumption
  <1>1. ASSUME Start PROVE (ArrivingAreNew /\ KnownWereTaken)'
    BY <1>1, TailOfSeq, AppendToSeq
       DEF TypeOK, ArrivingAreNew, KnownWereTaken, Connected, Registered, Idle, LoopAt,
           channels, sockets, routines, lifecycle, Start
  <1>2. ASSUME BroadcastToGroup PROVE (ArrivingAreNew /\ KnownWereTaken)'
    BY <1>2, TailOfSeq, AppendToSeq
       DEF TypeOK, ArrivingAreNew, KnownWereTaken, Connected, Registered, Idle, LoopAt,
           channels, sockets, routines, lifecycle, BroadcastToGroup, SendTo
  <1>3. ASSUME CheckHeartbeats PROVE (ArrivingAreNew /\ KnownWereTaken)'
    BY <1>3, TailOfSeq, AppendToSeq
       DEF TypeOK, ArrivingAreNew, KnownWereTaken, Connected, Registered, Idle, LoopAt,
           channels, sockets, routines, lifecycle, CheckHeartbeats
  <1>4. ASSUME HeartbeatEnds PROVE (ArrivingAreNew /\ KnownWereTaken)'
    BY <1>4, TailOfSeq, AppendToSeq
       DEF TypeOK, ArrivingAreNew, KnownWereTaken, Connected, Registered, Idle, LoopAt,
           channels, sockets, routines, lifecycle, HeartbeatEnds
  <1>5. ASSUME StopCancel PROVE (ArrivingAreNew /\ KnownWereTaken)'
    BY <1>5, TailOfSeq, AppendToSeq
       DEF TypeOK, ArrivingAreNew, KnownWereTaken, Connected, Registered, Idle, LoopAt,
           channels, sockets, routines, lifecycle, StopCancel
  <1>6. ASSUME StopCloseClients PROVE (ArrivingAreNew /\ KnownWereTaken)'
    <2>1. CASE \E c \in Registered : sendClosed[c]
      BY <1>6, <2>1
         DEF StopCloseClients, TypeOK, ArrivingAreNew, KnownWereTaken, Connected,
             Registered, channels, sockets, routines, lifecycle
    <2>2. CASE ~\E c \in Registered : sendClosed[c]
      <3>1. /\ sendClosed' = [c \in Client |-> sendClosed[c] \/ c \in Registered]
            /\ conn' = [c \in Client |-> IF c \in Registered THEN "closed" ELSE conn[c]]
            /\ UNCHANGED <<clients, channels, routines>>
        BY <1>6, <2>2 DEF StopCloseClients
      <3>2. /\ Registered' = Registered
            /\ \A c \in Client : sendClosed'[c] => sendClosed[c] \/ c \in Registered
            /\ \A c \in Client : conn'[c] \in {conn[c], "closed"}
        BY <3>1 DEF Registered, Connected
      <3>3. KnownWereTaken'
        BY <3>1, <3>2 DEF KnownWereTaken, channels, routines
      <3>4. ArrivingAreNew'
        BY <3>1, <3>2 DEF TypeOK, ArrivingAreNew, channels, routines
      <3>5. QED
        BY <3>3, <3>4
    <2>3. QED
      BY <2>1, <2>2
  <1>7. ASSUME NEW f \in Feed, Push(f) PROVE (ArrivingAreNew /\ KnownWereTaken)'
    BY <1>7, TailOfSeq, AppendToSeq
       DEF TypeOK, ArrivingAreNew, KnownWereTaken, Connected, Registered, Idle, LoopAt,
           channels, sockets, routines, lifecycle, Push
  <1>8. ASSUME ReceiveRegister PROVE (ArrivingAreNew /\ KnownWereTaken)'
    BY <1>8, TailOfSeq, AppendToSeq
       DEF TypeOK, ArrivingAreNew, KnownWereTaken, Connected, Registered, Idle, LoopAt,
           channels, sockets, routines, lifecycle, ReceiveRegister
  <1>9. ASSUME ReceiveUnregister PROVE (ArrivingAreNew /\ KnownWereTaken)'
    BY <1>9, TailOfSeq, AppendToSeq
       DEF TypeOK, ArrivingAreNew, KnownWereTaken, Connected, Registered, Idle, LoopAt,
           channels, sockets, routines, lifecycle, ReceiveUnregister
  <1>10. ASSUME LoopEnds PROVE (ArrivingAreNew /\ KnownWereTaken)'
    BY <1>10, TailOfSeq, AppendToSeq
       DEF TypeOK, ArrivingAreNew, KnownWereTaken, Connected, Registered, Idle, LoopAt,
           channels, sockets, routines, lifecycle, LoopEnds
  <1>11. ASSUME HandleClientRegister PROVE (ArrivingAreNew /\ KnownWereTaken)'
    BY <1>11, TailOfSeq, AppendToSeq
       DEF TypeOK, ArrivingAreNew, KnownWereTaken, Connected, Registered, Idle, LoopAt,
           channels, sockets, routines, lifecycle, HandleClientRegister
  <1>12. ASSUME HandleClientUnregister PROVE (ArrivingAreNew /\ KnownWereTaken)'
    <2> DEFINE c == loop.client
    <2>1. c \in Client /\ IdOf(c) \in Id
      BY <1>12 DEF HandleClientUnregister, TypeOK
    <2>2. /\ clients' \in {clients, [clients EXCEPT ![IdOf(c)] = NoClient]}
          /\ conn' \in {conn, [conn EXCEPT ![c] = "closed"]}
          /\ sendClosed' \in {sendClosed, [sendClosed EXCEPT ![c] = TRUE]}
          /\ loop' = Idle /\ loop.at = "unregister"
          /\ UNCHANGED <<channels, heart, stale, reader, writer>>
      BY <1>12 DEF HandleClientUnregister
    <2>3. Registered' \subseteq Registered
      BY <2>1, <2>2 DEF TypeOK, Connected, Registered
    <2>4. \A d \in Client : /\ conn'[d] \in {conn[d], "closed"}
                            /\ sendClosed'[d] => sendClosed[d] \/ d = c
      BY <2>1, <2>2 DEF TypeOK
    <2>5. loop'.at = "select"
      BY <2>2 DEF Idle
    <2>6. KnownWereTaken'
      BY <2>2, <2>3, <2>4, <2>5 DEF KnownWereTaken, channels
    <2>7. ArrivingAreNew'
      BY <2>2, <2>4, <2>5 DEF ArrivingAreNew, TypeOK, channels
    <2>8. QED
      BY <2>6, <2>7
  <1>13. ASSUME NEW f \in Feed, ReceiveMessage(f) PROVE (ArrivingAreNew /\ KnownWereTaken)'
    <2>1. /\ loop'.at \notin {"register", "unregister"}
          /\ UNCHANGED <<clients, register, unregister, sockets, stale, reader>>
      BY <1>13 DEF ReceiveMessage
    <2>2. QED
      BY <2>1 DEF ArrivingAreNew, KnownWereTaken, Connected, Registered, sockets
  <1>14. ASSUME NEW f \in Feed, HandleMessage(f) PROVE (ArrivingAreNew /\ KnownWereTaken)'
    BY <1>14, TailOfSeq, AppendToSeq
       DEF TypeOK, ArrivingAreNew, KnownWereTaken, Connected, Registered, Idle, LoopAt,
           channels, sockets, routines, lifecycle, HandleMessage, SendTo
  <1>15. ASSUME NEW c \in Client, RegisterClient(c) PROVE (ArrivingAreNew /\ KnownWereTaken)'
    BY <1>15, TailOfSeq, AppendToSeq
       DEF TypeOK, ArrivingAreNew, KnownWereTaken, Connected, Registered, Idle, LoopAt,
           channels, sockets, routines, lifecycle, RegisterClient
  <1>16. ASSUME NEW c \in Client, ReaderStarts(c) PROVE (ArrivingAreNew /\ KnownWereTaken)'
    BY <1>16, TailOfSeq, AppendToSeq
       DEF TypeOK, ArrivingAreNew, KnownWereTaken, Connected, Registered, Idle, LoopAt,
           channels, sockets, routines, lifecycle, ReaderStarts
  <1>17. ASSUME NEW c \in Client, ReadPing(c) PROVE (ArrivingAreNew /\ KnownWereTaken)'
    BY <1>17, TailOfSeq, AppendToSeq
       DEF TypeOK, ArrivingAreNew, KnownWereTaken, Connected, Registered, Idle, LoopAt,
           channels, sockets, routines, lifecycle, ReadPing
  <1>18. ASSUME NEW c \in Client, SendPong(c) PROVE (ArrivingAreNew /\ KnownWereTaken)'
    BY <1>18, TailOfSeq, AppendToSeq
       DEF TypeOK, ArrivingAreNew, KnownWereTaken, Connected, Registered, Idle, LoopAt,
           channels, sockets, routines, lifecycle, SendPong, SendTo
  <1>19. ASSUME NEW c \in Client, ReadFails(c) PROVE (ArrivingAreNew /\ KnownWereTaken)'
    BY <1>19, TailOfSeq, AppendToSeq
       DEF TypeOK, ArrivingAreNew, KnownWereTaken, Connected, Registered, Idle, LoopAt,
           channels, sockets, routines, lifecycle, ReadFails
  <1>20. ASSUME NEW c \in Client, ReaderLeaves(c) PROVE (ArrivingAreNew /\ KnownWereTaken)'
    <2>1. /\ reader[c] = "leaving" /\ reader' = [reader EXCEPT ![c] = "done"]
          /\ UNCHANGED <<clients, register, conn, sendClosed, loop, stale>>
          /\ unregister' \in {unregister, Append(unregister, c)}
      BY <1>20 DEF ReaderLeaves, Enqueue, GiveUp, sockets
    <2>2. \A d \in Client : reader'[d] = "none" <=> reader[d] = "none"
      BY <2>1 DEF TypeOK
    <2>3. unregister \in Seq(Client) /\ register \in Seq(Client) /\ reader[c] # "none"
      BY <2>1 DEF TypeOK
    <2>4. unregister' \in Seq(Client) /\ \A i \in 1 .. Len(unregister') : reader[unregister'[i]] # "none"
      <3>1. \A i \in 1 .. Len(unregister) : reader[unregister[i]] # "none"
        BY DEF KnownWereTaken
      <3>2. /\ Append(unregister, c) \in Seq(Client)
            /\ \A i \in 1 .. Len(Append(unregister, c)) : reader[Append(unregister, c)[i]] # "none"
        BY <2>3, <3>1, AppendToSeq
      <3>3. QED
        BY <2>1, <2>3, <3>1, <3>2
    <2>5. \A i \in 1 .. Len(unregister') : reader'[unregister'[i]] # "none"
      BY <2>2, <2>4
    <2>6. ArrivingAreNew'
      BY <2>1, <2>2, <2>3 DEF ArrivingAreNew, TypeOK, LoopAt
    <2>7. KnownWereTaken'
      BY <2>1, <2>2, <2>5 DEF KnownWereTaken, Registered, Connected, TypeOK, LoopAt
    <2>8. QED
      BY <2>6, <2>7
  <1>21. ASSUME NEW c \in Client, WriteFails(c) PROVE (ArrivingAreNew /\ KnownWereTaken)'
    BY <1>21, TailOfSeq, AppendToSeq
       DEF TypeOK, ArrivingAreNew, KnownWereTaken, Connected, Registered, Idle, LoopAt,
           channels, sockets, routines, lifecycle, WriteFails, WriterEnds
  <1>22. ASSUME NEW c \in Client, SendIsClosed(c) PROVE (ArrivingAreNew /\ KnownWereTaken)'
    BY <1>22, TailOfSeq, AppendToSeq
       DEF TypeOK, ArrivingAreNew, KnownWereTaken, Connected, Registered, Idle, LoopAt,
           channels, sockets, routines, lifecycle, SendIsClosed, WriterEnds
  <1>23. ASSUME NEW c \in Client, UnregisterStale(c) PROVE (ArrivingAreNew /\ KnownWereTaken)'
    BY <1>23, TailOfSeq, AppendToSeq
       DEF TypeOK, ArrivingAreNew, KnownWereTaken, Connected, Registered, Idle, LoopAt,
           channels, sockets, routines, lifecycle, UnregisterStale, Enqueue
  <1>24. ASSUME NEW c \in Client, SkipStale(c) PROVE (ArrivingAreNew /\ KnownWereTaken)'
    BY <1>24, TailOfSeq, AppendToSeq
       DEF TypeOK, ArrivingAreNew, KnownWereTaken, Connected, Registered, Idle, LoopAt,
           channels, sockets, routines, lifecycle, SkipStale, GiveUp
  <1>25. CASE UNCHANGED vars
    BY <1>25
       DEF TypeOK, ArrivingAreNew, KnownWereTaken, Connected, Registered, Idle, LoopAt,
           vars, channels, sockets, routines, lifecycle
  <1>26. QED
    BY <1>1, <1>2, <1>3, <1>4, <1>5, <1>6, <1>7, <1>8, <1>9, <1>10, <1>11, <1>12, <1>13,
       <1>14, <1>15, <1>16, <1>17, <1>18, <1>19, <1>20, <1>21, <1>22, <1>23, <1>24, <1>25
       DEF Next, LoopStep, HubStep, ClientStep

LEMMA InvInit == Init => IInv /\ ConnectionsBounded /\ Safe
  <1> SUFFICES ASSUME Init PROVE IInv /\ ConnectionsBounded /\ Safe
    OBVIOUS
  <1>1. Connected = {} /\ Registered = {} /\ Len(register) = 0 /\ Len(unregister) = 0
    BY DEF Init, Connected, Registered
  <1>2. TypeOK
    BY TypeInit
  <1>3. ArrivingAreNew /\ KnownWereTaken
    BY <1>1 DEF Init, ArrivingAreNew, KnownWereTaken
  <1>4. ConnectionsBounded
    BY <1>1, FS_EmptySet, HubAssumption DEF Init, ConnectionsBounded, Arriving
  <1>5. Safe
    BY <1>1 DEF Init, Safe, RegisteredAreOpen, NoOrphans, PanicsOnlyAfterStop
  <1>6. QED
    BY <1>2, <1>3, <1>4, <1>5 DEF IInv

LEMMA InvStep == IInv /\ [Next]_vars => IInv'
  BY TypeStep, PlacesStep DEF IInv
-----------------------------------------------------------------------------
(* The limit.                                                              *)

\* Only four actions move a client between the channel, the loop and the map.
LEMMA OthersMoveNobody ==
  ASSUME TypeOK, [Next]_vars,
         \A c \in Client : ~RegisterClient(c),
         ~ReceiveRegister, ~HandleClientRegister, ~HandleClientUnregister
  PROVE  Connected' = Connected /\ register' = register /\ Arriving' = Arriving
  <1> USE HubAssumption
  <1>1. ASSUME Start PROVE Connected' = Connected /\ register' = register /\ Arriving' = Arriving
    BY <1>1 DEF TypeOK, Connected, Arriving, Idle, channels, sockets, routines, lifecycle, Start
  <1>2. ASSUME BroadcastToGroup PROVE Connected' = Connected /\ register' = register /\ Arriving' = Arriving
    BY <1>2
       DEF TypeOK, Connected, Arriving, Idle, channels, sockets, routines, lifecycle,
           BroadcastToGroup, SendTo
  <1>3. ASSUME CheckHeartbeats PROVE Connected' = Connected /\ register' = register /\ Arriving' = Arriving
    BY <1>3
       DEF TypeOK, Connected, Arriving, Idle, channels, sockets, routines, lifecycle,
           CheckHeartbeats
  <1>4. ASSUME HeartbeatEnds PROVE Connected' = Connected /\ register' = register /\ Arriving' = Arriving
    BY <1>4
       DEF TypeOK, Connected, Arriving, Idle, channels, sockets, routines, lifecycle,
           HeartbeatEnds
  <1>5. ASSUME StopCancel PROVE Connected' = Connected /\ register' = register /\ Arriving' = Arriving
    BY <1>5
       DEF TypeOK, Connected, Arriving, Idle, channels, sockets, routines, lifecycle,
           StopCancel
  <1>6. ASSUME StopCloseClients PROVE Connected' = Connected /\ register' = register /\ Arriving' = Arriving
    BY <1>6
       DEF TypeOK, Connected, Arriving, Idle, channels, sockets, routines, lifecycle,
           StopCloseClients
  <1>7. ASSUME NEW f \in Feed, Push(f) PROVE Connected' = Connected /\ register' = register /\ Arriving' = Arriving
    BY <1>7 DEF TypeOK, Connected, Arriving, Idle, channels, sockets, routines, lifecycle, Push
  <1>8. ASSUME ReceiveUnregister PROVE Connected' = Connected /\ register' = register /\ Arriving' = Arriving
    BY <1>8
       DEF TypeOK, Connected, Arriving, Idle, channels, sockets, routines, lifecycle,
           ReceiveUnregister
  <1>9. ASSUME LoopEnds PROVE Connected' = Connected /\ register' = register /\ Arriving' = Arriving
    BY <1>9 DEF TypeOK, Connected, Arriving, Idle, channels, sockets, routines, lifecycle, LoopEnds
  <1>10. ASSUME NEW f \in Feed, ReceiveMessage(f) PROVE Connected' = Connected /\ register' = register /\ Arriving' = Arriving
    BY <1>10
       DEF TypeOK, Connected, Arriving, Idle, channels, sockets, routines, lifecycle,
           ReceiveMessage
  <1>11. ASSUME NEW f \in Feed, HandleMessage(f) PROVE Connected' = Connected /\ register' = register /\ Arriving' = Arriving
    BY <1>11
       DEF TypeOK, Connected, Arriving, Idle, channels, sockets, routines, lifecycle,
           HandleMessage, SendTo
  <1>12. ASSUME NEW c \in Client, ReaderStarts(c) PROVE Connected' = Connected /\ register' = register /\ Arriving' = Arriving
    BY <1>12
       DEF TypeOK, Connected, Arriving, Idle, channels, sockets, routines, lifecycle,
           ReaderStarts
  <1>13. ASSUME NEW c \in Client, ReadPing(c) PROVE Connected' = Connected /\ register' = register /\ Arriving' = Arriving
    BY <1>13 DEF TypeOK, Connected, Arriving, Idle, channels, sockets, routines, lifecycle, ReadPing
  <1>14. ASSUME NEW c \in Client, SendPong(c) PROVE Connected' = Connected /\ register' = register /\ Arriving' = Arriving
    BY <1>14
       DEF TypeOK, Connected, Arriving, Idle, channels, sockets, routines, lifecycle,
           SendPong, SendTo
  <1>15. ASSUME NEW c \in Client, ReadFails(c) PROVE Connected' = Connected /\ register' = register /\ Arriving' = Arriving
    BY <1>15
       DEF TypeOK, Connected, Arriving, Idle, channels, sockets, routines, lifecycle,
           ReadFails
  <1>16. ASSUME NEW c \in Client, ReaderLeaves(c) PROVE Connected' = Connected /\ register' = register /\ Arriving' = Arriving
    BY <1>16
       DEF TypeOK, Connected, Arriving, Idle, channels, sockets, routines, lifecycle,
           ReaderLeaves, Enqueue, GiveUp
  <1>17. ASSUME NEW c \in Client, WriteFails(c) PROVE Connected' = Connected /\ register' = register /\ Arriving' = Arriving
    BY <1>17
       DEF TypeOK, Connected, Arriving, Idle, channels, sockets, routines, lifecycle,
           WriteFails, WriterEnds
  <1>18. ASSUME NEW c \in Client, SendIsClosed(c) PROVE Connected' = Connected /\ register' = register /\ Arriving' = Arriving
    BY <1>18
       DEF TypeOK, Connected, Arriving, Idle, channels, sockets, routines, lifecycle,
           SendIsClosed, WriterEnds
  <1>19. ASSUME NEW c \in Client, UnregisterStale(c) PROVE Connected' = Connected /\ register' = register /\ Arriving' = Arriving
    BY <1>19
       DEF TypeOK, Connected, Arriving, Idle, channels, sockets, routines, lifecycle,
           UnregisterStale, Enqueue
  <1>20. ASSUME NEW c \in Client, SkipStale(c) PROVE Connected' = Connected /\ register' = register /\ Arriving' = Arriving
    BY <1>20
       DEF TypeOK, Connected, Arriving, Idle, channels, sockets, routines, lifecycle,
           SkipStale, GiveUp
  <1>21. CASE UNCHANGED vars
    BY <1>21 DEF TypeOK, Connected, Arriving, Idle, vars, channels, sockets, routines, lifecycle
  <1>22. QED
    BY <1>1, <1>2, <1>3, <1>4, <1>5, <1>6, <1>7, <1>8, <1>9, <1>10, <1>11, <1>12, <1>13,
       <1>14, <1>15, <1>16, <1>17, <1>18, <1>19, <1>20, <1>21
       DEF Next, LoopStep, HubStep, ClientStep

LEMMA ConnectedFinite == IsFiniteSet(Connected) /\ Cardinality(Connected) \in Nat
  BY HubAssumption, FS_Subset, FS_CardinalityType DEF Connected

\* The limit can be passed by the capacity of the channel: whoever is accepted
\* finds the map below the limit and a free slot in the channel, and the loop may
\* have one client in hand.
LEMMA BoundStep == TypeOK /\ ConnectionsBounded /\ [Next]_vars => ConnectionsBounded'
  <1> SUFFICES ASSUME TypeOK, ConnectionsBounded, [Next]_vars PROVE ConnectionsBounded'
    OBVIOUS
  <1> USE HubAssumption
  <1>0. /\ Cardinality(Connected) \in Nat /\ Len(register) \in Nat /\ Arriving \in {0, 1}
        /\ MaxConnections \in Nat /\ BufferSize \in Nat
    BY ConnectedFinite DEF TypeOK, Arriving
  <1>1. ASSUME NEW c \in Client, RegisterClient(c) PROVE ConnectionsBounded'
    <2>1. /\ Cardinality(Connected) < MaxConnections /\ Len(register) < BufferSize
          /\ Len(register') = Len(register) + 1 /\ Connected' = Connected /\ Arriving' = Arriving
      BY <1>1, AppendToSeq DEF RegisterClient, TypeOK, Connected, Arriving, routines
    <2>2. QED
      BY <1>0, <2>1 DEF ConnectionsBounded
  <1>2. CASE ReceiveRegister
    <2>1. Len(register') = Len(register) - 1 /\ Connected' = Connected /\ Arriving = 0 /\ Arriving' = 1
      BY <1>2, TailOfSeq DEF ReceiveRegister, TypeOK, Connected, Arriving
    <2>2. QED
      BY <1>0, <2>1 DEF ConnectionsBounded
  <1>3. CASE HandleClientRegister
    <2>1. register' = register /\ Arriving = 1 /\ Arriving' = 0
      BY <1>3 DEF HandleClientRegister, Arriving, Idle, channels
    <2>2. Connected' \subseteq Connected \cup {IdOf(loop.client)}
      BY <1>3 DEF HandleClientRegister, Connected, TypeOK
    <2>3. Cardinality(Connected') <= Cardinality(Connected) + 1
      <3>1. /\ IsFiniteSet(Connected \cup {IdOf(loop.client)})
            /\ Cardinality(Connected \cup {IdOf(loop.client)}) <= Cardinality(Connected) + 1
        <4> DEFINE x == IdOf(loop.client)
        <4>1. IsFiniteSet(Connected)
          BY ConnectedFinite
        <4>2. /\ IsFiniteSet(Connected \cup {x})
              /\ Cardinality(Connected \cup {x})
                   = IF x \in Connected THEN Cardinality(Connected) ELSE Cardinality(Connected) + 1
          BY <4>1, FS_AddElement
        <4>3. QED
          BY <1>0, <4>2
      <3>2. Cardinality(Connected') <= Cardinality(Connected \cup {IdOf(loop.client)})
        BY <2>2, <3>1, FS_Subset
      <3>3. /\ Cardinality(Connected') \in Nat
            /\ Cardinality(Connected \cup {IdOf(loop.client)}) \in Nat
        BY <2>2, <3>1, FS_Subset, FS_CardinalityType
      <3>4. QED
        BY <1>0, <3>1, <3>2, <3>3
    <2>4. Cardinality(Connected') \in Nat
      <3>1. IsFiniteSet(Connected \cup {IdOf(loop.client)})
        BY ConnectedFinite, FS_AddElement
      <3>2. QED
        BY <2>2, <3>1, FS_Subset, FS_CardinalityType
    <2>5. QED
      BY <1>0, <2>1, <2>3, <2>4 DEF ConnectionsBounded
  <1>4. CASE HandleClientUnregister
    <2>1. register' = register /\ Arriving = 0 /\ Arriving' = 0
      BY <1>4 DEF HandleClientUnregister, Arriving, Idle, channels
    <2>2. Connected' \subseteq Connected
      BY <1>4 DEF HandleClientUnregister, Connected, TypeOK
    <2>3. Cardinality(Connected') <= Cardinality(Connected) /\ Cardinality(Connected') \in Nat
      BY <2>2, ConnectedFinite, FS_Subset, FS_CardinalityType
    <2>4. QED
      BY <1>0, <2>1, <2>3 DEF ConnectionsBounded
  <1>5. CASE /\ \A c \in Client : ~RegisterClient(c)
             /\ ~ReceiveRegister /\ ~HandleClientRegister /\ ~HandleClientUnregister
    BY <1>5, OthersMoveNobody DEF ConnectionsBounded
  <1>6. QED
    BY <1>1, <1>2, <1>3, <1>4, <1>5
-----------------------------------------------------------------------------
(* Who is in the map, and who may panic.                                   *)

\* Only the event loop and Stop close a client or change the map, and only the
\* loop takes a client in; who else panics sends to a closed client of the map,
\* or answers a ping.
LEMMA OthersCloseNobody ==
  ASSUME TypeOK, [Next]_vars,
         ~HandleClientRegister, ~HandleClientUnregister, ~StopCloseClients
  PROVE  /\ clients' = clients /\ sendClosed' = sendClosed /\ stopped' = stopped
         /\ \A c \in Client : reader'[c] # "none" => reader[c] # "none"
         /\ panic' = panic \/ panic' = "reader" \/ \E c \in Registered : sendClosed[c]
  <1> USE HubAssumption
  <1> DEFINE Quiet ==
        /\ clients' = clients /\ sendClosed' = sendClosed /\ stopped' = stopped
        /\ \A d \in Client : reader'[d] # "none" => reader[d] # "none"
        /\ panic' = panic \/ panic' = "reader" \/ \E c \in Registered : sendClosed[c]
  <1>1. ASSUME Start PROVE Quiet
    BY <1>1 DEF TypeOK, channels, sockets, routines, lifecycle, Start
  <1>2. ASSUME BroadcastToGroup PROVE Quiet
    BY <1>2 DEF TypeOK, channels, sockets, routines, lifecycle, BroadcastToGroup, SendTo
  <1>3. ASSUME CheckHeartbeats PROVE Quiet
    BY <1>3 DEF TypeOK, channels, sockets, routines, lifecycle, CheckHeartbeats
  <1>4. ASSUME HeartbeatEnds PROVE Quiet
    BY <1>4 DEF TypeOK, channels, sockets, routines, lifecycle, HeartbeatEnds
  <1>5. ASSUME StopCancel PROVE Quiet
    BY <1>5 DEF TypeOK, channels, sockets, routines, lifecycle, StopCancel
  <1>6. ASSUME NEW f \in Feed, Push(f) PROVE Quiet
    BY <1>6 DEF TypeOK, channels, sockets, routines, lifecycle, Push
  <1>7. ASSUME ReceiveRegister PROVE Quiet
    BY <1>7 DEF TypeOK, channels, sockets, routines, lifecycle, ReceiveRegister
  <1>8. ASSUME ReceiveUnregister PROVE Quiet
    BY <1>8 DEF TypeOK, channels, sockets, routines, lifecycle, ReceiveUnregister
  <1>9. ASSUME LoopEnds PROVE Quiet
    BY <1>9 DEF TypeOK, channels, sockets, routines, lifecycle, LoopEnds
  <1>10. ASSUME NEW f \in Feed, ReceiveMessage(f) PROVE Quiet
    BY <1>10 DEF TypeOK, channels, sockets, routines, lifecycle, ReceiveMessage
  <1>11. ASSUME NEW f \in Feed, HandleMessage(f) PROVE Quiet
    BY <1>11 DEF TypeOK, channels, sockets, routines, lifecycle, HandleMessage, SendTo
  <1>12. ASSUME NEW c \in Client, RegisterClient(c) PROVE Quiet
    BY <1>12 DEF TypeOK, channels, sockets, routines, lifecycle, RegisterClient
  <1>13. ASSUME NEW c \in Client, ReaderStarts(c) PROVE Quiet
    BY <1>13 DEF TypeOK, channels, sockets, routines, lifecycle, ReaderStarts
  <1>14. ASSUME NEW c \in Client, ReadPing(c) PROVE Quiet
    BY <1>14 DEF TypeOK, channels, sockets, routines, lifecycle, ReadPing
  <1>15. ASSUME NEW c \in Client, SendPong(c) PROVE Quiet
    BY <1>15 DEF TypeOK, channels, sockets, routines, lifecycle, SendPong, SendTo
  <1>16. ASSUME NEW c \in Client, ReadFails(c) PROVE Quiet
    BY <1>16 DEF TypeOK, channels, sockets, routines, lifecycle, ReadFails
  <1>17. ASSUME NEW c \in Client, ReaderLeaves(c) PROVE Quiet
    BY <1>17 DEF TypeOK, channels, sockets, routines, lifecycle, ReaderLeaves, Enqueue, GiveUp
  <1>18. ASSUME NEW c \in Client, WriteFails(c) PROVE Quiet
    BY <1>18 DEF TypeOK, channels, sockets, routines, lifecycle, WriteFails, WriterEnds
  <1>19. ASSUME NEW c \in Client, SendIsClosed(c) PROVE Quiet
    BY <1>19 DEF TypeOK, channels, sockets, routines, lifecycle, SendIsClosed, WriterEnds
  <1>20. ASSUME NEW c \in Client, UnregisterStale(c) PROVE Quiet
    BY <1>20 DEF TypeOK, channels, sockets, routines, lifecycle, UnregisterStale, Enqueue
  <1>21. ASSUME NEW c \in Client, SkipStale(c) PROVE Quiet
    BY <1>21 DEF TypeOK, channels, sockets, routines, lifecycle, SkipStale, GiveUp
  <1>22. CASE UNCHANGED vars
    BY <1>22 DEF TypeOK, vars, channels, sockets, routines, lifecycle
  <1>23. QED
    BY <1>1, <1>2, <1>3, <1>4, <1>5, <1>6, <1>7, <1>8, <1>9, <1>10, <1>11, <1>12, <1>13,
       <1>14, <1>15, <1>16, <1>17, <1>18, <1>19, <1>20, <1>21, <1>22
       DEF Next, LoopStep, HubStep, ClientStep

\* A closed client of the map is closed by Stop only.
LEMMA SafeStep == IInv /\ Safe /\ [Next]_vars => Safe'
  <1> SUFFICES ASSUME IInv, Safe, [Next]_vars PROVE Safe'
    OBVIOUS
  <1> USE HubAssumption
  <1>0. TypeOK
    BY DEF IInv
  <1>1. CASE HandleClientRegister
    <2> DEFINE c == loop.client
    <2>1. /\ c \in Client /\ IdOf(c) \in Id /\ loop.at = "register"
          /\ clients' = [clients EXCEPT ![IdOf(c)] = c]
          /\ reader' = [reader EXCEPT ![c] = "starting"]
          /\ UNCHANGED <<sendClosed, stopped, panic>>
      BY <1>0, <1>1 DEF HandleClientRegister, TypeOK, sockets, lifecycle
    <2>2. ~sendClosed[c]
      BY <2>1 DEF IInv, ArrivingAreNew, KnownWereTaken
    <2>3. Registered' \subseteq Registered \cup {c} /\ c \in Registered'
      BY <1>0, <2>1 DEF TypeOK, Registered, Connected
    <2>4. RegisteredAreOpen'
      BY <2>1, <2>2, <2>3 DEF Safe, RegisteredAreOpen
    <2>5. NoOrphans'
      <3> SUFFICES ASSUME UniqueIds, NEW d \in Client, reader'[d] # "none", ~sendClosed[d]
                   PROVE  d \in Registered'
        BY <2>1 DEF NoOrphans, UniqueIds
      <3>1. CASE d = c
        BY <2>3, <3>1
      <3>2. CASE d # c
        <4>1. d \in Registered
          BY <1>0, <2>1, <3>2 DEF Safe, NoOrphans, TypeOK
        <4>2. PICK i \in Id : clients[i] = d
          BY <4>1 DEF Registered, Connected
        <4>3. i = IdOf(d) /\ i # IdOf(c)
          BY <1>0, <3>2, <4>2, <2>1 DEF TypeOK, Connected, UniqueIds
        <4>4. clients'[i] = d /\ d # NoClient
          BY <1>0, <2>1, <4>2, <4>3 DEF TypeOK
        <4>5. QED
          BY <4>4 DEF Registered, Connected
      <3>3. QED
        BY <3>1, <3>2
    <2>6. PanicsOnlyAfterStop'
      BY <2>1 DEF Safe, PanicsOnlyAfterStop, UniqueIds
    <2>7. QED
      BY <2>4, <2>5, <2>6 DEF Safe
  <1>2. CASE HandleClientUnregister
    <2> DEFINE c == loop.client
    <2>1. c \in Client /\ IdOf(c) \in Id /\ UNCHANGED <<reader, stopped>>
      BY <1>0, <1>2 DEF HandleClientUnregister, TypeOK
    <2>2. CASE clients[IdOf(c)] = NoClient
      <3>1. UNCHANGED <<clients, sendClosed, panic>>
        BY <1>2, <2>2 DEF HandleClientUnregister
      <3>2. QED
        BY <2>1, <3>1
           DEF Safe, RegisteredAreOpen, NoOrphans, PanicsOnlyAfterStop, Registered,
               Connected, UniqueIds
    <2>3. CASE clients[IdOf(c)] # NoClient
      <3>1. /\ clients' = [clients EXCEPT ![IdOf(c)] = NoClient]
            /\ \/ sendClosed[c] /\ panic' = "loop" /\ sendClosed' = sendClosed
               \/ /\ ~sendClosed[c] /\ panic' = panic
                  /\ sendClosed' = [sendClosed EXCEPT ![c] = TRUE]
        BY <1>2, <2>3 DEF HandleClientUnregister
      <3>2. /\ \A d \in Client : sendClosed'[d] <=> sendClosed[d] \/ d = c
        BY <1>0, <2>1, <3>1 DEF TypeOK
      <3>3. Registered' \subseteq Registered /\ c \notin Registered'
        BY <1>0, <2>1, <3>1 DEF TypeOK, Registered, Connected
      <3>4. RegisteredAreOpen'
        <4> SUFFICES ASSUME ~stopped, NEW d \in Registered' PROVE ~sendClosed'[d]
          BY <2>1 DEF RegisteredAreOpen
        <4>1. d \in Registered /\ d # c
          BY <3>3
        <4>2. d \in Client
          BY <1>0, <4>1 DEF TypeOK, Registered, Connected
        <4>3. QED
          BY <2>1, <3>2, <4>1, <4>2 DEF Safe, RegisteredAreOpen
      <3>5. UniqueIds => c = clients[IdOf(c)] /\ c \in Registered
        BY <1>0, <2>1, <2>3 DEF UniqueIds, TypeOK, Registered, Connected
      <3>6. PanicsOnlyAfterStop'
        BY <2>1, <3>1, <3>5 DEF Safe, PanicsOnlyAfterStop, RegisteredAreOpen, UniqueIds
      <3>7. NoOrphans'
        <4> SUFFICES ASSUME UniqueIds, NEW d \in Client, reader[d] # "none", ~sendClosed'[d]
                     PROVE  d \in Registered'
          BY <2>1 DEF NoOrphans, UniqueIds
        <4>1. d # c /\ d \in Registered
          BY <3>2 DEF Safe, NoOrphans
        <4>2. PICK i \in Id : clients[i] = d
          BY <4>1 DEF Registered, Connected
        <4>3. i = IdOf(d) /\ i # IdOf(c)
          BY <1>0, <2>1, <4>1, <4>2 DEF TypeOK, Connected, UniqueIds
        <4>4. clients'[i] = d /\ d # NoClient
          BY <1>0, <3>1, <4>2, <4>3 DEF TypeOK
        <4>5. QED
          BY <4>4 DEF Registered, Connected
      <3>8. QED
        BY <3>4, <3>6, <3>7 DEF Safe
    <2>4. QED
      BY <2>2, <2>3
  <1>3. CASE StopCloseClients
    <2>1. UNCHANGED <<clients, reader>>
      BY <1>3 DEF StopCloseClients, routines
    <2>2. CASE \E d \in Registered : sendClosed[d]
      <3>1. panic' = "stop" /\ UNCHANGED <<sendClosed, stopped>>
        BY <1>3, <2>2 DEF StopCloseClients
      <3>2. QED
        BY <2>1, <2>2, <3>1
           DEF Safe, RegisteredAreOpen, NoOrphans, PanicsOnlyAfterStop, Registered,
               Connected, UniqueIds
    <2>3. CASE ~\E d \in Registered : sendClosed[d]
      <3>1. /\ stopped' = TRUE /\ panic' = panic
            /\ sendClosed' = [d \in Client |-> sendClosed[d] \/ d \in Registered]
        BY <1>3, <2>3 DEF StopCloseClients
      <3>2. QED
        BY <2>1, <3>1
           DEF Safe, RegisteredAreOpen, NoOrphans, PanicsOnlyAfterStop, Registered,
               Connected, UniqueIds
    <2>4. QED
      BY <2>2, <2>3
  <1>4. CASE ~HandleClientRegister /\ ~HandleClientUnregister /\ ~StopCloseClients
    <2>1. /\ clients' = clients /\ sendClosed' = sendClosed /\ stopped' = stopped
          /\ \A c \in Client : reader'[c] # "none" => reader[c] # "none"
          /\ panic' = panic \/ panic' = "reader" \/ \E c \in Registered : sendClosed[c]
      BY <1>0, <1>4, OthersCloseNobody
    <2>2. Registered' = Registered
      BY <2>1 DEF Registered, Connected
    <2>3. QED
      BY <2>1, <2>2 DEF Safe, RegisteredAreOpen, NoOrphans, PanicsOnlyAfterStop, UniqueIds
  <1>5. QED
    BY <1>1, <1>2, <1>3, <1>4
-----------------------------------------------------------------------------
\* Every channel stays within its capacity and every entry stands under its own ID.
THEOREM TypeCorrect == Spec => []TypeOK
  BY InvInit, InvStep, PTL DEF Spec, IInv

\* The limit of connections is passed by the capacity of the register channel at most.
THEOREM LimitHolds == Spec => []ConnectionsBounded
  <1>1. IInv /\ ConnectionsBounded /\ [Next]_vars => (IInv /\ ConnectionsBounded)'
    BY InvStep, BoundStep DEF IInv
  <1>2. QED
    BY <1>1, InvInit, PTL DEF Spec

THEOREM AlwaysSafe == Spec => [](IInv /\ Safe)
  BY InvInit, InvStep, SafeStep, PTL DEF Spec

\* Whoever the loop took in is in the map and open, or was closed.
THEOREM ClientsHeldOrClosed == Spec => []HeldOpenOrClosed
  <1>1. IInv /\ Safe => HeldOpenOrClosed
    BY DEF IInv, Safe, HeldOpenOrClosed
  <1>2. QED
    BY <1>1, AlwaysSafe, PTL

\* With unique IDs only a reader's answer to a ping panics before Stop has closed
\* the clients.
THEOREM NoPanicBeforeStop == Spec => []PanicsOnlyAfterStop
  <1>1. IInv /\ Safe => PanicsOnlyAfterStop
    BY DEF Safe
  <1>2. QED
    BY <1>1, AlwaysSafe, PTL
===============================================================================
