---------------------------- MODULE ConnectionPool ----------------------------
(***************************************************************************)
(* ConnectionPool of internal/producer/connection_pool.go: Kafka clients   *)
(* handed out to concurrent callers and taken back through a channel.      *)
(*                                                                         *)
(* pool.mutex guards only the size counter and Start/Stop; GetConnection    *)
(* and ReturnConnection look at isRunning and at currentSize without it,   *)
(* so they are broken up between those looks and what they decide.         *)
(* A client may die at any moment (its brokers go away).                   *)
(***************************************************************************)
EXTENDS Integers, Sequences, FiniteSets, SequencesExt

CONSTANTS
  Caller,        (* goroutines that use the pool                            *)
  MaxSize,       (* maxSize, also the channel's capacity                    *)
  MaxClients     (* bound: clients ever created                             *)

ASSUME ConnectionAssumption ==
  /\ IsFiniteSet(Caller) /\ Caller # {}
  /\ MaxSize \in Nat \ {0}
  /\ MaxClients \in Nat

Client == 1..MaxClients
NoClient == 0

VARIABLES
  isRunning,     (* cp.isRunning                                            *)
  chanClosed,    (* close(cp.connections) has happened; never undone        *)
  connections,   (* the channel's contents: the idle clients                *)
  currentSize,   (* cp.currentSize                                          *)
  client,        (* state of each client                                    *)
  at,            (* where each caller is                                    *)
  hand,          (* the client each caller has, NoClient for none           *)
  panicked,      (* a goroutine panicked: the process is gone               *)
  everStopped,   (* history: whether Stop has ever been called              *)
  overlap        (* history: the most callers ever creating at once         *)

vars == <<isRunning, chanClosed, connections, currentSize, client, at, hand,
          panicked, everStopped, overlap>>

At == {"idle", "get", "room", "wait", "check", "create", "count",
       "holding", "returning"}

Unclosed == {k \in Client : client[k] \in {"open", "dead"}}
Unborn == {k \in Client : client[k] = "unborn"}
Counting == {c \in Caller : at[c] = "count"}
Creating == {c \in Caller : at[c] \in {"create", "count"}}
-----------------------------------------------------------------------------
Init ==
  /\ isRunning = FALSE /\ chanClosed = FALSE
  /\ connections = <<>> /\ currentSize = 0
  /\ client = [k \in Client |-> "unborn"]
  /\ at = [c \in Caller |-> "idle"]
  /\ hand = [c \in Caller |-> NoClient]
  /\ panicked = FALSE /\ everStopped = FALSE /\ overlap = 0

Start ==
  /\ ~panicked /\ ~isRunning
  /\ isRunning' = TRUE
  /\ UNCHANGED <<chanClosed, connections, currentSize, client, at, hand,
                 panicked, everStopped>>

(* close, then range over what is left; a second Stop closes a closed      *)
(* channel, since Start does not make a new one.                           *)
Stop ==
  /\ ~panicked /\ isRunning
  /\ everStopped' = TRUE
  /\ IF chanClosed
     THEN /\ panicked' = TRUE
          /\ UNCHANGED <<isRunning, chanClosed, connections, currentSize, client>>
     ELSE /\ chanClosed' = TRUE
          /\ client' = [k \in Client |->
                          IF k \in ToSet(connections) THEN "closed" ELSE client[k]]
          /\ connections' = <<>>
          /\ currentSize' = 0
          /\ isRunning' = FALSE
          /\ UNCHANGED panicked
  /\ UNCHANGED <<at, hand>>

ClientDies(k) ==
  /\ ~panicked /\ client[k] = "open"
  /\ client' = [client EXCEPT ![k] = "dead"]
  /\ UNCHANGED <<isRunning, chanClosed, connections, currentSize, at, hand,
                 panicked, everStopped>>
-----------------------------------------------------------------------------
(* A caller at one of these places, of a process that is still there.      *)
From(c, places) == ~panicked /\ at[c] \in places
Go(c, to) == at' = [at EXCEPT ![c] = to]
Decremented == IF currentSize > 0 THEN currentSize - 1 ELSE currentSize

GetBegin(c) ==
  /\ From(c, {"idle"})
  /\ isRunning
  /\ Go(c, "get")
  /\ UNCHANGED <<isRunning, chanClosed, connections, currentSize, client, hand,
                 panicked, everStopped>>

(* Mutant: the client is used but left in the channel.                     *)
TakeIdleWithoutRemoving(c) ==
  /\ From(c, {"get", "wait"})
  /\ connections # <<>>
  /\ hand' = [hand EXCEPT ![c] = Head(connections)]
  /\ Go(c, "check")
  /\ UNCHANGED <<isRunning, chanClosed, connections, currentSize, client,
                 panicked, everStopped>>

(* Both selects of GetConnection.                                          *)
TakeIdle(c) ==
  /\ From(c, {"get", "wait"})
  /\ connections # <<>>
  /\ hand' = [hand EXCEPT ![c] = Head(connections)]
  /\ connections' = Tail(connections)
  /\ Go(c, "check")
  /\ UNCHANGED <<isRunning, chanClosed, currentSize, client, panicked, everStopped>>

(* A closed channel yields nil, which validateConnection dereferences.     *)
TakeNil(c) ==
  /\ From(c, {"get", "wait"})
  /\ connections = <<>> /\ chanClosed
  /\ panicked' = TRUE
  /\ UNCHANGED <<isRunning, chanClosed, connections, currentSize, client, at,
                 hand, everStopped>>

NoneIdle(c) ==
  /\ From(c, {"get"})
  /\ connections = <<>> /\ ~chanClosed
  /\ Go(c, "room")
  /\ UNCHANGED <<isRunning, chanClosed, connections, currentSize, client, hand,
                 panicked, everStopped>>

(* Mutant: "at most" for "less than".                                      *)
CheckSizeOffByOne(c) ==
  /\ From(c, {"room"})
  /\ Go(c, IF currentSize <= MaxSize THEN "create" ELSE "wait")
  /\ UNCHANGED <<isRunning, chanClosed, connections, currentSize, client, hand,
                 panicked, everStopped>>

(* if cp.currentSize < cp.maxSize, without the mutex.                      *)
CheckSize(c) ==
  /\ From(c, {"room"})
  /\ Go(c, IF currentSize < MaxSize THEN "create" ELSE "wait")
  /\ UNCHANGED <<isRunning, chanClosed, connections, currentSize, client, hand,
                 panicked, everStopped>>

(* Five seconds without an idle client.                                    *)
WaitTimeout(c) ==
  /\ From(c, {"wait"})
  /\ Go(c, "idle")
  /\ UNCHANGED <<isRunning, chanClosed, connections, currentSize, client, hand,
                 panicked, everStopped>>

(* validateConnection; an invalid client is closed and replaced, whatever  *)
(* the size is by now.                                                     *)
Check(c) ==
  /\ From(c, {"check"})
  /\ IF client[hand[c]] = "open"
     THEN Go(c, "holding") /\ UNCHANGED <<client, hand, currentSize>>
     ELSE /\ Go(c, "create")
          /\ client' = [client EXCEPT ![hand[c]] = "closed"]
          /\ hand' = [hand EXCEPT ![c] = NoClient]
          /\ currentSize' = Decremented
  /\ UNCHANGED <<isRunning, chanClosed, connections, panicked, everStopped>>

(* sarama.NewClient fails, or succeeds.                                    *)
CreateFails(c) ==
  /\ From(c, {"create"})
  /\ Go(c, "idle")
  /\ UNCHANGED <<isRunning, chanClosed, connections, currentSize, client, hand,
                 panicked, everStopped>>

Create(c, k) ==
  /\ From(c, {"create"})
  /\ client[k] = "unborn"
  /\ client' = [client EXCEPT ![k] = "open"]
  /\ hand' = [hand EXCEPT ![c] = k]
  /\ Go(c, "count")
  /\ UNCHANGED <<isRunning, chanClosed, connections, currentSize, panicked, everStopped>>

(* Mutant: the size is not raised.                                         *)
CountNothing(c) ==
  /\ From(c, {"count"})
  /\ Go(c, "holding")
  /\ UNCHANGED <<isRunning, chanClosed, connections, currentSize, client, hand,
                 panicked, everStopped>>

Count(c) ==
  /\ From(c, {"count"})
  /\ currentSize' = currentSize + 1
  /\ Go(c, "holding")
  /\ UNCHANGED <<isRunning, chanClosed, connections, client, hand, panicked, everStopped>>
-----------------------------------------------------------------------------
(* The client is closed and forgotten, ...                                 *)
Dispose(c) ==
  /\ client' = [client EXCEPT ![hand[c]] = "closed"]
  /\ hand' = [hand EXCEPT ![c] = NoClient]
  /\ Go(c, "idle")

(* ... here without being taken off currentSize.                           *)
ReturnToStopped(c) ==
  /\ From(c, {"holding"})
  /\ ~isRunning
  /\ Dispose(c)
  /\ UNCHANGED <<isRunning, chanClosed, connections, currentSize, panicked, everStopped>>

ReturnBegin(c) ==
  /\ From(c, {"holding"})
  /\ isRunning
  /\ Go(c, "returning")
  /\ UNCHANGED <<isRunning, chanClosed, connections, currentSize, client, hand,
                 panicked, everStopped>>

(* The client is invalid, or the channel is full.                          *)
ReturnDisposed(c) ==
  /\ From(c, {"returning"})
  /\ client[hand[c]] # "open" \/ (~chanClosed /\ Len(connections) = MaxSize)
  /\ Dispose(c)
  /\ currentSize' = Decremented
  /\ UNCHANGED <<isRunning, chanClosed, connections, panicked, everStopped>>

ReturnIdle(c) ==
  /\ From(c, {"returning"})
  /\ client[hand[c]] = "open"
  /\ ~chanClosed /\ Len(connections) < MaxSize
  /\ connections' = Append(connections, hand[c])
  /\ hand' = [hand EXCEPT ![c] = NoClient]
  /\ Go(c, "idle")
  /\ UNCHANGED <<isRunning, chanClosed, currentSize, client, panicked, everStopped>>

(* A send on a closed channel.                                             *)
ReturnToClosed(c) ==
  /\ From(c, {"returning"})
  /\ client[hand[c]] = "open"
  /\ chanClosed
  /\ panicked' = TRUE
  /\ UNCHANGED <<isRunning, chanClosed, connections, currentSize, client, at,
                 hand, everStopped>>
-----------------------------------------------------------------------------
GetConnection(c) ==
  \/ GetBegin(c) \/ TakeIdle(c) \/ TakeNil(c) \/ NoneIdle(c) \/ CheckSize(c)
  \/ WaitTimeout(c) \/ Check(c) \/ CreateFails(c)
  \/ (\E k \in Client : Create(c, k)) \/ Count(c)

ReturnConnection(c) ==
  \/ ReturnToStopped(c) \/ ReturnBegin(c) \/ ReturnDisposed(c)
  \/ ReturnIdle(c) \/ ReturnToClosed(c)

Step ==
  \/ Start \/ Stop
  \/ \E k \in Client : ClientDies(k)
  \/ \E c \in Caller : GetConnection(c) \/ ReturnConnection(c)

Next ==
  /\ Step
  /\ overlap' = IF Cardinality(Creating') > overlap THEN Cardinality(Creating') ELSE overlap

Spec == Init /\ [][Next]_vars
-----------------------------------------------------------------------------
TypeOK ==
  /\ isRunning \in BOOLEAN /\ chanClosed \in BOOLEAN
  /\ panicked \in BOOLEAN /\ everStopped \in BOOLEAN
  /\ connections \in Seq(Client) /\ Len(connections) <= MaxSize
  /\ currentSize \in Nat
  /\ client \in [Client -> {"unborn", "open", "dead", "closed"}]
  /\ at \in [Caller -> At]
  /\ hand \in [Caller -> Client \cup {NoClient}]
  /\ \A c \in Caller :
       hand[c] \in Client <=> at[c] \in {"check", "count", "holding", "returning"}
  /\ chanClosed => everStopped

(* Every client that is not closed has exactly one owner, the channel or   *)
(* one caller; nobody owns a closed one: none is shared, none leaks, and   *)
(* none is used after close.                                               *)
OneOwner ==
  /\ IsInjective(connections)
  /\ \A c, d \in Caller : hand[c] = hand[d] /\ hand[c] # NoClient => c = d
  /\ \A c \in Caller : hand[c] \notin ToSet(connections)
  /\ Unclosed = ToSet(connections) \cup ({hand[c] : c \in Caller} \ {NoClient})

(* Until Stop, currentSize counts the clients that exist, but for those    *)
(* just created.                                                           *)
SizeExact ==
  ~everStopped => currentSize + Cardinality(Counting) = Cardinality(Unclosed)

(* Every client has its one owner, and the size says how many there are.   *)
ClientsAccounted == OneOwner /\ SizeExact

(* Until Stop the limit is overshot only by callers that were creating at  *)
(* the same time: by fewer than the most that ever were. One caller after   *)
(* the other stays within maxSize; all at once may each create a client.   *)
OvershootBounded ==
  /\ overlap \in 0..Cardinality(Caller)
  /\ ~everStopped => currentSize + Cardinality(Creating) <= MaxSize + overlap - 1

=============================================================================
