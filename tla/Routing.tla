------------------------------ MODULE Routing ------------------------------
(***************************************************************************)
(* internal/models/routing.go: the partition of a device's messages, the   *)
(* dead-letter queue, and the ConnectionManager's sessions and rooms.      *)
(* None of them has a lock: one goroutine calls.                           *)
(*                                                                         *)
(* Sessions and rooms are named by the second they were made in, so two    *)
(* made in one second have one name.  A hash has HashBits bits (the code's *)
(* has 32), and may be any number of that width.                           *)
(***************************************************************************)
EXTENDS Integers, Sequences, FiniteSets, SequencesExt

CONSTANTS Member,      \* clients
          HashBits,    \* width of the hash
          DlqSize,     \* MaxSize of the dead-letter queue
          Ttl,         \* RetentionTTL
          MaxMembers,  \* of a room
          MaxSecond,   \* bound: the clock
          MaxFailed    \* bound: failed messages

\* The last two conjuncts hold of every power of two; they are stated for the
\* provers, which know nothing of powers.
ASSUME RoutingAssumption ==
  /\ DlqSize \in Nat \ {0} /\ Ttl \in Int
  /\ 2 ^ (HashBits - 1) \in Nat \ {0} /\ 2 ^ (HashBits - 1) % 3 # 0

VARIABLES
  rtSecond,
  rtPartition,   \* hash and partition of the last device message
  rtDlq,         \* dlq.Messages: [number, at]
  rtFailed,      \* messages added to the queue so far
  rtDropped,     \* the last number dropped or expired
  rtSessions,    \* cm.Sessions: by <<client, second>> which of its sessions, and its end
  rtHeld,        \* history: the sessions handed out
  rtRoom,        \* the second the room of the one name was made in, and its members
  rtJoined,      \* history: who has joined that room and not left it
  rtRemade       \* history: a room was made twice in one second

dlq      == <<rtDlq, rtFailed, rtDropped>>
sessions == <<rtSessions, rtHeld>>
rooms    == <<rtRoom, rtJoined, rtRemade>>
rtVars   == <<rtSecond, rtPartition, dlq, sessions, rooms>>

MinHash == -(2 ^ (HashBits - 1))
MaxHash == 2 ^ (HashBits - 1) - 1

RTInit ==
  /\ rtSecond = 0 /\ rtPartition = [hash |-> 0, partition |-> 0]
  /\ rtDlq = <<>> /\ rtFailed = 0 /\ rtDropped = 0
  /\ rtSessions = <<>> /\ rtHeld = {}
  /\ rtRoom = [made |-> -1, members |-> <<>>] /\ rtJoined = {} /\ rtRemade = FALSE
-----------------------------------------------------------------------------
(* GetPartition.                                                           *)

\* -MinHash is MinHash again, and % takes the sign of what it divides.
Negate(hash)    == IF hash = MinHash THEN MinHash ELSE -hash
Remainder(h, n) == IF h < 0 THEN -((-h) % n) ELSE h % n
GetPartition(hash) == Remainder(IF hash < 0 THEN Negate(hash) ELSE hash, 3)
RouteMessage ==
  /\ \E hash \in MinHash .. MaxHash : rtPartition' = [hash |-> hash, partition |-> GetPartition(hash)]
  /\ UNCHANGED <<rtSecond, dlq, sessions, rooms>>
-----------------------------------------------------------------------------
(* DeadLetterQueue.                                                        *)

AddFailedKeepingAll ==   \* mutant: the queue is never cut
  /\ rtFailed < MaxFailed /\ rtFailed' = rtFailed + 1
  /\ rtDlq' = Append(rtDlq, [number |-> rtFailed + 1, at |-> rtSecond])
  /\ UNCHANGED <<rtSecond, rtPartition, rtDropped, sessions, rooms>>
AddFailedMessage ==
  /\ rtFailed < MaxFailed /\ rtFailed' = rtFailed + 1
  /\ LET full == Len(rtDlq) >= DlqSize IN
       /\ rtDlq' = Append(IF full THEN Tail(rtDlq) ELSE rtDlq, [number |-> rtFailed + 1, at |-> rtSecond])
       /\ rtDropped' = IF full THEN Head(rtDlq).number ELSE rtDropped
  /\ UNCHANGED <<rtSecond, rtPartition, sessions, rooms>>
\* The messages at the places that are fresh, in their order.
NthOf(places, n) == CHOOSE i \in places : Cardinality({j \in places : j <= i}) = n
\* A time to live of 0 or less is none.
RemoveExpiredMessages ==
  /\ Ttl > 0
  /\ LET fresh == {i \in 1 .. Len(rtDlq) : rtDlq[i].at > rtSecond - Ttl} IN
       rtDlq' = [n \in 1 .. Cardinality(fresh) |-> rtDlq[NthOf(fresh, n)]]
  /\ rtDropped' = IF rtDlq' = rtDlq THEN rtDropped ELSE rtDlq[Len(rtDlq) - Len(rtDlq')].number
  /\ UNCHANGED <<rtSecond, rtPartition, rtFailed, sessions, rooms>>
-----------------------------------------------------------------------------
(* ConnectionManager.                                                      *)

CreateSession(m) ==
  LET id == <<m, rtSecond>>  old == {h.nth : h \in {h \in rtHeld : h.id = id}} IN
  /\ old \subseteq {1}
  /\ LET new == [id |-> id, nth |-> IF old = {} THEN 1 ELSE 2, ends |-> rtSecond + 1] IN
       /\ rtSessions' = [i \in DOMAIN rtSessions \cup {id} |-> IF i = id THEN new ELSE rtSessions[i]]
       /\ rtHeld' = rtHeld \cup {new}
  /\ UNCHANGED <<rtSecond, rtPartition, dlq, rooms>>
CleanupExpiredSessions ==
  /\ rtSessions' = [i \in {i \in DOMAIN rtSessions : rtSecond <= rtSessions[i].ends} |-> rtSessions[i]]
  /\ UNCHANGED <<rtSecond, rtPartition, dlq, rtHeld, rooms>>

\* The room of the one name modelled; made again in the same second it replaces
\* the first, members and all.
CreateRoom ==
  /\ rtRoom' = [made |-> rtSecond, members |-> <<>>]
  /\ IF rtRoom.made = rtSecond THEN rtRemade' = TRUE /\ UNCHANGED rtJoined
     ELSE rtRemade' = FALSE /\ rtJoined' = {}
  /\ UNCHANGED <<rtSecond, rtPartition, dlq, sessions>>
JoinRoom(m) ==
  /\ rtRoom.made >= 0
  /\ ~Contains(rtRoom.members, m) /\ Len(rtRoom.members) < MaxMembers
  /\ rtRoom' = [rtRoom EXCEPT !.members = Append(@, m)] /\ rtJoined' = rtJoined \cup {m}
  /\ UNCHANGED <<rtSecond, rtPartition, dlq, sessions, rtRemade>>
LeaveRoom(m) ==
  /\ \E i \in 1 .. Len(rtRoom.members) :
       /\ rtRoom.members[i] = m /\ \A j \in 1 .. i - 1 : rtRoom.members[j] # m
       /\ rtRoom' = [rtRoom EXCEPT !.members = RemoveAt(@, i)]
  /\ rtJoined' = rtJoined \ {m}
  /\ UNCHANGED <<rtSecond, rtPartition, dlq, sessions, rtRemade>>

NextSecond == rtSecond < MaxSecond /\ rtSecond' = rtSecond + 1 /\ UNCHANGED <<rtPartition, dlq, sessions, rooms>>
-----------------------------------------------------------------------------
\* The four share only the clock: each behaviour uses one of them.
RTNext(part) ==
  \/ part = "partition" /\ RouteMessage
  \/ part = "queue" /\ (AddFailedMessage \/ RemoveExpiredMessages)
  \/ part = "sessions" /\ (CleanupExpiredSessions \/ \E m \in Member : CreateSession(m))
  \/ part = "rooms" /\ (CreateRoom \/ \E m \in Member : JoinRoom(m) \/ LeaveRoom(m))
  \/ NextSecond

RTSpec == RTInit /\ [][\E part \in {"partition", "queue", "sessions", "rooms"} : RTNext(part)]_rtVars
-----------------------------------------------------------------------------
(* Properties.                                                             *)

\* A device's partition is one of the three, but for the one hash whose absolute
\* value does not fit: that one's is negative.
DevicePartitionExists == rtPartition.partition \in 0 .. 2 <=> rtPartition.hash # MinHash

\* The dead-letter queue loses its oldest messages only, to its limit or to their
\* age: what it holds are the last that failed, in order.
NewestAreKept ==
  /\ Len(rtDlq) = rtFailed - rtDropped /\ Len(rtDlq) <= DlqSize
  /\ \A i \in 1 .. Len(rtDlq) : rtDlq[i].number = rtDropped + i

\* A session is found under its name until it ends, and who joined the room and
\* has not left it is a member, unless one made in the same second took its place.
NamesAreKept ==
  /\ \A h \in rtHeld : \/ rtSecond > h.ends
                       \/ h.id \in DOMAIN rtSessions /\ rtSessions[h.id] = h
                       \/ \E g \in rtHeld : g.id = h.id /\ g.nth > h.nth
  /\ rtRemade \/ ToSet(rtRoom.members) = rtJoined

RoutingKeepsTrack == DevicePartitionExists /\ NewestAreKept /\ NamesAreKept
=============================================================================
