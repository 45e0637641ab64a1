------------------------------- MODULE Parts_proofs --------------------------------
(***************************************************************************)
(* Theorems about the small parts, the connection pool first: one section  *)
(* per module, each about that module's own specification.  The last       *)
(* section joins them: the parts share no state.                           *)
(***************************************************************************)
EXTENDS MCParts, SequenceTheorems, FiniteSetTheorems, WellFoundedInduction, NaturalsInduction,
        TLAPS

(* Ownership.                                                              *)
LEMMA AppendOne ==
  ASSUME NEW S, NEW q \in Seq(S), NEW x \in S, x \notin ToSet(q), IsInjective(q)
  PROVE  ToSet(Append(q, x)) = ToSet(q) \cup {x} /\ IsInjective(Append(q, x))
  <1>1. /\ DOMAIN Append(q, x) = 1..(Len(q) + 1)
        /\ DOMAIN q = 1..Len(q)
        /\ \A i \in 1..Len(q) : Append(q, x)[i] = q[i]
        /\ Append(q, x)[Len(q) + 1] = x
        /\ Len(q) \in Nat
    BY AppendProperties
  <1>2. QED
    BY <1>1 DEF ToSet, IsInjective

LEMMA TakeHead ==
  ASSUME NEW S, NEW q \in Seq(S), q # <<>>, IsInjective(q)
  PROVE  /\ Head(q) \in ToSet(q)
         /\ ToSet(Tail(q)) = ToSet(q) \ {Head(q)}
         /\ IsInjective(Tail(q))
  <1>1. /\ DOMAIN q = 1..Len(q) /\ Len(q) \in Nat \ {0}
        /\ DOMAIN Tail(q) = 1..(Len(q) - 1)
        /\ \A i \in 1..(Len(q) - 1) : Tail(q)[i] = q[i + 1]
        /\ Head(q) = q[1]
    BY HeadTailProperties, LenProperties
  <1>2. \A i \in 2..Len(q) : q[i] = Tail(q)[i - 1] /\ i - 1 \in DOMAIN Tail(q)
    BY <1>1
  <1>3. Head(q) \in ToSet(q)
    BY <1>1 DEF ToSet
  <1>4. ToSet(Tail(q)) \subseteq ToSet(q) \ {Head(q)}
    BY <1>1 DEF ToSet, IsInjective
  <1>5. ToSet(q) \ {Head(q)} \subseteq ToSet(Tail(q))
    <2>1. ASSUME NEW i \in 1..Len(q), q[i] # Head(q) PROVE q[i] \in ToSet(Tail(q))
      <3>1. i \in 2..Len(q)
        BY <1>1, <2>1
      <3>2. QED
        BY <1>2, <3>1 DEF ToSet
    <2>2. QED
      BY <1>1, <2>1 DEF ToSet
  <1>6. IsInjective(Tail(q))
    BY <1>1 DEF IsInjective
  <1>7. QED
    BY <1>3, <1>4, <1>5, <1>6

(* Counting.                                                               *)
LEMMA OneMore ==
  ASSUME NEW S, NEW T, NEW x, IsFiniteSet(S), x \notin S, T = S \cup {x}
  PROVE  Cardinality(T) = Cardinality(S) + 1
  BY FS_AddElement

LEMMA OneLess ==
  ASSUME NEW S, NEW T, NEW x, IsFiniteSet(S), x \in S, T = S \ {x}
  PROVE  Cardinality(T) = Cardinality(S) - 1
  BY FS_RemoveElement
-----------------------------------------------------------------------------
(***************************************************************************)
(* ConnectionPool: for every finite set of callers and every pool size.    *)
(***************************************************************************)

LEMMA TypeInit == Init => TypeOK
  <1> SUFFICES ASSUME Init PROVE TypeOK
    OBVIOUS
  <1> USE ConnectionAssumption
  <1>1. /\ isRunning \in BOOLEAN /\ chanClosed \in BOOLEAN
        /\ panicked \in BOOLEAN /\ everStopped \in BOOLEAN
        /\ (chanClosed => everStopped)
    BY DEF Init
  <1>2. connections \in Seq(Client) /\ Len(connections) <= MaxSize /\ currentSize \in Nat
    BY DEF Init
  <1>3. client \in [Client -> {"unborn", "open", "dead", "closed"}]
    BY DEF Init
  <1>4. at \in [Caller -> At] /\ hand \in [Caller -> Client \cup {NoClient}]
    BY DEF Init, At
  <1>5. \A c \in Caller :
          hand[c] \in Client <=> at[c] \in {"check", "count", "holding", "returning"}
    BY DEF Init, NoClient, Client
  <1>6. QED
    BY <1>1, <1>2, <1>3, <1>4, <1>5 DEF TypeOK

LEMMA TypeStep == TypeOK /\ [Next]_vars => TypeOK'
  <1> SUFFICES ASSUME TypeOK, [Next]_vars PROVE TypeOK'
    OBVIOUS
  <1> USE ConnectionAssumption
  <1>0. NoClient \notin Client
    BY DEF NoClient, Client
  <1>1. CASE Start
    BY <1>1 DEF Start, TypeOK
  <1>2. CASE Stop
    <2>1. connections' \in Seq(Client) /\ Len(connections') <= MaxSize /\ currentSize' \in Nat
      <3>1. CASE connections' = connections /\ currentSize' = currentSize
        BY <3>1 DEF TypeOK
      <3>2. CASE connections' = <<>> /\ currentSize' = 0
        BY <3>2
      <3>3. QED
        BY <1>2, <3>1, <3>2 DEF Stop
    <2>2. client' \in [Client -> {"unborn", "open", "dead", "closed"}]
      BY <1>2 DEF Stop, TypeOK
    <2>3. /\ isRunning' \in BOOLEAN /\ chanClosed' \in BOOLEAN
          /\ panicked' \in BOOLEAN /\ everStopped'
      BY <1>2 DEF Stop, TypeOK
    <2>4. QED
      BY <1>2, <2>1, <2>2, <2>3 DEF Stop, TypeOK
  <1>3. ASSUME NEW k \in Client, ClientDies(k) PROVE TypeOK'
    BY <1>3 DEF ClientDies, TypeOK
  <1>4. ASSUME NEW c \in Caller,
               GetBegin(c) \/ NoneIdle(c) \/ CheckSize(c) \/ WaitTimeout(c)
                 \/ CreateFails(c) \/ TakeNil(c)
        PROVE  TypeOK'
    <2>1. /\ UNCHANGED <<isRunning, chanClosed, connections, currentSize, client,
                         hand, everStopped>>
          /\ panicked' \in BOOLEAN
      BY <1>4 DEF GetBegin, NoneIdle, CheckSize, WaitTimeout, CreateFails, TakeNil, TypeOK
    <2>2. \/ at' = at
          \/ /\ at[c] \in {"idle", "get", "room", "wait", "create"}
             /\ \E a \in {"idle", "get", "room", "wait", "create"} :
                  at' = [at EXCEPT ![c] = a]
      BY <1>4 DEF GetBegin, NoneIdle, CheckSize, WaitTimeout, CreateFails, TakeNil, From, Go
    <2>3. /\ at' \in [Caller -> At]
          /\ \A d \in Caller :
               at'[d] \in {"check", "count", "holding", "returning"}
                 <=> at[d] \in {"check", "count", "holding", "returning"}
      BY <2>2 DEF TypeOK, At
    <2>4. QED
      BY <2>1, <2>3 DEF TypeOK
  <1>5. ASSUME NEW c \in Caller, TakeIdle(c) PROVE TypeOK'
    <2>1. /\ Head(connections) \in Client /\ connections' \in Seq(Client)
          /\ Len(connections') <= MaxSize
      BY <1>5 DEF TakeIdle, TypeOK
    <2>2. QED
      BY <1>5, <2>1 DEF TakeIdle, From, Go, TypeOK, At
  <1>6. ASSUME NEW c \in Caller, Check(c) PROVE TypeOK'
    <2>1. Decremented \in Nat
      BY DEF Decremented, TypeOK
    <2>2. QED
      BY <1>0, <1>6, <2>1 DEF Check, From, Go, TypeOK, At
  <1>7. ASSUME NEW c \in Caller, NEW k \in Client, Create(c, k) PROVE TypeOK'
    BY <1>7 DEF Create, From, Go, TypeOK, At
  <1>8. ASSUME NEW c \in Caller, Count(c) PROVE TypeOK'
    BY <1>8 DEF Count, From, Go, TypeOK, At
  <1>9. ASSUME NEW c \in Caller, ReturnToStopped(c) \/ ReturnDisposed(c) PROVE TypeOK'
    <2>1. Decremented \in Nat
      BY DEF Decremented, TypeOK
    <2>2. QED
      BY <1>0, <1>9, <2>1
         DEF ReturnToStopped, ReturnDisposed, Dispose, From, Go, TypeOK, At
  <1>10. ASSUME NEW c \in Caller, ReturnBegin(c) \/ ReturnToClosed(c) PROVE TypeOK'
    <2>1. CASE ReturnBegin(c)
      BY <2>1 DEF ReturnBegin, From, Go, TypeOK, At
    <2>2. CASE ReturnToClosed(c)
      BY <2>2 DEF ReturnToClosed, TypeOK
    <2>3. QED
      BY <1>10, <2>1, <2>2
  <1>11. ASSUME NEW c \in Caller, ReturnIdle(c) PROVE TypeOK'
    <2>1. hand[c] \in Client
      BY <1>11 DEF ReturnIdle, From, TypeOK
    <2>2. connections' \in Seq(Client) /\ Len(connections') <= MaxSize
      <3>1. /\ connections \in Seq(Client) /\ Len(connections) < MaxSize
            /\ connections' = Append(connections, hand[c])
        BY <1>11 DEF ReturnIdle, TypeOK
      <3>2. QED
        BY <2>1, <3>1, AppendProperties
    <2>3. QED
      BY <1>0, <1>11, <2>2 DEF ReturnIdle, From, Go, TypeOK, At
  <1>12. CASE UNCHANGED vars
    BY <1>12 DEF vars, TypeOK
  <1>13. QED
    BY <1>1, <1>2, <1>3, <1>4, <1>5, <1>6, <1>7, <1>8, <1>9, <1>10, <1>11, <1>12
       DEF Next, Step, GetConnection, ReturnConnection

(* Type correctness.                                                       *)
THEOREM TypeCorrect == Spec => []TypeOK
  <1>1. QED
    BY TypeInit, TypeStep, PTL DEF Spec
-----------------------------------------------------------------------------
LEMMA OwnerInit == Init => OneOwner
  <1> SUFFICES ASSUME Init PROVE OneOwner
    OBVIOUS
  <1>1. ToSet(connections) = {} /\ IsInjective(connections)
    BY DEF Init, ToSet, IsInjective
  <1>2. Unclosed = {}
    BY DEF Init, Unclosed
  <1>3. \A c \in Caller : hand[c] = NoClient
    BY DEF Init
  <1>4. QED
    BY <1>1, <1>2, <1>3 DEF OneOwner

LEMMA OwnerStep == TypeOK /\ OneOwner /\ [Next]_vars => OneOwner'
  <1> SUFFICES ASSUME TypeOK, OneOwner, [Next]_vars PROVE OneOwner'
    OBVIOUS
  <1> USE ConnectionAssumption
  <1> DEFINE Q == ToSet(connections)
             Held == {hand[c] : c \in Caller} \ {NoClient}
  <1>n. NoClient \notin Client /\ Held \subseteq Client
    BY DEF NoClient, Client, TypeOK
  <1>a. /\ IsInjective(connections)
        /\ \A c, d \in Caller : hand[c] = hand[d] /\ hand[c] # NoClient => c = d
        /\ \A c \in Caller : hand[c] \notin Q
        /\ Unclosed = Q \cup Held
    BY DEF OneOwner
  <1>0. ASSUME UNCHANGED <<connections, hand>>, Unclosed' = Unclosed PROVE OneOwner'
    BY <1>0 DEF OneOwner
  <1>1. CASE Start \/ (Stop /\ chanClosed) \/ UNCHANGED vars
    BY <1>0, <1>1 DEF Start, Stop, vars, Unclosed
  <1>2. CASE Stop /\ ~chanClosed
    <2>1. /\ client' = [k \in Client |-> IF k \in Q THEN "closed" ELSE client[k]]
          /\ connections' = <<>> /\ hand' = hand
      BY <1>2 DEF Stop
    <2>2. Unclosed' = Unclosed \ Q
      BY <2>1 DEF Unclosed
    <2>3. Q' = {} /\ IsInjective(connections')
      BY <2>1 DEF ToSet, IsInjective
    <2>4. Unclosed' = Held' /\ \A c \in Caller : hand[c] \notin Q
      BY <1>a, <2>1, <2>2
    <2>5. QED
      BY <1>a, <2>1, <2>3, <2>4 DEF OneOwner
  <1>3. ASSUME NEW k \in Client, ClientDies(k) PROVE OneOwner'
    BY <1>0, <1>3 DEF ClientDies, Unclosed, TypeOK
  <1>4. ASSUME NEW c \in Caller,
               GetBegin(c) \/ NoneIdle(c) \/ CheckSize(c) \/ WaitTimeout(c) \/ TakeNil(c)
                 \/ CreateFails(c) \/ Count(c) \/ ReturnBegin(c) \/ ReturnToClosed(c)
        PROVE  OneOwner'
    BY <1>0, <1>4 DEF GetBegin, NoneIdle, CheckSize, WaitTimeout, TakeNil, CreateFails,
                      Count, ReturnBegin, ReturnToClosed, Unclosed
  <1>5. ASSUME NEW c \in Caller, TakeIdle(c) PROVE OneOwner'
    <2>1. PICK k \in Client : k = Head(connections)
      BY <1>5 DEF TakeIdle, TypeOK
    <2>2. k \in Q /\ Q' = Q \ {k} /\ IsInjective(connections')
      BY <1>5, <1>a, <2>1, TakeHead DEF TakeIdle, TypeOK
    <2>3. hand[c] = NoClient /\ hand' = [hand EXCEPT ![c] = k] /\ Unclosed' = Unclosed
      BY <1>5, <2>1 DEF TakeIdle, From, TypeOK, Unclosed
    <2>4. Held' = Held \cup {k}
      BY <1>n, <2>3 DEF TypeOK
    <2>5. /\ \A d, e \in Caller : hand'[d] = hand'[e] /\ hand'[d] # NoClient => d = e
          /\ \A d \in Caller : hand'[d] \notin Q'
      BY <1>a, <2>2, <2>3 DEF TypeOK
    <2> HIDE DEF Q, Held
    <2>6. Unclosed' = Q' \cup Held'
      BY <1>a, <2>2, <2>3, <2>4
    <2>7. QED
      BY <2>2, <2>5, <2>6 DEF OneOwner, Q, Held
  <1>6. ASSUME NEW c \in Caller,
               hand[c] \in Client,
               client' = [client EXCEPT ![hand[c]] = "closed"],
               hand' = [hand EXCEPT ![c] = NoClient],
               UNCHANGED connections
        PROVE  OneOwner'
    <2>1. PICK k \in Client : k = hand[c]
      BY <1>6
    <2>2. Unclosed' = Unclosed \ {k}
      BY <1>6, <2>1 DEF Unclosed, TypeOK
    <2>3. Held' = Held \ {k}
      BY <1>6, <1>a, <1>n, <2>1 DEF TypeOK
    <2>4. k \notin Q /\ Q' = Q
      BY <1>6, <1>a, <2>1
    <2>5. /\ \A d, e \in Caller : hand'[d] = hand'[e] /\ hand'[d] # NoClient => d = e
          /\ \A d \in Caller : hand'[d] \notin Q'
      <3>1. NoClient \notin Q
        BY <1>a, <1>n DEF Unclosed
      <3>2. QED
        BY <1>6, <1>a, <2>4, <3>1 DEF TypeOK
    <2> HIDE DEF Q, Held
    <2>6. Unclosed' = Q' \cup Held'
      BY <1>a, <2>2, <2>3, <2>4
    <2>7. QED
      BY <1>6, <1>a, <2>5, <2>6 DEF OneOwner, Q, Held
  <1>7. ASSUME NEW c \in Caller, Check(c) \/ ReturnToStopped(c) \/ ReturnDisposed(c)
        PROVE  OneOwner'
    <2>1. hand[c] \in Client
      BY <1>7 DEF Check, ReturnToStopped, ReturnDisposed, From, TypeOK
    <2>2. QED
      BY <1>0, <1>6, <1>7, <2>1
         DEF Check, ReturnToStopped, ReturnDisposed, Dispose, Unclosed
  <1>8. ASSUME NEW c \in Caller, NEW k \in Client, Create(c, k) PROVE OneOwner'
    <2>1. /\ k \notin Unclosed /\ Unclosed' = Unclosed \cup {k}
      BY <1>8 DEF Create, Unclosed, TypeOK
    <2>2. hand[c] = NoClient /\ hand' = [hand EXCEPT ![c] = k] /\ Q' = Q
          /\ connections' = connections
      BY <1>8 DEF Create, From, TypeOK
    <2>3. Held' = Held \cup {k}
      BY <1>n, <2>2 DEF TypeOK
    <2>4. /\ \A d, e \in Caller : hand'[d] = hand'[e] /\ hand'[d] # NoClient => d = e
          /\ \A d \in Caller : hand'[d] \notin Q'
      BY <1>a, <2>1, <2>2 DEF TypeOK
    <2> HIDE DEF Q, Held
    <2>5. Unclosed' = Q' \cup Held'
      BY <1>a, <2>1, <2>2, <2>3
    <2>6. QED
      BY <1>a, <2>2, <2>4, <2>5 DEF OneOwner, Q, Held
  <1>9. ASSUME NEW c \in Caller, ReturnIdle(c) PROVE OneOwner'
    <2>1. PICK k \in Client : k = hand[c]
      BY <1>9 DEF ReturnIdle, From, TypeOK
    <2>2. k \notin Q /\ connections \in Seq(Client) /\ connections' = Append(connections, k)
      BY <1>9, <1>a, <2>1 DEF ReturnIdle, TypeOK
    <2>3. Q' = Q \cup {k} /\ IsInjective(connections')
      BY <1>a, <2>2, AppendOne
    <2>4. hand' = [hand EXCEPT ![c] = NoClient] /\ Unclosed' = Unclosed
      BY <1>9 DEF ReturnIdle, Unclosed
    <2>5. Held' = Held \ {k} /\ k \in Held
      BY <1>a, <1>n, <2>1, <2>4 DEF TypeOK
    <2>6. /\ \A d, e \in Caller : hand'[d] = hand'[e] /\ hand'[d] # NoClient => d = e
          /\ \A d \in Caller : hand'[d] \notin Q'
      <3>1. NoClient \notin Q
        BY <1>a, <1>n DEF Unclosed
      <3>2. QED
        BY <1>a, <1>n, <2>1, <2>3, <2>4, <3>1 DEF TypeOK
    <2> HIDE DEF Q, Held
    <2>7. Unclosed' = Q' \cup Held'
      BY <1>a, <2>3, <2>4, <2>5
    <2>8. QED
      BY <2>3, <2>6, <2>7 DEF OneOwner, Q, Held
  <1>10. QED
    BY <1>1, <1>2, <1>3, <1>4, <1>5, <1>7, <1>8, <1>9
       DEF Next, Step, GetConnection, ReturnConnection

(* No client is shared, leaked or used after it was closed, whatever the   *)
(* callers, Stop and the brokers do.                                       *)
THEOREM ClientsHaveOneOwner == Spec => []OneOwner
  <1>1. QED
    BY TypeCorrect, OwnerInit, OwnerStep, PTL DEF Spec
-----------------------------------------------------------------------------
LEMMA Finiteness ==
  /\ IsFiniteSet(Caller) /\ IsFiniteSet(Counting) /\ IsFiniteSet(Creating)
  /\ IsFiniteSet(Unclosed)
  /\ Cardinality(Caller) \in Nat /\ Cardinality(Counting) \in Nat
  /\ Cardinality(Creating) \in Nat /\ Cardinality(Unclosed) \in Nat
  /\ Cardinality(Creating) <= Cardinality(Caller)
  <1>1. IsFiniteSet(Caller) /\ IsFiniteSet(Client)
    BY ConnectionAssumption, FS_Interval DEF Client
  <1>2. Counting \subseteq Caller /\ Creating \subseteq Caller /\ Unclosed \subseteq Client
    BY DEF Counting, Creating, Unclosed
  <1>3. QED
    BY <1>1, <1>2, FS_Subset, FS_CardinalityType

(* How each step changes the size counter and the sets it is compared with. *)
LEMMA OvershootStep == TypeOK /\ OvershootBounded /\ [Next]_vars => OvershootBounded'
  <1> SUFFICES ASSUME TypeOK, OvershootBounded, [Next]_vars
               PROVE  OvershootBounded'
    OBVIOUS
  <1> USE ConnectionAssumption
  <1> DEFINE P == Cardinality(Creating)
  <1>0. /\ P' \in Nat /\ P' <= Cardinality(Caller) /\ Cardinality(Caller) \in Nat
        /\ overlap \in Nat /\ overlap <= Cardinality(Caller)
    <2>1. IsFiniteSet(Creating') /\ Creating' \subseteq Caller
      BY Finiteness, FS_Subset DEF Creating
    <2>2. QED
      BY <2>1, Finiteness, FS_Subset, FS_CardinalityType DEF OvershootBounded
  <1>a. /\ overlap' \in Nat /\ overlap' <= Cardinality(Caller) /\ overlap' >= overlap
        /\ overlap' >= P' \/ UNCHANGED vars
    <2>1. CASE Next
      <3>1. overlap' = IF P' > overlap THEN P' ELSE overlap
        BY <2>1 DEF Next
      <3> HIDE DEF P
      <3>2. QED
        BY <1>0, <3>1
    <2>2. CASE UNCHANGED vars
      BY <1>0, <2>2 DEF vars
    <2>3. QED
      BY <2>1, <2>2
  <1>b. SUFFICES ASSUME ~everStopped'
                 PROVE  currentSize' + P' <= MaxSize + overlap' - 1
    BY <1>a, <1>0 DEF OvershootBounded
  <1>1. ~everStopped /\ ~Stop
    BY <1>b DEF Next, Step, Start, Stop, ClientDies, GetConnection, GetBegin, TakeIdle, TakeNil,
           NoneIdle, CheckSize, WaitTimeout, Check, CreateFails, Create, Count,
           ReturnConnection, ReturnToStopped, ReturnBegin, ReturnDisposed, ReturnIdle,
           ReturnToClosed, vars
  <1>2. /\ P \in Nat /\ currentSize \in Nat /\ MaxSize \in Nat \ {0}
        /\ currentSize + P <= MaxSize + overlap - 1
    BY <1>1, Finiteness DEF TypeOK, OvershootBounded
  <1> HIDE DEF P
  <1>3. CASE currentSize' + P' = currentSize + P
    BY <1>a, <1>0, <1>2, <1>3 DEF P
  <1>4. CASE currentSize' <= MaxSize - 1 /\ currentSize' \in Nat /\ ~UNCHANGED vars
    BY <1>a, <1>0, <1>2, <1>4 DEF P
  <1>5. CASE currentSize' + P' <= currentSize + P /\ currentSize' \in Nat
    BY <1>a, <1>0, <1>2, <1>5 DEF P
  <1>6. CASE UNCHANGED <<currentSize, Creating>>
    BY <1>3, <1>6 DEF P
  <1>7. CASE Start \/ (\E k \in Client : ClientDies(k)) \/ UNCHANGED vars
    BY <1>6, <1>7 DEF Start, ClientDies, vars, Creating
  <1>8. ASSUME NEW c \in Caller,
               GetBegin(c) \/ NoneIdle(c) \/ TakeIdle(c) \/ TakeNil(c) \/ WaitTimeout(c)
                 \/ ReturnToStopped(c) \/ ReturnBegin(c) \/ ReturnIdle(c) \/ ReturnToClosed(c)
                 \/ (\E k \in Client : Create(c, k))
        PROVE  UNCHANGED <<currentSize, Creating>>
    <2>1. currentSize' = currentSize
      BY <1>8 DEF GetBegin, NoneIdle, TakeIdle, TakeNil, WaitTimeout, ReturnToStopped,
                  ReturnBegin, ReturnIdle, ReturnToClosed, Create
    <2>2. CASE \E k \in Client : Create(c, k)
      BY <2>1, <2>2 DEF Create, From, Go, Creating, TypeOK
    <2>3. CASE ~ \E k \in Client : Create(c, k)
      <3>1. \/ at' = at
            \/ /\ at[c] \notin {"create", "count"}
               /\ \E a \in At \ {"create", "count"} : at' = [at EXCEPT ![c] = a]
        BY <1>8, <2>3
           DEF GetBegin, NoneIdle, TakeIdle, TakeNil, WaitTimeout, ReturnToStopped,
               Dispose, ReturnBegin, ReturnIdle, ReturnToClosed, From, Go, At
      <3>2. Creating' = Creating
        BY <3>1 DEF Creating, TypeOK
      <3>3. QED
        BY <2>1, <3>2
    <2>4. QED
      BY <2>2, <2>3
  <1>9. ASSUME NEW c \in Caller, CheckSize(c)
        PROVE  UNCHANGED <<currentSize, Creating>> \/ (currentSize' <= MaxSize - 1 /\ currentSize' \in Nat)
    <2>1. CASE currentSize < MaxSize
      BY <1>2, <1>9, <2>1 DEF CheckSize
    <2>2. CASE ~(currentSize < MaxSize)
      BY <1>9, <2>2 DEF CheckSize, From, Go, Creating, TypeOK
    <2>3. QED
      BY <2>1, <2>2
  <1>10. ASSUME NEW c \in Caller, Check(c)
         PROVE  \/ UNCHANGED <<currentSize, Creating>>
                \/ currentSize' + P' = currentSize + P
                \/ currentSize' <= MaxSize - 1 /\ currentSize' \in Nat
    <2>1. CASE client[hand[c]] = "open"
      BY <1>10, <2>1 DEF Check, From, Go, Creating, TypeOK
    <2>2. CASE ~(client[hand[c]] = "open")
      <3>1. c \notin Creating /\ Creating' = Creating \cup {c} /\ currentSize' = Decremented
        BY <1>10, <2>2 DEF Check, From, Go, Creating, TypeOK
      <3>2. P' = P + 1
        BY <3>1, Finiteness, OneMore DEF P
      <3>3. CASE currentSize > 0
        BY <1>2, <3>1, <3>2, <3>3 DEF Decremented
      <3>4. CASE ~(currentSize > 0)
        <4>1. currentSize' = 0
          BY <1>2, <3>1, <3>4 DEF Decremented
        <4>2. currentSize' <= MaxSize - 1 /\ currentSize' \in Nat
          BY <1>2, <4>1
        <4>3. QED
          BY <4>2
      <3>5. QED
        BY <3>3, <3>4
    <2>3. QED
      BY <2>1, <2>2
  <1>11. ASSUME NEW c \in Caller, CreateFails(c) \/ Count(c)
         PROVE  currentSize' + P' <= currentSize + P /\ currentSize' \in Nat
    <2>1. c \in Creating /\ Creating' = Creating \ {c}
      BY <1>11 DEF CreateFails, Count, From, Go, Creating, TypeOK
    <2>2. P' = P - 1
      BY <2>1, Finiteness, OneLess DEF P
    <2>3. currentSize' = currentSize \/ currentSize' = currentSize + 1
      BY <1>11 DEF CreateFails, Count
    <2>4. QED
      BY <1>2, <2>2, <2>3
  <1>12. ASSUME NEW c \in Caller, ReturnDisposed(c)
         PROVE  currentSize' + P' <= currentSize + P /\ currentSize' \in Nat
    <2>1. Creating' = Creating /\ currentSize' = Decremented
      BY <1>12 DEF ReturnDisposed, Dispose, From, Go, Creating, TypeOK
    <2>2. QED
      BY <1>2, <2>1 DEF Decremented, P
  <1>13. QED
    BY <1>1, <1>3, <1>4, <1>5, <1>6, <1>7, <1>8, <1>9, <1>10, <1>11, <1>12
       DEF Next, Step, GetConnection, ReturnConnection

(* Until Stop the number of clients passes maxSize by fewer than the most  *)
(* callers that ever were between the check of currentSize and its count,  *)
(* however many callers there are.                                         *)
THEOREM BoundedOvershoot == Spec => []OvershootBounded
  <1>1. Init => OvershootBounded
    <2> SUFFICES ASSUME Init PROVE OvershootBounded
      OBVIOUS
    <2>1. Creating = {} /\ currentSize = 0
      BY DEF Init, Creating
    <2>2. Cardinality(Creating) = 0 /\ Cardinality(Caller) \in Nat /\ overlap = 0
      BY <2>1, ConnectionAssumption, FS_EmptySet, FS_CardinalityType DEF Init
    <2>3. QED
      BY <2>1, <2>2, ConnectionAssumption DEF OvershootBounded
  <1>2. QED
    BY <1>1, TypeCorrect, OvershootStep, PTL DEF Spec
-----------------------------------------------------------------------------
(* The size counter.                                                       *)

(* A caller about to dispose of a counted client: as many clients exist as *)
(* there are callers yet to count theirs, and one more.                    *)
LEMMA Countable ==
  ASSUME TypeOK, OneOwner, NEW c \in Caller, hand[c] \in Client, at[c] # "count"
  PROVE  Cardinality(Unclosed) >= Cardinality(Counting) + 1
  <1> DEFINE S == Counting \cup {c}
             f == [d \in S |-> hand[d]]
  <1>1. \A d \in S : hand[d] \in Client
    BY DEF Counting, TypeOK
  <1>2. NoClient \notin Client
    BY DEF NoClient, Client
  <1>3. \A d \in S : hand[d] \in Unclosed
    BY <1>1, <1>2 DEF OneOwner, Counting
  <1>4. f \in Injection(S, Unclosed)
    <2>1. f \in [S -> Unclosed]
      BY <1>3
    <2>2. \A d, e \in S : f[d] = f[e] => d = e
      BY <1>1, <1>2 DEF OneOwner, Counting
    <2>3. QED
      BY <2>1, <2>2 DEF Injection, IsInjective
  <1>5. IsFiniteSet(S) /\ Cardinality(S) = Cardinality(Counting) + 1
    BY Finiteness, FS_AddElement DEF Counting
  <1> HIDE DEF S, f
  <1>6. Cardinality(S) <= Cardinality(Unclosed)
    BY <1>4, Finiteness, FS_Injection
  <1>7. QED
    BY <1>5, <1>6, Finiteness

(* Only a pool that was started has clients out.                           *)
UsedStarted == \A c \in Caller : at[c] # "idle" => isRunning \/ everStopped

LEMMA UsedStep == TypeOK /\ UsedStarted /\ [Next]_vars => UsedStarted'
  <1> SUFFICES ASSUME TypeOK, UsedStarted, [Next]_vars PROVE UsedStarted'
    OBVIOUS
  <1>1. CASE Start \/ Stop \/ (\E k \in Client : ClientDies(k)) \/ UNCHANGED vars
    BY <1>1 DEF Start, Stop, ClientDies, vars, UsedStarted
  <1>2. ASSUME NEW c \in Caller, GetConnection(c) \/ ReturnConnection(c)
        PROVE  UsedStarted'
    <2>1. /\ \A d \in Caller \ {c} : at'[d] = at[d]
          /\ UNCHANGED <<isRunning, everStopped>>
      BY <1>2 DEF GetConnection, GetBegin, TakeIdle, TakeNil, NoneIdle, CheckSize,
             WaitTimeout, Check, CreateFails, Create, Count, ReturnConnection,
             ReturnToStopped, ReturnBegin, ReturnDisposed, ReturnIdle,
             ReturnToClosed, Dispose, Go, From, TypeOK
    <2>2. at[c] = "idle" => isRunning \/ at'[c] = "idle"
      BY <1>2 DEF GetConnection, GetBegin, TakeIdle, TakeNil, NoneIdle, CheckSize,
             WaitTimeout, Check, CreateFails, Create, Count, ReturnConnection,
             ReturnToStopped, ReturnBegin, ReturnDisposed, ReturnIdle,
             ReturnToClosed, From
    <2>3. QED
      BY <2>1, <2>2 DEF UsedStarted
  <1>3. QED
    BY <1>1, <1>2 DEF Next, Step

LEMMA SizeStep ==
  TypeOK /\ OneOwner /\ UsedStarted /\ SizeExact /\ [Next]_vars => SizeExact'
  <1> SUFFICES ASSUME TypeOK, OneOwner, UsedStarted, SizeExact, [Next]_vars, ~everStopped'
               PROVE  currentSize' + Cardinality(Counting') = Cardinality(Unclosed')
    BY DEF SizeExact
  <1> DEFINE C == Cardinality(Counting)
             U == Cardinality(Unclosed)
  <1>1. ~everStopped /\ ~Stop
    BY DEF Next, Step, Start, Stop, ClientDies, GetConnection, GetBegin, TakeIdle, TakeNil,
           NoneIdle, CheckSize, WaitTimeout, Check, CreateFails, Create, Count,
           ReturnConnection, ReturnToStopped, ReturnBegin, ReturnDisposed, ReturnIdle,
           ReturnToClosed, vars
  <1>2. /\ C \in Nat /\ U \in Nat /\ currentSize \in Nat
        /\ currentSize + C = U
    BY <1>1, Finiteness DEF TypeOK, SizeExact
  <1> HIDE DEF C, U
  <1>3. CASE currentSize' = currentSize /\ C' = C /\ U' = U
    BY <1>2, <1>3 DEF C, U
  <1>4. CASE currentSize' = currentSize /\ Counting' = Counting /\ Unclosed' = Unclosed
    BY <1>3, <1>4 DEF C, U
  <1>5. CASE Start \/ (\E k \in Client : ClientDies(k)) \/ UNCHANGED vars
    BY <1>4, <1>5 DEF Start, ClientDies, vars, Counting, Unclosed, TypeOK
  <1>6. ASSUME NEW c \in Caller,
               GetBegin(c) \/ NoneIdle(c) \/ TakeIdle(c) \/ TakeNil(c) \/ WaitTimeout(c)
                 \/ CheckSize(c) \/ CreateFails(c) \/ ReturnBegin(c) \/ ReturnIdle(c)
                 \/ ReturnToClosed(c)
        PROVE  currentSize' = currentSize /\ Counting' = Counting /\ Unclosed' = Unclosed
    <2>1. currentSize' = currentSize /\ client' = client
      BY <1>6 DEF GetBegin, NoneIdle, TakeIdle, TakeNil, WaitTimeout, CheckSize,
                  CreateFails, ReturnBegin, ReturnIdle, ReturnToClosed
    <2>2. \/ at' = at
          \/ at[c] # "count" /\ \E a \in At \ {"count"} : at' = [at EXCEPT ![c] = a]
      BY <1>6 DEF GetBegin, NoneIdle, TakeIdle, TakeNil, WaitTimeout, CheckSize,
                  CreateFails, ReturnBegin, ReturnIdle, ReturnToClosed, From, Go, At
    <2>3. Counting' = Counting
      BY <2>2 DEF Counting, TypeOK
    <2>4. QED
      BY <2>1, <2>3 DEF Unclosed
  <1>7. ASSUME NEW c \in Caller, ReturnToStopped(c) PROVE FALSE
    BY <1>1, <1>7 DEF ReturnToStopped, From, UsedStarted
  <1>8. ASSUME NEW c \in Caller, NEW k \in Client, Create(c, k)
        PROVE  currentSize' = currentSize /\ C' = C + 1 /\ U' = U + 1
    <2>1. /\ c \notin Counting /\ Counting' = Counting \cup {c}
          /\ k \notin Unclosed /\ Unclosed' = Unclosed \cup {k}
          /\ currentSize' = currentSize
      BY <1>8 DEF Create, From, Go, Counting, Unclosed, TypeOK
    <2>2. QED
      BY <2>1, Finiteness, OneMore DEF C, U
  <1>9. ASSUME NEW c \in Caller, Count(c)
        PROVE  currentSize' = currentSize + 1 /\ C' = C - 1 /\ U' = U
    <2>1. c \in Counting /\ Counting' = Counting \ {c}
      BY <1>9 DEF Count, From, Go, Counting, TypeOK
    <2>2. C' = C - 1
      BY <2>1, Finiteness, OneLess DEF C
    <2>3. QED
      BY <1>9, <2>2 DEF Count, U, Unclosed
  <1>10. ASSUME NEW c \in Caller, hand[c] \in Client, at[c] # "count",
                client' = [client EXCEPT ![hand[c]] = "closed"],
                Counting' = Counting, currentSize' = Decremented
         PROVE  currentSize' = currentSize - 1 /\ C' = C /\ U' = U - 1
    <2>1. hand[c] \in Unclosed
      BY <1>10 DEF OneOwner, NoClient, Client
    <2>6. Unclosed' = Unclosed \ {hand[c]}
      BY <1>10 DEF Unclosed, TypeOK
    <2>2. U' = U - 1
      BY <2>1, <2>6, Finiteness, OneLess DEF U
    <2>3. U >= C + 1
      BY <1>10, Countable DEF U, C
    <2>4. currentSize' = currentSize - 1
      BY <1>2, <1>10, <2>3 DEF Decremented
    <2>5. QED
      BY <1>10, <2>2, <2>4 DEF C
  <1>11. ASSUME NEW c \in Caller, Check(c)
         PROVE  \/ currentSize' = currentSize /\ Counting' = Counting /\ Unclosed' = Unclosed
                \/ currentSize' = currentSize - 1 /\ C' = C /\ U' = U - 1
    <2>1. Counting' = Counting /\ hand[c] \in Client /\ at[c] # "count"
      BY <1>11 DEF Check, From, Go, Counting, TypeOK
    <2>2. CASE client[hand[c]] = "open"
      BY <1>11, <2>1, <2>2 DEF Check, Unclosed
    <2>3. CASE ~(client[hand[c]] = "open")
      BY <1>10, <1>11, <2>1, <2>3 DEF Check
    <2>4. QED
      BY <2>2, <2>3
  <1>12. ASSUME NEW c \in Caller, ReturnDisposed(c)
         PROVE  currentSize' = currentSize - 1 /\ C' = C /\ U' = U - 1
    <2>1. Counting' = Counting /\ hand[c] \in Client /\ at[c] # "count"
      BY <1>12 DEF ReturnDisposed, Dispose, From, Go, Counting, TypeOK
    <2>2. QED
      BY <1>10, <1>12, <2>1 DEF ReturnDisposed, Dispose
  <1>13. CASE currentSize' = currentSize /\ C' = C + 1 /\ U' = U + 1
    BY <1>2, <1>13 DEF C, U
  <1>14. CASE currentSize' = currentSize + 1 /\ C' = C - 1 /\ U' = U
    BY <1>2, <1>14 DEF C, U
  <1>15. CASE currentSize' = currentSize - 1 /\ C' = C /\ U' = U - 1
    BY <1>2, <1>15 DEF C, U
  <1>16. QED
    BY <1>1, <1>4, <1>5, <1>6, <1>7, <1>8, <1>9, <1>11, <1>12, <1>13, <1>14, <1>15
       DEF Next, Step, GetConnection, ReturnConnection

(* Until the pool is stopped currentSize counts the existing clients, but  *)
(* for those just created.                                                 *)
THEOREM SizeIsExact == Spec => []SizeExact
  <1>1. Init => SizeExact
    <2> SUFFICES ASSUME Init PROVE SizeExact
      OBVIOUS
    <2>1. Counting = {} /\ Unclosed = {} /\ currentSize = 0
      BY DEF Init, Counting, Unclosed
    <2>2. QED
      BY <2>1, FS_EmptySet DEF SizeExact
  <1>2. Init => UsedStarted
    BY DEF Init, UsedStarted
  <1>3. QED
    BY <1>1, <1>2, TypeCorrect, ClientsHaveOneOwner, UsedStep, SizeStep, PTL DEF Spec

(* Callers, brokers and Stop never lose a client, nor currentSize its count. *)
THEOREM ClientsAreAccounted == Spec => []ClientsAccounted
  <1>1. OneOwner /\ SizeExact => ClientsAccounted
    BY DEF ClientsAccounted
  <1>2. QED
    BY <1>1, ClientsHaveOneOwner, SizeIsExact, PTL

-----------------------------------------------------------------------------
(***************************************************************************)
(* Alerts: for every set of alerts with ids of their own, every limit of   *)
(* active alerts and of history.                                           *)
(***************************************************************************)

\* What is known of an alert by its id, and an entry of the history.
Ids   == {a.id : a \in AlertSet}
Entry == [id : Ids, action : {"created", "status_changed"},
          old : {"none", "active", "acknowledged", "resolved"},
          new : {"active", "acknowledged", "resolved", "closed"}]

\* As far back as the history is kept, each entry tells the status the entry of
\* the same alert before it left.
Gapless(h) ==
  \A i, j \in 1 .. Len(h) :
    /\ i < j /\ h[i].id = h[j].id
    /\ \A n \in i + 1 .. j - 1 : h[n].id # h[i].id
    /\ h[j].action = "status_changed"
    => h[j].old = h[i].new /\ h[i].new # "closed"

\* The latest entry of each alert tells the status it has now.
LatestTells(h, alerts) ==
  \A i \in 1 .. Len(h) :
    (\A n \in i + 1 .. Len(h) : h[n].id # h[i].id)
      => IF h[i].id \in DOMAIN alerts THEN h[i].new = alerts[h[i].id] ELSE h[i].new = "closed"

\* The alerts that aggregations count; each shows the highest severity it counts.
Counted(groups)   == UNION {groups[k].ids : k \in DOMAIN groups}
GroupsHold(groups) == \A k \in DOMAIN groups : groups[k].ids \subseteq Ids /\ HasHighest(groups[k])

\* AlertsAreAccounted with what the next entry of the history relies on.
AMInv ==
  /\ \A id \in DOMAIN amAlerts : amAlerts[id] \in {"active", "acknowledged", "resolved"}
  /\ amHistory \in Seq(Entry) /\ Gapless(amHistory) /\ LatestTells(amHistory, amAlerts)
  /\ GroupsHold(amAggregations) /\ GroupsHold(amGroups)
  /\ amAdded \subseteq DOMAIN amAlerts \cup amClosed \cup amExpired \cup Counted(amAggregations)

-----------------------------------------------------------------------------
LEMMA SeverityKnown ==
  ASSUME NEW a \in AlertSet
  PROVE  SeverityOf(a.id) = a.severity /\ a.severity \in Int
  <1>1. (CHOOSE b \in AlertSet : b.id = a.id) \in AlertSet
        /\ (CHOOSE b \in AlertSet : b.id = a.id).id = a.id
    OBVIOUS
  <1>2. (CHOOSE b \in AlertSet : b.id = a.id) = a
    BY <1>1, AlertAssumption
  <1>3. QED
    BY <1>2, AlertAssumption DEF SeverityOf

LEMMA FirstHolds ==
  ASSUME NEW a \in AlertSet, NEW instant
  PROVE  /\ FirstOf(a, instant).ids = {a.id} /\ FirstOf(a, instant).ids \subseteq Ids
         /\ HasHighest(FirstOf(a, instant))
  <1>1. SeverityOf(a.id) = a.severity /\ a.severity \in Int
    BY SeverityKnown
  <1>2. FirstOf(a, instant).ids = {a.id} /\ FirstOf(a, instant).severity = a.severity
    BY DEF FirstOf
  <1>3. HasHighest(FirstOf(a, instant))
    BY <1>1, <1>2 DEF HasHighest
  <1>4. QED
    BY <1>2, <1>3 DEF Ids

LEMMA FoldHolds ==
  ASSUME NEW g, g.ids \subseteq Ids, HasHighest(g), NEW a \in AlertSet, NEW instant
  PROVE  /\ Fold(g, a, instant).ids = g.ids \cup {a.id} /\ Fold(g, a, instant).ids \subseteq Ids
         /\ HasHighest(Fold(g, a, instant))
  <1>1. SeverityOf(a.id) = a.severity /\ a.severity \in Int
    BY SeverityKnown
  <1>2. /\ Fold(g, a, instant).ids = g.ids \cup {a.id}
        /\ Fold(g, a, instant).severity = Highest(g.severity, a.severity)
    BY DEF Fold
  <1>3. \A id \in g.ids : SeverityOf(id) \in Int
    BY SeverityKnown DEF Ids
  <1>4. g.severity \in Int
    BY <1>3 DEF HasHighest
  <1>5. /\ Highest(g.severity, a.severity) \in {g.severity, a.severity}
        /\ g.severity <= Highest(g.severity, a.severity)
        /\ a.severity <= Highest(g.severity, a.severity)
    BY <1>1, <1>4 DEF Highest
  <1>6. \E id \in g.ids \cup {a.id} : SeverityOf(id) = Highest(g.severity, a.severity)
    BY <1>1, <1>5 DEF HasHighest
  <1>7. \A id \in g.ids \cup {a.id} : SeverityOf(id) <= Highest(g.severity, a.severity)
    <2>1. ASSUME NEW id \in g.ids PROVE SeverityOf(id) <= Highest(g.severity, a.severity)
      <3>1. SeverityOf(id) <= g.severity
        BY DEF HasHighest
      <3>2. QED
        BY <1>1, <1>3, <1>4, <1>5, <3>1
    <2>2. QED
      BY <1>1, <1>5, <2>1
  <1>8. QED
    BY <1>2, <1>6, <1>7 DEF HasHighest, Ids

LEMMA GroupsWith ==
  ASSUME NEW f, GroupsHold(f), NEW k, NEW g, g.ids \subseteq Ids, HasHighest(g),
         k \in DOMAIN f => f[k].ids \subseteq g.ids
  PROVE  /\ GroupsHold(With(f, k, g))
         /\ Counted(f) \cup g.ids \subseteq Counted(With(f, k, g))
  <1>1. /\ DOMAIN With(f, k, g) = DOMAIN f \cup {k} /\ With(f, k, g)[k] = g
        /\ \A x \in DOMAIN f \ {k} : With(f, k, g)[x] = f[x]
    BY DEF With
  <1>2. \A x \in DOMAIN f : f[x].ids \subseteq With(f, k, g)[x].ids
    BY <1>1
  <1>3. QED
    BY <1>1, <1>2 DEF GroupsHold, Counted

LEMMA GroupsMinus ==
  ASSUME NEW f, GroupsHold(f), NEW K
  PROVE  /\ GroupsHold(Minus(f, K))
         /\ Counted(f) \subseteq Counted(Minus(f, K)) \cup UNION {f[k].ids : k \in K}
  <1>1. DOMAIN Minus(f, K) = DOMAIN f \ K /\ \A x \in DOMAIN f \ K : Minus(f, K)[x] = f[x]
    BY DEF Minus
  <1>2. QED
    BY <1>1 DEF GroupsHold, Counted
-----------------------------------------------------------------------------
LEMMA TailTells ==
  ASSUME NEW h \in Seq(Entry), h # <<>>, NEW alerts, Gapless(h), LatestTells(h, alerts)
  PROVE  Tail(h) \in Seq(Entry) /\ Gapless(Tail(h)) /\ LatestTells(Tail(h), alerts)
  <1>1. /\ Tail(h) \in Seq(Entry) /\ Len(h) \in Nat /\ Len(Tail(h)) = Len(h) - 1
        /\ \A i \in 1 .. Len(h) - 1 : Tail(h)[i] = h[i + 1]
    BY HeadTailProperties, LenProperties
  <1> DEFINE t == Tail(h)
  <1>2. ASSUME NEW i \in 1 .. Len(t), NEW j \in 1 .. Len(t), i < j, t[i].id = t[j].id,
               \A n \in i + 1 .. j - 1 : t[n].id # t[i].id, t[j].action = "status_changed"
        PROVE  t[j].old = t[i].new /\ t[i].new # "closed"
    <2>1. /\ i + 1 \in 1 .. Len(h) /\ j + 1 \in 1 .. Len(h) /\ i + 1 < j + 1
          /\ t[i] = h[i + 1] /\ t[j] = h[j + 1]
      BY <1>1, <1>2
    <2>2. ASSUME NEW n \in (i + 1) + 1 .. (j + 1) - 1 PROVE h[n].id # h[i + 1].id
      <3>1. n - 1 \in i + 1 .. j - 1 /\ t[n - 1] = h[n]
        BY <1>1, <1>2
      <3>2. QED
        BY <1>2, <2>1, <3>1
    <2>3. QED
      BY <1>2, <2>1, <2>2 DEF Gapless
  <1>3. ASSUME NEW i \in 1 .. Len(t), \A n \in i + 1 .. Len(t) : t[n].id # t[i].id
        PROVE  IF t[i].id \in DOMAIN alerts THEN t[i].new = alerts[t[i].id] ELSE t[i].new = "closed"
    <2>1. i + 1 \in 1 .. Len(h) /\ t[i] = h[i + 1]
      BY <1>1
    <2>2. ASSUME NEW n \in (i + 1) + 1 .. Len(h) PROVE h[n].id # h[i + 1].id
      <3>1. n - 1 \in i + 1 .. Len(t) /\ t[n - 1] = h[n]
        BY <1>1
      <3>2. QED
        BY <1>3, <2>1, <3>1
    <2>3. QED
      BY <2>1, <2>2 DEF LatestTells
  <1>4. QED
    BY <1>1, <1>2, <1>3 DEF Gapless, LatestTells

LEMMA AppendTells ==
  ASSUME NEW h \in Seq(Entry), NEW e \in Entry, NEW alerts, NEW then,
         Gapless(h), LatestTells(h, alerts),
         e.action = "status_changed"
           => e.id \in DOMAIN alerts /\ e.old = alerts[e.id] /\ alerts[e.id] # "closed",
         IF e.id \in DOMAIN then THEN e.new = then[e.id] ELSE e.new = "closed",
         \A id : id # e.id => /\ id \in DOMAIN then <=> id \in DOMAIN alerts
                              /\ id \in DOMAIN then => then[id] = alerts[id]
  PROVE  /\ Append(h, e) \in Seq(Entry) /\ Append(h, e) # <<>>
         /\ Gapless(Append(h, e)) /\ LatestTells(Append(h, e), then)
  <1> DEFINE l == Append(h, e)
  <1>1. /\ l \in Seq(Entry) /\ Len(h) \in Nat /\ Len(l) = Len(h) + 1
        /\ l[Len(h) + 1] = e /\ \A i \in 1 .. Len(h) : l[i] = h[i]
    BY AppendProperties, LenProperties
  <1> HIDE DEF l
  <1>2. ASSUME NEW i \in 1 .. Len(l), NEW j \in 1 .. Len(l), i < j, l[i].id = l[j].id,
               \A n \in i + 1 .. j - 1 : l[n].id # l[i].id, l[j].action = "status_changed"
        PROVE  l[j].old = l[i].new /\ l[i].new # "closed"
    <2>1. i \in 1 .. Len(h) /\ l[i] = h[i]
      BY <1>1, <1>2
    <2>2. CASE j = Len(h) + 1
      <3>1. \A n \in i + 1 .. Len(h) : h[n].id # h[i].id
        BY <1>1, <1>2, <2>1, <2>2
      <3>2. l[j] = e
        BY <1>1, <2>2
      <3>3. h[i].id = e.id /\ e.action = "status_changed"
        BY <1>2, <2>1, <3>2
      <3>4. h[i].new = alerts[e.id]
        BY <2>1, <3>1, <3>3 DEF LatestTells
      <3>5. QED
        BY <2>1, <3>2, <3>3, <3>4
    <2>3. CASE j # Len(h) + 1
      <3>1. j \in 1 .. Len(h) /\ l[j] = h[j]
        BY <1>1, <2>3
      <3>2. \A n \in i + 1 .. j - 1 : h[n].id # h[i].id
        BY <1>1, <1>2, <2>1, <3>1
      <3>3. QED
        BY <1>2, <2>1, <3>1, <3>2 DEF Gapless
    <2>4. QED
      BY <2>2, <2>3
  <1>3. ASSUME NEW i \in 1 .. Len(l), \A n \in i + 1 .. Len(l) : l[n].id # l[i].id
        PROVE  IF l[i].id \in DOMAIN then THEN l[i].new = then[l[i].id] ELSE l[i].new = "closed"
    <2>1. CASE i = Len(h) + 1
      BY <1>1, <2>1
    <2>2. CASE i # Len(h) + 1
      <3>1. i \in 1 .. Len(h) /\ l[i] = h[i]
        BY <1>1, <2>2
      <3>2. \A n \in i + 1 .. Len(h) : h[n].id # h[i].id
        BY <1>1, <1>3, <3>1
      <3>3. h[i].id # e.id
        <4>1. Len(h) + 1 \in i + 1 .. Len(l)
          BY <1>1, <3>1
        <4>2. QED
          BY <1>1, <1>3, <3>1, <4>1
      <3>4. IF h[i].id \in DOMAIN alerts THEN h[i].new = alerts[h[i].id] ELSE h[i].new = "closed"
        BY <3>1, <3>2 DEF LatestTells
      <3>5. QED
        BY <3>1, <3>3, <3>4
    <2>3. QED
      BY <2>1, <2>2
  <1>4. Gapless(l) /\ LatestTells(l, then)
    BY <1>2, <1>3 DEF Gapless, LatestTells
  <1>5. l # <<>>
    BY <1>1
  <1>6. QED
    BY <1>1, <1>4, <1>5 DEF l

\* The history stays gapless when its first entry is dropped, too.
LEMMA HistoryTells ==
  ASSUME AMInv, NEW e \in Entry, AddHistory(e),
         e.action = "status_changed" => e.id \in DOMAIN amAlerts /\ e.old = amAlerts[e.id],
         IF e.id \in DOMAIN amAlerts' THEN e.new = amAlerts'[e.id] ELSE e.new = "closed",
         \A id : id # e.id => /\ id \in DOMAIN amAlerts' <=> id \in DOMAIN amAlerts
                              /\ id \in DOMAIN amAlerts' => amAlerts'[id] = amAlerts[id]
  PROVE  amHistory' \in Seq(Entry) /\ Gapless(amHistory') /\ LatestTells(amHistory', amAlerts')
  <1> DEFINE longer == Append(amHistory, e)
  <1>1. amHistory \in Seq(Entry) /\ Gapless(amHistory) /\ LatestTells(amHistory, amAlerts)
    BY DEF AMInv
  <1>2. e.action = "status_changed"
          => e.id \in DOMAIN amAlerts /\ e.old = amAlerts[e.id] /\ amAlerts[e.id] # "closed"
    BY DEF AMInv
  <1>3. longer \in Seq(Entry) /\ longer # <<>> /\ Gapless(longer) /\ LatestTells(longer, amAlerts')
    BY <1>1, <1>2, AppendTells
  <1>4. amHistory' = longer \/ amHistory' = Tail(longer)
    BY DEF AddHistory
  <1>5. QED
    BY <1>3, <1>4, TailTells

LEMMA AMInitially == AMInit => AMInv
  <1> SUFFICES ASSUME AMInit PROVE AMInv
    OBVIOUS
  <1>1. amHistory = <<>> /\ amAlerts = <<>> /\ amAggregations = <<>> /\ amGroups = <<>> /\ amAdded = {}
    BY DEF AMInit
  <1>2. <<>> \in Seq(Entry) /\ Len(<<>>) = 0 /\ DOMAIN <<>> = {}
    OBVIOUS
  <1>3. Gapless(amHistory) /\ LatestTells(amHistory, amAlerts)
    BY <1>1, <1>2 DEF Gapless, LatestTells
  <1>4. GroupsHold(amAggregations) /\ GroupsHold(amGroups)
    BY <1>1, <1>2 DEF GroupsHold
  <1>5. QED
    BY <1>1, <1>2, <1>3, <1>4 DEF AMInv

LEMMA StoreStep ==
  ASSUME AMInv, NEW a \in AlertSet, Store(a)
  PROVE  /\ DOMAIN amAlerts' = DOMAIN amAlerts \cup {a.id}
         /\ \A id \in DOMAIN amAlerts' : amAlerts'[id] \in {"active", "acknowledged", "resolved"}
         /\ amHistory' \in Seq(Entry) /\ Gapless(amHistory') /\ LatestTells(amHistory', amAlerts')
  <1> DEFINE e == [id |-> a.id, action |-> "created", old |-> "none", new |-> "active"]
  <1>1. e \in Entry /\ e.action # "status_changed" /\ AddHistory(e)
    BY DEF Store, Entry, Ids
  <1>2. /\ DOMAIN amAlerts' = DOMAIN amAlerts \cup {a.id} /\ amAlerts'[a.id] = "active"
        /\ \A id \in DOMAIN amAlerts \ {a.id} : amAlerts'[id] = amAlerts[id]
    BY DEF Store, With
  <1>3. /\ IF e.id \in DOMAIN amAlerts' THEN e.new = amAlerts'[e.id] ELSE e.new = "closed"
        /\ \A id : id # e.id => /\ id \in DOMAIN amAlerts' <=> id \in DOMAIN amAlerts
                                /\ id \in DOMAIN amAlerts' => amAlerts'[id] = amAlerts[id]
    BY <1>2
  <1> HIDE DEF e
  <1>4. amHistory' \in Seq(Entry) /\ Gapless(amHistory') /\ LatestTells(amHistory', amAlerts')
    BY <1>1, <1>3, HistoryTells
  <1>5. \A id \in DOMAIN amAlerts' : amAlerts'[id] \in {"active", "acknowledged", "resolved"}
    BY <1>2 DEF AMInv
  <1>6. QED
    BY <1>2, <1>4, <1>5

LEMMA AddAlertStep ==
  ASSUME AMInv, NEW a \in AlertSet, NEW instant, AddAlert(a, instant)
  PROVE  AMInv'
  <1>1. amAdded' = amAdded \cup {a.id} /\ UNCHANGED <<amGroups, amClosed, amExpired>>
    BY DEF AddAlert
  <1>2. GroupsHold(amAggregations) /\ GroupsHold(amGroups)
    BY DEF AMInv
  <1>3. CASE a.key \notin DOMAIN amAggregations
    <2>1. amAggregations' = With(amAggregations, a.key, FirstOf(a, instant)) /\ Store(a)
      BY <1>3 DEF AddAlert
    <2>2. FirstOf(a, instant).ids \subseteq Ids /\ HasHighest(FirstOf(a, instant))
      BY FirstHolds
    <2>3. GroupsHold(amAggregations') /\ Counted(amAggregations) \subseteq Counted(amAggregations')
      BY <1>2, <1>3, <2>1, <2>2, GroupsWith
    <2>4. QED
      BY <1>1, <2>1, <2>3, StoreStep DEF AMInv
  <1>4. CASE a.key \in DOMAIN amAggregations /\ InWindow(amAggregations[a.key])
    <2> DEFINE g == amAggregations[a.key]
    <2>1. /\ amAggregations' = With(amAggregations, a.key, Fold(g, a, instant))
          /\ UNCHANGED <<amAlerts, amHistory>>
      BY <1>4 DEF AddAlert
    <2>2. g.ids \subseteq Ids /\ HasHighest(g)
      BY <1>2, <1>4 DEF GroupsHold
    <2>3. /\ Fold(g, a, instant).ids = g.ids \cup {a.id} /\ Fold(g, a, instant).ids \subseteq Ids
          /\ HasHighest(Fold(g, a, instant))
      BY <2>2, FoldHolds
    <2>4. /\ GroupsHold(amAggregations')
          /\ Counted(amAggregations) \cup Fold(g, a, instant).ids \subseteq Counted(amAggregations')
      BY <1>2, <2>1, <2>3, GroupsWith
    <2>5. QED
      BY <1>1, <2>1, <2>3, <2>4 DEF AMInv
  <1>5. CASE a.key \in DOMAIN amAggregations /\ ~InWindow(amAggregations[a.key])
    <2>1. UNCHANGED amAggregations /\ Store(a)
      BY <1>5 DEF AddAlert
    <2>2. QED
      BY <1>1, <2>1, StoreStep DEF AMInv
  <1>6. QED
    BY <1>3, <1>4, <1>5

LEMMA UpdateStatusStep ==
  ASSUME AMInv, NEW a \in AlertSet,
         NEW new \in {"active", "acknowledged", "resolved", "closed"}, UpdateAlertStatus(a.id, new)
  PROVE  AMInv'
  <1> DEFINE e == [id |-> a.id, action |-> "status_changed", old |-> amAlerts[a.id], new |-> new]
  <1>1. /\ a.id \in DOMAIN amAlerts /\ AddHistory(e)
        /\ amAlerts' = IF new = "closed" THEN Minus(amAlerts, {a.id})
                                         ELSE [amAlerts EXCEPT ![a.id] = new]
        /\ amClosed' = IF new = "closed" THEN amClosed \cup {a.id} ELSE amClosed
        /\ UNCHANGED <<amAggregations, amGroups, amAdded, amExpired>>
    BY DEF UpdateAlertStatus
  <1>2. e \in Entry
    BY <1>1 DEF AMInv, Entry, Ids
  <1>3. /\ DOMAIN amAlerts' = IF new = "closed" THEN DOMAIN amAlerts \ {a.id} ELSE DOMAIN amAlerts
        /\ new # "closed" => amAlerts'[a.id] = new
        /\ \A id \in DOMAIN amAlerts \ {a.id} : amAlerts'[id] = amAlerts[id]
    <2>1. CASE new = "closed"
      BY <1>1, <2>1 DEF Minus
    <2>2. CASE new # "closed"
      BY <1>1, <2>2
    <2>3. QED
      BY <2>1, <2>2
  <1>4. /\ e.action = "status_changed" => e.id \in DOMAIN amAlerts /\ e.old = amAlerts[e.id]
        /\ IF e.id \in DOMAIN amAlerts' THEN e.new = amAlerts'[e.id] ELSE e.new = "closed"
        /\ \A id : id # e.id => /\ id \in DOMAIN amAlerts' <=> id \in DOMAIN amAlerts
                                /\ id \in DOMAIN amAlerts' => amAlerts'[id] = amAlerts[id]
    BY <1>1, <1>3
  <1> HIDE DEF e
  <1>5. amHistory' \in Seq(Entry) /\ Gapless(amHistory') /\ LatestTells(amHistory', amAlerts')
    BY <1>1, <1>2, <1>4, HistoryTells
  <1>6. \A id \in DOMAIN amAlerts' : amAlerts'[id] \in {"active", "acknowledged", "resolved"}
    BY <1>3 DEF AMInv
  <1>7. DOMAIN amAlerts \cup amClosed \subseteq DOMAIN amAlerts' \cup amClosed'
    BY <1>1, <1>3
  <1>8. QED
    BY <1>1, <1>5, <1>6, <1>7 DEF AMInv

LEMMA GroupsStep ==
  ASSUME AMInv,
         CleanupExpiredAggregations \/ CleanupExpired \/ (\E a \in AlertSet : Aggregate(a))
  PROVE  AMInv'
  <1>1. GroupsHold(amAggregations) /\ GroupsHold(amGroups)
    BY DEF AMInv
  <1>2. CASE CleanupExpiredAggregations
    <2> DEFINE expired == {k \in DOMAIN amAggregations : amNow - amAggregations[k].last > 2 * Window}
    <2>1. /\ amAggregations' = Minus(amAggregations, expired)
          /\ amExpired' = amExpired \cup UNION {amAggregations[k].ids : k \in expired}
          /\ UNCHANGED <<amAlerts, amHistory, amGroups, amAdded, amClosed>>
      BY <1>2 DEF CleanupExpiredAggregations
    <2> HIDE DEF expired
    <2>2. /\ GroupsHold(amAggregations')
          /\ Counted(amAggregations) \subseteq
               Counted(amAggregations') \cup UNION {amAggregations[k].ids : k \in expired}
      BY <1>1, <2>1, GroupsMinus
    <2>3. QED
      BY <2>1, <2>2 DEF AMInv
  <1>3. ASSUME UNCHANGED <<amAlerts, amAggregations, amHistory, amAdded, amClosed, amExpired>>,
               GroupsHold(amGroups')
        PROVE  AMInv'
    BY <1>3 DEF AMInv
  <1>4. CASE CleanupExpired
    BY <1>1, <1>3, <1>4, GroupsMinus DEF CleanupExpired
  <1>5. ASSUME NEW a \in AlertSet, Aggregate(a) PROVE AMInv'
    <2> DEFINE folds == a.key \in DOMAIN amGroups /\ amNow - amGroups[a.key].last <= Window
               g == IF folds THEN Fold(amGroups[a.key], a, amNow) ELSE FirstOf(a, amNow)
    <2>1. /\ amGroups' = With(amGroups, a.key, g)
          /\ UNCHANGED <<amAlerts, amAggregations, amHistory, amAdded, amClosed, amExpired>>
      BY <1>5 DEF Aggregate
    <2>2. g.ids \subseteq Ids /\ HasHighest(g)
      <3>1. CASE folds
        <4>1. amGroups[a.key].ids \subseteq Ids /\ HasHighest(amGroups[a.key])
          BY <1>1, <3>1 DEF GroupsHold
        <4>2. QED
          BY <3>1, <4>1, FoldHolds
      <3>2. CASE ~folds
        BY <3>2, FirstHolds
      <3>3. QED
        BY <3>1, <3>2
    <2> HIDE DEF g
    <2>3. GroupsHold(amGroups')
      BY <1>1, <2>1, <2>2 DEF GroupsHold, With
    <2>4. QED
      BY <1>3, <2>1, <2>3
  <1>6. QED
    BY <1>2, <1>4, <1>5

LEMMA AMStep == AMInv /\ [AMNext]_amVars => AMInv'
  <1> SUFFICES ASSUME AMInv, [AMNext]_amVars PROVE AMInv'
    OBVIOUS
  <1>1. ASSUME NEW a \in AlertSet, NEW late \in 0 .. 1, AddAlert(a, amNow - late) PROVE AMInv'
    BY <1>1, AddAlertStep
  <1>2. ASSUME NEW a \in AlertSet, NEW new \in {"active", "acknowledged", "resolved", "closed"},
               UpdateAlertStatus(a.id, new)
        PROVE  AMInv'
    BY <1>2, UpdateStatusStep
  <1>3. CASE CleanupExpiredAggregations \/ CleanupExpired \/ (\E a \in AlertSet : Aggregate(a))
    BY <1>3, GroupsStep
  <1>4. CASE Tick \/ UNCHANGED amVars
    BY <1>4 DEF Tick, amVars, AMInv
  <1>5. QED
    BY <1>1, <1>2, <1>3, <1>4 DEF AMNext

\* Every alert AddAlert and Aggregate take in is stored, closed, expired or counted
\* in an aggregation that shows the highest severity it counts, and the history
\* tells each alert's statuses without a gap (AlertsAreAccounted).
THEOREM AlertsAccounted == AMSpec => []AlertsAreAccounted
  <1>1. AMInv => AlertsAreAccounted
    BY DEF AMInv, AlertsAreAccounted, Gapless, GroupsHold, Counted
  <1>2. QED
    BY AMInitially, AMStep, <1>1, PTL DEF AMSpec

-----------------------------------------------------------------------------
(***************************************************************************)
(* ConfigWatcher: for any number of saves.                                 *)
(***************************************************************************)

\* What the system tells of the file.
FileEvent == {"write", "remove", "chmod"}

\* What the watcher's variables hold; a save in progress is what makes the file
\* half written.
CWTypeOK ==
  /\ cwFile \in Nat \cup {Gone} /\ cwSaves \in Nat \ {0} /\ cwCurrent \in Nat
  /\ cwEvents \in Seq(FileEvent)
  /\ cwSaving \in BOOLEAN /\ cwAlone \in BOOLEAN /\ cwRecent \in BOOLEAN
  /\ cwSaving => cwFile = Half
  /\ cwAlone => cwFile = IF cwSaving THEN Half ELSE cwSaves

\* The first event of a lone save has not been handled yet, and will be let through.
FirstEventComes == ~cwRecent /\ cwEvents # <<>> /\ Head(cwEvents) = "write"

\* A lone save is still to be loaded, has been, or was found half written.
LoneSave ==
  cwAlone => FirstEventComes \/ cwHalfRead \/ (~cwSaving /\ cwCurrent = cwFile)

\* The inductive invariant of the watcher.
CWInv == CWTypeOK /\ LoneSave

LEMMA CWInitially == CWInit => CWInv
  <1> SUFFICES ASSUME CWInit PROVE CWInv
    OBVIOUS
  <1>1. cwEvents \in Seq(FileEvent)
    BY EmptySeq DEF CWInit
  <1>2. /\ cwFile \in Nat /\ cwSaves \in Nat \ {0} /\ cwCurrent \in Nat
    BY DEF CWInit
  <1>3. ~cwSaving /\ ~cwAlone /\ cwRecent = FALSE /\ cwSaving = FALSE /\ cwAlone = FALSE
    BY DEF CWInit
  <1>4. QED
    BY <1>1, <1>2, <1>3 DEF CWInv, CWTypeOK, LoneSave

LEMMA QueuedEvent ==
  ASSUME NEW q \in Seq(FileEvent), NEW e \in FileEvent
  PROVE  /\ Append(q, e) \in Seq(FileEvent) /\ Append(q, e) # <<>>
         /\ Head(Append(q, e)) = IF q = <<>> THEN e ELSE Head(q)
  BY AppendProperties, HeadTailAppend

LEMMA CWStep == CWInv /\ [CWNext]_cwVars => CWInv'
  <1> SUFFICES ASSUME CWInv, [CWNext]_cwVars PROVE CWInv'
    OBVIOUS
  <1> USE DEF Half, Gone
  <1>1. CASE Truncate
    <2>1. /\ cwEvents' \in Seq(FileEvent) /\ cwEvents' # <<>>
          /\ cwEvents = <<>> => Head(cwEvents') = "write"
      BY <1>1, QueuedEvent DEF Truncate, CWInv, CWTypeOK, FileEvent
    <2>2. cwAlone' \in BOOLEAN /\ (cwAlone' => cwEvents = <<>> /\ ~cwRecent)
      BY <1>1 DEF Truncate
    <2>3. CWTypeOK'
      BY <1>1, <2>1, <2>2 DEF Truncate, CWInv, CWTypeOK, loop
    <2>4. LoneSave'
      BY <1>1, <2>1, <2>2 DEF Truncate, LoneSave, FirstEventComes
    <2>5. QED
      BY <2>3, <2>4 DEF CWInv
  <1>2. CASE Write
    <2>1. /\ cwEvents' \in Seq(FileEvent) /\ cwEvents' # <<>>
          /\ cwEvents # <<>> => Head(cwEvents') = Head(cwEvents)
      BY <1>2, QueuedEvent DEF Write, CWInv, CWTypeOK, FileEvent
    <2>2. CWTypeOK'
      BY <1>2, <2>1 DEF Write, CWInv, CWTypeOK, loop, config
    <2>3. LoneSave'
      BY <1>2, <2>1 DEF Write, CWInv, LoneSave, FirstEventComes, config
    <2>4. QED
      BY <2>2, <2>3 DEF CWInv
  <1>3. CASE RemoveFile
    <2>1. cwEvents' \in Seq(FileEvent)
      BY <1>3, QueuedEvent DEF RemoveFile, CWInv, CWTypeOK, FileEvent
    <2>2. QED
      BY <1>3, <2>1 DEF RemoveFile, CWInv, CWTypeOK, LoneSave, config, loop
  <1>4. CASE Chmod
    <2>1. cwEvents' \in Seq(FileEvent)
      BY <1>4, QueuedEvent DEF Chmod, CWInv, CWTypeOK, FileEvent
    <2>2. cwAlone' \in BOOLEAN /\ (cwAlone' => cwAlone /\ ~cwSaving /\ cwEvents = <<>>)
      BY <1>4 DEF Chmod
    <2>3. UNCHANGED <<cwFile, cwSaves, cwSaving, cwRecent, cwCurrent, cwHalfRead>>
      BY <1>4 DEF Chmod, config
    <2>4. QED
      BY <2>1, <2>2, <2>3 DEF CWInv, CWTypeOK, LoneSave, FirstEventComes
  <1>5. CASE DebouncePasses
    BY <1>5 DEF DebouncePasses, CWInv, CWTypeOK, LoneSave, FirstEventComes, file, config
  <1>6. CASE HandleFileEvent
    <2>1. cwEvents' \in Seq(FileEvent) /\ Head(cwEvents) \in FileEvent
      BY <1>6, HeadTailProperties DEF HandleFileEvent, CWInv, CWTypeOK
    <2>2. UNCHANGED <<cwFile, cwSaves, cwSaving, cwAlone>>
      BY <1>6 DEF HandleFileEvent, file
    <2>3. CASE cwRecent
      BY <1>6, <2>1, <2>2, <2>3
         DEF HandleFileEvent, CWInv, CWTypeOK, LoneSave, FirstEventComes, config
    <2>4. CASE ~cwRecent
      <3>1. cwRecent' = TRUE /\ HandleConfigChange(Head(cwEvents))
        BY <1>6, <2>4 DEF HandleFileEvent
      <3>2. CWTypeOK'
        BY <2>1, <2>2, <3>1 DEF HandleConfigChange, CWInv, CWTypeOK, config
      <3>3. CASE Head(cwEvents) \in {"remove", "chmod"}
        BY <2>2, <3>1, <3>2, <3>3
           DEF HandleConfigChange, CWInv, LoneSave, FirstEventComes, config
      <3>4. CASE Head(cwEvents) = "write"
        BY <2>2, <3>1, <3>2, <3>4 DEF HandleConfigChange, CWInv, CWTypeOK, LoneSave
      <3>5. QED
        BY <2>1, <3>3, <3>4 DEF FileEvent
    <2>5. QED
      BY <2>3, <2>4
  <1>7. CASE WatcherStart \/ WatcherStop \/ WatchLoopEnds
    BY <1>7 DEF WatcherStart, WatcherStop, WatchLoopEnds, CWInv, CWTypeOK, LoneSave,
                FirstEventComes, file, config
  <1>8. CASE UNCHANGED cwVars
    BY <1>8 DEF cwVars, CWInv, CWTypeOK, LoneSave, FirstEventComes, file, config
  <1>9. QED
    BY <1>1, <1>2, <1>3, <1>4, <1>5, <1>6, <1>7, <1>8 DEF CWNext

(* A save made alone is loaded once its events are handled, or an event     *)
(* found the file half written (LoneSaveIsLoaded).                          *)
THEOREM LoneSavesAreLoaded == CWSpec => []LoneSaveIsLoaded
  <1>1. CWInv => LoneSaveIsLoaded
    BY DEF CWInv, LoneSave, FirstEventComes, LoneSaveIsLoaded
  <1>2. QED
    BY <1>1, CWInitially, CWStep, PTL DEF CWSpec

-----------------------------------------------------------------------------
(***************************************************************************)
(* DemoHub: for every set of sockets and of messages.                      *)
(***************************************************************************)

\* What the hub's variables hold.
DHTypeOK ==
  /\ dhReader \in [Socket -> {"new", "registering", "reading", "filtering", "leaving", "gone"}]
  /\ dhClients \subseteq Socket
  /\ DOMAIN dhSend = Socket /\ dhTogether \in BOOLEAN /\ dhPanic \in BOOLEAN
  /\ \A s \in Socket : DOMAIN dhSend[s] = {"length", "closed"} /\ dhSend[s].closed \in BOOLEAN
  /\ DOMAIN dhClaim = Claim
  /\ \A b \in Claim : /\ DOMAIN dhClaim[b] = {"does", "at", "seen"}
                      /\ dhClaim[b].does \in {"wait", "next", "send", "drop"}

\* A client that was taken into the map, and a claim at work on one of the clients.
Registered(s) == dhReader[s] \in {"reading", "filtering", "leaving", "gone"}
Serves(b) == dhClaim[b].does \in {"send", "drop"}

\* The map holds registered clients; a claim serves a client that was registered,
\* and is one still unless another claim has dropped it meanwhile.
ServesClients ==
  /\ \A s \in dhClients : Registered(s)
  /\ \A b \in Claim : Serves(b) =>
       /\ dhClaim[b].at \in Socket /\ Registered(dhClaim[b].at)
       /\ dhTogether \/ dhClaim[b].at \in dhClients

\* The inductive invariant of the hub.
DHInv == DHTypeOK /\ ServesClients /\ OnlyRacesPanic

LEMMA DHInitially == DHInit => DHInv
  <1> SUFFICES ASSUME DHInit PROVE DHInv
    OBVIOUS
  <1>1. DHTypeOK
    BY DEF DHInit, DHTypeOK, Resting
  <1>2. ServesClients
    BY DEF DHInit, ServesClients, Serves, Resting
  <1>3. ClosedWhenGone
    BY DEF DHInit, ClosedWhenGone
  <1>4. QED
    BY <1>1, <1>2, <1>3 DEF DHInv, OnlyRacesPanic, DHInit

\* A reader's steps but for the last change neither map nor channels.
LEMMA ReaderMoves ==
  ASSUME DHInv, ~dhPanic, NEW s \in Socket, NEW from, NEW to,
         Reads(s, from, to), UNCHANGED <<dhClients, dhSend, dhPanic>>,
         \/ from = "new" /\ to = "registering"
         \/ from \in {"reading", "filtering"} /\ to \in {"reading", "filtering", "leaving"}
  PROVE  DHInv'
  <1>1. /\ dhReader[s] = from /\ dhReader' = [dhReader EXCEPT ![s] = to]
        /\ UNCHANGED <<dhClaim, dhTogether>>
    BY DEF Reads, claims
  <1>2. DHTypeOK'
    BY <1>1 DEF DHInv, DHTypeOK
  <1>3. \A t \in Socket : Registered(t)' <=> Registered(t)
    BY <1>1 DEF Registered, DHInv, DHTypeOK
  <1>4. QED
    BY <1>1, <1>2, <1>3
       DEF DHInv, ServesClients, Serves, OnlyRacesPanic, ClosedWhenGone, Registered,
           DHTypeOK

LEMMA DHStep == DHInv /\ [DHNext]_dhVars => DHInv'
  <1> SUFFICES ASSUME DHInv, [DHNext]_dhVars PROVE DHInv'
    OBVIOUS
  <1>0. CASE UNCHANGED dhVars
    BY <1>0 DEF dhVars, sockets, startup, claims, DHInv, DHTypeOK, ServesClients, Serves,
                Registered, OnlyRacesPanic, ClosedWhenGone
  <1> SUFFICES ASSUME ~dhPanic, DHNext PROVE DHInv'
    BY <1>0 DEF DHNext
  <1>a. ClosedWhenGone
    BY DEF DHInv, OnlyRacesPanic
  <1>1. CASE MainWaits \/ MainServes \/ Setup \/ ConsumeFails
    BY <1>1 DEF MainWaits, MainServes, Setup, ConsumeFails, sockets, claims, DHInv, DHTypeOK,
                ServesClients, Serves, Registered, OnlyRacesPanic, ClosedWhenGone
  <1>2. ASSUME NEW s \in Socket, ServeWS(s) \/ SetFilter(s) \/ FilterSet(s) \/ ReadFails(s)
        PROVE  DHInv'
    BY <1>2, ReaderMoves DEF ServeWS, SetFilter, FilterSet, ReadFails
  <1>3. ASSUME NEW s \in Socket, Register(s) PROVE DHInv'
    <2>1. /\ dhReader[s] = "registering" /\ dhReader' = [dhReader EXCEPT ![s] = "reading"]
          /\ dhClients' = dhClients \cup {s}
          /\ UNCHANGED <<dhClaim, dhTogether, dhSend, dhPanic>>
          /\ \A b \in Claim : dhClaim[b].does = "wait"
      BY <1>3 DEF Register, Reads, claims, Unread, Broadcasting
    <2>2. DHTypeOK'
      BY <2>1 DEF DHInv, DHTypeOK
    <2>3. ServesClients'
      BY <2>1 DEF DHInv, DHTypeOK, ServesClients, Serves, Registered
    <2>4. ClosedWhenGone'
      BY <1>a, <2>1 DEF ClosedWhenGone, DHInv, DHTypeOK
    <2>5. QED
      BY <2>1, <2>2, <2>3, <2>4 DEF DHInv, OnlyRacesPanic
  <1>4. ASSUME NEW s \in Socket, Unregister(s) PROVE DHInv'
    <2>1. /\ dhReader[s] = "leaving" /\ dhReader' = [dhReader EXCEPT ![s] = "gone"]
          /\ dhClients' = dhClients \ {s} /\ UNCHANGED <<dhClaim, dhTogether>>
          /\ IF s \in dhClients
             THEN /\ dhSend' = [dhSend EXCEPT ![s].closed = TRUE] /\ dhPanic' = dhSend[s].closed
             ELSE UNCHANGED <<dhSend, dhPanic>>
          /\ \A b \in Claim : dhClaim[b].does = "wait"
      BY <1>4 DEF Unregister, Reads, CloseSend, claims, Unread, Broadcasting
    <2>2. dhPanic' = FALSE
      BY <1>a, <2>1 DEF ClosedWhenGone, DHInv, DHTypeOK
    <2>3. DHTypeOK'
      <3>1. dhSend' = dhSend \/ dhSend' = [dhSend EXCEPT ![s].closed = TRUE]
        BY <2>1
      <3>2. QED
        BY <2>1, <2>2, <3>1 DEF DHInv, DHTypeOK
    <2>4. ServesClients'
      BY <2>1 DEF DHInv, DHTypeOK, ServesClients, Serves, Registered
    <2>5. ClosedWhenGone'
      BY <1>a, <2>1 DEF ClosedWhenGone, DHInv, DHTypeOK
    <2>6. QED
      BY <2>2, <2>3, <2>4, <2>5 DEF DHInv, OnlyRacesPanic
  <1>5. ASSUME NEW s \in Socket, WritePump(s) \/ WriteFails(s) PROVE DHInv'
    <2>1. /\ UNCHANGED <<dhReader, dhClaim, dhClients, dhTogether, dhPanic>>
          /\ dhSend' = dhSend \/ dhSend' = [dhSend EXCEPT ![s].length = 0]
      BY <1>5 DEF WritePump, WriteFails, claims
    <2>2. DHTypeOK' /\ \A t \in Socket : dhSend'[t].closed = dhSend[t].closed
      BY <2>1 DEF DHInv, DHTypeOK
    <2>3. QED
      BY <2>1, <2>2
         DEF DHInv, ServesClients, Serves, Registered, OnlyRacesPanic, ClosedWhenGone
  <1>6. ASSUME NEW b \in Claim, ConsumeClaim(b) \/ BroadcastEnds(b) PROVE DHInv'
    <2>1. /\ UNCHANGED <<dhReader, dhClients, dhSend, dhTogether, dhPanic>>
          /\ dhClaim' \in {[dhClaim EXCEPT ![b].does = "next"], [dhClaim EXCEPT ![b] = Resting]}
      BY <1>6 DEF ConsumeClaim, BroadcastEnds, sockets
    <2>2. DHTypeOK' /\ ~Serves(b)' /\ \A c \in Claim \ {b} : dhClaim'[c] = dhClaim[c]
      BY <2>1 DEF DHInv, DHTypeOK, Resting, Serves
    <2>3. ServesClients'
      BY <2>1, <2>2 DEF DHInv, ServesClients, Serves, Registered
    <2>4. QED
      BY <2>1, <2>2, <2>3 DEF DHInv, OnlyRacesPanic, ClosedWhenGone
  <1>7. ASSUME NEW b \in Claim, NEW s \in Socket, NextClient(b, s) PROVE DHInv'
    <2>1. /\ UNCHANGED <<dhReader, dhClients, dhSend, dhTogether>> /\ s \in dhClients
          /\ \E matches \in BOOLEAN : Moves(b, IF matches THEN "send" ELSE "next", s)
      BY <1>7 DEF NextClient, sockets
    <2>2. dhPanic' \in BOOLEAN /\ (dhPanic' => dhReader'[s] = "filtering")
      BY <1>7, <2>1 DEF NextClient
    <2>3. PICK does \in {"send", "next"} :
            dhClaim' = [dhClaim EXCEPT ![b] = [does |-> does, at |-> s, seen |-> @.seen \cup {s}]]
      BY <2>1 DEF Moves
    <2>4. DHTypeOK'
      BY <2>1, <2>2, <2>3 DEF DHInv, DHTypeOK
    <2>5. Registered(s)
      BY <2>1 DEF DHInv, ServesClients
    <2>6. ServesClients'
      BY <2>1, <2>3, <2>5 DEF DHInv, DHTypeOK, ServesClients, Serves, Registered
    <2>7. QED
      BY <1>a, <2>1, <2>2, <2>4, <2>6 DEF DHInv, OnlyRacesPanic, ClosedWhenGone
  <1>8. ASSUME NEW b \in Claim, SendTo(b) PROVE DHInv'
    <2> DEFINE s == dhClaim[b].at
    <2>1. /\ UNCHANGED <<dhReader, dhClients, dhTogether>>
          /\ dhClaim[b].does = "send" /\ dhPanic' = dhSend[s].closed
          /\ dhSend' \in {dhSend, [dhSend EXCEPT ![s].length = @ + 1]}
          /\ Moves(b, "next", s) \/ Moves(b, "drop", s)
      BY <1>8 DEF SendTo, sockets
    <2>2. s \in Socket /\ Registered(s) /\ (dhTogether \/ s \in dhClients)
      BY <2>1 DEF DHInv, ServesClients, Serves
    <2>3. PICK does \in {"drop", "next"} :
            dhClaim' = [dhClaim EXCEPT ![b] = [does |-> does, at |-> s, seen |-> @.seen \cup {s}]]
      BY <2>1 DEF Moves
    <2>4. dhPanic' \in BOOLEAN /\ (dhPanic' => dhTogether')
      BY <1>a, <2>1, <2>2 DEF ClosedWhenGone, DHInv, DHTypeOK
    <2>5. \A t \in Socket : dhSend'[t].closed = dhSend[t].closed
      BY <2>1 DEF DHInv, DHTypeOK
    <2>6. DHTypeOK'
      BY <2>1, <2>2, <2>3, <2>4 DEF DHInv, DHTypeOK
    <2>7. ServesClients'
      BY <2>1, <2>2, <2>3 DEF DHInv, DHTypeOK, ServesClients, Serves, Registered
    <2>8. QED
      BY <1>a, <2>1, <2>4, <2>5, <2>6, <2>7 DEF DHInv, OnlyRacesPanic, ClosedWhenGone
  <1>9. ASSUME NEW b \in Claim, DropClient(b) PROVE DHInv'
    <2> DEFINE s == dhClaim[b].at
               together == \E c \in Claim \ {b} : Broadcasting(c)
    <2>1. /\ UNCHANGED dhReader /\ dhClaim[b].does = "drop"
          /\ dhClients' = dhClients \ {s} /\ dhSend' = [dhSend EXCEPT ![s].closed = TRUE]
          /\ dhTogether' = (dhTogether \/ together)
          /\ dhPanic' \in {dhSend[s].closed, dhSend[s].closed \/ together}
          /\ dhClaim' = [dhClaim EXCEPT ![b] = [does |-> "next", at |-> s, seen |-> @.seen \cup {s}]]
      BY <1>9 DEF DropClient, sockets, Moves
    <2>2. s \in Socket /\ Registered(s) /\ (dhTogether \/ s \in dhClients)
      BY <2>1 DEF DHInv, ServesClients, Serves
    <2>3. dhPanic' \in BOOLEAN /\ dhTogether' \in BOOLEAN
      BY <2>1, <2>2 DEF DHInv, DHTypeOK
    <2>4. dhPanic' => dhTogether'
      BY <1>a, <2>1, <2>2 DEF ClosedWhenGone
    <2>5. DHTypeOK'
      BY <2>1, <2>2, <2>3 DEF DHInv, DHTypeOK
    <2>6. ServesClients'
      <3>1. ~Serves(b)' /\ \A c \in Claim \ {b} : dhClaim'[c] = dhClaim[c]
        BY <2>1 DEF Serves, DHInv, DHTypeOK
      <3>2. \A c \in Claim \ {b} : Serves(c) => dhTogether'
        BY <2>1 DEF Serves, Broadcasting
      <3>3. QED
        BY <2>1, <3>1, <3>2 DEF DHInv, ServesClients, Serves, Registered
    <2>7. ClosedWhenGone'
      BY <1>a, <2>1, <2>2 DEF ClosedWhenGone, Registered, DHInv, DHTypeOK
    <2>8. QED
      BY <2>4, <2>5, <2>6, <2>7 DEF DHInv, OnlyRacesPanic
  <1>10. QED
    BY <1>1, <1>2, <1>3, <1>4, <1>5, <1>6, <1>7, <1>8, <1>9 DEF DHNext

(* The process of cmd/websocket ends by its two races only, and otherwise   *)
(* each channel is closed once, when its client leaves (OnlyRacesPanic).    *)
THEOREM OnlyRacesEndTheHub == DHSpec => []OnlyRacesPanic
  <1>1. DHInv => OnlyRacesPanic
    BY DEF DHInv
  <1>2. QED
    BY <1>1, DHInitially, DHStep, PTL DEF DHSpec

-----------------------------------------------------------------------------
(***************************************************************************)
(* EnhancedProducer: for every interleaving of owner, monitor and clients. *)
(***************************************************************************)

\* The parts the owner has left to start or stop: each once, and whether one is still to come.
Parts == {"http", "health", "watcher", "pool", "kafka", "batch", "workers", "simulator"}
Once(parts) == \A i, j \in 1 .. Len(parts) : parts[i] = parts[j] => i = j
Within(part, parts) == \E i \in 1 .. Len(parts) : parts[i] = part

\* The owner starts or stops each part once, in order; a monitor that has not been
\* started yet, or has been stopped, is gone.
OwnerInOrder ==
  /\ epService \in BOOLEAN /\ epRunning \in BOOLEAN /\ epDone \in BOOLEAN
  /\ epOwner.left \in Seq(Parts) /\ Once(epOwner.left)
  /\ epOwner.does \in {"nothing", "start", "stop"}
  /\ epOwner = [does |-> epOwner.does, left |-> epOwner.left]
  /\ epOwner.does = "nothing" /\ ~epRunning => epMonitor = "gone"
  /\ epOwner.does = "start" => (Within("health", epOwner.left) => epMonitor = "gone")
  /\ epOwner.does = "stop" => (Within("health", epOwner.left) \/ epMonitor = "gone")

\* Between rounds the overall status is that of the components.
WholeBetweenRounds ==
  /\ epMonitor # "collect" => \/ epOverall = OverallStatus(epHealth)
                              \/ \A c \in Checkers : epHealth[c] = "unknown"
  /\ RoundsAreWhole

\* The inductive invariant of the service and its health monitor.
EPInv == OwnerInOrder /\ WholeBetweenRounds

LEMMA Orders ==
  /\ StartOrder \in Seq(Parts) /\ Once(StartOrder) /\ Within("health", StartOrder)
  /\ StopOrder \in Seq(Parts) /\ Once(StopOrder) /\ Within("health", StopOrder)
  <1>1. CASE epService
    <2>1. StartOrder = <<"http", "health", "watcher", "pool", "kafka", "batch", "workers", "simulator">>
      BY <1>1 DEF StartOrder
    <2>2. StopOrder = <<"simulator", "workers", "batch", "kafka", "pool", "watcher", "health", "http">>
      BY <1>1 DEF StopOrder
    <2>3. StartOrder \in Seq(Parts) /\ Len(StartOrder) = 8 /\ StartOrder[2] = "health"
      BY <2>1 DEF Parts
    <2>4. StopOrder \in Seq(Parts) /\ Len(StopOrder) = 8 /\ StopOrder[7] = "health"
      BY <2>2 DEF Parts
    <2>5. Once(StartOrder)
      BY <2>1, <2>3 DEF Once
    <2>6. Once(StopOrder)
      BY <2>2, <2>4 DEF Once
    <2>7. QED
      BY <2>3, <2>4, <2>5, <2>6 DEF Within
  <1>2. CASE ~epService
    <2>1. StartOrder = <<"health">> /\ StopOrder = <<"health">>
      BY <1>2 DEF StartOrder, StopOrder
    <2>2. <<"health">> \in Seq(Parts) /\ Len(<<"health">>) = 1 /\ <<"health">>[1] = "health"
      BY DEF Parts
    <2>3. QED
      BY <2>1, <2>2 DEF Once, Within
  <1>3. QED
    BY <1>1, <1>2

LEMMA FirstPart ==
  ASSUME NEW q \in Seq(Parts), q # <<>>, Once(q)
  PROVE  /\ Tail(q) \in Seq(Parts) /\ Once(Tail(q)) /\ Head(q) \in Parts
         /\ \A p \in Parts : Within(p, Tail(q)) <=> Within(p, q) /\ p # Head(q)
  <1>1. /\ Tail(q) \in Seq(Parts) /\ Head(q) \in Parts /\ Len(q) \in Nat \ {0}
        /\ Len(Tail(q)) = Len(q) - 1 /\ Head(q) = q[1]
        /\ \A i \in 1 .. Len(Tail(q)) : Tail(q)[i] = q[i + 1]
    BY HeadTailProperties, EmptySeq
  <1>2. Once(Tail(q))
    BY <1>1 DEF Once
  <1>3. ASSUME NEW p \in Parts, Within(p, Tail(q)) PROVE Within(p, q) /\ p # Head(q)
    <2>1. PICK i \in 1 .. Len(Tail(q)) : Tail(q)[i] = p
      BY <1>3 DEF Within
    <2>2. i + 1 \in 1 .. Len(q) /\ q[i + 1] = p /\ i + 1 # 1
      BY <1>1, <2>1
    <2>3. QED
      BY <1>1, <2>2 DEF Within, Once
  <1>4. ASSUME NEW p \in Parts, Within(p, q), p # Head(q) PROVE Within(p, Tail(q))
    <2>1. PICK i \in 1 .. Len(q) : q[i] = p
      BY <1>4 DEF Within
    <2>2. i - 1 \in 1 .. Len(Tail(q)) /\ Tail(q)[i - 1] = p
      BY <1>1, <1>4, <2>1
    <2>3. QED
      BY <2>2 DEF Within
  <1>5. QED
    BY <1>1, <1>2, <1>3, <1>4

LEMMA EPInitially == EPInit => EPInv
  <1> SUFFICES ASSUME EPInit PROVE EPInv
    OBVIOUS
  <1>1. OwnerInOrder
    <2>1. <<>> \in Seq(Parts) /\ Once(<<>>)
      BY EmptySeq DEF Once
    <2>2. epOwner = [does |-> "nothing", left |-> <<>>]
      BY DEF EPInit, Idle
    <2>3. epService \in BOOLEAN /\ epRunning = FALSE /\ epDone = FALSE /\ epMonitor = "gone"
      BY DEF EPInit
    <2>4. epOwner.does = "nothing" /\ epOwner.left = <<>>
      BY <2>2
    <2>5. QED
      BY <2>1, <2>2, <2>3, <2>4 DEF OwnerInOrder
  <1>2. WholeBetweenRounds
    BY DEF EPInit, WholeBetweenRounds, RoundsAreWhole
  <1>3. QED
    BY <1>1, <1>2 DEF EPInv

\* The checkers are those of the service, or of the monitor alone, throughout.
LEMMA SameCheckers ==
  ASSUME epService' = epService
  PROVE  /\ Checkers' = Checkers
         /\ epHealth' = epHealth => OverallStatus(epHealth)' = OverallStatus(epHealth)
         /\ epAnswer' = epAnswer => (RoundsAreWhole' <=> RoundsAreWhole)
  BY DEF Checkers, OverallStatus, RoundsAreWhole

LEMMA EPOwnerStep ==
  ASSUME OwnerInOrder, [EPNext]_epVars
  PROVE  OwnerInOrder'
  <1> DEFINE rest == UNCHANGED <<epService, epOwner, epRunning, epDone>>
  <1>1. CASE Calls
    <2>1. /\ epOwner = [does |-> "nothing", left |-> <<>>]
          /\ epOwner' = IF epRunning THEN [does |-> "stop", left |-> StopOrder]
                        ELSE [does |-> "start", left |-> StartOrder]
          /\ epDone' = epDone
          /\ epService' = epService /\ epRunning' = epRunning /\ epMonitor' = epMonitor
      BY <1>1 DEF Calls, Idle, round
    <2>2. epOwner.does = "nothing"
      BY <2>1
    <2>3. CASE epRunning
      <3>1. epOwner'.does = "stop" /\ epOwner'.left = StopOrder
        BY <2>1, <2>3
      <3>2. QED
        BY <2>1, <2>3, <3>1, Orders DEF OwnerInOrder
    <2>4. CASE ~epRunning
      <3>1. epOwner'.does = "start" /\ epOwner'.left = StartOrder
        BY <2>1, <2>4
      <3>2. QED
        BY <2>1, <2>2, <2>4, <3>1, Orders DEF OwnerInOrder
    <2>5. QED
      BY <2>3, <2>4
  <1>2. CASE StartPart
    <2>1. /\ epOwner.does = "start" /\ epOwner.left # <<>>
          /\ epMonitor' = IF Head(epOwner.left) = "health" THEN "begin" ELSE epMonitor
          /\ epOwner' = [epOwner EXCEPT !.left = Tail(@)]
          /\ UNCHANGED <<epService, epRunning, epDone>>
      BY <1>2 DEF StartPart
    <2>2. epOwner'.does = "start" /\ epOwner'.left = Tail(epOwner.left)
      BY <2>1 DEF OwnerInOrder
    <2>3. epOwner'.left \in Seq(Parts) /\ Once(epOwner'.left)
      BY <2>1, <2>2, FirstPart DEF OwnerInOrder
    <2>4. Within("health", epOwner'.left) => epMonitor' = "gone"
      BY <2>1, <2>2, FirstPart DEF OwnerInOrder, Parts
    <2>5. QED
      BY <2>1, <2>2, <2>3, <2>4 DEF OwnerInOrder
  <1>3. CASE StopPart
    <2>1. /\ epOwner.does = "stop" /\ epOwner.left # <<>>
          /\ Head(epOwner.left) = "health" => epMonitor = "gone"
          /\ epOwner' = [epOwner EXCEPT !.left = Tail(@)]
          /\ UNCHANGED <<epService, epRunning, epDone, epMonitor>>
      BY <1>3 DEF StopPart, round
    <2>2. epOwner'.does = "stop" /\ epOwner'.left = Tail(epOwner.left)
      BY <2>1 DEF OwnerInOrder
    <2>3. epOwner'.left \in Seq(Parts) /\ Once(epOwner'.left)
      BY <2>1, <2>2, FirstPart DEF OwnerInOrder
    <2>4. Within("health", epOwner'.left) \/ epMonitor' = "gone"
      BY <2>1, <2>2, FirstPart DEF OwnerInOrder, Parts
    <2>5. QED
      BY <2>1, <2>2, <2>3, <2>4 DEF OwnerInOrder
  <1>4. CASE CallEnds
    <2>1. /\ epOwner # Idle /\ epOwner.left = <<>>
          /\ epRunning' = (epOwner.does = "start") /\ epOwner' = Idle
          /\ UNCHANGED <<epService, epDone, epMonitor>>
      BY <1>4 DEF CallEnds, round
    <2>2. epOwner'.does = "nothing" /\ epOwner'.left = <<>>
      BY <2>1 DEF Idle
    <2>3. ~Within("health", <<>>) /\ <<>> \in Seq(Parts) /\ Once(<<>>)
      BY EmptySeq DEF Within, Once
    <2>4. epOwner.does # "nothing"
      BY <2>1 DEF OwnerInOrder, Idle
    <2>5. ~epRunning' => epMonitor' = "gone"
      BY <2>1, <2>3, <2>4 DEF OwnerInOrder
    <2>6. epRunning' \in BOOLEAN
      BY <2>1
    <2>7. epOwner' = [does |-> epOwner'.does, left |-> epOwner'.left]
      BY <2>1, <2>2 DEF Idle
    <2>8. QED
      BY <2>1, <2>2, <2>3, <2>5, <2>6, <2>7 DEF OwnerInOrder
  <1>5. CASE RoundBegins
    <2>1. rest /\ epMonitor = "begin"
      BY <1>5 DEF RoundBegins, owner
    <2>2. epMonitor # "gone"
      BY <2>1
    <2>3. QED
      BY <2>1, <2>2 DEF OwnerInOrder
  <1>6. CASE CheckKafka \/ CheckResources \/ CheckPool \/ Collect \/ GetHealth
    <2>1. rest /\ epMonitor' = epMonitor
      BY <1>6
         DEF CheckKafka, CheckResources, CheckReturns, CheckPool, Collect, GetHealth,
             owner, round
    <2>2. QED
      BY <2>1 DEF OwnerInOrder
  <1>7. CASE RoundEnds \/ MonitorTick \/ MonitorEnds
    <2>1. rest /\ epMonitor \in {"collect", "select"}
      BY <1>7 DEF RoundEnds, MonitorTick, MonitorEnds, owner
    <2>2. epMonitor # "gone"
      BY <2>1
    <2>3. QED
      BY <2>1, <2>2 DEF OwnerInOrder
  <1>8. CASE CancelMonitor \/ KafkaTurns
    <2>1. UNCHANGED <<epService, epOwner, epRunning, epMonitor>> /\ epDone' \in {epDone, TRUE}
      BY <1>8 DEF CancelMonitor, KafkaTurns, round
    <2>2. QED
      BY <2>1 DEF OwnerInOrder
  <1>9. CASE UNCHANGED epVars
    BY <1>9 DEF epVars, owner, round, OwnerInOrder
  <1>10. QED
    BY <1>1, <1>2, <1>3, <1>4, <1>5, <1>6, <1>7, <1>8, <1>9 DEF EPNext

LEMMA SameService == [EPNext]_epVars => epService' = epService
  BY
     DEF EPNext, epVars, owner, Calls, StartPart, CancelMonitor, StopPart, CallEnds,
         KafkaTurns, RoundBegins, CheckKafka,
         CheckResources, CheckReturns, CheckPool, Collect, RoundEnds, MonitorTick, MonitorEnds,
         GetHealth

LEMMA WholeStep ==
  ASSUME OwnerInOrder, WholeBetweenRounds, [EPNext]_epVars
  PROVE  WholeBetweenRounds'
  <1>0. epService' = epService
    BY SameService
  <1>1. ASSUME UNCHANGED <<epHealth, epOverall, epAnswer>>,
               epMonitor' = "collect" \/ epMonitor # "collect"
        PROVE  WholeBetweenRounds'
    BY <1>0, <1>1, SameCheckers DEF WholeBetweenRounds
  <1>2. CASE Calls \/ CancelMonitor \/ StopPart \/ CallEnds \/ KafkaTurns \/ RoundBegins \/ CheckKafka \/ CheckResources
               \/ CheckPool \/ MonitorTick \/ MonitorEnds \/ UNCHANGED epVars
    <2>1. /\ UNCHANGED <<epHealth, epOverall, epAnswer>>
          /\ epMonitor' \in {epMonitor, "collect"} \/ epMonitor = "select"
      BY <1>2
         DEF Calls, CancelMonitor, StopPart, CallEnds, KafkaTurns, RoundBegins,
             CheckKafka, CheckResources,
                  CheckReturns, CheckPool, MonitorTick, MonitorEnds, epVars, owner, round
    <2>2. QED
      BY <1>1, <2>1
  <1>3. CASE StartPart
    <2>1. /\ epOwner.does = "start" /\ epOwner.left # <<>>
          /\ epMonitor' = IF Head(epOwner.left) = "health" THEN "begin" ELSE epMonitor
          /\ UNCHANGED <<epHealth, epOverall, epAnswer>>
      BY <1>3 DEF StartPart
    <2>2. Head(epOwner.left) = "health" => epMonitor = "gone"
      <3>1. Head(epOwner.left) = epOwner.left[1] /\ 1 \in 1 .. Len(epOwner.left)
        BY <2>1, EmptySeq DEF OwnerInOrder
      <3>2. QED
        BY <2>1, <3>1 DEF OwnerInOrder, Within
    <2>3. QED
      BY <1>1, <2>1, <2>2
  <1>4. CASE Collect
    <2>1. epMonitor' = "collect" /\ epAnswer' = epAnswer
      BY <1>4 DEF Collect
    <2>2. QED
      BY <1>0, <2>1, SameCheckers DEF WholeBetweenRounds
  <1>5. CASE RoundEnds
    <2>1. epOverall' = OverallStatus(epHealth) /\ UNCHANGED <<epHealth, epAnswer>>
      BY <1>5 DEF RoundEnds
    <2>2. QED
      BY <1>0, <2>1, SameCheckers DEF WholeBetweenRounds
  <1>6. CASE GetHealth
    <2>1. /\ UNCHANGED <<epMonitor, epHealth, epOverall>> /\ epMonitor # "collect"
          /\ epAnswer' = [overall |-> epOverall, health |-> epHealth]
      BY <1>6 DEF GetHealth, round
    <2>2. \A h : OverallStatus(h)' = OverallStatus(h)
      BY <1>0 DEF OverallStatus, Checkers
    <2>3. RoundsAreWhole'
      BY <1>0, <2>1, <2>2, SameCheckers DEF WholeBetweenRounds, RoundsAreWhole
    <2>4. QED
      BY <1>0, <2>1, <2>3, SameCheckers DEF WholeBetweenRounds
  <1>7. QED
    BY <1>2, <1>3, <1>4, <1>5, <1>6 DEF EPNext

LEMMA EPStep == EPInv /\ [EPNext]_epVars => EPInv'
  BY EPOwnerStep, WholeStep DEF EPInv

(* GetHealth answers whole rounds of checks (RoundsAreWhole).               *)
THEOREM HealthIsTold == EPSpec => []RoundsAreWhole
  <1>1. EPInv => RoundsAreWhole
    BY DEF EPInv, WholeBetweenRounds
  <1>2. QED
    BY <1>1, EPInitially, EPStep, PTL DEF EPSpec

-----------------------------------------------------------------------------
(***************************************************************************)
(* Routing: for every queue size, retry limit and number of messages.      *)
(***************************************************************************)

\* The order of the natural numbers, which is well founded.
Less == {ss \in Nat \X Nat : ss[1] < ss[2]}

\* Every set of natural numbers has a least one.
LEMMA LeastOne ==
  ASSUME NEW T, T \subseteq Nat, T # {}
  PROVE  \E x \in T : \A y \in T : x <= y
  <1>1. IsWellFoundedOn(Less, Nat)
    BY NatLessThanWellFounded DEF OpToRel, Less
  <1>2. PICK x \in T : \A y \in T : ~(<<y, x>> \in Less)
    BY <1>1, WFMin
  <1>3. ASSUME NEW y \in T PROVE x <= y
    <2>1. x \in Nat /\ y \in Nat /\ ~(<<y, x>> \in Less)
      BY <1>2
    <2>2. ~(y < x)
      BY <2>1 DEF Less
    <2>3. QED
      BY <2>1, <2>2
  <1>4. QED
    BY <1>3

\* The places after k, counted in their order.
LEMMA SuffixRanks ==
  ASSUME NEW k \in Nat, NEW l \in Nat, k <= l, NEW T, T = k + 1 .. l
  PROVE  /\ Cardinality(T) = l - k
         /\ \A n \in 1 .. l - k : NthOf(T, n) = k + n
  <1>1. ASSUME NEW i \in k .. l PROVE Cardinality(k + 1 .. i) = i - k
    <2>1. k + 1 \in Int /\ i \in Int
      OBVIOUS
    <2>2. Cardinality(k + 1 .. i) = IF k + 1 > i THEN 0 ELSE i - (k + 1) + 1
      BY <2>1, FS_Interval
    <2>3. QED
      BY <2>2
  <1>2. ASSUME NEW i \in T PROVE Cardinality({j \in T : j <= i}) = i - k
    <2>1. {j \in T : j <= i} = k + 1 .. i /\ i \in k .. l
      OBVIOUS
    <2>2. QED
      BY <1>1, <2>1
  <1>3. ASSUME NEW n \in 1 .. l - k
        PROVE  NthOf(T, n) = k + n
    <2> DEFINE P(i) == Cardinality({j \in T : j <= i}) = n
    <2>1. \A i \in T : P(i) <=> i = k + n
      BY <1>2
    <2>2. k + n \in T
      OBVIOUS
    <2> HIDE DEF P
    <2>3. (CHOOSE i \in T : P(i)) = k + n
      BY <2>1, <2>2
    <2>4. QED
      BY <2>3 DEF P, NthOf
  <1>4. l \in k .. l
    OBVIOUS
  <1>5. QED
    BY <1>1, <1>3, <1>4
-----------------------------------------------------------------------------
(* The partition.                                                          *)
LEMMA PartitionOfHash ==
  ASSUME NEW hash \in MinHash .. MaxHash
  PROVE  GetPartition(hash) \in 0 .. 2 <=> hash # MinHash
  <1> DEFINE H == 2 ^ (HashBits - 1)
  <1>1. H \in Nat \ {0} /\ H % 3 # 0 /\ MinHash = -H /\ MaxHash = H - 1
    BY RoutingAssumption DEF MinHash, MaxHash
  <1> HIDE DEF H
  <1>2. H % 3 \in 1 .. 2
    BY <1>1
  <1>3. CASE hash = MinHash
    <2>1. hash < 0 /\ Negate(hash) = -H
      BY <1>1, <1>3 DEF Negate
    <2>2. GetPartition(hash) = -(H % 3)
      BY <1>1, <2>1 DEF GetPartition, Remainder
    <2>3. QED
      BY <1>2, <1>3, <2>2
  <1>4. CASE hash # MinHash /\ hash < 0
    <2>1. -hash \in Nat /\ Negate(hash) = -hash
      BY <1>1, <1>4 DEF Negate
    <2>2. GetPartition(hash) = (-hash) % 3
      BY <1>4, <2>1 DEF GetPartition, Remainder
    <2>3. QED
      BY <1>4, <2>1, <2>2
  <1>5. CASE hash >= 0
    <2>1. hash \in Nat /\ GetPartition(hash) = hash % 3 /\ hash # MinHash
      BY <1>1, <1>5 DEF GetPartition, Remainder
    <2>2. QED
      BY <2>1
  <1>6. QED
    BY <1>1, <1>3, <1>4, <1>5
-----------------------------------------------------------------------------
\* A message in the dead-letter queue, and a session.
Failed  == [number : Nat, at : Nat]
Session == [id : Member \X Nat, nth : {1, 2}, ends : Nat]

\* The queue is in the order its messages failed in.
QueueInOrder ==
  /\ rtDlq \in Seq(Failed) /\ rtFailed \in Nat /\ rtDropped \in Nat
  /\ \A i, j \in 1 .. Len(rtDlq) : i <= j => rtDlq[i].at <= rtDlq[j].at
  /\ \A i \in 1 .. Len(rtDlq) : rtDlq[i].at <= rtSecond

\* No member is in the room twice.
RoomsTypeOK == rtRoom \in [made : Int, members : Seq(Member)] /\ IsInjective(rtRoom.members)

\* NamesAreKept, session by session, and for the room.
SessionKept(h) == \/ rtSecond > h.ends
                  \/ h.id \in DOMAIN rtSessions /\ rtSessions[h.id] = h
                  \/ \E g \in rtHeld : g.id = h.id /\ g.nth > h.nth
SessionsAreKept == rtHeld \subseteq Session /\ \A h \in rtHeld : SessionKept(h)
RoomIsKept      == rtRemade \/ ToSet(rtRoom.members) = rtJoined

\* The inductive invariant of routing.
RTInv == /\ rtSecond \in Nat /\ DevicePartitionExists
         /\ QueueInOrder /\ NewestAreKept
         /\ SessionsAreKept /\ RoomsTypeOK /\ RoomIsKept

LEMMA RTInitially == RTInit => RTInv
  <1> SUFFICES ASSUME RTInit PROVE RTInv
    OBVIOUS
  <1>1. DevicePartitionExists
    <2>1. rtPartition.partition = 0 /\ rtPartition.hash = 0
      BY DEF RTInit
    <2> DEFINE H == 2 ^ (HashBits - 1)
    <2>2. H \in Nat \ {0} /\ MinHash = -H
      BY RoutingAssumption DEF MinHash
    <2> HIDE DEF H
    <2>3. 0 # MinHash
      BY <2>2
    <2>4. QED
      BY <2>1, <2>3 DEF DevicePartitionExists
  <1>2. rtDlq \in Seq(Failed) /\ Len(rtDlq) = 0
    BY DEF RTInit
  <1>3. rtFailed = 0 /\ rtDropped = 0 /\ rtSecond = 0
    BY DEF RTInit
  <1>4. DlqSize \in Nat
    BY RoutingAssumption
  <1>5. QueueInOrder
    BY <1>2, <1>3 DEF QueueInOrder
  <1>6. NewestAreKept
    BY <1>2, <1>3, <1>4 DEF NewestAreKept
  <1>7. SessionsAreKept
    BY DEF RTInit, SessionsAreKept
  <1>8. rtRoom.members = <<>> /\ rtJoined = {} /\ rtRoom = [made |-> -1, members |-> <<>>]
    BY DEF RTInit
  <1>9. <<>> \in Seq(Member) /\ IsInjective(<<>>) /\ ToSet(<<>>) = {}
    BY DEF IsInjective, ToSet
  <1>10. RoomsTypeOK /\ RoomIsKept
    BY <1>8, <1>9 DEF RoomsTypeOK, RoomIsKept
  <1>11. QED
    BY <1>1, <1>3, <1>5, <1>6, <1>7, <1>10 DEF RTInv

LEMMA QueueStays ==
  ASSUME RTInv, UNCHANGED dlq, rtSecond' = rtSecond
  PROVE  QueueInOrder' /\ NewestAreKept'
  BY DEF RTInv, dlq, QueueInOrder, NewestAreKept
LEMMA SessionsStay ==
  ASSUME RTInv, UNCHANGED sessions, rtSecond' = rtSecond
  PROVE  SessionsAreKept'
  BY DEF RTInv, sessions, SessionsAreKept, SessionKept
LEMMA RoomsStay ==
  ASSUME RTInv, UNCHANGED rooms
  PROVE  RoomsTypeOK' /\ RoomIsKept'
  BY DEF RTInv, rooms, RoomsTypeOK, RoomIsKept
LEMMA PartitionStays ==
  ASSUME RTInv, UNCHANGED rtPartition
  PROVE  DevicePartitionExists'
  BY DEF RTInv, DevicePartitionExists

LEMMA AddFailedMessageStep ==
  ASSUME RTInv, AddFailedMessage
  PROVE  QueueInOrder' /\ NewestAreKept'
  <1> DEFINE full == Len(rtDlq) >= DlqSize
             kept == IF full THEN Tail(rtDlq) ELSE rtDlq
             k    == IF full THEN 1 ELSE 0
             m    == [number |-> rtFailed + 1, at |-> rtSecond]
  <1>1. /\ rtFailed' = rtFailed + 1 /\ rtDlq' = Append(kept, m) /\ rtSecond' = rtSecond
        /\ rtDropped' = IF full THEN Head(rtDlq).number ELSE rtDropped
    BY DEF AddFailedMessage
  <1>2. /\ rtDlq \in Seq(Failed) /\ rtFailed \in Nat /\ rtDropped \in Nat /\ rtSecond \in Nat
        /\ Len(rtDlq) \in Nat /\ DlqSize \in Nat \ {0}
        /\ Len(rtDlq) = rtFailed - rtDropped /\ Len(rtDlq) <= DlqSize
        /\ \A i \in 1 .. Len(rtDlq) : rtDlq[i].number = rtDropped + i
        /\ \A i, j \in 1 .. Len(rtDlq) : i <= j => rtDlq[i].at <= rtDlq[j].at
        /\ \A i \in 1 .. Len(rtDlq) : rtDlq[i].at <= rtSecond
    BY RoutingAssumption DEF RTInv, QueueInOrder, NewestAreKept
  <1>3. /\ kept \in Seq(Failed) /\ Len(kept) = Len(rtDlq) - k /\ k \in 0 .. 1 /\ k <= Len(rtDlq)
        /\ \A i \in 1 .. Len(rtDlq) - k : kept[i] = rtDlq[i + k]
        /\ rtDropped' = rtDropped + k
    <2>1. CASE full
      <3>1. rtDlq # <<>>
        BY <1>2, <2>1, EmptySeq
      <3>2. /\ Tail(rtDlq) \in Seq(Failed) /\ Len(Tail(rtDlq)) = Len(rtDlq) - 1
            /\ \A i \in 1 .. Len(rtDlq) - 1 : Tail(rtDlq)[i] = rtDlq[i + 1]
            /\ Head(rtDlq) = rtDlq[1]
        BY <1>2, <3>1, HeadTailProperties
      <3>3. 1 \in 1 .. Len(rtDlq) /\ rtDlq[1].number = rtDropped + 1
        BY <1>2, <2>1
      <3>4. QED
        BY <1>1, <1>2, <2>1, <3>2, <3>3
    <2>2. CASE ~full
      BY <1>1, <1>2, <2>2
    <2>3. QED
      BY <2>1, <2>2
  <1>4. m \in Failed
    BY <1>2 DEF Failed
  <1>5. Len(kept) < DlqSize
    BY <1>2, <1>3
  <1> DEFINE q == rtDlq'
  <1>6. m.number = rtFailed + 1 /\ m.at = rtSecond
    OBVIOUS
  <1> HIDE DEF kept, k, m
  <1>7. /\ q \in Seq(Failed) /\ Len(q) = Len(rtDlq) - k + 1
        /\ q[Len(rtDlq) - k + 1] = m
        /\ \A i \in 1 .. Len(rtDlq) - k : q[i] = rtDlq[i + k]
    <2>1. /\ Append(kept, m) \in Seq(Failed) /\ Len(Append(kept, m)) = Len(kept) + 1
          /\ Append(kept, m)[Len(kept) + 1] = m
          /\ \A i \in 1 .. Len(kept) : Append(kept, m)[i] = kept[i]
      BY <1>3, <1>4, AppendProperties
    <2>2. QED
      BY <1>1, <1>3, <2>1
  <1> HIDE DEF q
  <1>8. ASSUME NEW i \in 1 .. Len(q) PROVE q[i].number = rtDropped' + i /\ q[i].at <= rtSecond
    <2>1. CASE i = Len(rtDlq) - k + 1
      <3>1. q[i] = m
        BY <1>7, <2>1
      <3>2. QED
        BY <1>2, <1>3, <1>6, <2>1, <3>1
    <2>2. CASE i # Len(rtDlq) - k + 1
      <3>1. i \in 1 .. Len(rtDlq) - k /\ i + k \in 1 .. Len(rtDlq)
        BY <1>2, <1>3, <1>7, <2>2
      <3>2. q[i] = rtDlq[i + k] /\ rtDlq[i + k].number = rtDropped + (i + k)
        BY <1>2, <1>7, <3>1
      <3>3. QED
        BY <1>2, <1>3, <3>1, <3>2
    <2>3. QED
      BY <2>1, <2>2
  <1>9. ASSUME NEW i \in 1 .. Len(q), NEW j \in 1 .. Len(q), i <= j PROVE q[i].at <= q[j].at
    <2>1. CASE j = Len(rtDlq) - k + 1
      BY <1>6, <1>7, <1>8, <2>1
    <2>2. CASE j # Len(rtDlq) - k + 1
      <3>1. i \in 1 .. Len(rtDlq) - k /\ j \in 1 .. Len(rtDlq) - k
        BY <1>2, <1>3, <1>7, <1>9, <2>2
      <3>2. i + k \in 1 .. Len(rtDlq) /\ j + k \in 1 .. Len(rtDlq) /\ i + k <= j + k
        <4>1. k \in Nat /\ i \in Int /\ j \in Int /\ i <= j /\ Len(rtDlq) \in Nat
          BY <1>2, <1>3, <1>9, <3>1
        <4>2. QED
          BY <3>1, <4>1
      <3>3. q[i] = rtDlq[i + k] /\ q[j] = rtDlq[j + k]
        BY <1>7, <3>1
      <3>4. QED
        BY <1>2, <3>2, <3>3
    <2>3. QED
      BY <2>1, <2>2
  <1>10. Len(q) = rtFailed' - rtDropped' /\ Len(q) <= DlqSize
    <2>1. Len(q) = Len(rtDlq) - k + 1 /\ Len(kept) = Len(rtDlq) - k /\ rtDropped' = rtDropped + k
      BY <1>3, <1>7, Zenon
    <2>2. Len(rtDlq) \in Nat /\ k \in Int /\ DlqSize \in Nat
      BY <1>2, <1>3
    <2>3. rtFailed' = rtFailed + 1
      BY <1>1
    <2>4. rtFailed \in Nat /\ rtDropped \in Nat /\ Len(rtDlq) = rtFailed - rtDropped
      BY <1>2
    <2>5. QED
      BY <1>5, <2>1, <2>2, <2>3, <2>4
  <1>11. QueueInOrder'
    <2>1. rtFailed' \in Nat /\ rtDropped' \in Nat
      BY <1>1, <1>2, <1>3
    <2>2. QED
      BY <1>1, <1>7, <1>8, <1>9, <2>1 DEF QueueInOrder, q
  <1>12. NewestAreKept'
    BY <1>8, <1>10 DEF NewestAreKept, q
  <1>13. QED
    BY <1>11, <1>12

LEMMA RemoveExpiredMessagesStep ==
  ASSUME RTInv, RemoveExpiredMessages
  PROVE  QueueInOrder' /\ NewestAreKept'
  <1> DEFINE L == Len(rtDlq)
             fresh == {i \in 1 .. L : rtDlq[i].at > rtSecond - Ttl}
  <1>1. /\ rtDlq' = [n \in 1 .. Cardinality(fresh) |-> rtDlq[NthOf(fresh, n)]]
        /\ rtDropped' = IF rtDlq' = rtDlq THEN rtDropped ELSE rtDlq[Len(rtDlq) - Len(rtDlq')].number
        /\ rtFailed' = rtFailed /\ rtSecond' = rtSecond
    BY DEF RemoveExpiredMessages, dlq
  <1>2. /\ rtDlq \in Seq(Failed) /\ rtFailed \in Nat /\ rtDropped \in Nat /\ rtSecond \in Nat
        /\ L \in Nat /\ Ttl \in Int /\ L <= DlqSize /\ DlqSize \in Nat
        /\ L = rtFailed - rtDropped
        /\ \A i \in 1 .. L : rtDlq[i].number = rtDropped + i
        /\ \A i, j \in 1 .. L : i <= j => rtDlq[i].at <= rtDlq[j].at
        /\ \A i \in 1 .. L : rtDlq[i].at <= rtSecond /\ rtDlq[i].at \in Nat
    <2>1. rtDlq \in Seq(Failed) /\ L \in Nat /\ \A i \in 1 .. L : rtDlq[i] \in Failed
      BY DEF RTInv, QueueInOrder
    <2>2. \A i \in 1 .. L : rtDlq[i].at \in Nat
      BY <2>1 DEF Failed
    <2>3. QED
      BY <2>1, <2>2, RoutingAssumption DEF RTInv, QueueInOrder, NewestAreKept
  <1>3. \E k \in 0 .. L : fresh = k + 1 .. L
    <2>1. CASE fresh = {}
      <3>1. L \in 0 .. L /\ L + 1 .. L = {}
        BY <1>2
      <3>2. QED
        BY <2>1, <3>1
    <2>2. CASE fresh # {}
      <3>1. fresh \subseteq Nat
        OBVIOUS
      <3>2. PICK f \in fresh : \A y \in fresh : f <= y
        BY <2>2, <3>1, LeastOne
      <3>3. f \in 1 .. L /\ f - 1 \in 0 .. L /\ (f - 1) + 1 = f
        <4>1. L \in Nat
          BY <1>2
        <4> HIDE DEF L
        <4>2. QED
          BY <4>1
      <3>4. ASSUME NEW i \in f .. L
            PROVE  i \in fresh
        <4>1. L \in Nat /\ Ttl \in Int /\ rtSecond \in Nat
          BY <1>2
        <4>2. i \in 1 .. L /\ f <= i
          BY <3>3, <4>1
        <4>3. rtDlq[f].at > rtSecond - Ttl
          BY <3>2
        <4>4. rtDlq[f].at \in Nat /\ rtDlq[i].at \in Nat /\ rtDlq[f].at <= rtDlq[i].at
          BY <1>2, <3>3, <4>2
        <4>5. rtDlq[i].at > rtSecond - Ttl
          <5> DEFINE a == rtDlq[f].at
                     b == rtDlq[i].at
          <5>1. a \in Nat /\ b \in Nat /\ a <= b /\ a > rtSecond - Ttl
            BY <4>3, <4>4
          <5> HIDE DEF a, b
          <5>2. b > rtSecond - Ttl
            BY <4>1, <5>1
          <5>3. QED
            BY <5>2 DEF b
        <4> HIDE DEF L
        <4>6. QED
          BY <4>2, <4>5
      <3>5. fresh = f .. L
        <4>1. fresh \subseteq 1 .. L /\ L \in Nat
          BY <1>2
        <4> HIDE DEF fresh, L
        <4>2. fresh \subseteq f .. L
          BY <3>2, <3>3, <4>1
        <4>3. f .. L \subseteq fresh
          BY <3>4, Zenon
        <4>4. QED
          BY <4>2, <4>3, Zenon
      <3>6. QED
        BY <3>3, <3>5
    <2>3. QED
      BY <2>1, <2>2
  <1>4. PICK k \in 0 .. L : fresh = k + 1 .. L
    BY <1>3
  <1>5. /\ Cardinality(fresh) = L - k
        /\ \A n \in 1 .. L - k : NthOf(fresh, n) = k + n
    <2>1. k \in Nat /\ k <= L /\ L \in Nat
      BY <1>2
    <2> HIDE DEF fresh, L
    <2>2. QED
      BY <1>4, <2>1, SuffixRanks
  <1> DEFINE q == rtDlq'
  <1>6. q = [n \in 1 .. L - k |-> rtDlq[k + n]]
    <2> HIDE DEF fresh
    <2>1. QED
      BY <1>1, <1>5
  <1> HIDE DEF fresh
  <1>7. \A n \in 1 .. L - k : k + n \in 1 .. L
    BY <1>2
  <1>8. q \in Seq(Failed) /\ Len(q) = L - k
    <2>1. L - k \in Nat
      BY <1>2
    <2>2. \A n \in 1 .. L - k : rtDlq[k + n] \in Failed
      BY <1>2, <1>7
    <2>3. q \in [1 .. L - k -> Failed]
      BY <1>6, <2>2
    <2>4. QED
      BY <2>1, <2>3
  <1>9. rtDropped' = rtDropped + k
    <2>1. CASE k = 0
      <3>1. rtDlq = [n \in 1 .. L |-> rtDlq[n]]
        BY <1>2
      <3>2. q = [n \in 1 .. L |-> rtDlq[n]]
        BY <1>2, <1>6, <2>1
      <3>3. rtDropped' = rtDropped
        BY <1>1, <3>1, <3>2
      <3>4. QED
        BY <1>2, <2>1, <3>3
    <2>2. CASE k # 0
      <3>1. q # rtDlq /\ L - Len(q) = k /\ k \in 1 .. L
        BY <1>2, <1>8, <2>2
      <3>2. rtDropped' = rtDlq[L - Len(q)].number
        BY <1>1, <3>1
      <3>3. QED
        BY <1>2, <3>1, <3>2
    <2>3. QED
      BY <2>1, <2>2
  <1> HIDE DEF q, L
  <1>10. \A i \in 1 .. Len(q) : q[i] = rtDlq[k + i] /\ k + i \in 1 .. L
    BY <1>6, <1>7, <1>8
  <1>11. ASSUME NEW i \in 1 .. Len(q) PROVE q[i].number = rtDropped' + i /\ q[i].at <= rtSecond
    <2>1. /\ q[i] = rtDlq[k + i] /\ rtDlq[k + i].number = rtDropped + (k + i)
          /\ rtDlq[k + i].at <= rtSecond
      BY <1>2, <1>10
    <2>2. rtDropped + (k + i) = (rtDropped + k) + i
      BY <1>2
    <2>3. QED
      BY <1>9, <2>1, <2>2
  <1>12. ASSUME NEW i \in 1 .. Len(q), NEW j \in 1 .. Len(q), i <= j PROVE q[i].at <= q[j].at
    <2>1. /\ k + i \in 1 .. L /\ k + j \in 1 .. L /\ k + i <= k + j
          /\ q[i] = rtDlq[k + i] /\ q[j] = rtDlq[k + j]
      BY <1>10, <1>12
    <2>2. QED
      BY <1>2, <2>1
  <1>13. Len(q) = rtFailed - rtDropped' /\ Len(q) <= DlqSize /\ rtDropped' \in Nat
    BY <1>2, <1>8, <1>9
  <1>14. QueueInOrder'
    BY <1>1, <1>2, <1>8, <1>11, <1>12, <1>13 DEF QueueInOrder, q
  <1>15. NewestAreKept'
    BY <1>1, <1>11, <1>13 DEF NewestAreKept, q
  <1>16. QED
    BY <1>14, <1>15

LEMMA CreateSessionStep ==
  ASSUME RTInv, NEW m \in Member, CreateSession(m)
  PROVE  SessionsAreKept'
  <1> DEFINE id  == <<m, rtSecond>>
             old == {h.nth : h \in {h \in rtHeld : h.id = id}}
             new == [id |-> id, nth |-> IF old = {} THEN 1 ELSE 2, ends |-> rtSecond + 1]
  <1>1. /\ old \subseteq {1} /\ rtHeld' = rtHeld \cup {new} /\ rtSecond' = rtSecond
        /\ rtSessions' = [i \in DOMAIN rtSessions \cup {id} |->
                            IF i = id THEN new ELSE rtSessions[i]]
    BY DEF CreateSession
  <1>2. rtSecond \in Nat /\ rtHeld \subseteq Session /\ \A h \in rtHeld : SessionKept(h)
    BY DEF RTInv, SessionsAreKept
  <1>3. new \in Session /\ new.id = id
    BY <1>2 DEF Session
  <1>4. \A h \in rtHeld : h.id = id => h.nth = 1 /\ new.nth = 2
    <2>1. ASSUME NEW h \in rtHeld, h.id = id PROVE h.nth = 1 /\ new.nth = 2
      <3>1. h.nth \in old
        BY <2>1
      <3>2. QED
        BY <1>1, <3>1
    <2>2. QED
      BY <2>1
  <1> HIDE DEF id, new, old
  <1>5. /\ id \in DOMAIN rtSessions' /\ rtSessions'[id] = new
        /\ \A i \in DOMAIN rtSessions : i # id => i \in DOMAIN rtSessions' /\ rtSessions'[i] = rtSessions[i]
    BY <1>1
  <1>6. ASSUME NEW h, h = new PROVE SessionKept(h)'
    BY <1>3, <1>5, <1>6 DEF SessionKept
  <1>7. ASSUME NEW h \in rtHeld PROVE SessionKept(h)'
    <2>1. CASE h.id = id
      BY <1>1, <1>3, <1>4, <2>1 DEF SessionKept
    <2>2. CASE h.id # id
      BY <1>1, <1>2, <1>5, <2>2 DEF SessionKept
    <2>3. QED
      BY <2>1, <2>2
  <1>8. QED
    BY <1>1, <1>2, <1>3, <1>6, <1>7 DEF SessionsAreKept

LEMMA CleanupExpiredSessionsStep ==
  ASSUME RTInv, CleanupExpiredSessions
  PROVE  SessionsAreKept'
  <1>1. /\ rtSessions' = [i \in {i \in DOMAIN rtSessions : rtSecond <= rtSessions[i].ends} |->
                            rtSessions[i]]
        /\ rtHeld' = rtHeld /\ rtSecond' = rtSecond
    BY DEF CleanupExpiredSessions
  <1>2. rtSecond \in Nat /\ rtHeld \subseteq Session /\ \A h \in rtHeld : SessionKept(h)
    BY DEF RTInv, SessionsAreKept
  <1>3. ASSUME NEW h \in rtHeld PROVE SessionKept(h)'
    <2>1. h.ends \in Nat
      BY <1>2 DEF Session
    <2>2. QED
      BY <1>1, <1>2, <2>1 DEF SessionKept
  <1>4. QED
    BY <1>1, <1>2, <1>3 DEF SessionsAreKept

\* Taking one entry out of a sequence without duplicates.
LEMMA TakeOneOut ==
  ASSUME NEW S, NEW q \in Seq(S), IsInjective(q), NEW i \in 1 .. Len(q)
  PROVE  /\ RemoveAt(q, i) \in Seq(S) /\ IsInjective(RemoveAt(q, i))
         /\ ToSet(RemoveAt(q, i)) = ToSet(q) \ {q[i]}
  <1> DEFINE a == SubSeq(q, 1, i - 1)
             b == SubSeq(q, i + 1, Len(q))
             r == RemoveAt(q, i)
  <1>1. Len(q) \in Nat /\ \A n \in 1 .. Len(q) : q[n] \in S
    OBVIOUS
  <1>2. a \in Seq(S) /\ Len(a) = i - 1 /\ \A n \in 1 .. i - 1 : a[n] = q[n]
    <2>1. 1 \in Int /\ i - 1 \in Int /\ \A n \in 1 .. i - 1 : q[n] \in S
      BY <1>1
    <2>2. /\ a \in Seq(S) /\ Len(a) = IF 1 <= i - 1 THEN (i - 1) - 1 + 1 ELSE 0
          /\ \A n \in 1 .. (i - 1) - 1 + 1 : a[n] = q[1 + n - 1]
      BY <2>1, SubSeqProperties
    <2> HIDE DEF a
    <2>3. QED
      BY <1>1, <2>2
  <1>3. b \in Seq(S) /\ Len(b) = Len(q) - i /\ \A n \in 1 .. Len(q) - i : b[n] = q[i + n]
    <2>1. i + 1 \in Int /\ Len(q) \in Int /\ \A n \in i + 1 .. Len(q) : q[n] \in S
      BY <1>1
    <2>2. /\ b \in Seq(S) /\ Len(b) = IF i + 1 <= Len(q) THEN Len(q) - (i + 1) + 1 ELSE 0
          /\ \A n \in 1 .. Len(q) - (i + 1) + 1 : b[n] = q[(i + 1) + n - 1]
      BY <2>1, SubSeqProperties
    <2> HIDE DEF b
    <2>3. QED
      BY <1>1, <2>2
  <1>4. r = a \o b
    BY DEF RemoveAt
  <1> HIDE DEF a, b, r
  <1>5. /\ r \in Seq(S) /\ Len(r) = Len(q) - 1
        /\ \A n \in 1 .. Len(q) - 1 : r[n] = IF n < i THEN q[n] ELSE q[n + 1]
    <2>1. /\ a \o b \in Seq(S) /\ Len(a \o b) = Len(a) + Len(b)
          /\ \A n \in 1 .. Len(a) + Len(b) : (a \o b)[n] = IF n <= Len(a) THEN a[n] ELSE b[n - Len(a)]
      BY <1>2, <1>3, ConcatProperties
    <2>2. Len(a) + Len(b) = Len(q) - 1
      BY <1>1, <1>2, <1>3
    <2>3. ASSUME NEW n \in 1 .. Len(q) - 1 PROVE r[n] = IF n < i THEN q[n] ELSE q[n + 1]
      <3>1. CASE n < i
        BY <1>1, <1>2, <1>4, <2>1, <2>2, <3>1
      <3>2. CASE ~(n < i)
        <4>1. n - (i - 1) \in 1 .. Len(q) - i /\ i + (n - (i - 1)) = n + 1
          BY <1>1, <3>2
        <4>2. r[n] = b[n - (i - 1)]
          BY <1>1, <1>2, <1>4, <2>1, <2>2, <3>2
        <4>3. QED
          BY <1>3, <3>2, <4>1, <4>2
      <3>3. QED
        BY <3>1, <3>2
    <2>4. QED
      BY <1>4, <2>1, <2>2, <2>3
  <1>6. DOMAIN r = 1 .. Len(q) - 1 /\ DOMAIN q = 1 .. Len(q)
    BY <1>1, <1>5
  <1>7. IsInjective(r)
    <2>1. ASSUME NEW n \in 1 .. Len(q) - 1, NEW p \in 1 .. Len(q) - 1, r[n] = r[p] PROVE n = p
      <3> DEFINE Was(x) == IF x < i THEN x ELSE x + 1
      <3>1. Was(n) \in 1 .. Len(q) /\ Was(p) \in 1 .. Len(q)
        BY <1>1
      <3>2. r[n] = q[Was(n)] /\ r[p] = q[Was(p)]
        BY <1>5
      <3>3. Was(n) = Was(p)
        BY <1>6, <2>1, <3>1, <3>2 DEF IsInjective
      <3>4. QED
        BY <3>3
    <2>2. QED
      BY <1>6, <2>1 DEF IsInjective
  <1>8. ToSet(r) \subseteq ToSet(q) \ {q[i]}
    BY <1>1, <1>5, <1>6 DEF ToSet, IsInjective
  <1>9. ASSUME NEW n \in 1 .. Len(q), q[n] # q[i] PROVE q[n] \in ToSet(r)
    <2>1. CASE n < i
      <3>1. n \in 1 .. Len(q) - 1 /\ r[n] = q[n]
        BY <1>1, <1>5, <2>1
      <3>2. QED
        BY <1>6, <3>1 DEF ToSet
    <2>2. CASE ~(n < i)
      <3>1. n - 1 \in 1 .. Len(q) - 1 /\ ~(n - 1 < i) /\ (n - 1) + 1 = n
        BY <1>1, <1>9, <2>2
      <3>2. r[n - 1] = q[n]
        BY <1>5, <3>1
      <3>3. QED
        BY <1>6, <3>1, <3>2 DEF ToSet
    <2>3. QED
      BY <2>1, <2>2
  <1>10. ToSet(q) \ {q[i]} \subseteq ToSet(r)
    BY <1>6, <1>9 DEF ToSet
  <1>11. QED
    BY <1>5, <1>7, <1>8, <1>10 DEF r

LEMMA RoomStep ==
  ASSUME RTInv, CreateRoom \/ \E m \in Member : JoinRoom(m) \/ LeaveRoom(m)
  PROVE  RoomsTypeOK' /\ RoomIsKept'
  <1>1. /\ rtRoom \in [made : Int, members : Seq(Member)] /\ IsInjective(rtRoom.members)
        /\ rtSecond \in Nat
    BY DEF RTInv, RoomsTypeOK
  <1>2. CASE CreateRoom
    <2>1. rtRoom' = [made |-> rtSecond, members |-> <<>>] /\ (rtRemade' \/ rtJoined' = {})
      BY <1>2 DEF CreateRoom
    <2>2. <<>> \in Seq(Member) /\ IsInjective(<<>>) /\ ToSet(<<>>) = {}
      BY DEF IsInjective, ToSet
    <2> DEFINE empty == <<>>
    <2> HIDE DEF empty
    <2>3. rtRoom' \in [made : Int, members : Seq(Member)] /\ rtRoom'.members = empty
      BY <1>1, <2>1, <2>2 DEF empty
    <2>4. QED
      BY <2>1, <2>2, <2>3 DEF RoomsTypeOK, RoomIsKept, empty
  <1>3. ASSUME NEW m \in Member, JoinRoom(m) PROVE RoomsTypeOK' /\ RoomIsKept'
    <2>1. /\ ~Contains(rtRoom.members, m) /\ rtJoined' = rtJoined \cup {m} /\ rtRemade' = rtRemade
          /\ rtRoom' = [rtRoom EXCEPT !.members = Append(rtRoom.members, m)]
      BY <1>3 DEF JoinRoom
    <2>2. m \notin ToSet(rtRoom.members) /\ rtRoom.members \in Seq(Member)
      BY <1>1, <2>1 DEF Contains, ToSet
    <2> DEFINE joined == Append(rtRoom.members, m)
    <2>3. ToSet(joined) = ToSet(rtRoom.members) \cup {m} /\ IsInjective(joined) /\ joined \in Seq(Member)
      BY <1>1, <2>2, AppendOne, AppendProperties
    <2> HIDE DEF joined
    <2>4. rtRoom' \in [made : Int, members : Seq(Member)] /\ rtRoom'.members = joined
      BY <1>1, <2>1, <2>3 DEF joined
    <2>5. QED
      BY <2>1, <2>3, <2>4 DEF RTInv, RoomsTypeOK, RoomIsKept
  <1>4. ASSUME NEW m \in Member, LeaveRoom(m) PROVE RoomsTypeOK' /\ RoomIsKept'
    <2>1. PICK i \in 1 .. Len(rtRoom.members) :
                 /\ rtRoom.members[i] = m
                 /\ rtRoom' = [rtRoom EXCEPT !.members = RemoveAt(rtRoom.members, i)]
      BY <1>4 DEF LeaveRoom
    <2>2. rtJoined' = rtJoined \ {m} /\ rtRemade' = rtRemade
      BY <1>4 DEF LeaveRoom
    <2> DEFINE left == RemoveAt(rtRoom.members, i)
    <2>3. ToSet(left) = ToSet(rtRoom.members) \ {m} /\ IsInjective(left) /\ left \in Seq(Member)
      BY <1>1, <2>1, TakeOneOut
    <2> HIDE DEF left
    <2>4. rtRoom' \in [made : Int, members : Seq(Member)] /\ rtRoom'.members = left
      BY <1>1, <2>1, <2>3 DEF left
    <2>5. QED
      BY <2>2, <2>3, <2>4 DEF RTInv, RoomsTypeOK, RoomIsKept
  <1>5. QED
    BY <1>2, <1>3, <1>4

LEMMA RTStep ==
  RTInv /\ [\E part \in {"partition", "queue", "sessions", "rooms"} : RTNext(part)]_rtVars => RTInv'
  <1> SUFFICES ASSUME RTInv,
                      [\E part \in {"partition", "queue", "sessions", "rooms"} : RTNext(part)]_rtVars
               PROVE  RTInv'
    OBVIOUS
  <1>1. CASE RouteMessage
    <2>1. UNCHANGED <<rtSecond, dlq, sessions, rooms>>
      BY <1>1 DEF RouteMessage
    <2>2. PICK hash \in MinHash .. MaxHash :
                 rtPartition' = [hash |-> hash, partition |-> GetPartition(hash)]
      BY <1>1 DEF RouteMessage
    <2>3. DevicePartitionExists'
      BY <2>2, PartitionOfHash DEF DevicePartitionExists
    <2>4. rtSecond' \in Nat
      BY <2>1 DEF RTInv
    <2>5. QED
      BY <2>1, <2>3, <2>4, QueueStays, SessionsStay, RoomsStay DEF RTInv
  <1>2. CASE AddFailedMessage \/ RemoveExpiredMessages
    <2>1. UNCHANGED <<rtSecond, rtPartition, sessions, rooms>>
      BY <1>2 DEF AddFailedMessage, RemoveExpiredMessages
    <2>2. QueueInOrder' /\ NewestAreKept'
      BY <1>2, AddFailedMessageStep, RemoveExpiredMessagesStep
    <2>3. rtSecond' \in Nat
      BY <2>1 DEF RTInv
    <2>4. QED
      BY <2>1, <2>2, <2>3, PartitionStays, SessionsStay, RoomsStay DEF RTInv
  <1>3. CASE CleanupExpiredSessions \/ \E m \in Member : CreateSession(m)
    <2>1. UNCHANGED <<rtSecond, rtPartition, dlq, rooms>>
      BY <1>3 DEF CleanupExpiredSessions, CreateSession
    <2>2. SessionsAreKept'
      BY <1>3, CreateSessionStep, CleanupExpiredSessionsStep
    <2>3. rtSecond' \in Nat
      BY <2>1 DEF RTInv
    <2>4. QED
      BY <2>1, <2>2, <2>3, PartitionStays, QueueStays, RoomsStay DEF RTInv
  <1>4. CASE CreateRoom \/ \E m \in Member : JoinRoom(m) \/ LeaveRoom(m)
    <2>1. UNCHANGED <<rtSecond, rtPartition, dlq, sessions>>
      BY <1>4 DEF CreateRoom, JoinRoom, LeaveRoom
    <2>2. RoomsTypeOK' /\ RoomIsKept'
      BY <1>4, RoomStep
    <2>3. rtSecond' \in Nat
      BY <2>1 DEF RTInv
    <2>4. QED
      BY <2>1, <2>2, <2>3, PartitionStays, QueueStays, SessionsStay DEF RTInv
  <1>5. CASE NextSecond
    <2>1. /\ rtSecond \in Nat /\ rtSecond' = rtSecond + 1
          /\ UNCHANGED <<rtPartition, rtDlq, rtFailed, rtDropped, rtSessions, rtHeld, rooms>>
      BY <1>5 DEF NextSecond, RTInv, dlq, sessions
    <2>2. QueueInOrder'
      <3>1. rtDlq \in Seq(Failed)
        BY DEF RTInv, QueueInOrder
      <3>2. \A i \in 1 .. Len(rtDlq) : rtDlq[i] \in Failed
        BY <3>1
      <3>3. \A i \in 1 .. Len(rtDlq) : rtDlq[i].at \in Nat
        BY <3>2 DEF Failed
      <3>4. QED
        BY <2>1, <3>3 DEF RTInv, QueueInOrder
    <2>3. NewestAreKept'
      BY <2>1 DEF RTInv, NewestAreKept
    <2>4. SessionsAreKept'
      <3>1. rtHeld \subseteq Session /\ \A h \in rtHeld : h.ends \in Nat
        BY DEF RTInv, SessionsAreKept, Session
      <3>2. QED
        BY <2>1, <3>1 DEF RTInv, SessionsAreKept, SessionKept
    <2>5. QED
      BY <2>1, <2>2, <2>3, <2>4, PartitionStays, RoomsStay DEF RTInv
  <1>6. CASE UNCHANGED rtVars
    <2>1. UNCHANGED <<rtSecond, rtPartition, dlq, sessions, rooms>> /\ rtSecond' \in Nat
      BY <1>6 DEF rtVars, RTInv
    <2>2. QED
      BY <2>1, PartitionStays, QueueStays, SessionsStay, RoomsStay DEF RTInv
  <1>7. QED
    BY <1>1, <1>2, <1>3, <1>4, <1>5, <1>6 DEF RTNext

\* The router's partitions exist but for one hash, the dead-letter queue holds the
\* last messages that failed, in order, and sessions and room members are found
\* under their names (RoutingKeepsTrack).
THEOREM RoutingTracks == RTSpec => []RoutingKeepsTrack
  <1>1. RTInv => RoutingKeepsTrack
    BY DEF RTInv, RoutingKeepsTrack, NamesAreKept, SessionsAreKept, SessionKept, RoomIsKept
  <1>2. QED
    BY RTInitially, RTStep, <1>1, PTL DEF RTSpec

-----------------------------------------------------------------------------
(***************************************************************************)
(* Validation: for every number of tasks, workers, callers and devices.    *)
(***************************************************************************)

\* The pool's tasks are numbered as they are submitted, each queued once.
PoolTypeOK ==
  /\ vdTasks \in Nat /\ vdIdle \in Nat
  /\ vdDone \in BOOLEAN /\ vdClosed \in BOOLEAN
  /\ vdQueue \in Seq(Nat) /\ IsInjective(vdQueue)
  /\ ToSet(vdQueue) \cup vdBusy \cup vdAnswered \cup vdGivenUp \subseteq 1 .. vdTasks

\* Only Close closes the queue, and after it has cancelled the context.
ClosedWhenDone == (vdClosed => vdDone) /\ (vdClose = "wait" => vdDone)

\* The four places of a task, two by two.
Apart(queue, busy, answered, givenUp) ==
  /\ queue \cap busy = {} /\ queue \cap answered = {} /\ queue \cap givenUp = {}
  /\ busy \cap answered = {} /\ busy \cap givenUp = {} /\ answered \cap givenUp = {}

\* Where a caller of the cache or the engine is.
VDPlaces == {"idle", "reading", "deleting", "rules", "recovery", "registering"}
CallersTypeOK == vdCaller \in [Requester -> [at : VDPlaces, key : CacheKey \cup {0}]]

\* The inductive invariant of validation.
VDInv == PoolTypeOK /\ ClosedWhenDone /\ CallersTypeOK /\ vdPanic \in BOOLEAN /\ ValidationHolds

LEMMA PlacesApart ==
  ASSUME NEW q, NEW b, NEW a, NEW g
  PROVE  (\A i, j \in 1 .. 4 : i # j => <<q, b, a, g>>[i] \cap <<q, b, a, g>>[j] = {})
           <=> Apart(q, b, a, g)
  <1> DEFINE P == <<q, b, a, g>>
  <1>1. P[1] = q /\ P[2] = b /\ P[3] = a /\ P[4] = g
    OBVIOUS
  <1> HIDE DEF P
  <1>2. \A i \in 1 .. 4 : i = 1 \/ i = 2 \/ i = 3 \/ i = 4
    OBVIOUS
  <1>3. ASSUME \A i, j \in 1 .. 4 : i # j => P[i] \cap P[j] = {}
        PROVE  Apart(q, b, a, g)
    <2>1. /\ P[1] \cap P[2] = {} /\ P[1] \cap P[3] = {} /\ P[1] \cap P[4] = {}
          /\ P[2] \cap P[3] = {} /\ P[2] \cap P[4] = {} /\ P[3] \cap P[4] = {}
      BY <1>3
    <2>2. QED
      BY <1>1, <2>1 DEF Apart
  <1>4. ASSUME Apart(q, b, a, g), NEW i \in 1 .. 4, NEW j \in 1 .. 4, i # j
        PROVE  P[i] \cap P[j] = {}
    <2>1. /\ P[1] \cap P[2] = {} /\ P[1] \cap P[3] = {} /\ P[1] \cap P[4] = {}
          /\ P[2] \cap P[3] = {} /\ P[2] \cap P[4] = {} /\ P[3] \cap P[4] = {}
          /\ P[2] \cap P[1] = {} /\ P[3] \cap P[1] = {} /\ P[4] \cap P[1] = {}
          /\ P[3] \cap P[2] = {} /\ P[4] \cap P[2] = {} /\ P[4] \cap P[3] = {}
      BY <1>1, <1>4 DEF Apart
    <2>2. QED
      BY <1>2, <1>4, <2>1
  <1>5. (\A i, j \in 1 .. 4 : i # j => P[i] \cap P[j] = {}) <=> Apart(q, b, a, g)
    BY <1>3, <1>4
  <1>6. QED
    BY <1>5 DEF P

\* The workers' tasks are finitely many.
LEMMA BusyFinite == PoolTypeOK => IsFiniteSet(vdBusy) /\ Cardinality(vdBusy) \in Nat
  <1> SUFFICES ASSUME PoolTypeOK PROVE IsFiniteSet(vdBusy) /\ Cardinality(vdBusy) \in Nat
    OBVIOUS
  <1>1. vdTasks \in Nat /\ vdBusy \subseteq 1 .. vdTasks
    BY DEF PoolTypeOK
  <1>2. IsFiniteSet(1 .. vdTasks)
    BY <1>1, FS_Interval
  <1>3. QED
    BY <1>1, <1>2, FS_Subset, FS_CardinalityType

LEMMA VDInitially == VDInit => VDInv
  <1> SUFFICES ASSUME VDInit PROVE VDInv
    OBVIOUS
  <1>1. ToSet(vdQueue) = {}
    BY DEF VDInit, ToSet
  <1>2. vdQueue \in Seq(Nat)
    BY DEF VDInit
  <1>3. IsInjective(vdQueue)
    BY DEF VDInit, IsInjective
  <1>4. PoolTypeOK
    BY <1>1, <1>2, <1>3, ValidationAssumption DEF VDInit, PoolTypeOK
  <1>5. Apart(ToSet(vdQueue), vdBusy, vdAnswered, vdGivenUp)
    BY <1>1 DEF VDInit, Apart
  <1>6. 1 .. vdTasks = {} /\ vdIdle + Cardinality(vdBusy) = Workers
    BY FS_EmptySet, ValidationAssumption DEF VDInit
  <1>7. TasksAccounted
    BY <1>1, <1>5, <1>6, PlacesApart DEF VDInit, TasksAccounted, TaskPlaces
  <1>8. ClosedWhenDone /\ vdPanic \in BOOLEAN /\ OnlyKnownRacesPanic
    BY DEF VDInit, ClosedWhenDone, OnlyKnownRacesPanic
  <1>9. CallersTypeOK
    BY DEF VDInit, CallersTypeOK, VDPlaces
  <1>10. QED
    BY <1>4, <1>7, <1>8, <1>9 DEF VDInv, ValidationHolds

LEMMA SubmitTaskStep ==
  ASSUME VDInv, ~vdPanic, SubmitTask
  PROVE  VDInv'
  <1>1. /\ vdTasks' = vdTasks + 1
        /\ UNCHANGED <<vdClosed, vdDone, vdBusy, vdIdle, vdAnswered, vdClose, vdCaller>>
    BY DEF SubmitTask, cacheAndEngine
  <1>2. PoolTypeOK /\ Apart(ToSet(vdQueue), vdBusy, vdAnswered, vdGivenUp)
    BY PlacesApart DEF VDInv, ValidationHolds, TasksAccounted, TaskPlaces
  <1>3. vdTasks \in Nat /\ vdTasks' \notin 1 .. vdTasks /\ 1 .. vdTasks' = (1 .. vdTasks) \cup {vdTasks'}
    BY <1>1, <1>2 DEF PoolTypeOK
  <1>4. CASE /\ vdPanic' = vdClosed /\ vdQueue' = Append(vdQueue, vdTasks') /\ UNCHANGED vdGivenUp
    <2>1. /\ ToSet(vdQueue') = ToSet(vdQueue) \cup {vdTasks'} /\ IsInjective(vdQueue')
          /\ vdQueue' \in Seq(Nat)
      <3>1. /\ vdQueue \in Seq(Nat) /\ IsInjective(vdQueue)
            /\ vdTasks' \in Nat /\ vdTasks' \notin ToSet(vdQueue)
        BY <1>1, <1>2, <1>3 DEF PoolTypeOK
      <3>2. QED
        BY <1>4, <3>1, AppendOne, AppendProperties
    <2>2. PoolTypeOK'
      BY <1>1, <1>2, <1>3, <1>4, <2>1 DEF PoolTypeOK
    <2>3. Apart(ToSet(vdQueue), vdBusy, vdAnswered, vdGivenUp)'
      BY <1>1, <1>2, <1>3, <1>4, <2>1 DEF PoolTypeOK, Apart
    <2>4. TasksAccounted'
      BY <1>1, <1>3, <2>1, <2>3, PlacesApart DEF VDInv, ValidationHolds, TasksAccounted, TaskPlaces
    <2>5. OnlyKnownRacesPanic'
      BY <1>1, <1>4 DEF VDInv, ClosedWhenDone, OnlyKnownRacesPanic
    <2>6. QED
      BY <1>1, <1>4, <2>2, <2>4, <2>5 DEF VDInv, ValidationHolds, ClosedWhenDone, CallersTypeOK,
         PoolTypeOK
  <1>5. CASE /\ vdDone
             /\ vdGivenUp' = vdGivenUp \cup {vdTasks'} /\ UNCHANGED <<vdQueue, vdPanic>>
    <2>1. PoolTypeOK'
      BY <1>1, <1>2, <1>3, <1>5 DEF PoolTypeOK
    <2>2. Apart(ToSet(vdQueue), vdBusy, vdAnswered, vdGivenUp)'
      BY <1>1, <1>2, <1>3, <1>5 DEF PoolTypeOK, Apart
    <2>3. TasksAccounted' /\ OnlyKnownRacesPanic'
      BY <1>1, <1>5, <2>2, PlacesApart DEF TasksAccounted, TaskPlaces, OnlyKnownRacesPanic
    <2>4. QED
      BY <1>1, <1>5, <2>1, <2>3 DEF VDInv, ValidationHolds, ClosedWhenDone, CallersTypeOK
  <1>6. QED
    BY <1>4, <1>5 DEF SubmitTask

LEMMA TakeTaskStep ==
  ASSUME VDInv, ~vdPanic, TakeTask
  PROVE  VDInv'
  <1>1. /\ vdIdle > 0 /\ vdQueue # <<>> /\ vdIdle' = vdIdle - 1
        /\ vdBusy' = vdBusy \cup {Head(vdQueue)} /\ vdQueue' = Tail(vdQueue)
        /\ UNCHANGED <<vdClosed, vdDone, vdAnswered, vdGivenUp, vdTasks, vdClose, vdCaller, vdPanic>>
    BY DEF TakeTask, cacheAndEngine
  <1>2. PoolTypeOK /\ Apart(ToSet(vdQueue), vdBusy, vdAnswered, vdGivenUp)
    BY PlacesApart DEF VDInv, ValidationHolds, TasksAccounted, TaskPlaces
  <1>3. /\ Head(vdQueue) \in ToSet(vdQueue) /\ ToSet(vdQueue') = ToSet(vdQueue) \ {Head(vdQueue)}
        /\ IsInjective(vdQueue') /\ vdQueue' \in Seq(Nat)
    <2>1. vdQueue \in Seq(Nat) /\ IsInjective(vdQueue)
      BY <1>2 DEF PoolTypeOK
    <2>2. QED
      BY <1>1, <2>1, TakeHead, HeadTailProperties
  <1>4. PoolTypeOK'
    BY <1>1, <1>2, <1>3 DEF PoolTypeOK
  <1>5. Apart(ToSet(vdQueue), vdBusy, vdAnswered, vdGivenUp)'
    BY <1>1, <1>2, <1>3 DEF Apart
  <1>6. Cardinality(vdBusy') = Cardinality(vdBusy) + 1
    <2>1. Head(vdQueue) \notin vdBusy
      BY <1>2, <1>3 DEF Apart
    <2>2. QED
      BY <1>1, <1>2, <2>1, BusyFinite, OneMore
  <1>7. vdIdle' + Cardinality(vdBusy') = vdIdle + Cardinality(vdBusy)
    BY <1>1, <1>2, <1>6, BusyFinite DEF PoolTypeOK
  <1>8. ToSet(vdQueue') \cup vdBusy' = ToSet(vdQueue) \cup vdBusy
    BY <1>1, <1>3
  <1>9. TasksAccounted'
    BY <1>1, <1>5, <1>7, <1>8, PlacesApart DEF VDInv, ValidationHolds, TasksAccounted, TaskPlaces
  <1>10. QED
    BY <1>1, <1>4, <1>9
       DEF VDInv, ValidationHolds, ClosedWhenDone, CallersTypeOK, OnlyKnownRacesPanic, None

LEMMA AnswerStep ==
  ASSUME VDInv, ~vdPanic, NEW task \in vdBusy, Answer(task)
  PROVE  VDInv'
  <1>1. /\ vdBusy' = vdBusy \ {task}
        /\ UNCHANGED <<vdQueue, vdClosed, vdDone, vdGivenUp, vdTasks, vdClose, vdCaller, vdPanic>>
    BY DEF Answer, cacheAndEngine
  <1>2. PoolTypeOK /\ Apart(ToSet(vdQueue), vdBusy, vdAnswered, vdGivenUp)
    BY PlacesApart DEF VDInv, ValidationHolds, TasksAccounted, TaskPlaces
  <1>3. CASE vdAnswered' = vdAnswered \cup {task} /\ vdIdle' = vdIdle + 1
    <2>1. PoolTypeOK'
      BY <1>1, <1>2, <1>3 DEF PoolTypeOK
    <2>2. Apart(ToSet(vdQueue), vdBusy, vdAnswered, vdGivenUp)'
      BY <1>1, <1>2, <1>3 DEF Apart
    <2>3. Cardinality(vdBusy') = Cardinality(vdBusy) - 1
      BY <1>1, <1>2, BusyFinite, OneLess
    <2>4. vdIdle' + Cardinality(vdBusy') = vdIdle + Cardinality(vdBusy)
      BY <1>2, <1>3, <2>3, BusyFinite DEF PoolTypeOK
    <2>5. vdBusy' \cup vdAnswered' = vdBusy \cup vdAnswered
      BY <1>1, <1>3
    <2>6. TasksAccounted'
      BY <1>1, <2>2, <2>4, <2>5, PlacesApart DEF VDInv, ValidationHolds, TasksAccounted, TaskPlaces
    <2>7. QED
      BY <1>1, <2>1, <2>6
         DEF VDInv, ValidationHolds, ClosedWhenDone, CallersTypeOK, OnlyKnownRacesPanic, None
  <1>4. CASE vdDone /\ UNCHANGED <<vdAnswered, vdIdle>>
    <2>1. PoolTypeOK'
      BY <1>1, <1>2, <1>4 DEF PoolTypeOK
    <2>2. Apart(ToSet(vdQueue), vdBusy, vdAnswered, vdGivenUp)'
      BY <1>1, <1>2, <1>4 DEF Apart
    <2>3. TasksAccounted'
      BY <1>1, <1>4, <2>2, PlacesApart DEF TasksAccounted, TaskPlaces
    <2>4. QED
      BY <1>1, <2>1, <2>3
         DEF VDInv, ValidationHolds, ClosedWhenDone, CallersTypeOK, OnlyKnownRacesPanic, None
  <1>5. QED
    BY <1>3, <1>4 DEF Answer

\* A step that leaves the tasks where they are, when Close has been called.
LEMMA TasksStay ==
  ASSUME VDInv, UNCHANGED <<vdQueue, vdBusy, vdAnswered, vdGivenUp, vdTasks>>, vdDone'
  PROVE  TasksAccounted'
  <1>1. Apart(ToSet(vdQueue), vdBusy, vdAnswered, vdGivenUp)
    BY PlacesApart DEF VDInv, ValidationHolds, TasksAccounted, TaskPlaces
  <1>2. Apart(ToSet(vdQueue), vdBusy, vdAnswered, vdGivenUp)'
    BY <1>1 DEF Apart
  <1>3. QED
    BY <1>2, PlacesApart DEF TasksAccounted, TaskPlaces

LEMMA ClosingStep ==
  ASSUME VDInv, ~vdPanic, WorkerEnds \/ Close \/ CloseEnds
  PROVE  VDInv'
  <1>1. UNCHANGED <<vdQueue, vdBusy, vdAnswered, vdGivenUp, vdTasks, vdCaller>> /\ vdDone'
    BY DEF WorkerEnds, Close, CloseEnds, cacheAndEngine, VDInv, ClosedWhenDone
  <1>2. /\ vdClosed' \in BOOLEAN /\ vdIdle' \in Nat /\ (vdClosed' => vdDone')
        /\ (vdPanic' => vdDone' /\ vdClosed') /\ vdPanic' \in BOOLEAN
    <2>1. CASE WorkerEnds
      BY <1>1, <2>1 DEF WorkerEnds, VDInv, PoolTypeOK
    <2>2. CASE Close
      BY <1>1, <2>2 DEF Close, VDInv, PoolTypeOK
    <2>3. CASE CloseEnds
      BY <1>1, <2>3 DEF CloseEnds, VDInv, PoolTypeOK
    <2>4. QED
      BY <2>1, <2>2, <2>3
  <1>3. PoolTypeOK'
    BY <1>1, <1>2 DEF VDInv, PoolTypeOK
  <1>4. QED
    BY <1>1, <1>2, <1>3, TasksStay
       DEF VDInv, ValidationHolds, ClosedWhenDone, CallersTypeOK, OnlyKnownRacesPanic

\* A step of the cache or of an engine, which leaves the pool alone.
LEMMA PoolStays ==
  ASSUME VDInv, UNCHANGED pool, CallersTypeOK', vdPanic' \in BOOLEAN,
         vdPanic' => ~None({"reading", "deleting"})' \/ ~None({"recovery"})'
  PROVE  VDInv'
  <1>1. UNCHANGED <<vdQueue, vdClosed, vdDone, vdBusy, vdIdle, vdAnswered, vdGivenUp, vdTasks, vdClose>>
    BY DEF pool
  <1>2. PoolTypeOK' /\ ClosedWhenDone' /\ TasksAccounted'
    BY <1>1 DEF VDInv, ValidationHolds, PoolTypeOK, ClosedWhenDone, TasksAccounted, TaskPlaces
  <1>3. OnlyKnownRacesPanic'
    BY DEF OnlyKnownRacesPanic
  <1>4. QED
    BY <1>2, <1>3 DEF VDInv, ValidationHolds

LEMMA CallerMoves ==
  ASSUME VDInv, NEW c \in Requester, NEW from, NEW to \in VDPlaces, NEW k \in CacheKey \cup {0},
         Goes(c, from, to, k)
  PROVE  CallersTypeOK' /\ \A d \in Requester \ {c} : vdCaller'[d] = vdCaller[d]
  BY DEF VDInv, CallersTypeOK, Goes

LEMMA CacheStep ==
  ASSUME VDInv, ~vdPanic, NEW c \in Requester,
         (\E k \in CacheKey : Get(c, k)) \/ GetReturns(c) \/ DeleteExpired(c)
  PROVE  VDInv'
  <1>1. ASSUME NEW k \in CacheKey, Get(c, k) PROVE VDInv'
    <2>1. \E to \in VDPlaces : Goes(c, "idle", to, k)
      BY <1>1 DEF Get, VDPlaces
    <2>2. UNCHANGED pool /\ vdPanic' = vdPanic
      BY <1>1 DEF Get
    <2>3. CallersTypeOK' /\ vdPanic' \in BOOLEAN /\ ~vdPanic'
      BY <2>1, <2>2, CallerMoves DEF VDInv
    <2>4. QED
      BY <2>2, <2>3, PoolStays
  <1>2. CASE GetReturns(c)
    <2>1. "idle" \in VDPlaces /\ Goes(c, "reading", "idle", 0)
      BY <1>2 DEF GetReturns, VDPlaces
    <2>2. UNCHANGED pool /\ vdPanic' = vdPanic
      BY <1>2 DEF GetReturns
    <2>3. CallersTypeOK' /\ vdPanic' \in BOOLEAN /\ ~vdPanic'
      BY <2>1, <2>2, CallerMoves DEF VDInv
    <2>4. QED
      BY <2>2, <2>3, PoolStays
  <1>3. CASE DeleteExpired(c)
    <2>1. "idle" \in VDPlaces /\ Goes(c, "deleting", "idle", 0)
      BY <1>3 DEF DeleteExpired, VDPlaces
    <2>2. /\ UNCHANGED pool
          /\ vdPanic' \in {FALSE, \E d \in Requester \ {c} : vdCaller[d].at \in {"reading", "deleting"}}
      BY <1>3 DEF DeleteExpired
    <2>3. CallersTypeOK' /\ \A d \in Requester \ {c} : vdCaller'[d] = vdCaller[d]
      BY <2>1, CallerMoves
    <2>4. vdPanic' \in BOOLEAN
      BY <2>2
    <2>5. vdPanic' => ~None({"reading", "deleting"})'
      BY <2>2, <2>3 DEF None
    <2>6. QED
      BY <2>2, <2>3, <2>4, <2>5, PoolStays
  <1>4. QED
    BY <1>1, <1>2, <1>3

LEMMA EngineStep ==
  ASSUME VDInv, ~vdPanic, NEW c \in Requester,
         Validate(c) \/ RulesDone(c) \/ Recovered(c) \/ RegisterRule(c) \/ RuleRegistered(c)
  PROVE  VDInv'
  <1>1. \E from \in VDPlaces, to \in VDPlaces : Goes(c, from, to, 0)
    BY DEF Validate, RulesDone, Recovered, RegisterRule, RuleRegistered, VDPlaces
  <1>2. CallersTypeOK' /\ \A d \in Requester \ {c} : vdCaller'[d] = vdCaller[d]
    BY <1>1, CallerMoves
  <1>3. UNCHANGED pool
    BY DEF Validate, RulesDone, Recovered, RegisterRule, RuleRegistered
  <1>4. vdPanic' = vdPanic \/ vdPanic' = FALSE
          \/ /\ Goes(c, "registering", "idle", 0) /\ vdPanic' = ~None({"recovery"})
    BY DEF Validate, RulesDone, Recovered, RegisterRule, RuleRegistered
  <1>5. CASE /\ Goes(c, "registering", "idle", 0) /\ vdPanic' = ~None({"recovery"})
    <2>1. vdCaller[c].at = "registering"
      BY <1>5 DEF Goes
    <2>2. vdPanic' => ~None({"recovery"})'
      BY <1>2, <1>5, <2>1 DEF None
    <2>3. vdPanic' \in BOOLEAN
      BY <1>5
    <2>4. QED
      BY <1>2, <1>3, <2>2, <2>3, PoolStays
  <1>6. CASE vdPanic' = vdPanic \/ vdPanic' = FALSE
    <2>0. vdPanic \in BOOLEAN
      BY DEF VDInv
    <2>1. vdPanic' \in BOOLEAN /\ ~vdPanic'
      <3>1. CASE vdPanic' = vdPanic
        BY <2>0, <3>1
      <3>2. CASE vdPanic' = FALSE
        BY <3>2
      <3>3. QED
        BY <1>6, <3>1, <3>2
    <2>2. QED
      BY <1>2, <1>3, <2>1, PoolStays
  <1>7. QED
    BY <1>4, <1>5, <1>6

LEMMA VDStep == VDInv /\ [\E part \in {"pool", "cache", "engine"} : VDNext(part)]_vdVars => VDInv'
  <1> SUFFICES ASSUME VDInv, [\E part \in {"pool", "cache", "engine"} : VDNext(part)]_vdVars
               PROVE  VDInv'
    OBVIOUS
  <1>1. ASSUME NEW part \in {"pool", "cache", "engine"}, VDNext(part) PROVE VDInv'
    <2>1. ~vdPanic
      BY <1>1 DEF VDNext
    <2>2. CASE SubmitTask \/ TakeTask \/ WorkerEnds \/ Close \/ CloseEnds
      BY <2>1, <2>2, SubmitTaskStep, TakeTaskStep, ClosingStep
    <2>3. ASSUME NEW task \in vdBusy, Answer(task) PROVE VDInv'
      BY <2>1, <2>3, AnswerStep
    <2>4. ASSUME NEW c \in Requester,
                 (\E k \in CacheKey : Get(c, k)) \/ GetReturns(c) \/ DeleteExpired(c)
          PROVE  VDInv'
      BY <2>1, <2>4, CacheStep
    <2>5. ASSUME (\E k \in CacheKey : Set(k)) \/ CacheTick PROVE VDInv'
      <3>1. UNCHANGED <<pool, vdCaller, vdPanic>>
        BY <2>5 DEF Set, CacheTick
      <3>2. CallersTypeOK' /\ vdPanic' \in BOOLEAN /\ ~vdPanic'
        BY <2>1, <3>1 DEF VDInv, CallersTypeOK
      <3>3. QED
        BY <3>1, <3>2, PoolStays
    <2>6. ASSUME NEW c \in Requester,
                 Validate(c) \/ RulesDone(c) \/ Recovered(c) \/ RegisterRule(c) \/ RuleRegistered(c)
          PROVE  VDInv'
      BY <2>1, <2>6, EngineStep
    <2>7. QED
      BY <1>1, <2>2, <2>3, <2>4, <2>5, <2>6 DEF VDNext
  <1>2. CASE UNCHANGED vdVars
    <2>1. UNCHANGED <<pool, vdCaller, vdPanic>>
      BY <1>2 DEF vdVars
    <2>2. UNCHANGED <<vdQueue, vdClosed, vdDone, vdBusy, vdIdle, vdAnswered, vdGivenUp, vdTasks, vdClose>>
      BY <2>1 DEF pool
    <2>3. PoolTypeOK' /\ ClosedWhenDone' /\ CallersTypeOK' /\ vdPanic' \in BOOLEAN /\ TasksAccounted'
      BY <2>1, <2>2 DEF VDInv, ValidationHolds, PoolTypeOK, ClosedWhenDone, CallersTypeOK,
                        TasksAccounted, TaskPlaces
    <2>4. OnlyKnownRacesPanic'
      BY <2>1, <2>2 DEF VDInv, ValidationHolds, OnlyKnownRacesPanic, None
    <2>5. QED
      BY <2>3, <2>4 DEF VDInv, ValidationHolds
  <1>3. QED
    BY <1>1, <1>2

\* Until Close no task given to the validation pool is lost or answered twice, none
\* of the workers is missing, and the process ends by the three known races only
\* (ValidationHolds).
THEOREM TasksAreAccounted == VDSpec => []ValidationHolds
  <1>1. VDInv => ValidationHolds
    BY DEF VDInv
  <1>2. QED
    BY VDInitially, VDStep, <1>1, PTL DEF VDSpec

-----------------------------------------------------------------------------
(***************************************************************************)
(* WSClient: for every finite set of senders and closers.                  *)
(***************************************************************************)

WCTypeOK ==
  /\ wcConnected \in BOOLEAN /\ wcRace \in BOOLEAN
  /\ wcSend \in [length : Nat, closed : BOOLEAN]
  /\ wcSender \in [Sender -> {"idle", "checked", "queued", "refused"}]
  /\ wcCloser \in [Closer -> {"idle", "marked", "closed"}]
  /\ wcStats \in [sent : Nat, errors : Nat] /\ wcOutcomes \in [queued : Nat, refused : Nat]
  /\ wcPanic \in {"no", "send", "close", "nil"}

\* Whoever closes the channel has disconnected the client before, and a sender that
\* has seen it connected since is in the race.
CloseComesAfter ==
  /\ wcConnected => \A c \in Closer : wcCloser[c] = "idle"
  /\ wcSend.closed => \E c \in Closer : wcCloser[c] = "closed"
  /\ wcConnected \/ wcRace \/ \A s \in Sender : wcSender[s] # "checked"

\* The inductive invariant of the client.
WCInv == WCTypeOK /\ CloseComesAfter /\ ClientHolds

SendersAt(place) == {s \in Sender : wcSender[s] = place}

LEMMA SendersCounted ==
  /\ \A place : IsFiniteSet(SendersAt(place)) /\ Cardinality(SendersAt(place)) \in Nat
  /\ StatsFollow <=> /\ wcStats.sent   + Cardinality(SendersAt("queued"))  = wcOutcomes.queued
                     /\ wcStats.errors + Cardinality(SendersAt("refused")) = wcOutcomes.refused
                     /\ wcSend.length <= wcOutcomes.queued
  <1>1. ASSUME NEW place
        PROVE  IsFiniteSet(SendersAt(place)) /\ Cardinality(SendersAt(place)) \in Nat
    <2>1. SendersAt(place) \subseteq Sender
      BY DEF SendersAt
    <2>2. QED
      BY <2>1, ClientAssumption, FS_Subset, FS_CardinalityType
  <1>2. QED
    BY <1>1 DEF StatsFollow, SendersAt

LEMMA WCInitially == WCInit => WCInv
  <1> SUFFICES ASSUME WCInit PROVE WCInv
    OBVIOUS
  <1>1. WCTypeOK
    BY DEF WCInit, WCTypeOK
  <1>2. CloseComesAfter
    BY DEF WCInit, CloseComesAfter
  <1>3. SendersAt("queued") = {} /\ SendersAt("refused") = {}
    BY DEF WCInit, SendersAt
  <1>4. StatsFollow
    <2>1. /\ wcStats.sent = 0 /\ wcStats.errors = 0 /\ wcSend.length = 0
          /\ wcOutcomes.queued = 0 /\ wcOutcomes.refused = 0
      BY DEF WCInit
    <2>2. QED
      BY <1>3, <2>1, FS_EmptySet, SendersCounted
  <1>5. OnlyRacesMeetClose /\ OnlyTimeReadsNil
    BY DEF WCInit, OnlyRacesMeetClose, OnlyTimeReadsNil
  <1>6. QED
    BY <1>1, <1>2, <1>4, <1>5 DEF WCInv, ClientHolds

\* Where nobody counts and nothing is sent, the statistics follow.
LEMMA NothingCounted ==
  ASSUME WCTypeOK, StatsFollow,
         UNCHANGED <<wcStats, wcOutcomes>>, wcSend'.length <= wcSend.length, wcSend'.length \in Nat,
         \A s \in Sender : wcSender'[s] # wcSender[s]
                             => {wcSender[s], wcSender'[s]} \cap {"queued", "refused"} = {}
  PROVE  StatsFollow'
  <1>1. SendersAt("queued")' = SendersAt("queued") /\ SendersAt("refused")' = SendersAt("refused")
    BY DEF SendersAt
  <1>2. /\ wcStats.sent   + Cardinality(SendersAt("queued"))  = wcOutcomes.queued
        /\ wcStats.errors + Cardinality(SendersAt("refused")) = wcOutcomes.refused
        /\ wcSend.length <= wcOutcomes.queued
    BY SendersCounted
  <1>3. wcSend.length \in Nat /\ wcOutcomes.queued \in Nat
    BY DEF WCTypeOK
  <1>4. /\ wcStats'.sent   + Cardinality(SendersAt("queued")')  = wcOutcomes'.queued
        /\ wcStats'.errors + Cardinality(SendersAt("refused")') = wcOutcomes'.refused
        /\ wcSend'.length <= wcOutcomes'.queued
    BY <1>1, <1>2, <1>3
  <1>5. QED
    BY <1>4 DEF StatsFollow, SendersAt

LEMMA SendOrRefuseStep ==
  ASSUME WCInv, wcPanic = "no", NEW s \in Sender, SendOrRefuse(s)
  PROVE  WCInv'
  <1>1. /\ wcSender[s] = "checked"
        /\ UNCHANGED <<wcConnected, wcCloser, wcStats, wcRace, wcFilter>>
    BY DEF SendOrRefuse, matching
  <1>2. CASE wcSend.closed
    <2>1. wcPanic' = "send" /\ UNCHANGED <<wcSend, wcSender, wcOutcomes>>
      BY <1>2 DEF SendOrRefuse
    <2>2. ~wcConnected
      BY <1>2 DEF WCInv, CloseComesAfter
    <2>3. wcRace
      BY <1>1, <2>2 DEF WCInv, CloseComesAfter
    <2>4. WCTypeOK' /\ CloseComesAfter' /\ StatsFollow'
      BY <1>1, <2>1 DEF WCInv, WCTypeOK, CloseComesAfter, ClientHolds, StatsFollow
    <2>5. QED
      BY <1>1, <2>1, <2>3, <2>4 DEF WCInv, ClientHolds, OnlyRacesMeetClose, OnlyTimeReadsNil
  <1>3. CASE ~wcSend.closed
    <2> DEFINE queued == wcSend.length < SendBuffer
    <2>1. /\ wcSend' = IF queued THEN [wcSend EXCEPT !.length = @ + 1] ELSE wcSend
          /\ wcSender' = [wcSender EXCEPT ![s] = IF queued THEN "queued" ELSE "refused"]
          /\ wcOutcomes' = IF queued THEN [wcOutcomes EXCEPT !.queued = @ + 1]
                                     ELSE [wcOutcomes EXCEPT !.refused = @ + 1]
          /\ wcPanic' = wcPanic
      BY <1>3 DEF SendOrRefuse
    <2>2. WCTypeOK'
      BY <1>1, <2>1 DEF WCInv, WCTypeOK
    <2>3. CloseComesAfter'
      BY <1>1, <1>3, <2>1 DEF WCInv, WCTypeOK, CloseComesAfter
    <2>4. /\ wcStats.sent   + Cardinality(SendersAt("queued"))  = wcOutcomes.queued
          /\ wcStats.errors + Cardinality(SendersAt("refused")) = wcOutcomes.refused
          /\ wcSend.length <= wcOutcomes.queued
      BY SendersCounted DEF WCInv, ClientHolds
    <2>5. StatsFollow'
      <3>1. CASE queued
        <4>1. SendersAt("queued")' = SendersAt("queued") \cup {s} /\ s \notin SendersAt("queued")
          BY <1>1, <2>1, <3>1 DEF SendersAt, WCInv, WCTypeOK
        <4>2. SendersAt("refused")' = SendersAt("refused")
          BY <1>1, <2>1, <3>1 DEF SendersAt, WCInv, WCTypeOK
        <4>3. Cardinality(SendersAt("queued")') = Cardinality(SendersAt("queued")) + 1
          BY <4>1, SendersCounted, OneMore
        <4>4. /\ wcOutcomes'.queued = wcOutcomes.queued + 1 /\ wcOutcomes'.refused = wcOutcomes.refused
              /\ wcSend'.length = wcSend.length + 1
          BY <2>1, <3>1 DEF WCInv, WCTypeOK
        <4>5. /\ wcStats'.sent   + Cardinality(SendersAt("queued")')  = wcOutcomes'.queued
              /\ wcStats'.errors + Cardinality(SendersAt("refused")') = wcOutcomes'.refused
              /\ wcSend'.length <= wcOutcomes'.queued
          BY <1>1, <2>4, <4>2, <4>3, <4>4, SendersCounted DEF WCInv, WCTypeOK
        <4>6. QED
          BY <4>5 DEF StatsFollow, SendersAt
      <3>2. CASE ~queued
        <4>1. SendersAt("refused")' = SendersAt("refused") \cup {s} /\ s \notin SendersAt("refused")
          BY <1>1, <2>1, <3>2 DEF SendersAt, WCInv, WCTypeOK
        <4>2. SendersAt("queued")' = SendersAt("queued")
          BY <1>1, <2>1, <3>2 DEF SendersAt, WCInv, WCTypeOK
        <4>3. Cardinality(SendersAt("refused")') = Cardinality(SendersAt("refused")) + 1
          BY <4>1, SendersCounted, OneMore
        <4>4. /\ wcOutcomes'.refused = wcOutcomes.refused + 1 /\ wcOutcomes'.queued = wcOutcomes.queued
              /\ wcSend'.length = wcSend.length
          BY <2>1, <3>2 DEF WCInv, WCTypeOK
        <4>5. /\ wcStats'.sent   + Cardinality(SendersAt("queued")')  = wcOutcomes'.queued
              /\ wcStats'.errors + Cardinality(SendersAt("refused")') = wcOutcomes'.refused
              /\ wcSend'.length <= wcOutcomes'.queued
          BY <1>1, <2>4, <4>2, <4>3, <4>4, SendersCounted DEF WCInv, WCTypeOK
        <4>6. QED
          BY <4>5 DEF StatsFollow, SendersAt
      <3>3. QED
        BY <3>1, <3>2
    <2>6. QED
      BY <1>1, <2>1, <2>2, <2>3, <2>5 DEF WCInv, ClientHolds, OnlyRacesMeetClose, OnlyTimeReadsNil
  <1>4. QED
    BY <1>2, <1>3

LEMMA UpdateStatsStep ==
  ASSUME WCInv, wcPanic = "no", NEW s \in Sender, UpdateStats(s)
  PROVE  WCInv'
  <1>1. /\ wcSender[s] \in {"queued", "refused"} /\ wcSender' = [wcSender EXCEPT ![s] = "idle"]
        /\ wcStats' = IF wcSender[s] = "queued" THEN [wcStats EXCEPT !.sent = @ + 1]
                                                ELSE [wcStats EXCEPT !.errors = @ + 1]
        /\ UNCHANGED <<wcConnected, wcSend, wcCloser, wcOutcomes, wcRace, wcFilter, wcPanic>>
    BY DEF UpdateStats, matching
  <1>2. WCTypeOK'
    BY <1>1 DEF WCInv, WCTypeOK
  <1>3. CloseComesAfter'
    BY <1>1 DEF WCInv, WCTypeOK, CloseComesAfter
  <1>4. /\ wcStats.sent   + Cardinality(SendersAt("queued"))  = wcOutcomes.queued
        /\ wcStats.errors + Cardinality(SendersAt("refused")) = wcOutcomes.refused
        /\ wcSend.length <= wcOutcomes.queued
    BY SendersCounted DEF WCInv, ClientHolds
  <1>5. StatsFollow'
    <2>1. CASE wcSender[s] = "queued"
      <3>1. /\ SendersAt("queued")' = SendersAt("queued") \ {s} /\ s \in SendersAt("queued")
            /\ SendersAt("refused")' = SendersAt("refused")
        BY <1>1, <2>1 DEF SendersAt, WCInv, WCTypeOK
      <3>2. Cardinality(SendersAt("queued")') = Cardinality(SendersAt("queued")) - 1
        BY <3>1, SendersCounted, OneLess
      <3>3. wcStats'.sent = wcStats.sent + 1 /\ wcStats'.errors = wcStats.errors
        BY <1>1, <2>1 DEF WCInv, WCTypeOK
      <3>4. /\ wcStats'.sent   + Cardinality(SendersAt("queued")')  = wcOutcomes'.queued
            /\ wcStats'.errors + Cardinality(SendersAt("refused")') = wcOutcomes'.refused
            /\ wcSend'.length <= wcOutcomes'.queued
        BY <1>1, <1>4, <3>1, <3>2, <3>3, SendersCounted DEF WCInv, WCTypeOK
      <3>5. QED
        BY <3>4 DEF StatsFollow, SendersAt
    <2>2. CASE wcSender[s] = "refused"
      <3>1. /\ SendersAt("refused")' = SendersAt("refused") \ {s} /\ s \in SendersAt("refused")
            /\ SendersAt("queued")' = SendersAt("queued")
        BY <1>1, <2>2 DEF SendersAt, WCInv, WCTypeOK
      <3>2. Cardinality(SendersAt("refused")') = Cardinality(SendersAt("refused")) - 1
        BY <3>1, SendersCounted, OneLess
      <3>3. wcStats'.errors = wcStats.errors + 1 /\ wcStats'.sent = wcStats.sent
        BY <1>1, <2>2 DEF WCInv, WCTypeOK
      <3>4. /\ wcStats'.sent   + Cardinality(SendersAt("queued")')  = wcOutcomes'.queued
            /\ wcStats'.errors + Cardinality(SendersAt("refused")') = wcOutcomes'.refused
            /\ wcSend'.length <= wcOutcomes'.queued
        BY <1>1, <1>4, <3>1, <3>2, <3>3, SendersCounted DEF WCInv, WCTypeOK
      <3>5. QED
        BY <3>4 DEF StatsFollow, SendersAt
    <2>3. QED
      BY <1>1, <2>1, <2>2
  <1>6. QED
    BY <1>1, <1>2, <1>3, <1>5 DEF WCInv, ClientHolds, OnlyRacesMeetClose, OnlyTimeReadsNil

LEMMA CloseSendChannelStep ==
  ASSUME WCInv, wcPanic = "no", NEW c \in Closer, CloseSendChannel(c)
  PROVE  WCInv'
  <1>1. /\ wcCloser[c] = "marked" /\ wcCloser' = [wcCloser EXCEPT ![c] = "closed"]
        /\ wcSend' = [wcSend EXCEPT !.closed = TRUE]
        /\ wcPanic' = IF wcSend.closed THEN "close" ELSE wcPanic
        /\ UNCHANGED <<wcConnected, wcSender, wcStats, wcOutcomes, wcRace, wcFilter>>
    BY DEF CloseSendChannel, matching
  <1>2. WCTypeOK' /\ wcSend'.length = wcSend.length
    BY <1>1 DEF WCInv, WCTypeOK
  <1>3. CloseComesAfter'
    BY <1>1 DEF WCInv, WCTypeOK, CloseComesAfter
  <1>4. StatsFollow'
    BY <1>1, <1>2, NothingCounted DEF WCInv, ClientHolds, WCTypeOK
  <1>5. wcPanic' = "close" => Cardinality({d \in Closer : wcCloser'[d] = "closed"}) > 1
    <2> SUFFICES ASSUME wcSend.closed
                 PROVE  Cardinality({d \in Closer : wcCloser'[d] = "closed"}) > 1
      BY <1>1
    <2> DEFINE closed == {d \in Closer : wcCloser'[d] = "closed"}
    <2>1. PICK d \in Closer : wcCloser[d] = "closed"
      BY DEF WCInv, CloseComesAfter
    <2>2. c \in closed /\ d \in closed /\ c # d
      BY <1>1, <2>1 DEF WCInv, WCTypeOK
    <2>3. IsFiniteSet(closed)
      BY ClientAssumption, FS_Subset
    <2>4. Cardinality(closed \ {c}) = Cardinality(closed) - 1 /\ IsFiniteSet(closed \ {c})
      BY <2>2, <2>3, FS_RemoveElement
    <2>5. Cardinality(closed \ {c}) # 0 /\ Cardinality(closed \ {c}) \in Nat /\ Cardinality(closed) \in Nat
      BY <2>2, <2>3, <2>4, FS_EmptySet, FS_CardinalityType
    <2>6. QED
      BY <2>4, <2>5
  <1>6. QED
    BY <1>1, <1>2, <1>3, <1>4, <1>5 DEF WCInv, ClientHolds, OnlyRacesMeetClose, OnlyTimeReadsNil

LEMMA MatchStep ==
  ASSUME WCInv, wcPanic = "no", Match
  PROVE  WCInv'
  <1>1. PICK kind \in {"device_data", "alert"}, data \in Data :
          wcPanic' = IF ReadsTime(wcFilter, kind, data) /\ data = Nil THEN "nil" ELSE wcPanic
    BY DEF Match
  <1>2. UNCHANGED <<send, wcFilter>>
    BY DEF Match
  <1>3. OnlyTimeReadsNil'
    <2>1. CASE wcPanic' = "nil"
      <3>1. ReadsTime(wcFilter, kind, data) /\ data = Nil
        BY <1>1, <2>1
      <3>2. wcFilter.enabled /\ wcFilter.since # 0 /\ wcFilter.devices = {}
        BY <3>1 DEF ReadsTime, Passes
      <3>3. QED
        BY <1>2, <3>2 DEF OnlyTimeReadsNil
    <2>2. QED
      BY <2>1 DEF OnlyTimeReadsNil
  <1>4. wcPanic' \in {"no", "nil"}
    BY <1>1
  <1>5. WCTypeOK' /\ CloseComesAfter'
    BY <1>2, <1>4 DEF WCInv, WCTypeOK, CloseComesAfter, send
  <1>6. StatsFollow' /\ OnlyRacesMeetClose'
    BY <1>2, <1>4 DEF WCInv, ClientHolds, StatsFollow, OnlyRacesMeetClose, send
  <1>7. QED
    BY <1>3, <1>5, <1>6 DEF WCInv, ClientHolds

LEMMA WCStep == WCInv /\ [\E part \in {"send", "filter"} : WCNext(part)]_wcVars => WCInv'
  <1> SUFFICES ASSUME WCInv, [\E part \in {"send", "filter"} : WCNext(part)]_wcVars PROVE WCInv'
    OBVIOUS
  <1>0. CASE UNCHANGED wcVars
    BY <1>0 DEF wcVars, send, matching, routing, WCInv, WCTypeOK, CloseComesAfter, ClientHolds,
                OnlyRacesMeetClose, StatsFollow, OnlyTimeReadsNil
  <1>1. ASSUME wcPanic = "no", NEW s \in Sender, SendMessage(s) PROVE WCInv'
    <2>1. /\ wcSender[s] = "idle" /\ wcConnected
          /\ wcSender' = [wcSender EXCEPT ![s] = "checked"]
          /\ UNCHANGED <<wcConnected, wcSend, wcCloser, wcStats, wcOutcomes, wcRace, wcFilter, wcPanic>>
      BY <1>1 DEF SendMessage, matching
    <2>2. WCTypeOK' /\ CloseComesAfter'
      BY <2>1 DEF WCInv, WCTypeOK, CloseComesAfter
    <2>3. StatsFollow'
      BY <2>1, NothingCounted DEF WCInv, ClientHolds, WCTypeOK
    <2>4. QED
      BY <2>1, <2>2, <2>3 DEF WCInv, ClientHolds, OnlyRacesMeetClose, OnlyTimeReadsNil
  <1>2. ASSUME wcPanic = "no", Written PROVE WCInv'
    <2>1. /\ wcSend.length > 0 /\ wcSend' = [wcSend EXCEPT !.length = @ - 1]
          /\ UNCHANGED <<wcConnected, wcSender, wcCloser, wcStats, wcOutcomes, wcRace, wcFilter, wcPanic>>
      BY <1>2 DEF Written, matching
    <2>2. WCTypeOK' /\ CloseComesAfter'
      BY <2>1 DEF WCInv, WCTypeOK, CloseComesAfter
    <2>3. StatsFollow'
      BY <2>1, NothingCounted DEF WCInv, ClientHolds, WCTypeOK
    <2>4. QED
      BY <2>1, <2>2, <2>3 DEF WCInv, ClientHolds, OnlyRacesMeetClose, OnlyTimeReadsNil
  <1>3. ASSUME wcPanic = "no", NEW c \in Closer, SetDisconnected(c) PROVE WCInv'
    <2>1. /\ wcCloser[c] = "idle" /\ wcCloser' = [wcCloser EXCEPT ![c] = "marked"]
          /\ wcConnected' = FALSE
          /\ wcRace' = (wcRace \/ \E s \in Sender : wcSender[s] = "checked")
          /\ UNCHANGED <<wcSend, wcSender, wcStats, wcOutcomes, wcFilter, wcPanic>>
      BY <1>3 DEF SetDisconnected, matching
    <2>2. wcRace' \in BOOLEAN
      BY <2>1
    <2>3. WCTypeOK'
      BY <2>1, <2>2 DEF WCInv, WCTypeOK
    <2>4. CloseComesAfter'
      BY <2>1 DEF WCInv, WCTypeOK, CloseComesAfter
    <2>5. StatsFollow'
      BY <2>1, NothingCounted DEF WCInv, ClientHolds, WCTypeOK
    <2>6. QED
      BY <1>3, <2>1, <2>3, <2>4, <2>5 DEF WCInv, ClientHolds, OnlyRacesMeetClose, OnlyTimeReadsNil
  <1>4. ASSUME wcPanic = "no",
               UpdateFilter \/ Subscribe \/ Unsubscribe \/ LeavesHub
                 \/ \E what \in {"filter", "subscribe", "unsubscribe"} : GetClient(what)
        PROVE  WCInv'
    <2>1. UNCHANGED <<send, wcPanic>>
      BY <1>4 DEF UpdateFilter, Subscribe, Unsubscribe, LeavesHub, GetClient
    <2>2. QED
      BY <1>4, <2>1 DEF send, WCInv, WCTypeOK, CloseComesAfter, ClientHolds, OnlyRacesMeetClose,
                        StatsFollow, OnlyTimeReadsNil
  <1>5. QED
    BY <1>0, <1>1, <1>2, <1>3, <1>4, SendOrRefuseStep, UpdateStatsStep, CloseSendChannelStep,
       MatchStep DEF WCNext

(* SendMessage and Close are safe but for their race and a second Close,    *)
(* the statistics lose nothing, and only the time range reads a missing     *)
(* device (ClientHolds).                                                    *)
THEOREM ClientsHold == WCSpec => []ClientHolds
  <1>1. WCInv => ClientHolds
    BY DEF WCInv
  <1>2. QED
    BY <1>1, WCInitially, WCStep, PTL DEF WCSpec

-----------------------------------------------------------------------------
(***************************************************************************)
(* FlowControl: for every rate, load, history size and width.              *)
(***************************************************************************)

LEMMA FlowBounds ==
  /\ Second \in Nat \ {0} /\ Rates \subseteq Nat
  /\ HistorySize \in Nat /\ HistorySize >= 2 /\ Loads \subseteq Nat
  BY FlowAssumption

LEMMA LargestRate ==
  Max(Rates) \in Rates /\ Max(Rates) \in Nat /\ \A rate \in Rates : rate <= Max(Rates)
  <1>1. \E most \in Rates : \A rate \in Rates : rate <= most
    BY FlowAssumption
  <1>2. \E most \in Rates : \A rate \in Rates : most >= rate
    BY <1>1, FlowBounds
  <1>3. Max(Rates) \in Rates /\ \A rate \in Rates : Max(Rates) >= rate
    BY <1>2 DEF Max
  <1>4. QED
    BY <1>3, FlowBounds

LEMMA TimesKeepsOrder ==
  ASSUME NEW k \in Nat, NEW x \in Int, NEW y \in Int, x <= y
  PROVE  k * x <= k * y
  OBVIOUS

\* The arithmetic of a width: half of the integers are negative.
LEMMA WrappedBounds ==
  ASSUME NEW H \in Nat \ {0}, NEW i \in Int
  PROVE  LET w == ((i + H) % (2 * H)) - H IN
         /\ w \in Int /\ (i \in -H .. H - 1 => w = i) /\ (i >= 0 => w <= i)
  <1> DEFINE m == 2 * H
             r == (i + H) % m
  <1>1. m \in Nat \ {0} /\ i + H \in Int
    OBVIOUS
  <1>2. r \in 0 .. m - 1
    BY <1>1
  <1>3. i + H >= 0 => r <= i + H
    BY <1>1
  <1>4. i + H \in 0 .. m - 1 => r = i + H
    BY <1>1
  <1> HIDE DEF r
  <1>5. i \in -H .. H - 1 => i + H \in 0 .. m - 1
    OBVIOUS
  <1>6. r - H \in Int /\ (i \in -H .. H - 1 => r - H = i) /\ (i >= 0 => r - H <= i)
    BY <1>2, <1>3, <1>4, <1>5
  <1>7. QED
    BY <1>6 DEF r

LEMMA WrappedKeeps ==
  ASSUME NEW i \in Int
  PROVE  /\ Wrapped(i) \in Int
         /\ i \in 0 .. 2 ^ (IntBits - 1) - 1 => Wrapped(i) = i
         /\ i >= 0 => Wrapped(i) <= i
  <1> DEFINE H == 2 ^ (IntBits - 1)
             T == 2 ^ IntBits
  <1>1. H \in Nat \ {0} /\ T = 2 * H
    BY FlowAssumption
  <1>2. Wrapped(i) = ((i + H) % T) - H
    BY DEF Wrapped
  <1> HIDE DEF H, T
  <1>3. Wrapped(i) = ((i + H) % (2 * H)) - H
    BY <1>1, <1>2
  <1>4. /\ Wrapped(i) \in Int
        /\ i \in -H .. H - 1 => Wrapped(i) = i
        /\ i >= 0 => Wrapped(i) <= i
    BY <1>1, <1>3, WrappedBounds
  <1>5. i \in 0 .. H - 1 => i \in -H .. H - 1
    BY <1>1
  <1>6. QED
    BY <1>4, <1>5 DEF H

\* What whole tokens a product earns, even one that overflows.
LEMMA EarnedAtMost ==
  ASSUME NEW p \in Nat, NEW s \in Nat \ {0}
  PROVE  Quotient(Wrapped(p), s) \in Int /\ s * Quotient(Wrapped(p), s) <= p
  <1>1. Wrapped(p) \in Int /\ Wrapped(p) <= p
    BY WrappedKeeps
  <1> DEFINE w == Wrapped(p)
  <1> HIDE DEF w
  <1>2. w \in Int /\ w <= p
    BY <1>1 DEF w
  <1>3. CASE w < 0
    <2>1. -w \in Nat /\ (-w) \div s \in Nat /\ Quotient(w, s) = -((-w) \div s)
      BY <1>2, <1>3 DEF Quotient
    <2>2. Quotient(w, s) \in Int /\ Quotient(w, s) <= 0
      BY <2>1
    <2>3. s * Quotient(w, s) <= s * 0
      BY <2>2, TimesKeepsOrder
    <2>4. QED
      BY <2>2, <2>3 DEF w
  <1>4. CASE w >= 0
    <2>1. w \in Nat /\ Quotient(w, s) = w \div s
      BY <1>2, <1>4 DEF Quotient
    <2>2. w \div s \in Int /\ s * (w \div s) <= w
      BY <2>1
    <2>3. QED
      BY <1>2, <2>1, <2>2 DEF w
  <1>5. QED
    BY <1>2, <1>3, <1>4

\* A bucket that has not been overspent is not by what the time earns.
LEMMA EarningSpends ==
  ASSUME NEW S \in Nat \ {0}, NEW M \in Nat, NEW a \in Int, NEW t \in Int, NEW u \in Int, NEW q \in Int,
         NEW last \in Int, NEW now \in Int, NEW r \in Nat, last <= now, r <= M,
         S * (a + t) <= M * (S + last), S * q <= (now - last) * r, u <= t + q
  PROVE  S * (a + u) <= M * (S + now)
  <1>1. S * (a + u) <= S * (a + t + q)
    BY TimesKeepsOrder
  <1>2. S * (a + t + q) = S * (a + t) + S * q
    OBVIOUS
  <1>3. (now - last) * r <= (now - last) * M
    BY TimesKeepsOrder
  <1>4. M * (S + last) + (now - last) * M = M * (S + now)
    OBVIOUS
  <1> DEFINE A == S * (a + u)  B == S * (a + t + q)  C == S * (a + t)  D == S * q
             E == (now - last) * r  F == (now - last) * M
             G == M * (S + last)  J == M * (S + now)
  <1>5. /\ A \in Int /\ B \in Int /\ C \in Int /\ D \in Int
        /\ E \in Int /\ F \in Int /\ G \in Int /\ J \in Int
    OBVIOUS
  <1>6. A <= B /\ B = C + D /\ C <= G /\ D <= E /\ E <= F /\ G + F = J
    BY <1>1, <1>2, <1>3, <1>4
  <1> HIDE DEF A, B, C, D, E, F, G, J
  <1>7. A <= J
    BY <1>5, <1>6
  <1>8. QED
    BY <1>7 DEF A, J
-----------------------------------------------------------------------------
\* What has been spent and what is left are within a full bucket and the time that
\* has been counted.
LimiterHolds ==
  /\ fcTick \in Nat /\ fcAllowed \in Nat
  /\ fcLimiter \in [rate : Rates, tokens : Int, last : Nat]
  /\ fcLimiter.last <= fcTick
  /\ Second * (fcAllowed + fcLimiter.tokens) <= Max(Rates) * (Second + fcLimiter.last)

\* While the status is not normal the newest sample is not below the warning, or
\* the warning has room to rise.
PressureHolds ==
  /\ fcLoadHistory \in Seq(Nat) /\ Len(fcLoadHistory) = HistorySize
  /\ fcLimits \in [warning : Int, critical : Int] /\ fcLimits.warning >= 10
  /\ fcStatus # "normal" => fcLimits.warning <= 12 \/ fcLimits.warning <= fcLoadHistory[HistorySize]

\* The counter is the number of calls at most, until it wraps; the sticky partition
\* is one of those it was chosen from.
SpreadHolds ==
  /\ fcCounter \in Int /\ fcPartitioned \in Nat
  /\ fcPartitioned < 2 ^ (IntBits - 1) => fcCounter \in 0 .. fcPartitioned
  /\ fcSticky \in [current : Int, messages : Nat, partitions : Nat]
  /\ fcSticky.current # -1 => fcSticky.current \in 0 .. fcSticky.partitions - 1

\* The inductive invariant of the three throttles.
FCInv == LimiterHolds /\ PressureHolds /\ SpreadHolds /\ ThrottlingHolds

LEMMA LimiterStays ==
  ASSUME FCInv, UNCHANGED limiter
  PROVE  LimiterHolds' /\ NeverOverspends'
  BY DEF FCInv, ThrottlingHolds, limiter, LimiterHolds, NeverOverspends
LEMMA PressureStays ==
  ASSUME FCInv, UNCHANGED pressure
  PROVE  PressureHolds' /\ ThresholdsNeverRise'
  BY DEF FCInv, ThrottlingHolds, pressure, PressureHolds, ThresholdsNeverRise
LEMMA SpreadStays ==
  ASSUME FCInv, UNCHANGED spread
  PROVE  SpreadHolds' /\ PartitionExists'
  BY DEF FCInv, ThrottlingHolds, spread, SpreadHolds, PartitionExists

LEMMA FCInitially == FCInit => FCInv
  <1> SUFFICES ASSUME FCInit PROVE FCInv
    OBVIOUS
  <1>1. LimiterHolds /\ NeverOverspends
    <2> DEFINE M == Max(Rates)
    <2>1. M \in Rates /\ M \in Nat
      BY LargestRate
    <2>2. /\ fcTick = 0 /\ fcAllowed = 0 /\ fcLimiter = [rate |-> M, tokens |-> M, last |-> 0]
      BY DEF FCInit
    <2> HIDE DEF M
    <2>3. /\ Second * (0 + M) <= M * (Second + 0) /\ Second * 0 <= M * (Second + 0)
      BY <2>1, FlowBounds
    <2>4. QED
      BY <2>1, <2>2, <2>3 DEF LimiterHolds, NeverOverspends, M
  <1>2. PressureHolds /\ ThresholdsNeverRise
    <2>1. fcLoadHistory = [i \in 1 .. HistorySize |-> 0]
      BY DEF FCInit
    <2>2. fcLoadHistory \in Seq(Nat) /\ Len(fcLoadHistory) = HistorySize
      BY <2>1, FlowBounds
    <2>3. fcStatus = "normal" /\ fcLimits = [warning |-> 14, critical |-> 18]
      BY DEF FCInit
    <2>4. QED
      BY <2>2, <2>3 DEF PressureHolds, ThresholdsNeverRise
  <1>3. SpreadHolds /\ PartitionExists
    <2>1. /\ fcCounter = 0 /\ fcPartitioned = 0
          /\ fcSticky = [current |-> -1, messages |-> 0, partitions |-> 0]
          /\ fcPartition = [by |-> "none", of |-> 1, is |-> 0]
      BY DEF FCInit
    <2>2. QED
      BY <2>1 DEF SpreadHolds, PartitionExists
  <1>4. QED
    BY <1>1, <1>2, <1>3 DEF FCInv, ThrottlingHolds
-----------------------------------------------------------------------------
(* The rate limiter.                                                       *)
LEMMA PassedStep ==
  ASSUME FCInv, Passed
  PROVE  LimiterHolds' /\ NeverOverspends'
  <1>1. fcTick \in Nat /\ fcTick' = fcTick + 1 /\ UNCHANGED <<fcLimiter, fcAllowed>>
    BY DEF Passed, FCInv, LimiterHolds
  <1>2. LimiterHolds'
    BY <1>1 DEF FCInv, LimiterHolds
  <1>3. Max(Rates) * (Second + fcTick) <= Max(Rates) * (Second + fcTick')
    BY <1>1, LargestRate, FlowBounds, TimesKeepsOrder
  <1> DEFINE a == Second * fcAllowed  b == Max(Rates) * (Second + fcTick)
             c == Max(Rates) * (Second + fcTick')
  <1>4. a \in Int /\ b \in Int /\ c \in Int
    BY <1>1, LargestRate, FlowBounds DEF FCInv, LimiterHolds
  <1>5. a <= b /\ b <= c
    BY <1>3 DEF FCInv, ThrottlingHolds, NeverOverspends
  <1> HIDE DEF a, b, c
  <1>6. a <= c
    BY <1>4, <1>5
  <1>7. QED
    BY <1>1, <1>2, <1>6 DEF NeverOverspends, a, c

LEMMA AllowStep ==
  ASSUME FCInv, Allow
  PROVE  LimiterHolds' /\ NeverOverspends'
  <1> DEFINE r == fcLimiter
             q == Quotient(Wrapped((fcTick - r.last) * r.rate), Second)
             tokens == Lesser(r.rate, r.tokens + q)
             allowed == tokens > 0
             M == Max(Rates)
  <1>1. /\ fcLimiter' = [r EXCEPT !.tokens = IF allowed THEN tokens - 1 ELSE tokens, !.last = fcTick]
        /\ fcAllowed' = IF allowed THEN fcAllowed + 1 ELSE fcAllowed
        /\ fcTick' = fcTick
    BY DEF Allow
  <1>2. /\ r \in [rate : Rates, tokens : Int, last : Nat] /\ fcTick \in Nat /\ fcAllowed \in Nat
        /\ r.rate \in Nat /\ r.rate \in Rates /\ r.tokens \in Int /\ r.last \in Nat /\ r.last <= fcTick
        /\ Second * (fcAllowed + r.tokens) <= M * (Second + r.last)
        /\ M \in Nat /\ r.rate <= M /\ Second \in Nat \ {0}
    BY LargestRate, FlowBounds DEF FCInv, LimiterHolds
  <1>3. q \in Int /\ Second * q <= (fcTick - r.last) * r.rate
    <2>1. (fcTick - r.last) * r.rate \in Nat
      <3>1. fcTick - r.last \in Nat
        BY <1>2
      <3>2. \A x, y \in Nat : x * y \in Nat
        OBVIOUS
      <3>3. QED
        BY <1>2, <3>1, <3>2
    <2>2. QED
      BY <1>2, <2>1, EarnedAtMost
  <1> HIDE DEF q
  <1>4. tokens \in Int /\ tokens <= r.tokens + q
    BY <1>2, <1>3 DEF Lesser
  <1> HIDE DEF tokens
  <1>5. Second * (fcAllowed + tokens) <= M * (Second + fcTick)
    <2>1. /\ fcAllowed \in Int /\ r.last \in Int /\ fcTick \in Int
      BY <1>2
    <2> HIDE DEF r, M
    <2>2. QED
      BY <1>2, <1>3, <1>4, <2>1, EarningSpends
  <1>6. /\ fcLimiter'.tokens = (IF allowed THEN tokens - 1 ELSE tokens) /\ fcLimiter'.last = fcTick
        /\ fcLimiter' \in [rate : Rates, tokens : Int, last : Nat]
    <2> DEFINE left == IF allowed THEN tokens - 1 ELSE tokens
    <2>1. left \in Int /\ fcLimiter' = [r EXCEPT !.tokens = left, !.last = fcTick]
      BY <1>1, <1>4
    <2> HIDE DEF left
    <2>2. fcLimiter'.tokens = left /\ fcLimiter'.last = fcTick
          /\ fcLimiter' \in [rate : Rates, tokens : Int, last : Nat]
      BY <1>2, <2>1
    <2>3. QED
      BY <2>2 DEF left
  <1>7. fcAllowed' + fcLimiter'.tokens = fcAllowed + tokens /\ fcAllowed' \in Nat
    BY <1>1, <1>2, <1>4, <1>6
  <1>8. LimiterHolds'
    BY <1>1, <1>2, <1>5, <1>6, <1>7 DEF LimiterHolds
  <1>9. NeverOverspends'
    <2>1. CASE allowed
      <3>1. fcAllowed' \in Int /\ fcAllowed + tokens \in Int /\ fcAllowed' <= fcAllowed + tokens
        BY <1>1, <1>2, <1>4, <2>1
      <3>2. Second * fcAllowed' <= Second * (fcAllowed + tokens)
        BY <1>2, <3>1, TimesKeepsOrder
      <3> DEFINE a == Second * fcAllowed'  b == Second * (fcAllowed + tokens)
                 c == M * (Second + fcTick)
      <3>3. a \in Int /\ b \in Int /\ c \in Int /\ a <= b /\ b <= c
        BY <1>2, <1>5, <3>1, <3>2
      <3> HIDE DEF a, b, c
      <3>4. a <= c
        BY <3>3
      <3>5. QED
        BY <1>1, <3>4 DEF NeverOverspends, a, c
    <2>2. CASE ~allowed
      BY <1>1, <2>2 DEF FCInv, ThrottlingHolds, NeverOverspends
    <2>3. QED
      BY <2>1, <2>2
  <1>10. QED
    BY <1>8, <1>9

LEMMA SetRateStep ==
  ASSUME FCInv, SetRate
  PROVE  LimiterHolds' /\ NeverOverspends'
  <1>1. PICK rate \in Rates :
               fcLimiter' = [fcLimiter EXCEPT !.rate = rate, !.tokens = Lesser(fcLimiter.tokens, rate)]
    BY DEF SetRate
  <1>2. UNCHANGED <<fcTick, fcAllowed>>
    BY DEF SetRate
  <1> DEFINE t == fcLimiter.tokens  u == Lesser(t, rate)  M == Max(Rates)
  <1>3. /\ fcLimiter \in [rate : Rates, tokens : Int, last : Nat] /\ t \in Int /\ rate \in Nat
        /\ fcAllowed \in Nat /\ Second \in Nat /\ M \in Nat /\ fcLimiter.last \in Nat
        /\ Second * (fcAllowed + t) <= M * (Second + fcLimiter.last)
    BY LargestRate, FlowBounds DEF FCInv, LimiterHolds
  <1>4. u \in Int /\ u <= t
    BY <1>3 DEF Lesser
  <1> HIDE DEF u
  <1>5. /\ fcLimiter' \in [rate : Rates, tokens : Int, last : Nat]
        /\ fcLimiter'.tokens = u /\ fcLimiter'.last = fcLimiter.last
    BY <1>1, <1>3, <1>4 DEF u
  <1>6. Second * (fcAllowed + u) <= Second * (fcAllowed + t)
    BY <1>3, <1>4, TimesKeepsOrder
  <1> DEFINE a == Second * (fcAllowed + u)  b == Second * (fcAllowed + t)
             c == M * (Second + fcLimiter.last)
  <1>7. a \in Int /\ b \in Int /\ c \in Int /\ a <= b /\ b <= c
    BY <1>3, <1>4, <1>6
  <1> HIDE DEF a, b, c
  <1>8. a <= c
    BY <1>7
  <1>9. LimiterHolds'
    BY <1>2, <1>5, <1>8 DEF FCInv, LimiterHolds, a, c
  <1>10. NeverOverspends'
    BY <1>2 DEF FCInv, ThrottlingHolds, NeverOverspends
  <1>11. QED
    BY <1>9, <1>10
-----------------------------------------------------------------------------
(* Back-pressure.                                                          *)

\* The thresholds rise by one, and when both of the last two samples were low
\* only; whatever else is done they are no higher.
LEMMA AdaptedBounds ==
  ASSUME NEW history \in Seq(Nat), Len(history) = HistorySize, FCInv
  PROVE  /\ Adapted(history) \in [warning : Int, critical : Int] /\ Adapted(history).warning >= 10
         /\ \/ Adapted(history).warning <= fcLimits.warning
            \/ /\ Adapted(history).warning <= fcLimits.warning + 1
               /\ history[HistorySize] < 12 /\ history[HistorySize - 1] < 12
         /\ Adapted(history).warning <= 14
              => Adapted(history).critical = Adapted(history).warning + 4
  <1> DEFINE w == fcLimits.warning
             c == fcLimits.critical
             lower  == [warning |-> Greater(10, w - 1), critical |-> Greater(14, c - 1)]
             higher == [warning |-> Lesser(16, w + 1), critical |-> Lesser(19, c + 1)]
  <1>1. fcLimits \in [warning : Int, critical : Int] /\ w \in Int /\ w >= 10 /\ w <= 14
        /\ c = w + 4
    BY DEF FCInv, PressureHolds, ThrottlingHolds, ThresholdsNeverRise
  <1>2. /\ Greater(10, w - 1) \in Int /\ Greater(14, c - 1) = Greater(10, w - 1) + 4
        /\ Lesser(16, w + 1) \in Int /\ Lesser(16, w + 1) <= w + 1 /\ Lesser(16, w + 1) >= 10
        /\ Lesser(16, w + 1) <= 14 => Lesser(19, c + 1) = Lesser(16, w + 1) + 4
        /\ Lesser(19, c + 1) \in Int /\ Greater(14, c - 1) \in Int
    BY <1>1 DEF Greater, Lesser
  <1>3. \/ Adapted(history) = fcLimits
        \/ Adapted(history) = lower
        \/ /\ Adapted(history) = higher
           /\ \A i \in {i \in 1 .. HistorySize : history[i] > 0} : history[i] < 12
    BY DEF Adapted
  <1>4. CASE Adapted(history) = fcLimits
    BY <1>1, <1>4
  <1>5. CASE Adapted(history) = lower
    <2>1. lower.warning <= w /\ lower.warning >= 10
      BY <1>1 DEF Greater
    <2>2. QED
      BY <1>1, <1>2, <1>5, <2>1
  <1>6. CASE /\ Adapted(history) = higher
             /\ \A i \in {i \in 1 .. HistorySize : history[i] > 0} : history[i] < 12
    <2>1. HistorySize \in 1 .. HistorySize /\ HistorySize - 1 \in 1 .. HistorySize
      BY FlowBounds
    <2>2. \A i \in 1 .. HistorySize : history[i] \in Nat
      OBVIOUS
    <2>3. \A i \in 1 .. HistorySize : history[i] < 12
      BY <1>6, <2>2
    <2>4. QED
      BY <1>1, <1>2, <1>6, <2>1, <2>3, SMTT(20)
  <1>7. QED
    BY <1>3, <1>4, <1>5, <1>6
LEMMA UpdateStep ==
  ASSUME FCInv, Update
  PROVE  PressureHolds' /\ ThresholdsNeverRise'
  <1>1. PICK load \in Loads :
               /\ fcLoadHistory' = Append(Tail(fcLoadHistory), load)
               /\ fcStatus' = Status(load)
               /\ fcLimits' = IF fcStatus' # fcStatus THEN Adapted(Append(Tail(fcLoadHistory), load))
                                                      ELSE fcLimits
    BY DEF Update
  <1> DEFINE n == HistorySize
             h == fcLoadHistory
             history == Append(Tail(h), load)
             w == fcLimits.warning
  <1>2. /\ h \in Seq(Nat) /\ Len(h) = n /\ n \in Nat /\ n >= 2 /\ load \in Nat
        /\ fcLimits \in [warning : Int, critical : Int] /\ w \in Int /\ w >= 10 /\ w <= 14
        /\ fcLimits.critical = w + 4
        /\ fcStatus # "normal" => w <= 12 \/ w <= h[n]
    BY FlowBounds DEF FCInv, PressureHolds, ThrottlingHolds, ThresholdsNeverRise
  <1>3. /\ history \in Seq(Nat) /\ Len(history) = n
        /\ history[n] = load /\ history[n - 1] = h[n]
    <2>1. h # <<>>
      BY <1>2, EmptySeq
    <2>2. /\ Tail(h) \in Seq(Nat) /\ Len(Tail(h)) = n - 1
          /\ \A i \in 1 .. n - 1 : Tail(h)[i] = h[i + 1]
      BY <1>2, <2>1, HeadTailProperties
    <2>3. n - 1 \in 1 .. n - 1 /\ (n - 1) + 1 = n
      BY <1>2
    <2>4. /\ history \in Seq(Nat) /\ Len(history) = Len(Tail(h)) + 1
          /\ history[Len(Tail(h)) + 1] = load
          /\ \A i \in 1 .. Len(Tail(h)) : history[i] = Tail(h)[i]
      BY <1>2, <2>2, AppendProperties
    <2>5. QED
      BY <2>2, <2>3, <2>4
  <1>4. h[n] \in Nat
    BY <1>2
  <1> HIDE DEF history
  <1>5. Status(load) # "normal" => load >= w
    BY <1>2 DEF Status
  <1>6. CASE fcStatus' = fcStatus
    <2>1. fcLimits' = fcLimits /\ fcLoadHistory' = history /\ fcStatus' = Status(load)
      BY <1>1, <1>6 DEF history
    <2>2. QED
      BY <1>2, <1>3, <1>5, <2>1 DEF PressureHolds, ThresholdsNeverRise
  <1>7. CASE fcStatus' # fcStatus
    <2> DEFINE a == Adapted(history)
    <2>1. fcLimits' = a /\ fcLoadHistory' = history /\ fcStatus' = Status(load)
      BY <1>1, <1>7 DEF history
    <2>2. /\ a \in [warning : Int, critical : Int] /\ a.warning >= 10
          /\ \/ a.warning <= w
             \/ a.warning <= w + 1 /\ history[n] < 12 /\ history[n - 1] < 12
          /\ a.warning <= 14 => a.critical = a.warning + 4
      BY <1>2, <1>3, AdaptedBounds
    <2> HIDE DEF a
    <2>3. a.warning \in Int
      BY <2>2
    <2>4. CASE a.warning <= w
      <3>1. a.warning <= 14
        BY <1>2, <2>3, <2>4
      <3>2. Status(load) # "normal" => a.warning <= load
        BY <1>2, <1>5, <2>3, <2>4
      <3>3. QED
        BY <1>3, <2>1, <2>2, <3>1, <3>2 DEF PressureHolds, ThresholdsNeverRise
    <2>5. CASE a.warning <= w + 1 /\ load < 12 /\ h[n] < 12
      <3>1. Status(load) # "normal" => a.warning <= 12
        BY <1>2, <1>5, <2>3, <2>5
      <3>2. Status(load) = "normal" => a.warning <= 13
        <4>1. Status(load) = "normal" => fcStatus # "normal"
          BY <1>1, <1>7
        <4>2. Status(load) = "normal" => w <= 12
          BY <1>2, <1>4, <2>5, <4>1
        <4>3. QED
          BY <1>2, <2>3, <2>5, <4>2
      <3>3. a.warning <= 14
        BY <2>3, <3>1, <3>2
      <3>4. QED
        BY <1>3, <2>1, <2>2, <3>1, <3>3 DEF PressureHolds, ThresholdsNeverRise
    <2>6. QED
      BY <1>3, <2>2, <2>4, <2>5
  <1>8. QED
    BY <1>6, <1>7

LEMMA ResetStep ==
  ASSUME FCInv, Reset
  PROVE  PressureHolds' /\ ThresholdsNeverRise'
  <1>1. /\ fcLoadHistory' = [i \in 1 .. HistorySize |-> 0] /\ fcStatus' = "normal"
        /\ fcLimits' = fcLimits
    BY DEF Reset
  <1>2. fcLoadHistory' \in Seq(Nat) /\ Len(fcLoadHistory') = HistorySize
    BY <1>1, FlowBounds
  <1>3. fcStatus' = "normal" /\ fcLimits' = fcLimits
    BY <1>1
  <1>4. QED
    BY <1>2, <1>3 DEF FCInv, PressureHolds, ThrottlingHolds, ThresholdsNeverRise
-----------------------------------------------------------------------------
(* The partitioners.                                                       *)
LEMMA SpreadStep ==
  ASSUME FCInv, NEW n \in PartitionCounts,
         HashPartition(n) \/ RoundRobinPartition(n) \/ StickyPartition(n)
  PROVE  SpreadHolds' /\ PartitionExists'
  <1> DEFINE H == 2 ^ (IntBits - 1)
             T == 2 ^ IntBits
  <1>1. H \in Nat \ {0} /\ T = 2 * H /\ n \in 1 .. H - 1
    BY FlowAssumption
  <1>2. /\ fcCounter \in Int /\ fcPartitioned \in Nat
        /\ fcPartitioned < H => fcCounter \in 0 .. fcPartitioned
        /\ fcSticky \in [current : Int, messages : Nat, partitions : Nat]
        /\ fcSticky.current # -1 => fcSticky.current \in 0 .. fcSticky.partitions - 1
    BY DEF FCInv, SpreadHolds
  <1>3. ASSUME NEW i \in Int
        PROVE  Wrapped(i) \in Int /\ (i \in 0 .. H - 1 => Wrapped(i) = i)
    BY WrappedKeeps
  <1>4. /\ SpreadHolds' <=>
             /\ fcCounter' \in Int /\ fcPartitioned' \in Nat
             /\ fcPartitioned' < H => fcCounter' \in 0 .. fcPartitioned'
             /\ fcSticky' \in [current : Int, messages : Nat, partitions : Nat]
             /\ fcSticky'.current # -1 => fcSticky'.current \in 0 .. fcSticky'.partitions - 1
        /\ PartitionExists' <=>
             \/ fcPartition'.is \in 0 .. fcPartition'.of - 1
             \/ fcPartition'.by = "round robin" /\ fcPartitioned' > H
    BY DEF SpreadHolds, PartitionExists
  <1> HIDE DEF T
  <1>5. CASE HashPartition(n)
    <2>1. PICK hash \in 0 .. T - 1 : Answers("hash", n, Wrapped(hash % n)) /\ UNCHANGED <<fcCounter, fcSticky>>
      BY <1>5 DEF HashPartition, T
    <2> HIDE DEF H
    <2>2. hash \in Nat
      BY <1>1
    <2>3. hash % n \in 0 .. n - 1
      BY <1>1, <2>2
    <2>4. hash % n \in Int /\ hash % n \in 0 .. H - 1
      BY <1>1, <2>3
    <2>5. Wrapped(hash % n) = hash % n
      BY <1>3, <2>4
    <2>6. /\ fcPartitioned' = fcPartitioned + 1
          /\ fcPartition' = [by |-> "hash", of |-> n, is |-> hash % n]
      BY <2>1, <2>5 DEF Answers
    <2>7. fcPartition'.is = hash % n /\ fcPartition'.of = n
      BY <2>6
    <2>8. fcPartitioned' < H => fcPartitioned < H /\ fcCounter' \in 0 .. fcPartitioned'
      BY <1>1, <1>2, <2>1, <2>6
    <2>9. QED
      BY <1>2, <1>4, <2>1, <2>3, <2>6, <2>7, <2>8
  <1>6. CASE RoundRobinPartition(n)
    <2> HIDE DEF H
    <2>1. fcCounter' = Wrapped(fcCounter + 1)
      BY <1>6 DEF RoundRobinPartition
    <2>2. fcSticky' = fcSticky
      BY <1>6 DEF RoundRobinPartition
    <2>3. fcPartitioned' = fcPartitioned + 1
      BY <1>6 DEF RoundRobinPartition, Answers
    <2>4. /\ fcPartition'.by = "round robin" /\ fcPartition'.of = n
          /\ fcPartition'.is = RemainderOf(fcCounter, n)
      <3>1. fcPartition' = [by |-> "round robin", of |-> n, is |-> RemainderOf(fcCounter, n)]
        BY <1>6 DEF RoundRobinPartition, Answers
      <3>2. QED
        BY <3>1
    <2>5. fcCounter' \in Int
      <3>1. fcCounter + 1 \in Int
        BY <1>2
      <3>2. QED
        BY <1>3, <2>1, <3>1
    <2>6. fcPartitioned' < H => fcCounter' \in 0 .. fcPartitioned'
      <3>1. SUFFICES ASSUME fcPartitioned' < H PROVE fcCounter' \in 0 .. fcPartitioned'
        OBVIOUS
      <3>2. fcCounter \in 0 .. fcPartitioned /\ fcCounter + 1 \in 0 .. H - 1 /\ fcCounter + 1 \in Int
        BY <1>1, <1>2, <2>3, <3>1
      <3>3. fcCounter' = fcCounter + 1
        BY <1>3, <2>1, <3>2
      <3>4. QED
        BY <1>2, <2>3, <3>2, <3>3
    <2>7. PartitionExists'
      <3>1. CASE fcPartitioned < H
        <4>1. fcCounter \in Nat /\ n \in Nat \ {0}
          BY <1>1, <1>2, <3>1
        <4>2. fcCounter - n * (fcCounter \div n) \in 0 .. n - 1
          BY <4>1
        <4>3. RemainderOf(fcCounter, n) = fcCounter - n * (fcCounter \div n)
          BY <4>1 DEF RemainderOf, Quotient
        <4>4. fcPartition'.is \in 0 .. fcPartition'.of - 1
          BY <2>4, <4>2, <4>3
        <4>5. QED
          BY <1>4, <4>4
      <3>2. CASE ~(fcPartitioned < H)
        <4>1. fcPartitioned' > H
          BY <1>1, <1>2, <2>3, <3>2
        <4>2. fcPartition'.by = "round robin"
          BY <2>4
        <4>3. QED
          BY <1>4, <4>1, <4>2
      <3>3. QED
        BY <3>1, <3>2
    <2>8. /\ fcPartitioned' \in Nat /\ fcSticky' \in [current : Int, messages : Nat, partitions : Nat]
          /\ fcSticky'.current # -1 => fcSticky'.current \in 0 .. fcSticky'.partitions - 1
      BY <1>2, <2>2, <2>3
    <2>9. QED
      BY <1>4, <2>5, <2>6, <2>7, <2>8
  <1>7. CASE StickyPartition(n)
    <2> DEFINE kept == fcSticky.partitions = n /\ fcSticky.current # -1 /\ fcSticky.messages < StickyBatch
    <2>1. PICK chosen \in IF kept THEN {fcSticky.current} ELSE 0 .. n - 1 :
                 /\ fcSticky' = [current |-> chosen,
                                 messages |-> IF kept THEN fcSticky.messages + 1 ELSE 1, partitions |-> n]
                 /\ Answers("sticky", n, chosen) /\ UNCHANGED fcCounter
      BY <1>7 DEF StickyPartition
    <2> HIDE DEF H
    <2>2. chosen \in 0 .. n - 1
      <3>1. CASE kept
        BY <1>2, <2>1, <3>1
      <3>2. CASE ~kept
        BY <2>1, <3>2
      <3>3. QED
        BY <3>1, <3>2
    <2> DEFINE m == IF kept THEN fcSticky.messages + 1 ELSE 1
    <2>3. m \in Nat
      BY <1>2
    <2>4. fcSticky' = [current |-> chosen, messages |-> m, partitions |-> n] /\ fcCounter' = fcCounter
      BY <2>1
    <2>5. /\ fcPartitioned' = fcPartitioned + 1
          /\ fcPartition' = [by |-> "sticky", of |-> n, is |-> chosen]
      BY <2>1 DEF Answers
    <2> HIDE DEF m, kept
    <2>6. fcSticky' \in [current : Int, messages : Nat, partitions : Nat]
      BY <1>1, <2>2, <2>3, <2>4
    <2>7. fcSticky'.current = chosen /\ fcSticky'.partitions = n
      BY <2>4
    <2>8. fcPartition'.is = chosen /\ fcPartition'.of = n
      BY <2>5
    <2>9. fcPartitioned' < H => fcPartitioned < H /\ fcCounter' \in 0 .. fcPartitioned'
      BY <1>1, <1>2, <2>4, <2>5
    <2>10. QED
      BY <1>2, <1>4, <2>2, <2>4, <2>5, <2>6, <2>7, <2>8, <2>9
  <1>8. QED
    BY <1>5, <1>6, <1>7
-----------------------------------------------------------------------------
LEMMA FCStep == FCInv /\ [\E part \in {"limiter", "pressure", "spread"} : FCNext(part)]_fcVars => FCInv'
  <1> SUFFICES ASSUME FCInv, [\E part \in {"limiter", "pressure", "spread"} : FCNext(part)]_fcVars
               PROVE  FCInv'
    OBVIOUS
  <1>1. CASE Passed \/ Allow \/ SetRate
    <2>1. UNCHANGED <<pressure, spread>>
      BY <1>1 DEF Passed, Allow, SetRate
    <2>2. LimiterHolds' /\ NeverOverspends'
      BY <1>1, PassedStep, AllowStep, SetRateStep
    <2>3. QED
      BY <2>1, <2>2, PressureStays, SpreadStays DEF FCInv, ThrottlingHolds
  <1>2. CASE Update \/ Reset
    <2>1. UNCHANGED <<limiter, spread>>
      BY <1>2 DEF Update, Reset
    <2>2. PressureHolds' /\ ThresholdsNeverRise'
      BY <1>2, UpdateStep, ResetStep
    <2>3. QED
      BY <2>1, <2>2, LimiterStays, SpreadStays DEF FCInv, ThrottlingHolds
  <1>3. ASSUME NEW n \in PartitionCounts,
               HashPartition(n) \/ RoundRobinPartition(n) \/ StickyPartition(n)
        PROVE  FCInv'
    <2>1. UNCHANGED <<limiter, pressure>>
      BY <1>3 DEF HashPartition, RoundRobinPartition, StickyPartition, Answers
    <2>2. SpreadHolds' /\ PartitionExists'
      BY <1>3, SpreadStep
    <2>3. QED
      BY <2>1, <2>2, LimiterStays, PressureStays DEF FCInv, ThrottlingHolds
  <1>4. CASE UNCHANGED fcVars
    <2>1. UNCHANGED <<limiter, pressure, spread>>
      BY <1>4 DEF fcVars
    <2>2. QED
      BY <2>1, LimiterStays, PressureStays, SpreadStays DEF FCInv, ThrottlingHolds
  <1>5. QED
    BY <1>1, <1>2, <1>3, <1>4 DEF FCNext

\* The rate limiter never lets through more than a full bucket and the time passed
\* allow, the back-pressure thresholds never rise above where they start, and a
\* partitioner answers an existing partition until its counter wraps
\* (ThrottlingHolds).
THEOREM ThrottlingIsBounded == FCSpec => []ThrottlingHolds
  <1>1. FCInv => ThrottlingHolds
    BY DEF FCInv
  <1>2. QED
    BY FCInitially, FCStep, <1>1, PTL DEF FCSpec

-----------------------------------------------------------------------------
(***************************************************************************)
(* ErrorPolicy: for every retry limit, delay and threshold.                *)
(***************************************************************************)

LEMMA PolicyBounds ==
  MaxRetries \in Nat /\ MaxDelay \in Nat /\ Threshold \in Nat \ {0}
  BY PolicyAssumption

LEMMA FitsInBits ==
  ASSUME NEW i \in Int
  PROVE  InBits(i) \in Int
  <1>1. ASSUME NEW h \in Int, NEW m \in Nat \ {0}
        PROVE  ((i + h) % m) - h \in Int
    <2>1. (i + h) % m \in 0 .. m - 1
      OBVIOUS
    <2>2. QED
      BY <2>1
  <1>2. DurationBits - 1 \in Nat
    BY PolicyAssumption
  <1>3. 2 ^ (DurationBits - 1) \in Int
    BY <1>2
  <1>4. QED
    BY <1>1, <1>3, PolicyAssumption DEF InBits

\* A quotient of at most n times L is at most L, when L is not negative.
LEMMA QuotientBounded ==
  ASSUME NEW x \in Int, NEW n \in Nat \ {0}
  PROVE  /\ Towards0(x, n) \in Int
         /\ \A L \in Nat : x <= n * L => Towards0(x, n) <= L
  <1>1. CASE x < 0
    <2>1. -x \in Nat /\ (-x) \div n \in Nat
      BY <1>1
    <2>2. QED
      BY <1>1, <2>1 DEF Towards0
  <1>2. CASE x >= 0
    <2>1. x \div n \in Int /\ n * (x \div n) <= x
      BY <1>2
    <2>2. ASSUME NEW L \in Nat, x <= n * L
          PROVE  x \div n <= L
      <3>1. n * (x \div n) <= n * L
        BY <2>1, <2>2
      <3>2. QED
        BY <2>1, <3>1
    <2>3. QED
      BY <1>2, <2>1, <2>2 DEF Towards0
  <1>3. QED
    BY <1>1, <1>2

\* A sum that fits its width makes a mean no larger than what it is the mean of.
LEMMA MeanBounded ==
  ASSUME NEW a \in Int, NEW d \in Int, NEW n \in Nat \ {0}, NEW L \in Nat
  PROVE  /\ Towards0(InBits(a * (n - 1) + d), n) \in Int
         /\ a <= L /\ d <= L /\ InBits(a * (n - 1) + d) = a * (n - 1) + d
              => Towards0(InBits(a * (n - 1) + d), n) <= L
  <1> DEFINE sum == a * (n - 1) + d
  <1>1. sum \in Int
    OBVIOUS
  <1>2. a <= L /\ d <= L => sum <= n * L
    <2>1. a <= L => a * (n - 1) <= L * (n - 1)
      OBVIOUS
    <2>2. QED
      BY <2>1
  <1> HIDE DEF sum
  <1>3. InBits(sum) \in Int
    BY <1>1, FitsInBits
  <1>4. QED
    BY <1>2, <1>3, QuotientBounded DEF sum

\* Where a caller of the retry manager, and one of the breaker's handler, is.
RetrierPlaces == {"idle", "running", "cutting", "delayed", "counted", "exhausted"}
ClaimerPlaces == {"idle", "half-opening", "resetting", "handling", "failed", "opening", "counting",
                  "closing", "clearing"}
RetrierState  == [at : RetrierPlaces, attempt : Nat, delay : Int]
RetryMetrics  == [total : Nat, average : Int, largest : Nat, failed : Nat]
ERRTypeOK ==
  /\ erRetrier \in [Retrier -> RetrierState]
  /\ erMetrics \in RetryMetrics
  /\ erRuns \in [Retrier -> Nat]
  /\ erMaxDelay \in Int /\ erLimit \in Nat
  /\ ebFailures \in Nat /\ ebCaller \in [Claimer -> ClaimerPlaces]

\* The operation has run once for each attempt.
RunsFollowAttempts ==
  \A r \in Retrier :
    /\ erRetrier[r].at = "idle" /\ erRuns[r] = 0 => erRetrier[r].attempt = 0
    /\ erRetrier[r].at \notin {"idle", "exhausted"}
         => erRuns[r] = erRetrier[r].attempt /\ erRuns[r] <= MaxRetries

\* A delay that has been compared, or cut, is no larger than some limit there was.
DelaysLimited ==
  /\ erMaxDelay <= erLimit
  /\ \A r \in Retrier : erRetrier[r].at \in {"delayed", "counted"} => erRetrier[r].delay <= erLimit

\* A caller that has counted is in the total, unless Reset cleared it.
CountedInTotal ==
  \/ erStolen
  \/ \A r \in Retrier : erRetrier[r].at = "counted" => erMetrics.total # 0

\* Whoever has seen too many failures is on the way to open the breaker, and
\* whoever has closed it on the way to forget them.
FailuresAreJudged ==
  ebState = "closed" => \/ ebFailures < Threshold
                        \/ \E c \in Claimer : ebCaller[c] \in {"failed", "opening", "clearing"}

\* The inductive invariant of retries and breaker.
RetryInv   == RunsFollowAttempts /\ DelaysLimited /\ CountedInTotal /\ MetricsBounded
ERRInv     == ERRTypeOK /\ RetryInv /\ FailuresAreJudged

LEMMA ERRInitially == ERRInit => ERRInv
  <1> SUFFICES ASSUME ERRInit PROVE ERRInv
    OBVIOUS
  <1>1. ERRTypeOK
    BY PolicyBounds DEF ERRInit, ERRTypeOK, RetrierPlaces, RetrierState, RetryMetrics, ClaimerPlaces
  <1>2. RunsFollowAttempts /\ CountedInTotal
    BY DEF ERRInit, RunsFollowAttempts, CountedInTotal
  <1>3. DelaysLimited /\ MetricsBounded
    BY PolicyBounds DEF ERRInit, DelaysLimited, MetricsBounded
  <1>4. FailuresAreJudged
    BY PolicyBounds DEF ERRInit, FailuresAreJudged
  <1>5. QED
    BY <1>1, <1>2, <1>3, <1>4 DEF ERRInv, RetryInv

\* A caller moves on, with the metrics or without: what is to be shown of it.
LEMMA RetrierMoves ==
  ASSUME ERRInv, NEW r \in Retrier, NEW x \in RetrierState, NEW n \in Nat,
         erRetrier' = [erRetrier EXCEPT ![r] = x], erRuns' = [erRuns EXCEPT ![r] = n],
         n <= MaxRetries + 1,
         x.at = "idle" => n # 0,
         x.at \notin {"idle", "exhausted"} => n = x.attempt /\ n <= MaxRetries,
         x.at \in {"delayed", "counted"} => x.delay <= erLimit,
         x.at = "counted" => erStolen \/ erMetrics'.total # 0,
         UNCHANGED <<retryBounds, erStolen, breaker>>,
         erMetrics' \in RetryMetrics, erMetrics.total # 0 => erMetrics'.total # 0,
         erMetrics'.largest <= erLimit,
         erWrapped' \/ erMetrics'.average <= erMetrics'.largest,
         erPanic' => erStolen
  PROVE  ERRInv'
  <1>1. /\ erRetrier \in [Retrier -> RetrierState] /\ erRuns \in [Retrier -> Nat]
        /\ erMaxDelay \in Int /\ erLimit \in Nat /\ ebFailures \in Nat
        /\ ebCaller \in [Claimer -> ClaimerPlaces]
    BY DEF ERRInv, ERRTypeOK
  <1>2. /\ erRetrier' \in [Retrier -> RetrierState] /\ erRetrier'[r] = x
        /\ \A q \in Retrier \ {r} : erRetrier'[q] = erRetrier[q]
    BY <1>1
  <1>3. /\ erRuns' \in [Retrier -> Nat] /\ erRuns'[r] = n
        /\ \A q \in Retrier \ {r} : erRuns'[q] = erRuns[q]
    BY <1>1
  <1>4. UNCHANGED <<erMaxDelay, erLimit, ebState, ebFailures, ebCaller>>
    BY DEF retryBounds, breaker
  <1>5. ERRTypeOK'
    BY <1>1, <1>2, <1>3, <1>4 DEF ERRTypeOK
  <1>6. RunsFollowAttempts'
    BY <1>2, <1>3 DEF ERRInv, RetryInv, RunsFollowAttempts
  <1>7. DelaysLimited'
    BY <1>2, <1>4 DEF ERRInv, RetryInv, DelaysLimited
  <1>8. CountedInTotal'
    BY <1>2 DEF ERRInv, RetryInv, CountedInTotal
  <1>9. MetricsBounded'
    <2>1. \A q \in Retrier : erRuns'[q] <= MaxRetries + 1
      BY <1>3 DEF ERRInv, RetryInv, MetricsBounded
    <2>2. erStolen' = erStolen
      OBVIOUS
    <2>3. QED
      BY <1>4, <2>1, <2>2 DEF MetricsBounded
  <1>10. FailuresAreJudged'
    BY <1>4 DEF ERRInv, FailuresAreJudged
  <1>11. QED
    BY <1>5, <1>6, <1>7, <1>8, <1>9, <1>10 DEF ERRInv, RetryInv

\* What a caller finds.
LEMMA RetrierFinds ==
  ASSUME ERRInv, NEW r \in Retrier
  PROVE  /\ erRetrier \in [Retrier -> RetrierState] /\ erRetrier[r] \in RetrierState
         /\ erRuns[r] \in Nat /\ erRuns[r] <= MaxRetries + 1 /\ erRuns = [erRuns EXCEPT ![r] = erRuns[r]]
         /\ erMaxDelay \in Int /\ erLimit \in Nat
         /\ erMetrics \in RetryMetrics /\ erMetrics.largest <= erLimit
         /\ erWrapped \/ erMetrics.average <= erMetrics.largest
         /\ erPanic => erStolen
         /\ erRetrier[r].at = "idle" /\ erRuns[r] = 0 => erRetrier[r].attempt = 0
         /\ erRetrier[r].at \notin {"idle", "exhausted"}
              => erRuns[r] = erRetrier[r].attempt /\ erRuns[r] <= MaxRetries
  BY DEF ERRInv, ERRTypeOK, RetryInv, RunsFollowAttempts, MetricsBounded

\* A step that only says where the caller is.
LEMMA RetrierGoes ==
  ASSUME NEW r \in Retrier, NEW to \in RetrierPlaces, erRetrier \in [Retrier -> RetrierState], Reaches(r, to)
  PROVE  \E x \in RetrierState :
           /\ erRetrier' = [erRetrier EXCEPT ![r] = x]
           /\ x.at = to /\ x.attempt = erRetrier[r].attempt /\ x.delay = erRetrier[r].delay
  <1> DEFINE x == [erRetrier[r] EXCEPT !.at = to]
  <1>1. erRetrier[r] \in [at : RetrierPlaces, attempt : Nat, delay : Int]
    BY DEF RetrierState
  <1>2. /\ x \in [at : RetrierPlaces, attempt : Nat, delay : Int]
        /\ x.at = to /\ x.attempt = erRetrier[r].attempt /\ x.delay = erRetrier[r].delay
    BY <1>1
  <1>3. erRetrier' = [erRetrier EXCEPT ![r] = x]
    BY DEF Reaches
  <1>4. QED
    BY <1>2, <1>3 DEF RetrierState

LEMMA RetryStep ==
  ASSUME ERRInv, NEW r \in Retrier, Retry(r) \/ OperationSucceeds(r)
  PROVE  ERRInv'
  <1>1. UNCHANGED <<retryBounds, retryPast, breaker>> /\ erMetrics' = erMetrics
    BY DEF Retry, OperationSucceeds
  <1>2. UNCHANGED <<erStolen, erWrapped, erPanic>>
    BY <1>1 DEF retryPast
  <1>3. "running" \in RetrierPlaces /\ "idle" \in RetrierPlaces
    BY DEF RetrierPlaces
  <1>4. CASE Retry(r)
    <2>1. erRetrier[r].at = "idle" /\ erRuns[r] = 0 /\ Reaches(r, "running") /\ erRuns' = erRuns
      BY <1>4 DEF Retry
    <2>2. PICK x \in RetrierState :
            /\ erRetrier' = [erRetrier EXCEPT ![r] = x]
            /\ x.at = "running" /\ x.attempt = erRetrier[r].attempt /\ x.delay = erRetrier[r].delay
      BY <1>3, <2>1, RetrierFinds, RetrierGoes
    <2>3. erRuns' = [erRuns EXCEPT ![r] = 0]
      BY <2>1, RetrierFinds
    <2>4. x.attempt = 0
      BY <2>1, <2>2, RetrierFinds
    <2>5. 0 \in Nat /\ 0 <= MaxRetries + 1 /\ 0 <= MaxRetries
      BY PolicyBounds
    <2>6. QED
      BY <1>1, <1>2, <2>2, <2>3, <2>4, <2>5, RetrierFinds, RetrierMoves
  <1>5. CASE OperationSucceeds(r)
    <2>1. /\ erRetrier[r].at = "running" /\ Reaches(r, "idle")
          /\ erRuns' = [erRuns EXCEPT ![r] = erRuns[r] + 1]
      BY <1>5 DEF OperationSucceeds
    <2>2. PICK x \in RetrierState :
            /\ erRetrier' = [erRetrier EXCEPT ![r] = x]
            /\ x.at = "idle" /\ x.attempt = erRetrier[r].attempt /\ x.delay = erRetrier[r].delay
      BY <1>3, <2>1, RetrierFinds, RetrierGoes
    <2>3. erRuns[r] + 1 \in Nat /\ erRuns[r] + 1 <= MaxRetries + 1 /\ erRuns[r] + 1 # 0
      BY <2>1, RetrierFinds, PolicyBounds
    <2>4. QED
      BY <1>1, <1>2, <2>1, <2>2, <2>3, RetrierFinds, RetrierMoves
  <1>6. QED
    BY <1>4, <1>5

LEMMA OperationFailsStep ==
  ASSUME ERRInv, NEW r \in Retrier, OperationFails(r)
  PROVE  ERRInv'
  <1> DEFINE n == erRuns[r] + 1
             last == erRetrier[r].attempt = MaxRetries
  <1>1. UNCHANGED <<retryBounds, retryPast, breaker>> /\ erRuns' = [erRuns EXCEPT ![r] = n]
    BY DEF OperationFails
  <1>2. UNCHANGED <<erStolen, erWrapped, erPanic>>
    BY <1>1 DEF retryPast
  <1>3. erRetrier[r].at = "running" /\ erRuns[r] = erRetrier[r].attempt /\ erRuns[r] <= MaxRetries
    BY RetrierFinds DEF OperationFails
  <1>4. n \in Nat /\ n <= MaxRetries + 1 /\ n = erRetrier[r].attempt + 1
    BY <1>3, RetrierFinds, PolicyBounds
  <1>5. CASE last
    <2>1. /\ erRetrier' = [erRetrier EXCEPT ![r].at = "exhausted"]
          /\ erMetrics' = [erMetrics EXCEPT !.failed = @ + 1]
      BY <1>5 DEF OperationFails
    <2>2. PICK x \in RetrierState : erRetrier' = [erRetrier EXCEPT ![r] = x] /\ x.at = "exhausted"
      <3>1. "exhausted" \in RetrierPlaces /\ Reaches(r, "exhausted")
        BY <2>1 DEF Reaches, RetrierPlaces
      <3>2. QED
        BY <3>1, RetrierFinds, RetrierGoes
    <2>3. /\ erMetrics' \in RetryMetrics /\ erMetrics'.total = erMetrics.total
          /\ erMetrics'.average = erMetrics.average /\ erMetrics'.largest = erMetrics.largest
      <3>1. erMetrics \in [total : Nat, average : Int, largest : Nat, failed : Nat]
        BY RetrierFinds DEF RetryMetrics
      <3>2. QED
        BY <2>1, <3>1 DEF RetryMetrics
    <2> HIDE DEF n
    <2>4. QED
      BY <1>1, <1>2, <1>4, <2>2, <2>3, RetrierFinds, RetrierMoves
  <1>6. CASE ~last
    <2> DEFINE x == calculateDelay(erRetrier[r].attempt + 1)
               delay == InBits(BaseDelay * 2 ^ (n - 1))
    <2>1. erRetrier' = [erRetrier EXCEPT ![r] = x] /\ erMetrics' = erMetrics
      BY <1>6 DEF OperationFails
    <2>2. n <= MaxRetries
      BY <1>3, <1>6, RetrierFinds, PolicyBounds
    <2>3. delay \in Int
      <3>1. 2 ^ (n - 1) \in Int
        BY <1>3, RetrierFinds
      <3>2. BaseDelay * 2 ^ (n - 1) \in Int
        BY <3>1, PolicyAssumption
      <3>3. QED
        BY <3>2, FitsInBits
    <2>4. x = [at |-> IF delay > erMaxDelay THEN "cutting" ELSE "delayed", attempt |-> n, delay |-> delay]
      BY <1>4 DEF calculateDelay
    <2> HIDE DEF n, delay, x
    <2>5. x \in RetrierState
      BY <1>4, <2>3, <2>4 DEF RetrierState, RetrierPlaces
    <2>6. x.at \in {"cutting", "delayed"} /\ x.attempt = n
      BY <2>4
    <2>7. x.at = "delayed" => x.delay <= erLimit
      <3>1. erMaxDelay <= erLimit
        BY DEF ERRInv, RetryInv, DelaysLimited
      <3>2. QED
        BY <2>3, <2>4, <3>1, RetrierFinds
    <2>8. QED
      BY <1>1, <1>2, <1>4, <2>1, <2>2, <2>5, <2>6, <2>7, RetrierFinds, RetrierMoves
  <1>7. QED
    BY <1>5, <1>6

LEMMA CountStep ==
  ASSUME ERRInv, NEW r \in Retrier, CutDelay(r) \/ CountRetry(r)
  PROVE  ERRInv'
  <1>1. UNCHANGED <<retryBounds, retryPast, breaker>> /\ erRuns' = [erRuns EXCEPT ![r] = erRuns[r]]
    BY RetrierFinds DEF CutDelay, CountRetry
  <1>2. UNCHANGED <<erStolen, erWrapped, erPanic>>
    BY <1>1 DEF retryPast
  <1>3. erMaxDelay <= erLimit
    BY DEF ERRInv, RetryInv, DelaysLimited
  <1>4. CASE CutDelay(r)
    <2> DEFINE x == [erRetrier[r] EXCEPT !.at = "delayed", !.delay = erMaxDelay]
    <2>1. erRetrier[r].at = "cutting" /\ erMetrics' = erMetrics
      BY <1>4 DEF CutDelay
    <2>2. erRetrier' = [erRetrier EXCEPT ![r] = x]
      BY <1>4, RetrierFinds DEF CutDelay
    <2>3. /\ x \in RetrierState
          /\ x.at = "delayed" /\ x.delay = erMaxDelay /\ x.attempt = erRetrier[r].attempt
      <3>1. erRetrier[r] \in [at : RetrierPlaces, attempt : Nat, delay : Int] /\ erMaxDelay \in Int
        BY RetrierFinds DEF RetrierState
      <3>2. "delayed" \in RetrierPlaces
        BY DEF RetrierPlaces
      <3>3. QED
        BY <3>1, <3>2 DEF RetrierState
    <2> HIDE DEF x
    <2>4. QED
      BY <1>1, <1>2, <1>3, <2>1, <2>2, <2>3, RetrierFinds, RetrierMoves
  <1>5. CASE CountRetry(r)
    <2>1. /\ erRetrier[r].at = "delayed" /\ Reaches(r, "counted")
          /\ erMetrics' = [erMetrics EXCEPT !.total = @ + 1]
      BY <1>5 DEF CountRetry
    <2>2. "counted" \in RetrierPlaces
      BY DEF RetrierPlaces
    <2>3. PICK x \in RetrierState :
            /\ erRetrier' = [erRetrier EXCEPT ![r] = x]
            /\ x.at = "counted" /\ x.attempt = erRetrier[r].attempt /\ x.delay = erRetrier[r].delay
      BY <2>1, <2>2, RetrierFinds, RetrierGoes
    <2>4. x.delay <= erLimit
      BY <2>1, <2>3 DEF ERRInv, RetryInv, DelaysLimited
    <2>5. /\ erMetrics' \in RetryMetrics /\ erMetrics'.total # 0
          /\ erMetrics'.average = erMetrics.average /\ erMetrics'.largest = erMetrics.largest
      <3>1. erMetrics \in [total : Nat, average : Int, largest : Nat, failed : Nat]
        BY RetrierFinds DEF RetryMetrics
      <3>2. QED
        BY <2>1, <3>1 DEF RetryMetrics
    <2>6. QED
      BY <1>1, <1>2, <2>1, <2>3, <2>4, <2>5, RetrierFinds, RetrierMoves
  <1>6. QED
    BY <1>4, <1>5

LEMMA DelayStep ==
  ASSUME ERRInv, NEW r \in Retrier, updateDelayMetrics(r)
  PROVE  ERRInv'
  <1> DEFINE delay == erRetrier[r].delay
             n == erMetrics.total
             a == erMetrics.average
             L == IF delay > erMetrics.largest THEN delay ELSE erMetrics.largest
             sum == a * (n - 1) + delay
             mean == IF n = 1 THEN delay ELSE Towards0(InBits(sum), n)
  <1>1. /\ erRetrier[r].at = "counted" /\ Reaches(r, "running")
        /\ UNCHANGED <<retryBounds, erStolen, breaker>> /\ erRuns' = erRuns
    BY DEF updateDelayMetrics
  <1>2. "running" \in RetrierPlaces
    BY DEF RetrierPlaces
  <1>3. PICK x \in RetrierState :
          /\ erRetrier' = [erRetrier EXCEPT ![r] = x]
          /\ x.at = "running" /\ x.attempt = erRetrier[r].attempt /\ x.delay = erRetrier[r].delay
    BY <1>1, <1>2, RetrierFinds, RetrierGoes
  <1>4. erRuns' = [erRuns EXCEPT ![r] = erRuns[r]]
    BY <1>1, RetrierFinds
  <1>5. delay \in Int /\ delay <= erLimit
    BY <1>1, RetrierFinds DEF ERRInv, RetryInv, DelaysLimited, RetrierState
  <1>6. n \in Nat /\ a \in Int /\ erMetrics.largest \in Nat /\ erMetrics.largest <= erLimit
    BY RetrierFinds DEF RetryMetrics
  <1>7. /\ erMetrics' \in RetryMetrics /\ erMetrics'.total = erMetrics.total
        /\ erMetrics'.largest <= erLimit
        /\ erWrapped' \/ erMetrics'.average <= erMetrics'.largest
        /\ erPanic' => erStolen
    <2>1. CASE n = 0
      <3>1. erStolen
        BY <1>1, <2>1 DEF ERRInv, RetryInv, CountedInTotal
      <3>2. UNCHANGED <<erMetrics, erWrapped>>
        BY <2>1 DEF updateDelayMetrics
      <3>3. QED
        BY <3>1, <3>2, RetrierFinds
    <2>2. CASE n # 0
      <3>1. /\ erMetrics' = [erMetrics EXCEPT !.average = mean, !.largest = L]
            /\ erWrapped' = (IF n = 1 THEN FALSE ELSE erWrapped \/ InBits(sum) # sum)
            /\ erPanic' = erPanic
        BY <2>2 DEF updateDelayMetrics
      <3>2. L \in Nat /\ L <= erLimit /\ delay <= L /\ erMetrics.largest <= L
        BY <1>5, <1>6
      <3>3. erWrapped \/ a <= L
        <4>1. erWrapped \/ a <= erMetrics.largest
          BY RetrierFinds
        <4>2. QED
          BY <1>6, <3>2, <4>1
      <3> HIDE DEF delay, n, a, L
      <3>4. Towards0(InBits(sum), n) \in Int /\ (a <= L /\ InBits(sum) = sum => Towards0(InBits(sum), n) <= L)
        BY <1>5, <1>6, <2>2, <3>2, MeanBounded
      <3> HIDE DEF sum
      <3>5. mean \in Int /\ (erWrapped' \/ mean <= L)
        BY <1>5, <3>1, <3>2, <3>3, <3>4
      <3> HIDE DEF mean
      <3>6. /\ erMetrics' \in RetryMetrics /\ erMetrics'.total = erMetrics.total
            /\ erMetrics'.average = mean /\ erMetrics'.largest = L
        <4>1. erMetrics \in [total : Nat, average : Int, largest : Nat, failed : Nat]
          BY RetrierFinds DEF RetryMetrics
        <4>2. QED
          BY <3>1, <3>2, <3>5, <4>1 DEF RetryMetrics
      <3>7. QED
        BY <3>1, <3>2, <3>5, <3>6, RetrierFinds
    <2>3. QED
      BY <2>1, <2>2
  <1> HIDE DEF delay, n, a, L, sum, mean
  <1>8. /\ erRuns[r] \in Nat /\ erRuns[r] <= MaxRetries + 1
        /\ erRuns[r] = x.attempt /\ erRuns[r] <= MaxRetries
    BY <1>1, <1>3, RetrierFinds
  <1>9. QED
    BY <1>1, <1>3, <1>4, <1>7, <1>8, RetrierMoves

\* Reset and SetMaxDelay, which touch the metrics and the limit between the callers'
\* steps.
LEMMA ManagerStep ==
  ASSUME ERRInv, (\E d \in MaxDelays : SetMaxDelay(d)) \/ ResetTotal \/ ResetFailed \/ ResetDelays
  PROVE  ERRInv'
  <1>1. UNCHANGED <<erRetrier, erRuns, erPanic, ebState, ebFailures, ebCaller>>
    BY DEF SetMaxDelay, ResetTotal, ResetFailed, ResetDelays, breaker, retryPast
  <1>2. /\ erMetrics \in [total : Nat, average : Int, largest : Nat, failed : Nat]
        /\ erMetrics.largest <= erLimit /\ erLimit \in Nat /\ erMaxDelay \in Int
        /\ erWrapped \/ erMetrics.average <= erMetrics.largest
        /\ erPanic => erStolen
        /\ erMaxDelay <= erLimit
        /\ erRetrier \in [Retrier -> RetrierState]
    BY DEF ERRInv, ERRTypeOK, RetryInv, DelaysLimited, MetricsBounded, RetryMetrics
  <1>3. /\ erMaxDelay' \in Int /\ erLimit' \in Nat /\ erMaxDelay' <= erLimit' /\ erLimit <= erLimit'
    <2>1. CASE \E d \in MaxDelays : SetMaxDelay(d)
      BY <1>2, <2>1, PolicyAssumption DEF SetMaxDelay
    <2>2. CASE ResetTotal \/ ResetFailed \/ ResetDelays
      BY <1>2, <2>2 DEF ResetTotal, ResetFailed, ResetDelays
    <2>3. QED
      BY <2>1, <2>2
  <1>4. /\ erMetrics' \in [total : Nat, average : Int, largest : Nat, failed : Nat]
        /\ erMetrics'.largest <= erMetrics.largest
        /\ erWrapped' \/ erMetrics'.average <= erMetrics'.largest
    <2>1. CASE \E d \in MaxDelays : SetMaxDelay(d)
      BY <1>2, <2>1 DEF SetMaxDelay, retryPast
    <2>2. CASE ResetTotal \/ ResetFailed
      BY <1>2, <2>2 DEF ResetTotal, ResetFailed, retryPast
    <2>3. CASE ResetDelays
      <3>1. erMetrics' = [erMetrics EXCEPT !.average = 0, !.largest = 0]
        BY <2>3 DEF ResetDelays
      <3>2. erMetrics \in [total : Nat, average : Int, largest : Nat, failed : Nat]
        BY <1>2
      <3>3. /\ erMetrics' \in [total : Nat, average : Int, largest : Nat, failed : Nat]
            /\ erMetrics'.average = 0 /\ erMetrics'.largest = 0
        <4>1. erMetrics' = [total |-> erMetrics.total, average |-> 0, largest |-> 0,
                            failed |-> erMetrics.failed]
          BY <3>1, <3>2
        <4>2. erMetrics.total \in Nat /\ erMetrics.failed \in Nat
          BY <3>2
        <4>3. QED
          BY <4>1, <4>2
      <3>4. erMetrics.largest \in Nat
        BY <3>2
      <3>5. QED
        BY <3>3, <3>4
    <2>4. QED
      BY <2>1, <2>2, <2>3
  <1>5. ERRTypeOK'
    BY <1>1, <1>3, <1>4 DEF ERRInv, ERRTypeOK, RetryMetrics
  <1>6. RunsFollowAttempts'
    BY <1>1 DEF ERRInv, RetryInv, RunsFollowAttempts
  <1>7. DelaysLimited'
    <2>1. \A r \in Retrier : erRetrier[r].at \in {"delayed", "counted"} => erRetrier[r].delay <= erLimit'
      BY <1>2, <1>3 DEF ERRInv, RetryInv, DelaysLimited, RetrierState
    <2>2. QED
      BY <1>1, <1>3, <2>1 DEF DelaysLimited
  <1>8. CountedInTotal' /\ (erStolen => erStolen')
    <2>1. CASE ResetTotal
      <3>1. erStolen' = (erStolen \/ \E r \in Retrier : erRetrier[r].at = "counted")
        BY <2>1 DEF ResetTotal
      <3>2. QED
        BY <1>1, <3>1 DEF CountedInTotal
    <2>2. CASE (\E d \in MaxDelays : SetMaxDelay(d)) \/ ResetFailed \/ ResetDelays
      <3>1. erStolen' = erStolen /\ erMetrics'.total = erMetrics.total
        BY <1>2, <2>2 DEF SetMaxDelay, ResetFailed, ResetDelays, retryPast
      <3>2. QED
        BY <1>1, <3>1 DEF ERRInv, RetryInv, CountedInTotal
    <2>3. QED
      BY <2>1, <2>2
  <1>9. MetricsBounded'
    <2>1. erMetrics'.largest <= erLimit'
      BY <1>2, <1>3, <1>4
    <2>2. \A r \in Retrier : erRuns'[r] <= MaxRetries + 1
      BY <1>1 DEF ERRInv, RetryInv, MetricsBounded
    <2>3. erPanic' => erStolen'
      BY <1>1, <1>2, <1>8
    <2>4. QED
      BY <1>4, <2>1, <2>2, <2>3 DEF MetricsBounded
  <1>10. FailuresAreJudged'
    BY <1>1 DEF ERRInv, FailuresAreJudged
  <1>11. QED
    BY <1>5, <1>6, <1>7, <1>8, <1>9, <1>10 DEF ERRInv, RetryInv

\* A step of the breaker, which leaves the retries alone.
LEMMA RetriesStay ==
  ASSUME ERRInv, UNCHANGED retries, ebFailures' \in Nat, ebCaller' \in [Claimer -> ClaimerPlaces],
         FailuresAreJudged'
  PROVE  ERRInv'
  <1>1. /\ UNCHANGED <<erRetrier, erMetrics, erRuns, erMaxDelay, erLimit>>
        /\ UNCHANGED <<erWrapped, erStolen, erPanic>>
    BY DEF retries, retryBounds, retryPast
  <1>2. ERRTypeOK'
    BY <1>1 DEF ERRInv, ERRTypeOK
  <1>3. RetryInv'
    BY <1>1 DEF ERRInv, RetryInv, RunsFollowAttempts, DelaysLimited, CountedInTotal, MetricsBounded
  <1>4. QED
    BY <1>2, <1>3 DEF ERRInv

\* Callers of HandleError that neither meet a failure nor change the state.
LEMMA CallerStep ==
  ASSUME ERRInv, NEW c \in Claimer,
         HandleError(c) \/ ResetSuccesses(c) \/ ShouldNotRetry(c) \/ CountSuccess(c)
  PROVE  ERRInv'
  <1>1. UNCHANGED <<ebState, ebFailures>> /\ UNCHANGED retries
    BY DEF HandleError, ResetSuccesses, ShouldNotRetry, CountSuccess
  <1>2. \E from \in {"idle", "resetting", "handling", "counting"}, to \in ClaimerPlaces :
          Steps(c, from, to)
    BY DEF HandleError, ResetSuccesses, ShouldNotRetry, CountSuccess, ClaimerPlaces
  <1>3. ebCaller' \in [Claimer -> ClaimerPlaces]
    BY <1>2 DEF Steps, ERRInv, ERRTypeOK
  <1>4. FailuresAreJudged'
    BY <1>1, <1>2 DEF Steps, ERRInv, ERRTypeOK, FailuresAreJudged
  <1>5. QED
    BY <1>1, <1>3, <1>4, RetriesStay DEF ERRInv, ERRTypeOK

LEMMA FailureStep ==
  ASSUME ERRInv, NEW c \in Claimer, ShouldRetry(c) \/ JudgeFailure(c) \/ CloseBreaker(c)
  PROVE  ERRInv'
  <1>1. CASE ShouldRetry(c)
    <2>1. /\ UNCHANGED retries /\ ebFailures' \in Nat /\ ebCaller' = [ebCaller EXCEPT ![c] = "failed"]
      BY <1>1 DEF ShouldRetry, Steps, ERRInv, ERRTypeOK
    <2>2. ebCaller' \in [Claimer -> ClaimerPlaces] /\ ebCaller'[c] = "failed"
      BY <2>1 DEF ERRInv, ERRTypeOK, ClaimerPlaces
    <2>3. QED
      BY <2>1, <2>2, RetriesStay DEF FailuresAreJudged
  <1>2. CASE JudgeFailure(c)
    <2>1. UNCHANGED <<ebState, ebFailures>> /\ UNCHANGED retries
      BY <1>2 DEF JudgeFailure
    <2>2. CASE ebState = "half-open" \/ ebFailures >= Threshold
      <3>1. ebCaller' = [ebCaller EXCEPT ![c] = "opening"]
        BY <1>2, <2>2 DEF JudgeFailure, Steps
      <3>2. ebCaller' \in [Claimer -> ClaimerPlaces] /\ ebCaller'[c] = "opening"
        BY <3>1 DEF ERRInv, ERRTypeOK, ClaimerPlaces
      <3>3. QED
        BY <2>1, <3>2, RetriesStay DEF FailuresAreJudged, ERRInv, ERRTypeOK
    <2>3. CASE ~(ebState = "half-open" \/ ebFailures >= Threshold)
      <3>1. ebCaller' = [ebCaller EXCEPT ![c] = "idle"]
        BY <1>2, <2>3 DEF JudgeFailure, Steps
      <3>2. ebCaller' \in [Claimer -> ClaimerPlaces]
        BY <3>1 DEF ERRInv, ERRTypeOK, ClaimerPlaces
      <3>3. ebFailures' < Threshold
        BY <2>1, <2>3, PolicyBounds DEF ERRInv, ERRTypeOK
      <3>4. QED
        BY <2>1, <3>2, <3>3, RetriesStay DEF FailuresAreJudged, ERRInv, ERRTypeOK
    <2>4. QED
      BY <2>2, <2>3
  <1>3. CASE CloseBreaker(c)
    <2>1. UNCHANGED retries /\ ebFailures' = ebFailures /\ ebCaller' = [ebCaller EXCEPT ![c] = "clearing"]
      BY <1>3 DEF CloseBreaker, Steps
    <2>2. ebCaller' \in [Claimer -> ClaimerPlaces] /\ ebCaller'[c] = "clearing"
      BY <2>1 DEF ERRInv, ERRTypeOK, ClaimerPlaces
    <2>3. QED
      BY <2>1, <2>2, RetriesStay DEF FailuresAreJudged, ERRInv, ERRTypeOK
  <1>4. QED
    BY <1>1, <1>2, <1>3

LEMMA BreakerStep ==
  ASSUME ERRInv, NEW c \in Claimer, EnterHalfOpen(c) \/ Open(c) \/ ClearFailures(c)
  PROVE  ERRInv'
  <1>1. UNCHANGED retries /\ \E from, to \in ClaimerPlaces : Steps(c, from, to)
    BY DEF EnterHalfOpen, Open, ClearFailures, ClaimerPlaces
  <1>2. ebCaller' \in [Claimer -> ClaimerPlaces]
    BY <1>1 DEF Steps, ERRInv, ERRTypeOK
  <1>3. ebFailures' \in Nat /\ (ebState' = "closed" => ebFailures' < Threshold)
    <2>1. CASE EnterHalfOpen(c) \/ Open(c)
      BY <2>1 DEF EnterHalfOpen, Open, ERRInv, ERRTypeOK
    <2>2. CASE ClearFailures(c)
      BY <2>2, PolicyBounds DEF ClearFailures
    <2>3. QED
      BY <2>1, <2>2
  <1>4. QED
    BY <1>1, <1>2, <1>3, RetriesStay DEF FailuresAreJudged

LEMMA ERRStep == ERRInv /\ [\E part \in {"retry", "breaker"} : ERRNext(part)]_errVars => ERRInv'
  <1> SUFFICES ASSUME ERRInv, [\E part \in {"retry", "breaker"} : ERRNext(part)]_errVars
               PROVE  ERRInv'
    OBVIOUS
  <1>1. ASSUME NEW part \in {"retry", "breaker"}, ERRNext(part) PROVE ERRInv'
    <2>1. ASSUME NEW r \in Retrier,
                 \/ Retry(r) \/ OperationFails(r) \/ OperationSucceeds(r)
                 \/ CutDelay(r) \/ CountRetry(r) \/ updateDelayMetrics(r)
          PROVE  ERRInv'
      BY <2>1, RetryStep, OperationFailsStep, CountStep, DelayStep
    <2>2. CASE Timeout
      BY <2>2, RetriesStay DEF Timeout, ERRInv, ERRTypeOK, FailuresAreJudged
    <2>3. ASSUME NEW c \in Claimer,
                 \/ HandleError(c) \/ EnterHalfOpen(c) \/ ResetSuccesses(c)
                 \/ ShouldRetry(c) \/ JudgeFailure(c) \/ Open(c)
                 \/ ShouldNotRetry(c) \/ CountSuccess(c) \/ CloseBreaker(c) \/ ClearFailures(c)
          PROVE  ERRInv'
      BY <2>3, CallerStep, FailureStep, BreakerStep
    <2>4. CASE (\E d \in MaxDelays : SetMaxDelay(d)) \/ ResetTotal \/ ResetFailed \/ ResetDelays
      BY <2>4, ManagerStep
    <2>5. QED
      BY <1>1, <2>1, <2>2, <2>3, <2>4 DEF ERRNext
  <1>2. CASE UNCHANGED errVars
    BY <1>2, RetriesStay DEF errVars, breaker, ERRInv, ERRTypeOK, FailuresAreJudged
  <1>3. QED
    BY <1>1, <1>2

\* The retry metrics keep their bounds while the sum behind the average fits its
\* width, whoever resets them or changes the limit, and only a Reset between a
\* caller's count and its average ends the process; a closed breaker nobody is at work
\* in has counted fewer failures than open it (ErrorsAreCounted).
THEOREM ErrorsCounted == ERRSpec => []ErrorsAreCounted
  <1>1. ERRInv => ErrorsAreCounted
    BY DEF ERRInv, RetryInv, FailuresAreJudged, ErrorsAreCounted, ClosedBelowThreshold
  <1>2. QED
    BY ERRInitially, ERRStep, <1>1, PTL DEF ERRSpec

-----------------------------------------------------------------------------
(***************************************************************************)
(* The parts side by side (PartsSpec, what the run checks).                *)
(***************************************************************************)

\* A step of the parts side by side is a step of one of them, and a stutter of the
\* others.
LEMMA EachPartsTurn ==
  [PartsNext]_<<vars, small, focus>> =>
    /\ [Next]_vars /\ [AMNext]_amVars /\ [CWNext]_cwVars /\ [DHNext]_dhVars /\ [EPNext]_epVars
    /\ [\E part \in {"partition", "queue", "sessions", "rooms"} : RTNext(part)]_rtVars
    /\ [\E part \in {"pool", "cache", "engine"} : VDNext(part)]_vdVars
    /\ [\E part \in {"send", "filter"} : WCNext(part)]_wcVars
    /\ [\E part \in {"limiter", "pressure", "spread"} : FCNext(part)]_fcVars
    /\ [\E part \in {"retry", "breaker"} : ERRNext(part)]_errVars
  BY DEF PartsNext, small, ConnectionsNext, AlertsNext, WatcherNext, DemoHubNext, EnhancedNext,
         RoutingNext, ValidationNext, ClientNext, FlowNext, ErrorNext

(* Side by side every part behaves as it does alone.                       *)
THEOREM PartsKeepToThemselves ==
  PartsSpec => /\ Spec /\ AMSpec /\ CWSpec /\ DHSpec /\ EPSpec /\ RTSpec /\ VDSpec /\ WCSpec
               /\ FCSpec /\ ERRSpec
  <1>1. PartsInit => /\ Init /\ AMInit /\ CWInit /\ DHInit /\ EPInit /\ RTInit /\ VDInit /\ WCInit
                     /\ FCInit /\ ERRInit
    BY DEF PartsInit
  <1>2. QED
    BY <1>1, EachPartsTurn, PTL DEF PartsSpec, Spec, AMSpec, CWSpec, DHSpec, EPSpec, RTSpec, VDSpec,
       WCSpec, FCSpec, ERRSpec

(* So what the run checks of the parts together on a small instance holds  *)
(* for every value of the constants.                                       *)
THEOREM PartsKeepTheirPromises ==
  PartsSpec => [](/\ ClientsAccounted /\ OvershootBounded /\ AlertsAreAccounted /\ LoneSaveIsLoaded
                  /\ OnlyRacesPanic /\ RoundsAreWhole /\ RoutingKeepsTrack /\ ValidationHolds
                  /\ ClientHolds /\ ThrottlingHolds /\ ErrorsAreCounted)
  BY PartsKeepToThemselves, ClientsAreAccounted, BoundedOvershoot, AlertsAccounted,
     LoneSavesAreLoaded, OnlyRacesEndTheHub, HealthIsTold, RoutingTracks, TasksAreAccounted,
     ClientsHold, ThrottlingIsBounded, ErrorsCounted, PTL
=============================================================================
