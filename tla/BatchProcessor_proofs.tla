------------------------ MODULE BatchProcessor_proofs ------------------------
(***************************************************************************)
(* Theorems about BatchProcessor, for every set of messages, keys and      *)
(* partitions, every buffer and batch size and every number of batches.    *)
(***************************************************************************)
EXTENDS BatchProcessor, SequenceTheorems, TLAPS

(* Sequences and functions as places for messages.                         *)
LEMMA Appended ==
  ASSUME NEW S, NEW s \in Seq(S), NEW m \in S
  PROVE  /\ ToSet(Append(s, m)) = ToSet(s) \cup {m}
         /\ IsInjective(s) /\ m \notin ToSet(s) => IsInjective(Append(s, m))
  <1>1. /\ Append(s, m) \in Seq(S) /\ DOMAIN Append(s, m) = 1..(Len(s) + 1)
        /\ DOMAIN s = 1..Len(s) /\ Len(s) \in Nat
        /\ \A i \in 1..Len(s) : Append(s, m)[i] = s[i]
        /\ Append(s, m)[Len(s) + 1] = m
    OBVIOUS
  <1>2. QED
    BY <1>1 DEF ToSet, IsInjective

LEMMA HeadTaken ==
  ASSUME NEW S, NEW s \in Seq(S), s # <<>>
  PROVE  /\ Head(s) \in S /\ Tail(s) \in Seq(S) /\ Len(Tail(s)) = Len(s) - 1
         /\ ToSet(s) = ToSet(Tail(s)) \cup {Head(s)}
         /\ IsInjective(s) => IsInjective(Tail(s)) /\ Head(s) \notin ToSet(Tail(s))
  <1>1. /\ Len(s) \in Nat /\ Len(s) > 0 /\ DOMAIN s = 1..Len(s) /\ Head(s) = s[1]
        /\ Tail(s) \in Seq(S) /\ Len(Tail(s)) = Len(s) - 1
        /\ DOMAIN Tail(s) = 1..(Len(s) - 1)
        /\ \A i \in 1..(Len(s) - 1) : Tail(s)[i] = s[i + 1]
    OBVIOUS
  <1>2. \A i \in 2..Len(s) : s[i] = Tail(s)[i - 1] /\ i - 1 \in DOMAIN Tail(s)
    BY <1>1
  <1>3. ToSet(s) = ToSet(Tail(s)) \cup {Head(s)}
    <2>1. ASSUME NEW i \in DOMAIN s PROVE s[i] \in ToSet(Tail(s)) \cup {Head(s)}
      <3>1. CASE i = 1
        BY <1>1, <3>1
      <3>2. CASE i # 1
        <4>1. i \in 2..Len(s)
          BY <1>1, <3>2
        <4>2. QED
          BY <1>2, <4>1 DEF ToSet
      <3>3. QED
        BY <3>1, <3>2
    <2>2. ToSet(Tail(s)) \cup {Head(s)} \subseteq ToSet(s)
      BY <1>1 DEF ToSet
    <2>3. QED
      BY <2>1, <2>2 DEF ToSet
  <1>4. QED
    BY <1>1, <1>3, SMTT(20) DEF ToSet, IsInjective

LEMMA Restricted ==
  ASSUME NEW f, NEW D \in SUBSET DOMAIN f, IsInjective(f)
  PROVE  /\ DOMAIN Restrict(f, DOMAIN f \ D) = DOMAIN f \ D
         /\ IsInjective(Restrict(f, DOMAIN f \ D))
         /\ Range(Restrict(f, DOMAIN f \ D)) = Range(f) \ {f[j] : j \in D}
  BY DEF Restrict, Range, IsInjective
-----------------------------------------------------------------------------
Waiting == ToSet(messageBuffer) \cup ToSet(batchBuffer) \cup InBatches
Taken == Waiting \cup sent \cup lost

(* MessageInOnePlace, pair by pair.                                        *)
BatchesApart ==
  /\ \A b \in Batch : IsInjective(remaining[b])
  /\ \A b, c \in Batch : b # c => InBatch(b) \cap InBatch(c) = {}

Places ==
  /\ IsInjective(messageBuffer) /\ IsInjective(batchBuffer) /\ BatchesApart
  /\ ToSet(messageBuffer) \cap ToSet(batchBuffer) = {}
  /\ ToSet(messageBuffer) \cap InBatches = {} /\ ToSet(batchBuffer) \cap InBatches = {}
  /\ Waiting \cap sent = {} /\ Waiting \cap lost = {} /\ sent \cap lost = {}
  /\ looking \cap Taken = {}

LEMMA PlacesArePairs == Places => MessageInOnePlace
  <1> DEFINE places == <<looking, ToSet(messageBuffer), ToSet(batchBuffer), InBatches,
                         sent, lost>>
  <1> SUFFICES ASSUME Places, NEW i \in 1..6, NEW j \in 1..6, i # j
               PROVE  places[i] \cap places[j] = {}
    BY DEF MessageInOnePlace, Places, BatchesApart
  <1>1. /\ places[1] = looking /\ places[2] = ToSet(messageBuffer)
        /\ places[3] = ToSet(batchBuffer) /\ places[4] = InBatches
        /\ places[5] = sent /\ places[6] = lost
    OBVIOUS
  <1>2. i \in {1, 2, 3, 4, 5, 6} /\ j \in {1, 2, 3, 4, 5, 6}
    OBVIOUS
  <1> HIDE DEF places
  <1>3. QED
    BY <1>1, <1>2 DEF Places, Waiting, Taken

(* A batch not made yet is empty.                                          *)
Fresh == \A b \in Batch : b > made => DOMAIN remaining[b] = {}

Inv == TypeOK /\ Places /\ NoSilentLoss /\ Fresh

LEMMA InvInit == Init => Inv
  <1> SUFFICES ASSUME Init PROVE Inv
    OBVIOUS
  <1>1. \A b \in Batch : remaining[b] = <<>> /\ DOMAIN remaining[b] = {}
    BY DEF Init
  <1>2. \A b \in Batch : InBatch(b) = {} /\ IsInjective(remaining[b])
    BY <1>1 DEF InBatch, Range, IsInjective
  <1>3. InBatches = {}
    BY <1>2 DEF InBatches
  <1>4. /\ ToSet(messageBuffer) = {} /\ IsInjective(messageBuffer)
        /\ ToSet(batchBuffer) = {} /\ IsInjective(batchBuffer)
    BY DEF Init, ToSet, IsInjective
  <1>5. TypeOK
    <2>1. /\ messageBuffer \in Seq(Message) /\ Len(messageBuffer) = 0
          /\ batchBuffer \in Seq(Message) /\ Len(batchBuffer) = 0
      BY DEF Init
    <2>2. Pool!TypeOK
      BY DEF Init, Pool!Init, Pool!TypeOK, Pool!Status
    <2>3. DOMAIN remaining = Batch
      BY DEF Init
    <2>4. \A b \in Batch : DOMAIN remaining[b] \subseteq 1..BatchSize /\ InBatch(b) \subseteq Message
      BY <1>1, <1>2
    <2>5. /\ running \in BOOLEAN /\ ctxDone \in BOOLEAN /\ stopAt \in {"idle", "loops", "pool"}
          /\ scaling \in BOOLEAN /\ looking \subseteq Message /\ loops \subseteq Loop
          /\ retried \subseteq Key /\ sent \subseteq Message /\ lost \subseteq Message
      BY DEF Init
    <2>6. inline \in 0..made /\ made \in 0..MaxBatches
      <3>1. inline = 0 /\ made = 0
        BY DEF Init
      <3>2. QED
        BY <3>1, ProcessorAssumption
    <2>7. QED
      BY <2>1, <2>2, <2>3, <2>4, <2>5, <2>6, ProcessorAssumption DEF TypeOK
  <1>6. Places
    BY <1>2, <1>3, <1>4 DEF Init, Places, BatchesApart, Waiting, Taken
  <1>7. QED
    BY <1>1, <1>5, <1>6 DEF Init, Inv, NoSilentLoss, Fresh
-----------------------------------------------------------------------------
(* processBatch moves the buffer's messages to a fresh batch.              *)
LEMMA BatchMade ==
  ASSUME Inv, NEW buffer \in Seq(Message), IsInjective(buffer), Len(buffer) <= BatchSize,
         ToSet(buffer) \cap InBatches = {}, MakeBatch(buffer)
  PROVE  /\ InBatches' = InBatches \cup ToSet(buffer)
         /\ BatchesApart' /\ Fresh'
         /\ inline' \in 0..made' /\ made' \in 0..MaxBatches
         /\ DOMAIN remaining' = Batch
         /\ \A b \in Batch : DOMAIN remaining'[b] \subseteq 1..BatchSize /\ InBatch(b)' \subseteq Message
         /\ Pool!TypeOK'
  <1>0. PICK n \in Batch : n = made + 1
    BY DEF MakeBatch
  <1>1. n = made + 1 /\ made' = n /\ made \in Nat
    BY <1>0, ProcessorAssumption DEF MakeBatch, Inv, TypeOK
  <1>2. /\ remaining'[n] = buffer /\ DOMAIN remaining' = Batch
        /\ \A b \in Batch \ {n} : remaining'[b] = remaining[b]
    BY <1>1 DEF MakeBatch, Inv, TypeOK
  <1>3. DOMAIN remaining[n] = {} /\ InBatch(n) = {}
    BY <1>1 DEF Inv, Fresh, InBatch, Range
  <1>4. DOMAIN buffer = 1..Len(buffer) /\ Len(buffer) \in Nat /\ Range(buffer) = ToSet(buffer)
        /\ Range(buffer) \subseteq Message
    BY DEF Range, ToSet
  <1>5. /\ InBatch(n)' = ToSet(buffer)
        /\ \A b \in Batch \ {n} : InBatch(b)' = InBatch(b)
    BY <1>2, <1>4 DEF InBatch
  <1>6. InBatches' = InBatches \cup ToSet(buffer)
    BY <1>1, <1>3, <1>5 DEF InBatches
  <1>7. \A b \in Batch \ {n} : InBatch(b) \cap ToSet(buffer) = {}
    BY DEF InBatches
  <1>8. BatchesApart'
    <2>1. \A b \in Batch : IsInjective(remaining'[b])
      BY <1>2 DEF Inv, Places, BatchesApart
    <2>2. ASSUME NEW b \in Batch, NEW c \in Batch, b # c PROVE InBatch(b)' \cap InBatch(c)' = {}
      BY <1>5, <1>7, <2>2 DEF Inv, Places, BatchesApart
    <2>3. QED
      BY <2>1, <2>2 DEF BatchesApart
  <1>9. Fresh'
    BY <1>1, <1>2 DEF Fresh, Inv, Batch
  <1>10. inline' \in 0..made' /\ made' \in 0..MaxBatches
    BY <1>1 DEF MakeBatch, Batch
  <1>11. \A b \in Batch : DOMAIN remaining'[b] \subseteq 1..BatchSize /\ InBatch(b)' \subseteq Message
    <2> SUFFICES ASSUME NEW b \in Batch
                 PROVE DOMAIN remaining'[b] \subseteq 1..BatchSize /\ InBatch(b)' \subseteq Message
      OBVIOUS
    <2>1. CASE b = n
      BY <1>2, <1>4, <1>5, <2>1, ProcessorAssumption
    <2>2. CASE b # n
      BY <1>2, <1>5, <2>2 DEF Inv, TypeOK
    <2>3. QED
      BY <2>1, <2>2
  <1>12. Pool!TypeOK'
    BY <1>1
       DEF MakeBatch, Inv, TypeOK, Pool!TypeOK, Pool!Accept, Pool!Refuse, Pool!Move,
           Pool!Status
  <1>13. QED
    BY <1>2, <1>6, <1>8, <1>9, <1>10, <1>11, <1>12

(* Messages leave a batch.                                                 *)
LEMMA Advanced ==
  ASSUME Inv, NEW b \in Batch, NEW D \in SUBSET DOMAIN remaining[b], Advance(b, D)
  PROVE  /\ InBatches' = InBatches \ {remaining[b][j] : j \in D}
         /\ {remaining[b][j] : j \in D} \subseteq InBatches
         /\ BatchesApart'
         /\ made' = made => Fresh'
         /\ DOMAIN remaining' = Batch
         /\ \A c \in Batch : DOMAIN remaining'[c] \subseteq 1..BatchSize /\ InBatch(c)' \subseteq Message
  <1> DEFINE G == {remaining[b][j] : j \in D}
  <1>0. TypeOK /\ BatchesApart /\ IsInjective(remaining[b])
    BY DEF Inv, Places, BatchesApart
  <1>1. /\ DOMAIN remaining' = Batch
        /\ remaining'[b] = Restrict(remaining[b], DOMAIN remaining[b] \ D)
        /\ \A c \in Batch \ {b} : remaining'[c] = remaining[c]
    BY <1>0 DEF Advance, TypeOK
  <1>2. /\ DOMAIN remaining'[b] = DOMAIN remaining[b] \ D /\ IsInjective(remaining'[b])
        /\ InBatch(b)' = InBatch(b) \ G
    BY <1>0, <1>1, Restricted, SMTT(20) DEF InBatch
  <1>3. G \subseteq InBatch(b)
    BY DEF InBatch, Range
  <1>4. \A c \in Batch \ {b} : InBatch(c)' = InBatch(c) /\ InBatch(c) \cap G = {}
    BY <1>0, <1>1, <1>3 DEF InBatch, BatchesApart
  <1> HIDE DEF G
  <1>5. InBatches' = InBatches \ G /\ G \subseteq InBatches
    BY <1>2, <1>3, <1>4 DEF InBatches
  <1>6. BatchesApart'
    <2>1. \A c \in Batch : IsInjective(remaining'[c])
      BY <1>0, <1>1, <1>2 DEF BatchesApart
    <2>2. ASSUME NEW c \in Batch, NEW d \in Batch, c # d PROVE InBatch(c)' \cap InBatch(d)' = {}
      <3>1. InBatch(c)' \subseteq InBatch(c) /\ InBatch(d)' \subseteq InBatch(d)
        BY <1>2, <1>4
      <3>2. QED
        BY <1>0, <2>2, <3>1 DEF BatchesApart
    <2>3. QED
      BY <2>1, <2>2 DEF BatchesApart
  <1>7. \A c \in Batch : /\ DOMAIN remaining'[c] \subseteq DOMAIN remaining[c]
                         /\ InBatch(c)' \subseteq InBatch(c)
    BY <1>1, <1>2, <1>4
  <1>8. QED
    BY <1>0, <1>1, <1>5, <1>6, <1>7 DEF G, Fresh, Inv, TypeOK
-----------------------------------------------------------------------------
(* What a step does to the messages as a whole.                            *)
Stays ==
  /\ Waiting' = Waiting /\ sent' = sent /\ lost' = lost
  /\ looking' \cap Taken = {}
Accepts(m) ==
  /\ m \notin Waiting \cup sent \cup lost
  /\ looking' = looking \ {m}
  /\ Waiting' = Waiting \cup {m} /\ sent' = sent /\ lost' = lost
Delivers(m) ==
  /\ m \in Waiting /\ m \notin Unencodable
  /\ looking' = looking
  /\ Waiting' = Waiting \ {m} /\ sent' = sent \cup {m} /\ lost' = lost
Loses(L) ==
  /\ L \subseteq Waiting /\ L # {} /\ \A m, n \in L : PartitionOf(m) = PartitionOf(n)
  /\ ctxDone \/ L \cap Unencodable # {}
  /\ looking' = looking
  /\ Waiting' = Waiting \ L /\ sent' = sent /\ lost' = lost \cup L

Change ==
  \/ Stays /\ (ctxDone' = ctxDone \/ ctxDone' = TRUE)
  \/ /\ ctxDone' = ctxDone
     /\ \/ \E m \in Message : Accepts(m) \/ Delivers(m)
        \/ \E L \in SUBSET Message : Loses(L)

(* The rest of the invariant: each place by itself.                        *)
Held ==
  /\ TypeOK /\ Fresh /\ BatchesApart
  /\ IsInjective(messageBuffer) /\ IsInjective(batchBuffer)
  /\ ToSet(messageBuffer) \cap ToSet(batchBuffer) = {}
  /\ ToSet(messageBuffer) \cap InBatches = {} /\ ToSet(batchBuffer) \cap InBatches = {}

LEMMA WaitingAreMessages == TypeOK => Waiting \subseteq Message
  <1> SUFFICES ASSUME TypeOK PROVE Waiting \subseteq Message
    OBVIOUS
  <1>1. ASSUME NEW s \in Seq(Message) PROVE ToSet(s) \subseteq Message
    BY DEF ToSet
  <1>2. InBatches \subseteq Message
    BY DEF TypeOK, InBatches
  <1>3. QED
    BY <1>1, <1>2 DEF TypeOK, Waiting

LEMMA ChangeKeeps ==
  ASSUME Inv, Held', Change
  PROVE  Inv'
  <1>1. Waiting \cap sent = {} /\ Waiting \cap lost = {} /\ sent \cap lost = {}
    BY DEF Inv, Places
  <1>2. Waiting' \cap sent' = {} /\ Waiting' \cap lost' = {} /\ sent' \cap lost' = {}
    BY <1>1 DEF Change, Stays, Accepts, Delivers, Loses
  <1>a. looking' \cap Taken' = {}
    <2>1. looking \cap Taken = {}
      BY DEF Inv, Places
    <2>2. CASE Stays
      BY <2>1, <2>2 DEF Stays, Taken
    <2>3. ASSUME NEW m \in Message, Accepts(m) PROVE looking' \cap Taken' = {}
      BY <2>1, <2>3 DEF Accepts, Taken
    <2>4. ASSUME NEW m \in Message, Delivers(m) PROVE looking' \cap Taken' = {}
      BY <2>1, <2>4 DEF Delivers, Taken
    <2>5. ASSUME NEW L \in SUBSET Message, Loses(L) PROVE looking' \cap Taken' = {}
      BY <2>1, <2>5 DEF Loses, Taken
    <2>6. QED
      BY <2>2, <2>3, <2>4, <2>5 DEF Change
  <1>3. NoSilentLoss'
    <2> SUFFICES ASSUME ~ctxDone', NEW m \in lost'
                 PROVE  \E u \in lost' \cap Unencodable : PartitionOf(u) = PartitionOf(m)
      BY DEF NoSilentLoss
    <2>1. ~ctxDone
      BY DEF Change
    <2>2. lost \subseteq lost'
      BY DEF Change, Stays, Accepts, Delivers, Loses
    <2>3. CASE m \in lost
      BY <2>1, <2>2, <2>3 DEF Inv, NoSilentLoss
    <2>4. CASE m \notin lost
      <3>1. PICK L \in SUBSET Message : Loses(L)
        BY <2>4 DEF Change, Stays, Accepts, Delivers
      <3>2. m \in L /\ L \subseteq lost' /\ L \cap Unencodable # {}
        BY <2>1, <2>4, <3>1 DEF Loses
      <3>3. QED
        BY <3>1, <3>2 DEF Loses
    <2>5. QED
      BY <2>3, <2>4
  <1>4. QED
    BY <1>2, <1>a, <1>3 DEF Inv, Held, Places

(* A step that touches no message.                                         *)
LEMMA NothingMoves ==
  ASSUME Inv, TypeOK', UNCHANGED <<messageBuffer, batchBuffer, made, remaining, sent, lost>>,
         ctxDone' = ctxDone \/ ctxDone' = TRUE, looking' \cap Taken = {}
  PROVE  Held' /\ Change
  <1>1. \A b \in Batch : InBatch(b)' = InBatch(b)
    BY DEF InBatch
  <1>2. InBatches' = InBatches
    BY <1>1 DEF InBatches
  <1>3. BatchesApart'
    BY <1>1 DEF Inv, Places, BatchesApart
  <1>4. Fresh'
    BY DEF Inv, Fresh
  <1>5. Waiting' = Waiting
    BY <1>2 DEF Waiting
  <1>6. QED
    BY <1>2, <1>3, <1>4, <1>5 DEF Inv, Places, Held, Change, Stays

(* The collector flushes what it has collected, leaving an empty buffer.   *)
LEMMA Flushed ==
  ASSUME Inv, NEW buffer \in Seq(Message), IsInjective(buffer), Len(buffer) <= BatchSize,
         ToSet(buffer) \cap InBatches = {}, ToSet(buffer) \cap ToSet(messageBuffer') = {},
         ToSet(buffer) \cup ToSet(messageBuffer') = ToSet(batchBuffer) \cup ToSet(messageBuffer),
         messageBuffer' \in Seq(Message), Len(messageBuffer') <= BufferSize,
         IsInjective(messageBuffer'), ToSet(messageBuffer') \subseteq ToSet(messageBuffer),
         MakeBatch(buffer), batchBuffer' = <<>>, UNCHANGED <<lifecycle, outcome>>,
         loops' \subseteq loops
  PROVE  Held' /\ Change
  <1>1. /\ InBatches' = InBatches \cup ToSet(buffer)
        /\ BatchesApart' /\ Fresh'
        /\ inline' \in 0..made' /\ made' \in 0..MaxBatches
        /\ DOMAIN remaining' = Batch
        /\ \A b \in Batch : DOMAIN remaining'[b] \subseteq 1..BatchSize /\ InBatch(b)' \subseteq Message
        /\ Pool!TypeOK'
    BY BatchMade
  <1>2. batchBuffer' \in Seq(Message) /\ Len(batchBuffer') = 0 /\ ToSet(batchBuffer') = {}
        /\ IsInjective(batchBuffer')
    BY DEF ToSet, IsInjective
  <1>3. TypeOK'
    BY <1>1, <1>2, ProcessorAssumption DEF Inv, TypeOK, lifecycle, control, outcome
  <1>4. Held'
    BY <1>1, <1>2, <1>3 DEF Held, Inv, Places
  <1>5. Waiting' = Waiting
    BY <1>1, <1>2 DEF Waiting
  <1>6. QED
    BY <1>4, <1>5 DEF Change, Stays, Inv, Places, lifecycle, control, outcome

(* A goroutine is done with messages of a batch.                           *)
LEMMA LeavesBatch ==
  ASSUME Inv, NEW b \in Batch, NEW p \in Partition, NEW i, PartitionStep(b, p, i),
         NEW D \in SUBSET DOMAIN remaining[b], Advance(b, D),
         retried' \subseteq Key, sent' \subseteq Message, lost' \subseteq Message
  PROVE  /\ Held' /\ ctxDone' = ctxDone /\ looking' = looking
         /\ Waiting' = Waiting \ {remaining[b][j] : j \in D}
         /\ {remaining[b][j] : j \in D} \subseteq Waiting
  <1> DEFINE G == {remaining[b][j] : j \in D}
  <1>1. /\ InBatches' = InBatches \ G /\ G \subseteq InBatches /\ BatchesApart'
        /\ made' = made => Fresh'
        /\ DOMAIN remaining' = Batch
        /\ \A c \in Batch : DOMAIN remaining'[c] \subseteq 1..BatchSize /\ InBatch(c)' \subseteq Message
    BY Advanced
  <1> HIDE DEF G
  <1>2. UNCHANGED <<lifecycle, loops, messageBuffer, batchBuffer, inline, made, pool>>
    BY DEF PartitionStep
  <1>3. TypeOK'
    BY <1>1, <1>2 DEF Inv, TypeOK, lifecycle, control, pool, Pool!TypeOK
  <1>4. Held'
    BY <1>1, <1>2, <1>3 DEF Inv, Places, Held
  <1>5. Waiting' = Waiting \ G /\ G \subseteq Waiting
    BY <1>1, <1>2 DEF Inv, Places, Waiting
  <1>6. QED
    BY <1>2, <1>4, <1>5 DEF G, lifecycle, control

LEMMA SendStep ==
  ASSUME Inv, NEW b \in Batch, NEW p \in Partition, SendPartitionBatch(b, p)
  PROVE  Held' /\ Change
  <1>1. PICK i : /\ PartitionStep(b, p, i)
                 /\ \/ SendToKafka(b, p, i) \/ AbandonPartition(b, p, i)
                    \/ RetryUnencodable(b, p, i) \/ SkipUnencodable(b, p, i)
    BY DEF SendPartitionBatch, SendToKafka, AbandonPartition, RetryUnencodable, SkipUnencodable
  <1>2. /\ i \in Portion(b, p) /\ i \in DOMAIN remaining[b]
        /\ Portion(b, p) \in SUBSET DOMAIN remaining[b]
        /\ \A j \in Portion(b, p) : PartitionOf(remaining[b][j]) = p
    BY <1>1 DEF PartitionStep, Portion
  <1>3. remaining[b][i] \in Message /\ keyOf[remaining[b][i]] \in Key
    BY <1>2, ProcessorAssumption DEF Inv, TypeOK, InBatch, Range
  <1>4. retried \subseteq Key /\ sent \subseteq Message /\ lost \subseteq Message
    BY DEF Inv, TypeOK
  <1>5. \A D \in SUBSET DOMAIN remaining[b] : {remaining[b][j] : j \in D} \subseteq Message
    BY DEF Inv, TypeOK, InBatch, Range
  <1>6. CASE SendToKafka(b, p, i)
    <2>1. /\ Advance(b, {i}) /\ {i} \in SUBSET DOMAIN remaining[b]
          /\ sent' = sent \cup {remaining[b][i]} /\ lost' = lost /\ retried' = retried
      BY <1>2, <1>6 DEF SendToKafka
    <2>2. sent' \subseteq Message /\ lost' \subseteq Message /\ retried' \subseteq Key
      BY <1>3, <1>4, <2>1
    <2>3. /\ Held' /\ ctxDone' = ctxDone /\ looking' = looking
          /\ Waiting' = Waiting \ {remaining[b][j] : j \in {i}}
          /\ {remaining[b][j] : j \in {i}} \subseteq Waiting
      BY <1>1, <2>1, <2>2, LeavesBatch
    <2>4. Delivers(remaining[b][i])
      BY <1>6, <2>1, <2>3 DEF SendToKafka, Delivers
    <2>5. QED
      BY <1>3, <2>3, <2>4 DEF Change
  <1>7. ASSUME NEW D \in SUBSET DOMAIN remaining[b], D # {}, D \subseteq Portion(b, p), GiveUp(b, D),
               retried' \subseteq Key,
               ctxDone \/ {remaining[b][j] : j \in D} \cap Unencodable # {}
        PROVE  Held' /\ Change
    <2> DEFINE G == {remaining[b][j] : j \in D}
    <2>1. Advance(b, D) /\ sent' = sent /\ lost' = lost \cup G
      BY <1>7 DEF GiveUp
    <2>2. G \subseteq Message /\ G # {} /\ \A m, n \in G : PartitionOf(m) = PartitionOf(n)
      BY <1>2, <1>5, <1>7
    <2>3. sent' \subseteq Message /\ lost' \subseteq Message
      BY <1>4, <2>1, <2>2
    <2>4. /\ Held' /\ ctxDone' = ctxDone /\ looking' = looking
          /\ Waiting' = Waiting \ G /\ G \subseteq Waiting
      BY <1>1, <1>7, <2>1, <2>3, LeavesBatch
    <2>5. Loses(G)
      BY <1>7, <2>1, <2>2, <2>4 DEF Loses
    <2> HIDE DEF G
    <2>6. QED
      BY <2>2, <2>4, <2>5 DEF Change
  <1>8. CASE AbandonPartition(b, p, i)
    BY <1>2, <1>4, <1>7, <1>8 DEF AbandonPartition
  <1>9. CASE RetryUnencodable(b, p, i)
    <2>1. /\ GiveUp(b, Portion(b, p)) /\ retried' = retried \cup {keyOf[remaining[b][i]]}
          /\ remaining[b][i] \in Unencodable
      BY <1>9 DEF RetryUnencodable
    <2>2. {remaining[b][j] : j \in Portion(b, p)} \cap Unencodable # {}
      BY <1>2, <2>1
    <2>3. QED
      BY <1>2, <1>3, <1>4, <1>7, <2>1, <2>2
  <1>10. CASE SkipUnencodable(b, p, i)
    <2>1. GiveUp(b, {i}) /\ retried' = retried /\ remaining[b][i] \in Unencodable
      BY <1>10 DEF SkipUnencodable
    <2>2. {remaining[b][j] : j \in {i}} \cap Unencodable # {}
      BY <2>1
    <2>3. QED
      BY <1>2, <1>4, <1>7, <2>1, <2>2
  <1>11. QED
    BY <1>1, <1>6, <1>8, <1>9, <1>10

LEMMA CollectorStep ==
  ASSUME Inv, Collector
  PROVE  Held' /\ Change
  <1>0. /\ messageBuffer \in Seq(Message) /\ Len(messageBuffer) <= BufferSize
        /\ batchBuffer \in Seq(Message) /\ Len(batchBuffer) < BatchSize
        /\ IsInjective(messageBuffer) /\ IsInjective(batchBuffer)
        /\ ToSet(messageBuffer) \cap ToSet(batchBuffer) = {}
        /\ ToSet(messageBuffer) \cap InBatches = {} /\ ToSet(batchBuffer) \cap InBatches = {}
    BY DEF Inv, TypeOK, Places
  <1>s. BatchSize \in Nat /\ BufferSize \in Nat /\ Len(batchBuffer) \in Nat
    BY <1>0, ProcessorAssumption
  <1>1. CASE CollectMessage
    <2> DEFINE m == Head(messageBuffer)
               collected == Append(batchBuffer, m)
    <2>1. /\ m \in Message /\ Tail(messageBuffer) \in Seq(Message)
          /\ Len(Tail(messageBuffer)) = Len(messageBuffer) - 1
          /\ ToSet(messageBuffer) = ToSet(Tail(messageBuffer)) \cup {m}
          /\ IsInjective(Tail(messageBuffer)) /\ m \notin ToSet(Tail(messageBuffer))
      BY <1>0, <1>1, HeadTaken DEF CollectMessage
    <2>2. /\ collected \in Seq(Message) /\ Len(collected) = Len(batchBuffer) + 1
          /\ ToSet(collected) = ToSet(batchBuffer) \cup {m} /\ IsInjective(collected)
      BY <1>0, <2>1, Appended
    <2>3. messageBuffer' = Tail(messageBuffer) /\ UNCHANGED <<lifecycle, loops, outcome>>
      BY <1>1 DEF CollectMessage
    <2>4. /\ Len(messageBuffer') <= BufferSize /\ Len(collected) <= BatchSize
      BY <1>0, <1>s, <2>1, <2>2, <2>3
    <2>5. CASE Len(collected) >= BatchSize
      <3>1. batchBuffer' = <<>> /\ MakeBatch(collected)
        BY <1>1, <2>5 DEF CollectMessage
      <3> HIDE DEF collected, m
      <3>2. QED
        BY <1>0, <2>1, <2>2, <2>3, <2>4, <3>1, Flushed
    <2>6. CASE ~(Len(collected) >= BatchSize)
      <3>1. batchBuffer' = collected /\ UNCHANGED <<made, remaining, pool, inline>>
        BY <1>1, <2>6 DEF CollectMessage
      <3>2. \A b \in Batch : InBatch(b)' = InBatch(b)
        BY <3>1 DEF InBatch
      <3>3. InBatches' = InBatches
        BY <3>2 DEF InBatches
      <3>4. Len(batchBuffer') < BatchSize
        BY <1>s, <2>2, <2>6, <3>1
      <3> HIDE DEF collected, m
      <3>5. TypeOK'
        BY <1>0, <2>1, <2>2, <2>3, <2>4, <3>1, <3>2, <3>4
           DEF Inv, TypeOK, lifecycle, control, outcome, pool, Pool!TypeOK
      <3>6. BatchesApart' /\ Fresh'
        BY <3>1, <3>2 DEF Inv, Places, BatchesApart, Fresh
      <3>7. Held'
        BY <1>0, <2>1, <2>2, <2>3, <3>1, <3>3, <3>5, <3>6 DEF Held
      <3>8. Waiting' = Waiting
        BY <2>1, <2>2, <2>3, <3>1, <3>3 DEF Waiting
      <3>9. QED
        BY <2>3, <3>7, <3>8 DEF Change, Stays, Inv, Places, lifecycle, control, outcome
    <2>7. QED
      BY <2>5, <2>6
  <1>2. CASE FlushTimeout
    BY <1>0, <1>s, <1>2, Flushed DEF FlushTimeout
  <1>3. CASE CollectorExit
    <2>1. CASE batchBuffer # <<>>
      BY <1>0, <1>s, <1>3, <2>1, Flushed DEF CollectorExit
    <2>2. CASE batchBuffer = <<>>
      <3>1. TypeOK'
        BY <1>3, <2>2 DEF CollectorExit, Inv, TypeOK, InBatch, lifecycle, control, outcome, pool, Pool!TypeOK
      <3>2. QED
        BY <1>3, <2>2, <3>1, NothingMoves
           DEF CollectorExit, Inv, Places, lifecycle, control, outcome
    <2>3. QED
      BY <2>1, <2>2
  <1>4. CASE InlineDone
    <2>1. TypeOK'
      BY <1>4, ProcessorAssumption
         DEF InlineDone, Inv, TypeOK, InBatch, lifecycle, control, outcome, pool, Pool!TypeOK
    <2>2. QED
      BY <1>4, <2>1, NothingMoves DEF InlineDone, Inv, Places, lifecycle, control, outcome
  <1>5. QED
    BY <1>1, <1>2, <1>3, <1>4 DEF Collector

LEMMA Steps == Inv /\ [Next]_vars => Held' /\ Change
  <1> SUFFICES ASSUME Inv, [Next]_vars PROVE Held' /\ Change
    OBVIOUS
  <1>1. CASE Start \/ StopBegin \/ StopPool \/ StopEnd \/ ScalerDecides \/ ScalerActs
              \/ UNCHANGED vars
    <2>1. /\ UNCHANGED <<messageBuffer, batchBuffer, inline, made, remaining, outcome>>
          /\ ctxDone' = ctxDone \/ ctxDone' = TRUE
          /\ looking' = looking
      BY <1>1 DEF Start, StopBegin, StopPool, StopEnd, ScalerDecides, ScalerActs, vars,
                  lifecycle, control, outcome
    <2>2. /\ running' \in BOOLEAN /\ ctxDone' \in BOOLEAN /\ stopAt' \in {"idle", "loops", "pool"}
          /\ scaling' \in BOOLEAN /\ looking' \subseteq Message
          /\ loops' \subseteq Loop /\ Pool!TypeOK'
      BY <1>1 DEF Start, StopBegin, StopPool, StopEnd, ScalerDecides, ScalerActs, vars,
                  lifecycle, control, pool, Inv, TypeOK, Pool!GoUp, Pool!GoDown, Pool!TypeOK
    <2>3. TypeOK'
      BY <2>1, <2>2 DEF Inv, TypeOK, InBatch, outcome
    <2>4. QED
      BY <2>1, <2>3, NothingMoves DEF Inv, Places, outcome
  <1>2. ASSUME NEW m \in Message, SendMessage(m) PROVE Held' /\ Change
    <2>1. m \notin ToSet(messageBuffer) /\ m \notin ToSet(batchBuffer) /\ m \notin InBatches
          /\ m \notin sent /\ m \notin lost
      BY <1>2 DEF SendMessage, Inv, Places, Taken, Waiting
    <2>2. /\ messageBuffer \in Seq(Message) /\ IsInjective(messageBuffer)
          /\ Len(messageBuffer) < BufferSize
      BY <1>2 DEF SendMessage, Inv, TypeOK, Places
    <2>3. /\ messageBuffer' = Append(messageBuffer, m)
          /\ UNCHANGED <<control, loops, batchBuffer, inline, made, remaining, pool, outcome>>
          /\ looking' \subseteq looking
      BY <1>2 DEF SendMessage
    <2>4. /\ messageBuffer' \in Seq(Message) /\ Len(messageBuffer') <= BufferSize
          /\ ToSet(messageBuffer') = ToSet(messageBuffer) \cup {m} /\ IsInjective(messageBuffer')
      BY <2>1, <2>2, <2>3, Appended, ProcessorAssumption
    <2>5. \A b \in Batch : InBatch(b)' = InBatch(b)
      BY <2>3 DEF InBatch
    <2>6. InBatches' = InBatches
      BY <2>5 DEF InBatches
    <2>7. TypeOK'
      BY <2>3, <2>4, <2>5 DEF Inv, TypeOK, lifecycle, control, outcome, pool, Pool!TypeOK
    <2>8. BatchesApart' /\ Fresh'
      BY <2>3, <2>5 DEF Inv, Places, BatchesApart, Fresh
    <2>9. Held'
      BY <2>1, <2>3, <2>4, <2>6, <2>7, <2>8 DEF Held, Inv, Places
    <2>10. Accepts(m)
      BY <1>2, <2>1, <2>3, <2>4, <2>6 DEF SendMessage, Accepts, Waiting, outcome
    <2>11. QED
      BY <2>3, <2>9, <2>10 DEF Change, control
  <1>3. ASSUME NEW l \in Loop, MonitorExit(l) PROVE Held' /\ Change
    <2>1. TypeOK'
      BY <1>3 DEF MonitorExit, Inv, TypeOK, InBatch, lifecycle, control, outcome, pool, Pool!TypeOK
    <2>2. QED
      BY <1>3, <2>1, NothingMoves DEF MonitorExit, Inv, Places, lifecycle, control, outcome
  <1>4. ASSUME NEW b \in Batch, PoolTake(b) \/ PoolComplete(b) PROVE Held' /\ Change
    <2>1. UNCHANGED <<lifecycle, loops, messageBuffer, batchBuffer, inline, made, remaining, outcome>>
      BY <1>4 DEF PoolTake, PoolComplete
    <2>2. Pool!TypeOK'
      BY <1>4 DEF PoolTake, PoolComplete, Inv, TypeOK, Pool!TypeOK, Pool!Take, Pool!Complete,
                  Pool!Move, Pool!Status
    <2>3. TypeOK'
      BY <2>1, <2>2 DEF Inv, TypeOK, InBatch, lifecycle, control, outcome
    <2>4. QED
      BY <2>1, <2>3, NothingMoves DEF Inv, Places, lifecycle, control, outcome
  <1>5. ASSUME NEW m \in Message, LookAtRunning(m) \/ RefuseMessage(m) PROVE Held' /\ Change
    <2>1. UNCHANGED <<control, loops, messageBuffer, batchBuffer, inline, made, remaining,
                      pool, outcome>>
      BY <1>5 DEF LookAtRunning, RefuseMessage
    <2>2. looking' \subseteq Message /\ looking' \cap Taken = {}
      BY <1>5 DEF LookAtRunning, RefuseMessage, Accepted, Inv, TypeOK, Places, Taken, Waiting
    <2>3. TypeOK'
      BY <2>1, <2>2 DEF Inv, TypeOK, InBatch, control, outcome, pool, Pool!TypeOK
    <2>4. QED
      BY <2>1, <2>2, <2>3, NothingMoves DEF control, outcome
  <1>6. QED
    BY <1>1, <1>2, <1>3, <1>4, <1>5, CollectorStep, SendStep DEF Next

LEMMA InvStep == Inv /\ [Next]_vars => Inv'
  BY Steps, ChangeKeeps

(* A message SendMessage accepted is in one place, is not sent twice, and  *)
(* is lost before Stop only with an unencodable one of its partition.      *)
THEOREM MessagesNeverVanish == Spec => []NothingVanishes
  <1>1. Inv => NothingVanishes
    BY PlacesArePairs DEF Inv, NothingVanishes
  <1>2. QED
    BY <1>1, InvInit, InvStep, PTL DEF Spec
-----------------------------------------------------------------------------
State == [m \in Message |-> MessageStatus(m)]

LEMMA StatusOfPlace ==
  ASSUME Places
  PROVE  \A m \in Message :
           /\ m \in sent => State[m] = "sent"
           /\ m \in lost => State[m] = "lost"
           /\ m \in Waiting => State[m] = "accepted"
           /\ m \notin Waiting \cup sent \cup lost => State[m] = "new"
  BY DEF Places, State, MessageStatus, Accepted, Waiting

LEMMA DeliveryInit == Init => Delivery!Init
  <1> SUFFICES ASSUME Init PROVE Delivery!Init
    OBVIOUS
  <1>1. Places
    BY InvInit DEF Inv
  <1>2. Waiting = {} /\ sent = {} /\ lost = {}
    <2>1. \A b \in Batch : InBatch(b) = {}
      BY DEF Init, InBatch, Range
    <2>2. QED
      BY <2>1 DEF Init, Waiting, InBatches, ToSet
  <1>3. State = [m \in Message |-> "new"]
    BY <1>1, <1>2, StatusOfPlace DEF State
  <1>4. QED
    BY <1>3 DEF Init, Delivery!Init, State

(* Each kind of change is a step of MessageDelivery.                       *)
LEMMA DeliveryStep == Inv /\ Inv' /\ Change => [Delivery!Next]_(Delivery!vars)
  <1> SUFFICES ASSUME Inv, Inv', Change PROVE [Delivery!Next]_(Delivery!vars)
    OBVIOUS
  <1>0. \A m \in Message :
          /\ m \in sent => State[m] = "sent"
          /\ m \in lost => State[m] = "lost"
          /\ m \in Waiting => State[m] = "accepted"
          /\ m \notin Waiting \cup sent \cup lost => State[m] = "new"
    BY StatusOfPlace DEF Inv
  <1>p. \A m \in Message :
          /\ m \in sent' => State'[m] = "sent"
          /\ m \in lost' => State'[m] = "lost"
          /\ m \in Waiting' => State'[m] = "accepted"
          /\ m \notin Waiting' \cup sent' \cup lost' => State'[m] = "new"
    <2>1. (\A m \in Message :
            /\ m \in sent => State[m] = "sent"
            /\ m \in lost => State[m] = "lost"
            /\ m \in Waiting => State[m] = "accepted"
            /\ m \notin Waiting \cup sent \cup lost => State[m] = "new")'
      BY StatusOfPlace, PTL DEF Inv
    <2>2. QED
      BY <2>1
  <1>d. /\ State = [m \in Message |-> State[m]] /\ State' = [m \in Message |-> State'[m]]
        /\ Waiting \cap sent = {} /\ Waiting \cap lost = {} /\ sent \cap lost = {}
    BY DEF State, Inv, Places
  <1>1. CASE Stays /\ (ctxDone' = ctxDone \/ ctxDone' = TRUE)
    <2>1. \A m \in Message : State'[m] = State[m]
      BY <1>0, <1>p, <1>1 DEF Stays
    <2>2. State' = State
      BY <1>d, <2>1
    <2>3. QED
      BY <1>1, <2>2 DEF State, Delivery!Next, Delivery!Close, Delivery!vars
  <1>2. ASSUME NEW m \in Message, Accepts(m), ctxDone' = ctxDone PROVE Delivery!Next
    <2>1. State[m] = "new" /\ State'[m] = "accepted"
      BY <1>0, <1>p, <1>2 DEF Accepts
    <2>2. \A n \in Message \ {m} : State'[n] = State[n]
      BY <1>0, <1>p, <1>2 DEF Accepts
    <2>3. State' = [State EXCEPT ![m] = "accepted"]
      BY <1>d, <2>1, <2>2
    <2>4. Delivery!Accept(m)
      BY <1>2, <2>1, <2>3 DEF Delivery!Accept, Delivery!Move, State
    <2>5. QED
      BY <2>4 DEF Delivery!Next
  <1>3. ASSUME NEW m \in Message, Delivers(m), ctxDone' = ctxDone PROVE Delivery!Next
    <2>1. State[m] = "accepted" /\ State'[m] = "sent"
      BY <1>0, <1>p, <1>3 DEF Delivers
    <2>2. \A n \in Message \ {m} : State'[n] = State[n]
      BY <1>0, <1>p, <1>3 DEF Delivers
    <2>3. State' = [State EXCEPT ![m] = "sent"]
      BY <1>d, <2>1, <2>2
    <2>4. Delivery!Deliver(m)
      BY <1>3, <2>1, <2>3 DEF Delivery!Deliver, Delivery!Move, State, Delivers
    <2>5. QED
      BY <2>4 DEF Delivery!Next
  <1>4. ASSUME NEW L \in SUBSET Message, Loses(L), ctxDone' = ctxDone PROVE Delivery!Next
    <2>1. \A m \in L : State[m] = "accepted" /\ State'[m] = "lost"
      BY <1>0, <1>p, <1>4 DEF Loses
    <2>2. \A n \in Message \ L : State'[n] = State[n]
      BY <1>0, <1>p, <1>4 DEF Loses
    <2>3. State' = [m \in Message |-> IF m \in L THEN "lost" ELSE State[m]]
      BY <1>d, <2>1, <2>2
    <2>4. Delivery!Lose(L)
      BY <1>4, <2>1, <2>3 DEF Delivery!Lose, State, Loses
    <2>5. QED
      BY <2>4 DEF Delivery!Next
  <1>5. QED
    BY <1>1, <1>2, <1>3, <1>4 DEF Change

(* The batch processor keeps the promise of MessageDelivery: a message is  *)
(* delivered at most once, and lost only with an excuse.                   *)
THEOREM ProcessorImplementsDelivery == Spec => ImplementsDelivery
  <1>1. Inv /\ [Next]_vars => [Delivery!Next]_(Delivery!vars)
    BY InvStep, Steps, DeliveryStep
  <1>2. QED
    BY <1>1, InvInit, InvStep, DeliveryInit, PTL DEF Spec, ImplementsDelivery, Delivery!Spec
=============================================================================
