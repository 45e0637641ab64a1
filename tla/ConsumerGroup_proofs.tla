------------------------ MODULE ConsumerGroup_proofs ------------------------
(***************************************************************************)
(* Theorems about ConsumerGroup, for every set of partitions, every logs,  *)
(* every number of retries, rebalances and crashes.                        *)
(***************************************************************************)
EXTENDS ConsumerGroup, TLAPS

Busy == {"processing", "backoff", "handling"}

\* A claim lives inside a session, its message in hand exists, and everything
\* before its position has been handled: the order committed <= marked <= pos
\* then keeps every commit behind handled messages.
Handled == \A p \in Partitions : \A o \in 1 .. pos[p] : fate[p][o] # {}
ClaimsInSession ==
  \A p \in Partitions : /\ claim[p] # "exited" => session # "none"
                        /\ claim[p] \in Busy => InHand(p) <= Len(log[p])

IInv == TypeOK /\ OffsetsOrdered /\ Handled /\ ClaimsInSession /\ NoneSkipped

LEMMA LogType == TypeOK => \A p \in Partitions : log[p] \in Seq(Kinds) /\ Len(log[p]) \in Nat
  BY ConsumerAssumption DEF TypeOK

LEMMA InvInit == Init => IInv
  <1> SUFFICES ASSUME Init PROVE IInv
    OBVIOUS
  <1> USE ConsumerAssumption
  <1>1. \A p \in Partitions : log[p] \in Seq(Kinds) /\ Len(log[p]) \in Nat
    BY DEF Init
  <1>2. fate \in [Partitions -> Seq(SUBSET Fates)]
    <2>1. \A p \in Partitions : [o \in Offsets(p) |-> {}] \in Seq(SUBSET Fates)
      BY <1>1 DEF Offsets
    <2>2. QED
      BY <2>1 DEF Init
  <1>3. \A p \in Partitions : Len(fate[p]) = Len(log[p])
    BY <1>1 DEF Init, Offsets
  <1>4. TypeOK
    <2>1. /\ committed \in [Partitions -> Nat] /\ marked \in [Partitions -> Nat]
          /\ pos \in [Partitions -> Nat] /\ attempt \in [Partitions -> 0 .. MaxRetries]
      BY DEF Init
    <2>2. \A q \in Partitions : committed[q] <= Len(log[q]) /\ marked[q] <= Len(log[q])
                                 /\ pos[q] <= Len(log[q])
      BY <1>1 DEF Init
    <2>3. /\ claim \in [Partitions -> {"exited", "select", "processing", "backoff", "handling"}]
          /\ disruptions \in 0 .. MaxDisruptions
      BY DEF Init
    <2>4. QED
      BY <1>2, <1>3, <2>1, <2>2, <2>3 DEF Init, TypeOK
  <1>5. QED
    BY <1>4 DEF Init, IInv, OffsetsOrdered, Handled, ClaimsInSession, NoneSkipped, Busy

\* The handler finishes the message in hand.
LEMMA FinishKeeps ==
  ASSUME IInv, NEW p \in Partitions, claim[p] # "exited", InHand(p) <= Len(log[p]),
         NEW how \in Fates, NEW mark \in BOOLEAN, Finish(p, how, mark)
  PROVE  /\ IInv'
         /\ committed' = committed
         /\ \A q \in Partitions : \A o \in Offsets(q) :
              fate'[q][o] # fate[q][o] => o > committed[q]
         /\ \A q \in Partitions : \A o \in Offsets(q) :
              fate'[q][o] # {} <=> (fate[q][o] # {} \/ (q = p /\ o = InHand(p)))
  <1> USE DEF InHand
  <1>1. /\ log' = log /\ committed' = committed /\ session' = session /\ session # "none"
        /\ UNCHANGED <<control, disruptions>>
    BY DEF Finish, IInv, ClaimsInSession
  <1>2. /\ TypeOK
        /\ \A q \in Partitions : Len(log[q]) \in Nat
        /\ pos[p] \in Nat /\ fate[p] \in Seq(SUBSET Fates) /\ Len(fate[p]) = Len(log[p])
    BY LogType DEF IInv, TypeOK
  <1>3. \A q \in Partitions : pos'[q] = IF q = p THEN pos[p] + 1 ELSE pos[q]
    BY <1>2 DEF Finish, TypeOK
  <1>4. \A q \in Partitions : marked'[q] \in {marked[q], pos'[q]} /\ marked[q] <= pos'[q]
    BY <1>1, <1>2, <1>3 DEF Finish, TypeOK, IInv, OffsetsOrdered
  <1>5. fate[p][pos[p] + 1] \in SUBSET Fates
    BY <1>2
  <1>6. /\ fate' = [fate EXCEPT ![p] = [fate[p] EXCEPT ![pos[p] + 1] = fate[p][pos[p] + 1] \cup {how}]]
        /\ fate' \in [Partitions -> Seq(SUBSET Fates)]
        /\ \A q \in Partitions : Len(fate'[q]) = Len(log[q])
    <2>1. fate' = [fate EXCEPT ![p] = [fate[p] EXCEPT ![pos[p] + 1] = fate[p][pos[p] + 1] \cup {how}]]
      BY DEF Finish
    <2> DEFINE new == [fate[p] EXCEPT ![pos[p] + 1] = fate[p][pos[p] + 1] \cup {how}]
    <2>2. new \in Seq(SUBSET Fates) /\ Len(new) = Len(fate[p])
      BY <1>2, <1>5
    <2>3. QED
      BY <1>2, <2>1, <2>2 DEF TypeOK
  <1>7. \A q \in Partitions : \A o \in 1 .. Len(log[q]) :
          fate'[q][o] = IF q = p /\ o = pos[p] + 1 THEN fate[q][o] \cup {how} ELSE fate[q][o]
    <2>1. SUFFICES ASSUME NEW q \in Partitions, NEW o \in 1 .. Len(log[q])
                   PROVE  fate'[q][o] = IF q = p /\ o = pos[p] + 1 THEN fate[q][o] \cup {how}
                                                                  ELSE fate[q][o]
      OBVIOUS
    <2>2. CASE q # p
      BY <1>2, <1>6, <2>2 DEF TypeOK
    <2>3. CASE q = p
      <3>1. fate'[p] = [fate[p] EXCEPT ![pos[p] + 1] = fate[p][pos[p] + 1] \cup {how}]
        BY <1>2, <1>6 DEF TypeOK
      <3>2. DOMAIN fate[p] = 1 .. Len(log[p])
        BY <1>2
      <3>3. QED
        BY <2>3, <3>1, <3>2
    <2>4. QED
      BY <2>2, <2>3
  <1>8. TypeOK'
    <2>1. /\ pos' \in [Partitions -> Nat] /\ marked' \in [Partitions -> Nat]
          /\ \A q \in Partitions : pos'[q] <= Len(log[q]) /\ marked'[q] <= Len(log[q])
      <3>1. pos' \in [Partitions -> Nat] /\ \A q \in Partitions : pos'[q] <= Len(log[q])
        BY <1>2, <1>3 DEF Finish, TypeOK
      <3>2. marked' \in [Partitions -> Nat]
        BY <1>2 DEF Finish, TypeOK
      <3>3. QED
        BY <1>2, <1>4, <3>1, <3>2 DEF TypeOK
    <2>2. /\ claim' \in [Partitions -> {"exited", "select"} \cup Busy]
          /\ attempt' \in [Partitions -> 0 .. MaxRetries]
      BY <1>2, ConsumerAssumption DEF Finish, TypeOK, Busy
    <2>3. QED
      BY <1>1, <1>2, <1>6, <2>1, <2>2 DEF TypeOK, control, Busy
  <1>9. OffsetsOrdered'
    <2>1. SUFFICES ASSUME NEW q \in Partitions
                   PROVE  committed[q] <= marked'[q] /\ marked'[q] <= pos'[q]
      BY <1>1 DEF OffsetsOrdered
    <2>2. committed[q] <= marked[q] /\ marked[q] <= pos[q]
      BY <1>1 DEF IInv, OffsetsOrdered
    <2>3. /\ committed[q] \in Nat /\ marked[q] \in Nat /\ pos[q] \in Nat
          /\ pos'[q] \in Nat /\ marked'[q] \in Nat
      BY <1>2, <1>8 DEF TypeOK
    <2>4. QED
      BY <1>4, <2>2, <2>3
  <1>10. Handled'
    <2>1. SUFFICES ASSUME NEW q \in Partitions, NEW o \in 1 .. pos'[q] PROVE fate'[q][o] # {}
      BY DEF Handled
    <2>2. o \in 1 .. Len(log[q])
      BY <1>1, <1>2, <1>8, SMTT(20) DEF TypeOK
    <2>3. CASE q = p /\ o = pos[p] + 1
      BY <1>7, <2>2, <2>3
    <2>4. CASE ~(q = p /\ o = pos[p] + 1)
      <3>1. o \in 1 .. pos[q]
        BY <1>2, <1>3, <2>4 DEF TypeOK
      <3>2. fate[q][o] # {}
        BY <3>1 DEF IInv, Handled
      <3>3. QED
        BY <1>7, <2>2, <2>4, <3>2
    <2>5. QED
      BY <2>3, <2>4
  <1>11. ClaimsInSession'
    BY <1>1, <1>2, <1>3 DEF Finish, IInv, ClaimsInSession, TypeOK, Busy
  <1>12. NoneSkipped'
    <2>1. SUFFICES ASSUME NEW q \in Partitions, NEW o \in 1 .. committed[q] PROVE fate'[q][o] # {}
      BY <1>1 DEF NoneSkipped
    <2>2. o \in 1 .. Len(log[q])
      BY <1>2 DEF TypeOK
    <2>3. fate[q][o] # {}
      BY DEF IInv, NoneSkipped
    <2>4. QED
      BY <1>7, <2>2, <2>3
  <1>13. ASSUME NEW q \in Partitions, NEW o \in Offsets(q), fate'[q][o] # fate[q][o]
         PROVE  o > committed[q]
    <2>1. q = p /\ o = pos[p] + 1
      BY <1>7, <1>13 DEF Offsets
    <2>2. committed[p] <= marked[p] /\ marked[p] <= pos[p]
      BY <1>1 DEF IInv, OffsetsOrdered
    <2>3. QED
      BY <1>2, <2>1, <2>2 DEF TypeOK
  <1>14. QED
    BY <1>1, <1>7, <1>8, <1>9, <1>10, <1>11, <1>12, <1>13 DEF IInv, Offsets

\* The claim moves on without finishing a message.
LEMMA GotoKeeps ==
  ASSUME IInv, NEW p \in Partitions, NEW n \in 0 .. MaxRetries,
         NEW pc \in {"exited", "select"} \cup Busy, claim[p] # "exited",
         pc \in Busy => InHand(p) <= Len(log[p]), Goto(p, pc, n)
  PROVE  IInv' /\ committed' = committed /\ fate' = fate
  <1>1. /\ log' = log /\ committed' = committed /\ session' = session /\ session # "none"
        /\ pos' = pos /\ marked' = marked /\ fate' = fate
        /\ UNCHANGED <<control, disruptions>>
    BY DEF Goto, IInv, ClaimsInSession
  <1>2. claim' \in [Partitions -> {"exited", "select"} \cup Busy] /\ attempt' \in [Partitions -> 0 .. MaxRetries]
    BY DEF Goto, IInv, TypeOK, Busy
  <1>3. TypeOK'
    BY <1>1, <1>2 DEF IInv, TypeOK, control, Busy
  <1>4. ClaimsInSession'
    BY <1>1 DEF Goto, IInv, TypeOK, ClaimsInSession, InHand, Busy
  <1>5. OffsetsOrdered' /\ Handled' /\ NoneSkipped'
    BY <1>1 DEF IInv, OffsetsOrdered, Handled, NoneSkipped
  <1>6. QED
    BY <1>1, <1>3, <1>4, <1>5 DEF IInv

\* The steps that leave every claim where it is.
LEMMA QuietKeeps ==
  ASSUME IInv, UNCHANGED <<log, committed, claims>>,
         session' = session \/ (session' = "cancelled" /\ session = "open"),
         isRunning' \in BOOLEAN, cancelled' \in BOOLEAN, stopping' \in BOOLEAN,
         loop' \in {"none", "check", "consuming", "sleep"}, errorLoop' \in BOOLEAN,
         disruptions' \in 0 .. MaxDisruptions
  PROVE  IInv'
  <1>1. TypeOK'
    BY DEF IInv, TypeOK, claims
  <1>2. OffsetsOrdered' /\ Handled' /\ ClaimsInSession' /\ NoneSkipped'
    BY DEF IInv, claims, OffsetsOrdered, Handled, ClaimsInSession, NoneSkipped, InHand
  <1>3. QED
    BY <1>1, <1>2 DEF IInv

\* What one step keeps; the two action properties come from the same split.
Keeps == /\ IInv'
         /\ \A p \in Partitions : committed'[p] >= committed[p]
         /\ \A p \in Partitions : \A o \in Offsets(p) :
              fate'[p][o] # fate[p][o] => o > committed[p]

QuietSteps == \/ Start \/ Stop \/ StopCompletes \/ HandleErrorsEnds \/ ConsumeEnds
              \/ JoinFails \/ SleepEnds \/ Rebalance \/ UNCHANGED vars

LEMMA QuietFrame ==
  ASSUME QuietSteps
  PROVE  /\ UNCHANGED <<log, committed, claims>>
         /\ session' = session \/ (session' = "cancelled" /\ session = "open")
  <1> USE DEF claims
  <1>1. CASE Rebalance
    BY <1>1 DEF Rebalance
  <1>2. CASE UNCHANGED vars
    BY <1>2 DEF vars
  <1>3. CASE Start
    BY <1>3 DEF Start
  <1>4. CASE Stop
    BY <1>4 DEF Stop
  <1>5. CASE StopCompletes
    BY <1>5 DEF StopCompletes
  <1>6. CASE HandleErrorsEnds
    BY <1>6 DEF HandleErrorsEnds
  <1>7. CASE ConsumeEnds
    BY <1>7 DEF ConsumeEnds
  <1>8. CASE JoinFails
    BY <1>8 DEF JoinFails
  <1>9. CASE SleepEnds
    BY <1>9 DEF SleepEnds
  <1>10. QED
    BY <1>1, <1>2, <1>3, <1>4, <1>5, <1>6, <1>7, <1>8, <1>9 DEF QuietSteps

LEMMA QuietStep == ASSUME IInv, QuietSteps PROVE Keeps
  <1> USE DEF IInv, QuietSteps
  <1>1. /\ UNCHANGED <<log, committed, claims>>
        /\ session' = session \/ (session' = "cancelled" /\ session = "open")
    BY QuietFrame
  <1>2. /\ isRunning' \in BOOLEAN /\ cancelled' \in BOOLEAN /\ stopping' \in BOOLEAN
        /\ loop' \in {"none", "check", "consuming", "sleep"} /\ errorLoop' \in BOOLEAN
    BY DEF Start, Stop, StopCompletes, HandleErrorsEnds, ConsumeEnds, JoinFails, SleepEnds,
           Rebalance, vars, control, TypeOK
  <1>3. disruptions' \in 0 .. MaxDisruptions
    BY ConsumerAssumption DEF Start, Stop, StopCompletes, HandleErrorsEnds, ConsumeEnds,
           JoinFails, SleepEnds, Rebalance, vars, TypeOK
  <1>4. IInv'
    BY <1>1, <1>2, <1>3, QuietKeeps
  <1>5. QED
    BY <1>1, <1>4 DEF Keeps, claims, TypeOK

LEMMA JoinStep == ASSUME IInv, Join PROVE Keeps
  <1>1. /\ UNCHANGED <<log, committed, isRunning, cancelled, stopping, errorLoop, fate, disruptions>>
        /\ session' = "open" /\ pos' = committed /\ marked' = committed /\ loop' = "consuming"
        /\ claim' = [p \in Partitions |-> "select"] /\ attempt' = [p \in Partitions |-> 0]
    BY DEF Join
  <1>2. TypeOK'
    BY <1>1, ConsumerAssumption DEF IInv, TypeOK
  <1>3. \A p \in Partitions : committed[p] \in Nat
    BY DEF IInv, TypeOK
  <1>4. OffsetsOrdered' /\ Handled' /\ ClaimsInSession' /\ NoneSkipped'
    BY <1>1, <1>3 DEF IInv, OffsetsOrdered, Handled, ClaimsInSession, NoneSkipped, Busy
  <1>5. QED
    BY <1>1, <1>2, <1>3, <1>4 DEF IInv, Keeps

LEMMA CommitStep ==
  ASSUME IInv, session # "none", UNCHANGED <<log, claims, isRunning, cancelled, stopping, errorLoop, disruptions>>,
         committed' \in [Partitions -> Nat],
         \A p \in Partitions : committed'[p] \in {committed[p], marked[p]},
         \/ UNCHANGED <<session, loop>>
         \/ /\ session' = "none" /\ loop' = "check"
            /\ \A p \in Partitions : claim[p] = "exited"
  PROVE  Keeps
  <1>1. \A p \in Partitions : /\ committed[p] \in Nat /\ marked[p] \in Nat /\ pos[p] \in Nat
                              /\ committed[p] <= marked[p] /\ marked[p] <= pos[p]
                              /\ marked[p] <= Len(log[p]) /\ committed[p] <= Len(log[p])
    BY DEF IInv, TypeOK, OffsetsOrdered
  <1>2. /\ log' = log /\ claim' = claim /\ pos' = pos /\ marked' = marked /\ fate' = fate /\ attempt' = attempt
        /\ isRunning' = isRunning /\ cancelled' = cancelled /\ stopping' = stopping
        /\ errorLoop' = errorLoop /\ disruptions' = disruptions
    BY DEF claims
  <1>3. TypeOK'
    <2>1. \A p \in Partitions : committed'[p] <= Len(log[p])
      BY <1>1
    <2>2. session' \in {"none", "open", "cancelled"} /\ loop' \in {"none", "check", "consuming", "sleep"}
      BY DEF IInv, TypeOK
    <2>3. QED
      BY <1>2, <2>1, <2>2 DEF IInv, TypeOK
  <1>4. OffsetsOrdered' /\ \A p \in Partitions : committed'[p] >= committed[p]
    BY <1>1, <1>2 DEF OffsetsOrdered
  <1>5. Handled' /\ ClaimsInSession'
    BY <1>2 DEF IInv, Handled, ClaimsInSession, InHand, Busy
  <1>6. NoneSkipped'
    BY <1>1, <1>2 DEF IInv, NoneSkipped, Handled
  <1>7. QED
    BY <1>2, <1>3, <1>4, <1>5, <1>6 DEF IInv, Keeps

LEMMA CrashStep == ASSUME IInv, Crash PROVE Keeps
  <1>1. /\ UNCHANGED <<log, committed, pos, marked, attempt, fate>>
        /\ session' = "none" /\ claim' = [p \in Partitions |-> "exited"]
        /\ loop' = "none" /\ isRunning' = FALSE /\ cancelled' = FALSE /\ stopping' = FALSE /\ errorLoop' = FALSE
        /\ disruptions' = disruptions + 1 /\ disruptions < MaxDisruptions
    BY DEF Crash
  <1>2. TypeOK'
    <2>1. disruptions' \in 0 .. MaxDisruptions
      BY <1>1, ConsumerAssumption DEF IInv, TypeOK
    <2>2. claim' \in [Partitions -> {"exited", "select", "processing", "backoff", "handling"}]
      BY <1>1
    <2>3. QED
      BY <1>1, <2>1, <2>2 DEF IInv, TypeOK
  <1>3. OffsetsOrdered' /\ Handled' /\ ClaimsInSession' /\ NoneSkipped'
    BY <1>1 DEF IInv, OffsetsOrdered, Handled, ClaimsInSession, NoneSkipped, Busy
  <1>4. QED
    BY <1>1, <1>2, <1>3 DEF IInv, Keeps, TypeOK

LEMMA FinishStep ==
  ASSUME IInv, NEW p \in Partitions, claim[p] # "exited", InHand(p) <= Len(log[p]),
         NEW how \in Fates, NEW mark \in BOOLEAN, Finish(p, how, mark)
  PROVE  Keeps
  <1>1. IInv' /\ committed' = committed
    BY FinishKeeps
  <1>2. \A q \in Partitions : \A o \in Offsets(q) : fate'[q][o] # fate[q][o] => o > committed[q]
    BY FinishKeeps
  <1>3. \A q \in Partitions : committed[q] \in Nat
    BY DEF IInv, TypeOK
  <1>4. \A q \in Partitions : committed'[q] >= committed[q]
    BY <1>1, <1>3
  <1>5. QED
    BY <1>1, <1>2, <1>4 DEF Keeps

LEMMA GotoStep ==
  ASSUME IInv, NEW p \in Partitions, NEW n \in 0 .. MaxRetries,
         NEW pc \in {"exited", "select"} \cup Busy, claim[p] # "exited",
         pc \in Busy => InHand(p) <= Len(log[p]), Goto(p, pc, n)
  PROVE  Keeps
  <1>1. IInv' /\ committed' = committed /\ fate' = fate
    BY GotoKeeps
  <1>2. QED
    <2>1. \A q \in Partitions : committed[q] \in Nat
      BY DEF IInv, TypeOK
    <2>2. QED
      BY <1>1, <2>1 DEF Keeps

\* A step of ConsumeClaim finishes the message in hand or moves on in handling it.
Finishes(p) ==
  /\ claim[p] # "exited" /\ InHand(p) <= Len(log[p])
  /\ \E how \in Fates, mark \in BOOLEAN : Finish(p, how, mark)
Moves(p) ==
  /\ claim[p] # "exited"
  /\ \E n \in 0 .. MaxRetries, pc \in {"exited", "select"} \cup Busy :
       /\ pc \in Busy => InHand(p) <= Len(log[p])
       /\ Goto(p, pc, n)

LEMMA HandleErrorForm ==
  ASSUME NEW p \in Partitions, claim[p] # "exited", InHand(p) <= Len(log[p]),
         NEW how \in Fates, HandleError(p, how)
  PROVE  Finishes(p) \/ Moves(p)
  <1>1. CASE \E h \in Fates : Finish(p, h, TRUE)
    BY <1>1 DEF Finishes
  <1>2. CASE Goto(p, "handling", 0)
    <2>1. 0 \in 0 .. MaxRetries /\ "handling" \in Busy
      BY ConsumerAssumption DEF Busy
    <2>2. QED
      BY <1>2, <2>1 DEF Moves
  <1>3. QED
    BY <1>1, <1>2 DEF HandleError, HandleRetryable, Fates

LEMMA ClaimForm == ASSUME IInv, NEW p \in Partitions, ClaimStep(p) PROVE Finishes(p) \/ Moves(p)
  <1>0. 0 \in 0 .. MaxRetries
    BY ConsumerAssumption
  <1>1. CASE Take(p)
    <2>1. claim[p] = "select" /\ InHand(p) <= Len(log[p])
      BY <1>1, LogType DEF Take, IInv, Offsets
    <2>2. CASE Goto(p, "processing", 0)
      BY <1>0, <2>1, <2>2 DEF Moves, Busy
    <2>3. CASE HandleError(p, "rejected")
      BY <2>1, <2>3, HandleErrorForm DEF Fates
    <2>4. QED
      BY <1>1, <2>2, <2>3 DEF Take
  <1>2. CASE Process(p)
    <2>1. /\ claim[p] = "processing" /\ InHand(p) <= Len(log[p]) /\ attempt[p] \in 0 .. MaxRetries
      BY <1>2 DEF Process, IInv, ClaimsInSession, TypeOK, Busy
    <2>2. CASE Finish(p, "done", TRUE)
      BY <2>1, <2>2 DEF Finishes, Fates
    <2>3. CASE attempt[p] < MaxRetries /\ Goto(p, "backoff", attempt[p] + 1)
      <3>1. attempt[p] + 1 \in 0 .. MaxRetries
        BY <2>1, <2>3, ConsumerAssumption
      <3>2. QED
        BY <2>1, <2>3, <3>1 DEF Moves, Busy
    <2>4. CASE HandleError(p, "exhausted")
      BY <2>1, <2>4, HandleErrorForm DEF Fates
    <2>5. QED
      BY <1>2, <2>2, <2>3, <2>4 DEF Process
  <1>3. CASE Backoff(p)
    <2>1. /\ claim[p] = "backoff" /\ InHand(p) <= Len(log[p]) /\ attempt[p] \in 0 .. MaxRetries
      BY <1>3 DEF Backoff, IInv, ClaimsInSession, TypeOK, Busy
    <2>2. CASE Goto(p, "processing", attempt[p])
      BY <2>1, <2>2 DEF Moves, Busy
    <2>3. CASE HandleRetryable(p)
      BY <2>1, <2>3, HandleErrorForm DEF HandleError, Fates
    <2>4. QED
      BY <1>3, <2>2, <2>3 DEF Backoff
  <1>4. CASE HandlingEnds(p)
    <2>1. claim[p] = "handling" /\ InHand(p) <= Len(log[p])
      BY <1>4 DEF HandlingEnds, IInv, ClaimsInSession, Busy
    <2>2. QED
      BY <1>4, <2>1 DEF HandlingEnds, Finishes, Fates
  <1>5. CASE ClaimExits(p)
    BY <1>0, <1>5 DEF ClaimExits, Moves, Busy
  <1>6. QED
    BY <1>1, <1>2, <1>3, <1>4, <1>5 DEF ClaimStep

LEMMA ClaimSteps == ASSUME IInv, NEW p \in Partitions, ClaimStep(p) PROVE Keeps
  <1>1. CASE Finishes(p)
    BY <1>1, FinishStep DEF Finishes
  <1>2. CASE Moves(p)
    BY <1>2, GotoStep DEF Moves
  <1>3. QED
    BY <1>1, <1>2, ClaimForm

LEMMA InvStep == ASSUME IInv, [Next]_vars PROVE Keeps
  <1>1. CASE Start \/ Stop \/ JoinFails \/ Rebalance \/ UNCHANGED vars
    BY <1>1, QuietStep DEF QuietSteps
  <1>2. CASE Crash
    BY <1>2, CrashStep
  <1>3. CASE ConsumerStep
    <2>1. CASE Join
      BY <2>1, JoinStep
    <2>2. CASE SessionEnds
      <3>1. /\ committed' \in [Partitions -> Nat]
            /\ \A p \in Partitions : committed'[p] \in {committed[p], marked[p]}
        BY <2>2 DEF SessionEnds, IInv, TypeOK
      <3>2. QED
        BY <2>2, <3>1, CommitStep DEF SessionEnds
    <2>3. QED
      BY <1>3, <2>1, <2>2, QuietStep DEF ConsumerStep, QuietSteps
  <1>4. ASSUME NEW p \in Partitions, ClaimStep(p) PROVE Keeps
    BY <1>4, ClaimSteps
  <1>5. ASSUME NEW p \in Partitions, AutoCommit(p) PROVE Keeps
    <2>1. /\ committed' \in [Partitions -> Nat]
          /\ \A q \in Partitions : committed'[q] \in {committed[q], marked[q]}
      BY <1>5 DEF AutoCommit, IInv, TypeOK
    <2>2. QED
      BY <1>5, <2>1, CommitStep DEF AutoCommit, control
  <1>6. QED
    BY <1>1, <1>2, <1>3, <1>4, <1>5 DEF Next

-----------------------------------------------------------------------------
\* The variables keep their types; every offset stays within its log.
THEOREM TypeCorrect == Spec => []TypeOK
  <1>1. IInv /\ [Next]_vars => IInv'
    BY InvStep DEF Keeps
  <1>2. QED
    BY InvInit, <1>1, PTL DEF Spec, IInv

\* No commit of the group passes a message that no handler has finished with
\* (MarkMessage after processMessage or HandleError, ConsumeClaim).
THEOREM NothingSkipped == Spec => []NoneSkipped
  <1>1. IInv /\ [Next]_vars => IInv'
    BY InvStep DEF Keeps
  <1>2. QED
    BY InvInit, <1>1, PTL DEF Spec, IInv

\* The broker's offset never goes back: not by a timer, a session's last flush,
\* a rebalance or a restart.
THEOREM CommitsNeverRewind == Spec => CommitsAdvance
  <1>1. IInv /\ [Next]_vars => IInv'
    BY InvStep DEF Keeps
  <1>2. IInv /\ [Next]_vars => [\A p \in Partitions : committed'[p] >= committed[p]]_vars
    BY InvStep DEF Keeps
  <1>3. QED
    BY InvInit, <1>1, <1>2, PTL DEF Spec, CommitsAdvance

\* A message the group has committed past is never handled again, however many
\* sessions follow: handling twice needs a lost commit.
THEOREM NeverRehandled == Spec => CommittedNotRehandled
  <1>1. IInv /\ [Next]_vars => IInv'
    BY InvStep DEF Keeps
  <1>2. IInv /\ [Next]_vars => [\A p \in Partitions : \A o \in Offsets(p) :
                                  fate'[p][o] # fate[p][o] => o > committed[p]]_vars
    BY InvStep DEF Keeps
  <1>3. QED
    BY InvInit, <1>1, <1>2, PTL DEF Spec, CommittedNotRehandled
-----------------------------------------------------------------------------
(* The refinement: what ConsumerGroup says of each partition is AtLeastOnce. *)

Length == [p \in Partitions |-> Len(log[p])]
Position == IF session = "none" THEN committed ELSE pos
HandledOnce == [p \in Partitions |-> {o \in Offsets(p) : fate[p][o] # {}}]

\* A session lives inside consume's loop, so nothing joins while one is open.
SessionInLoop == /\ session # "none" => loop = "consuming"
                 /\ ~isRunning => loop = "none"

LEMMA SessionInLoopStep == SessionInLoop /\ [Next]_vars => SessionInLoop'
  <1> SUFFICES ASSUME SessionInLoop, [Next]_vars PROVE SessionInLoop'
    OBVIOUS
  <1> USE DEF SessionInLoop
  <1>1. CASE \E p \in Partitions : ClaimStep(p) \/ AutoCommit(p)
    <2>1. UNCHANGED <<session, loop, isRunning>>
      BY <1>1 DEF ClaimStep, Take, Process, Backoff, HandlingEnds, ClaimExits, HandleError,
                  HandleRetryable, Finish, Goto, AutoCommit, control
    <2>2. QED
      BY <2>1
  <1>2. CASE Start \/ Stop \/ JoinFails \/ Rebalance \/ Crash
    BY <1>2 DEF Start, Stop, JoinFails, Rebalance, Crash, control
  <1>3. CASE ConsumerStep
    BY <1>3 DEF ConsumerStep, HandleErrorsEnds, ConsumeEnds, Join, SleepEnds, SessionEnds,
                StopCompletes, WaitGroupDone
  <1>4. CASE UNCHANGED vars
    BY <1>4 DEF vars, control
  <1>5. QED
    BY <1>1, <1>2, <1>3, <1>4 DEF Next

LEMMA ConsumerInit == Init => Consumer!Init
  <1> SUFFICES ASSUME Init PROVE Consumer!Init
    OBVIOUS
  <1>1. IInv
    BY InvInit
  <1>2. \A p \in Partitions : Len(log[p]) \in Nat
    BY <1>1, LogType DEF IInv
  <1>3. \A p \in Partitions : {o \in Offsets(p) : fate[p][o] # {}} = {}
    BY DEF Init
  <1>4. QED
    BY <1>2, <1>3 DEF Init, Consumer!Init

LEMMA ConsumerStutters ==
  ASSUME UNCHANGED <<log, committed, fate>>, Position' = Position
  PROVE  UNCHANGED Consumer!vars
  <1>1. UNCHANGED <<Length, HandledOnce>>
    BY DEF Length, HandledOnce, Offsets
  <1>2. QED
    BY <1>1 DEF Consumer!vars, Length, HandledOnce, Position

LEMMA FinishHandles ==
  ASSUME IInv, NEW p \in Partitions, Finishes(p)
  PROVE  Consumer!Handle(p)
  <1>1. PICK how \in Fates, mark \in BOOLEAN : Finish(p, how, mark)
    BY DEF Finishes
  <1>2. /\ claim[p] # "exited" /\ InHand(p) <= Len(log[p])
        /\ UNCHANGED <<log, committed, session>>
        /\ pos' = [pos EXCEPT ![p] = InHand(p)]
    BY <1>1 DEF Finishes, Finish
  <1>3. session # "none" /\ pos \in [Partitions -> Nat] /\ Len(log[p]) \in Nat
    BY <1>2, LogType DEF IInv, ClaimsInSession, TypeOK
  <1>4. Position = pos /\ Position' = [pos EXCEPT ![p] = pos[p] + 1]
    BY <1>2, <1>3 DEF Position, InHand
  <1>5. \A q \in Partitions : \A o \in Offsets(q) :
          fate'[q][o] # {} <=> (fate[q][o] # {} \/ (q = p /\ o = InHand(p)))
    BY <1>1, <1>2, FinishKeeps
  <1>6. pos[p] + 1 \in Offsets(p)
    BY <1>2, <1>3 DEF Offsets, InHand
  <1>7. HandledOnce' = [HandledOnce EXCEPT ![p] = HandledOnce[p] \cup {pos[p] + 1}]
    <2>1. ASSUME NEW q \in Partitions
          PROVE  {o \in Offsets(q) : fate'[q][o] # {}}
                   = IF q = p THEN {o \in Offsets(q) : fate[q][o] # {}} \cup {pos[p] + 1}
                              ELSE {o \in Offsets(q) : fate[q][o] # {}}
      BY <1>5, <1>6 DEF InHand
    <2>2. Offsets(p)' = Offsets(p) /\ \A q \in Partitions : Offsets(q)' = Offsets(q)
      BY <1>2 DEF Offsets
    <2>3. QED
      BY <2>1, <2>2 DEF HandledOnce
  <1>8. Length' = Length /\ pos[p] < Length[p]
    BY <1>2, <1>3 DEF Length, InHand
  <1>9. QED
    BY <1>2, <1>3, <1>4, <1>7, <1>8 DEF Consumer!Handle, Length, Position, HandledOnce

LEMMA ConsumerNext ==
  ASSUME IInv, SessionInLoop, [Next]_vars
  PROVE  [Consumer!Next]_(Consumer!vars)
  <1>1. CASE QuietSteps
    <2>1. UNCHANGED <<log, committed, fate, pos>> /\ (session' = "none" <=> session = "none")
      BY <1>1, QuietFrame DEF claims
    <2>2. QED
      BY <2>1, ConsumerStutters DEF Position
  <1>2. CASE Join
    <2>1. /\ UNCHANGED <<log, committed, fate>> /\ pos' = committed
          /\ session = "none" /\ session' = "open"
      BY <1>2 DEF Join, SessionInLoop
    <2>2. QED
      BY <2>1, ConsumerStutters DEF Position
  <1>t. /\ committed \in [Partitions -> Nat] /\ marked \in [Partitions -> Nat]
        /\ pos \in [Partitions -> Nat]
    BY DEF IInv, TypeOK
  <1>o. \A p \in Partitions : /\ committed[p] <= Position[p]
                              /\ session # "none" => marked[p] <= Position[p]
                              /\ session # "none" => committed[p] <= marked[p]
    BY <1>t DEF IInv, OffsetsOrdered, Position
  <1>3. ASSUME session' = "none", UNCHANGED <<log, fate>>, committed' \in {committed, marked},
               session = "none" => committed' = committed
        PROVE  Consumer!EndSession
    <2>1. /\ committed' \in [Partitions -> Nat]
          /\ \A p \in Partitions : committed[p] <= committed'[p] /\ committed'[p] <= Position[p]
      BY <1>3, <1>t, <1>o
    <2>2. UNCHANGED <<Length, HandledOnce>> /\ Position' = committed'
      BY <1>3 DEF Length, HandledOnce, Offsets, Position
    <2>3. QED
      BY <2>1, <2>2 DEF Consumer!EndSession, Consumer!CommitHandled, Length, HandledOnce, Position
  <1>4. CASE Crash
    BY <1>3, <1>4 DEF Crash, Consumer!Next
  <1>5. CASE SessionEnds
    BY <1>3, <1>5 DEF SessionEnds, claims, Consumer!Next
  <1>6. ASSUME NEW p \in Partitions, AutoCommit(p)
        PROVE  Consumer!Commit
    <2>1. /\ committed' = [committed EXCEPT ![p] = marked[p]] /\ session # "none"
          /\ UNCHANGED <<log, session, pos, fate>>
      BY <1>6 DEF AutoCommit, claims
    <2>2. /\ committed' \in [Partitions -> Nat]
          /\ \A q \in Partitions : committed[q] <= committed'[q] /\ committed'[q] <= Position[q]
      BY <2>1, <1>t, <1>o
    <2>3. UNCHANGED <<Length, HandledOnce>> /\ Position' = Position
      BY <2>1 DEF Length, HandledOnce, Offsets, Position
    <2>4. QED
      BY <2>2, <2>3 DEF Consumer!Commit, Consumer!CommitHandled, Length, HandledOnce, Position
  <1>7. ASSUME NEW p \in Partitions, ClaimStep(p)
        PROVE  [Consumer!Next]_(Consumer!vars)
    <2>1. CASE Finishes(p)
      BY <2>1, FinishHandles DEF Consumer!Next
    <2>2. CASE Moves(p)
      <3>1. UNCHANGED <<log, committed, fate, pos, session>>
        BY <2>2 DEF Moves, Goto
      <3>2. QED
        BY <3>1, ConsumerStutters DEF Position
    <2>3. QED
      BY <1>7, <2>1, <2>2, ClaimForm
  <1>8. QED
    BY <1>1, <1>2, <1>4, <1>5, <1>6, <1>7
       DEF Next, ConsumerStep, QuietSteps, Consumer!Next

\* A group member delivers at least once: every message from the committed offset
\* on is handled in turn, and nothing that was not handled is ever committed.
THEOREM ConsumerIsAtLeastOnce == Spec => ImplementsAtLeastOnce
  <1>1. Init => SessionInLoop
    BY DEF Init, SessionInLoop
  <1>2. IInv /\ [Next]_vars => IInv'
    BY InvStep DEF Keeps
  <1>3. IInv /\ SessionInLoop /\ [Next]_vars => [Consumer!Next]_(Consumer!vars)
    BY ConsumerNext
  <1>4. QED
    BY <1>1, <1>2, <1>3, InvInit, SessionInLoopStep, ConsumerInit, PTL
       DEF Spec, ImplementsAtLeastOnce, Consumer!Spec
=============================================================================
