---------------------------- MODULE FlowControl ----------------------------
(***************************************************************************)
(* internal/producer: the RateLimiter and the BackpressureController of    *)
(* flow_control.go and the partitioners of partitioner.go.  Each call is   *)
(* made under the object's mutex.                                          *)
(*                                                                         *)
(* A second has Second ticks (nanoseconds in the code).  Loads and         *)
(* thresholds are in twentieths.  Integers have IntBits bits.              *)
(***************************************************************************)
EXTENDS Integers, Sequences, FiniteSets, SequencesExt, FiniteSetsExt

CONSTANTS Second,       \* ticks of a second
          Rates,        \* what SetRate may set; the first rate is the largest
          IntBits,      \* width of the integers
          HistorySize,  \* load samples kept (100 in the code)
          Enough,       \* samples the thresholds are adapted on (10 in the code)
          Loads,        \* queue loads, in twentieths
          PartitionCounts, StickyBatch,
          MaxTick, MaxPartitioned   \* bounds: ticks, calls of the partitioners

\* A number of partitions is a positive integer of the width; and of the powers of
\* two the provers are told that one is twice the other.
ASSUME FlowAssumption ==
  /\ Second \in Nat \ {0}
  /\ Rates \subseteq Nat /\ \E most \in Rates : \A rate \in Rates : rate <= most
  /\ HistorySize \in Nat /\ HistorySize >= 2 /\ Loads \subseteq Nat
  /\ PartitionCounts \subseteq 1 .. 2 ^ (IntBits - 1) - 1
  /\ 2 ^ (IntBits - 1) \in Nat \ {0} /\ 2 ^ IntBits = 2 * 2 ^ (IntBits - 1)

VARIABLES
  fcTick, fcLimiter,  \* the clock; RateLimiter: rate (and capacity), tokens, lastTime
  fcAllowed,          \* history: requests let through
  fcLoad, fcStatus,   \* BackpressureController: the current load and the status
  fcLimits,           \* warningThreshold and criticalThreshold
  fcLoadHistory,      \* loadHistory, the newest last; 0 where there is none
  fcCounter,          \* RoundRobinPartitioner.counter
  fcSticky,           \* StickyPartitioner
  fcPartitioned,      \* calls so far
  fcPartition         \* the last call: of whom, with how many partitions, its answer

limiter  == <<fcTick, fcLimiter, fcAllowed>>
pressure == <<fcLoad, fcStatus, fcLimits, fcLoadHistory>>
spread   == <<fcCounter, fcSticky, fcPartitioned, fcPartition>>
fcVars   == <<limiter, pressure, spread>>

FCInit ==
  /\ fcTick = 0 /\ fcAllowed = 0
  /\ fcLimiter = [rate |-> Max(Rates), tokens |-> Max(Rates), last |-> 0]
  /\ fcLoad = 0 /\ fcStatus = "normal" /\ fcLimits = [warning |-> 14, critical |-> 18]
  /\ fcLoadHistory = [i \in 1 .. HistorySize |-> 0]
  /\ fcCounter = 0 /\ fcPartitioned = 0
  /\ fcSticky = [current |-> -1, messages |-> 0, partitions |-> 0]
  /\ fcPartition = [by |-> "none", of |-> 1, is |-> 0]

\* An integer in IntBits bits, and Go's / and %, which cut towards zero.
Wrapped(i)      == ((i + 2 ^ (IntBits - 1)) % (2 ^ IntBits)) - 2 ^ (IntBits - 1)
Quotient(a, b)  == IF a < 0 THEN -((-a) \div b) ELSE a \div b
RemainderOf(a, b) == a - b * Quotient(a, b)
Lesser(a, b)    == IF a < b THEN a ELSE b
Greater(a, b)   == IF a > b THEN a ELSE b
-----------------------------------------------------------------------------
(* RateLimiter.  Time earns whole tokens, and the rest of it is forgotten. *)

Passed == fcTick < MaxTick /\ fcTick' = fcTick + 1 /\ UNCHANGED <<fcLimiter, fcAllowed, pressure, spread>>

AllowEarningTwice ==   \* mutant: the time that has earned tokens earns them again
  LET r == fcLimiter
      tokens == Lesser(r.rate, r.tokens + Quotient(Wrapped((fcTick - r.last) * r.rate), Second))
      allowed == tokens > 0
  IN /\ fcLimiter' = [r EXCEPT !.tokens = IF allowed THEN tokens - 1 ELSE tokens]
     /\ fcAllowed' = IF allowed THEN fcAllowed + 1 ELSE fcAllowed
     /\ UNCHANGED <<fcTick, pressure, spread>>
Allow ==
  LET r == fcLimiter
      tokens == Lesser(r.rate, r.tokens + Quotient(Wrapped((fcTick - r.last) * r.rate), Second))
      allowed == tokens > 0
  IN /\ fcLimiter' = [r EXCEPT !.tokens = IF allowed THEN tokens - 1 ELSE tokens, !.last = fcTick]
     /\ fcAllowed' = IF allowed THEN fcAllowed + 1 ELSE fcAllowed
     /\ UNCHANGED <<fcTick, pressure, spread>>
SetRate ==
  /\ \E rate \in Rates : fcLimiter' = [fcLimiter EXCEPT !.rate = rate, !.tokens = Lesser(@, rate)]
  /\ UNCHANGED <<fcTick, fcAllowed, pressure, spread>>
-----------------------------------------------------------------------------
(* BackpressureController.                                                 *)

\* The status of a load, with the thresholds before they are adapted.
Status(load) == IF load >= fcLimits.critical THEN "critical"
                ELSE IF load >= fcLimits.warning THEN "warning" ELSE "normal"
TotalLoad(history, samples) == MapThenSumSet(LAMBDA i : history[i], samples)
Adapted(history) ==
  LET samples == {i \in 1 .. HistorySize : history[i] > 0}
      count   == Cardinality(samples)
      sum     == TotalLoad(history, samples)
      w == fcLimits.warning  c == fcLimits.critical
  IN IF count < Enough THEN fcLimits
     ELSE IF sum > 16 * count /\ \E i \in samples : history[i] > 19
       THEN [warning |-> Greater(10, w - 1), critical |-> Greater(14, c - 1)]
     ELSE IF sum < 6 * count /\ \A i \in samples : history[i] < 12
       THEN [warning |-> Lesser(16, w + 1), critical |-> Lesser(19, c + 1)]
     ELSE fcLimits

UpdateAdaptingAlways ==   \* mutant: the thresholds are adapted at every sample
  \E load \in Loads :
    LET history == Append(Tail(fcLoadHistory), load) IN
    /\ fcLoad' = load /\ fcLoadHistory' = history
    /\ fcStatus' = Status(load)
    /\ fcLimits' = Adapted(history)
    /\ UNCHANGED <<limiter, spread>>
Update ==
  \E load \in Loads :
    LET history == Append(Tail(fcLoadHistory), load) IN
    /\ fcLoad' = load /\ fcLoadHistory' = history
    /\ fcStatus' = Status(load)
    /\ fcLimits' = IF fcStatus' # fcStatus THEN Adapted(history) ELSE fcLimits
    /\ UNCHANGED <<limiter, spread>>
\* Reset keeps the thresholds.
Reset ==
  /\ fcLoad' = 0 /\ fcStatus' = "normal"
  /\ fcLoadHistory' = [i \in 1 .. HistorySize |-> 0]
  /\ UNCHANGED <<fcLimits, limiter, spread>>
-----------------------------------------------------------------------------
(* The partitioners; the key's hash and the random number are any.         *)

Answers(by, n, partition) ==
  /\ fcPartitioned < MaxPartitioned /\ fcPartitioned' = fcPartitioned + 1
  /\ fcPartition' = [by |-> by, of |-> n, is |-> partition]
  /\ UNCHANGED <<limiter, pressure>>

HashPartition(n) ==
  \E hash \in 0 .. 2 ^ IntBits - 1 : Answers("hash", n, Wrapped(hash % n)) /\ UNCHANGED <<fcCounter, fcSticky>>
RoundRobinPartition(n) ==
  /\ Answers("round robin", n, RemainderOf(fcCounter, n))
  /\ fcCounter' = Wrapped(fcCounter + 1) /\ UNCHANGED fcSticky
StickyPartition(n) ==
  LET kept == fcSticky.partitions = n /\ fcSticky.current # -1 /\ fcSticky.messages < StickyBatch IN
  \E chosen \in IF kept THEN {fcSticky.current} ELSE 0 .. n - 1 :
    /\ fcSticky' = [current |-> chosen, messages |-> IF kept THEN fcSticky.messages + 1 ELSE 1, partitions |-> n]
    /\ Answers("sticky", n, chosen) /\ UNCHANGED fcCounter
-----------------------------------------------------------------------------
FCNext(part) ==
  \/ part = "limiter"  /\ (Passed \/ Allow \/ SetRate)
  \/ part = "pressure" /\ (Update \/ Reset)
  \/ part = "spread"   /\ (\E n \in PartitionCounts : HashPartition(n) \/ RoundRobinPartition(n) \/ StickyPartition(n))

FCSpec == FCInit /\ [][\E part \in {"limiter", "pressure", "spread"} : FCNext(part)]_fcVars
-----------------------------------------------------------------------------
(* Properties.                                                             *)

\* However its rate is changed and whatever the product overflows to, the limiter
\* lets no more through than a full bucket and the time that has passed allow.
NeverOverspends == Second * fcAllowed <= Max(Rates) * (Second + fcTick)

\* A low load is to raise the thresholds, up to 0.8 and 0.95; they are adapted
\* when the status changes only.  From the start a sample above 0.6 is then still
\* in the history; once the thresholds have been lowered a moderate load may
\* raise them, but never above the 0.7 and 0.9 they start from.
ThresholdsNeverRise == fcLimits.warning <= 14 /\ fcLimits.critical = fcLimits.warning + 4

\* Each partition exists, but for the round robin's after its counter may have
\* wrapped (the calls of all three partitioners are counted together).
PartitionExists ==
  \/ fcPartition.is \in 0 .. fcPartition.of - 1
  \/ fcPartition.by = "round robin" /\ fcPartitioned > 2 ^ (IntBits - 1)

\* What throttles the producer and spreads its messages keeps its bounds.
ThrottlingHolds == NeverOverspends /\ ThresholdsNeverRise /\ PartitionExists
=============================================================================
