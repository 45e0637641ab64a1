---------------------------- MODULE ErrorPolicy ----------------------------
(***************************************************************************)
(* What is done about errors: the RetryManager of internal/producer, and   *)
(* the CircuitBreakerErrorHandler of internal/services/consumer.           *)
(*                                                                         *)
(* Both are called by several goroutines.  The manager has a mutex for its *)
(* delays and atomic counters beside it, and reads maxDelay without either; *)
(* the breaker's state has none.  Counts stay far below their width.       *)
(* The breaker is asked about errors only: an error that is not to be      *)
(* retried counts as a success, and a message that went well as nothing.   *)
(***************************************************************************)
EXTENDS Integers, FiniteSets, FiniteSetsExt

CONSTANTS Retrier, Claimer,  \* goroutines in Retry, and in HandleError
          MaxRetries, BaseDelay, MaxDelay,
          MaxDelays,         \* what SetMaxDelay is called with
          DurationBits,      \* width of a duration
          Threshold,         \* failures that open the breaker
          Successes,         \* that close it again (5 in the code)
          MaxErrors          \* bound: calls of HandleError

\* The last conjunct is a fact of arithmetic, stated for the provers, which know
\* nothing of powers.
ASSUME PolicyAssumption ==
  /\ IsFiniteSet(Retrier)
  /\ MaxRetries \in Nat /\ BaseDelay \in Nat /\ MaxDelay \in Nat /\ MaxDelays \subseteq Int
  /\ Threshold \in Nat \ {0}
  /\ DurationBits \in Nat \ {0} /\ 2 ^ DurationBits \in Nat \ {0}

VARIABLES
  erRetrier,   \* each caller: where it is, its attempt and delay
  erMetrics,   \* RetryMetrics: total, average and largest delay, failed
  erRuns,      \* history: how often each caller's operation has run
  erMaxDelay,
  erLimit,     \* history: the greatest maxDelay there has been
  erReset,     \* what Reset clears next, or idle
  erWrapped,   \* history: a sum of delays behind the average did not fit its width
  erStolen,    \* history: Reset cleared the total of a caller yet to average
  erPanic,     \* a division by zero has ended the process
  ebState, ebFailures, ebSuccesses,   \* the breaker: closed, open or half-open; its counters
  ebLong,      \* the last failure is longer ago than the timeout
  ebCaller,    \* each caller of HandleError: where it is
  ebErrors     \* calls so far

retryBounds == <<erMaxDelay, erLimit, erReset>>
retryPast   == <<erWrapped, erStolen, erPanic>>
retries     == <<erRetrier, erMetrics, erRuns, retryBounds, retryPast>>
breaker     == <<ebState, ebFailures, ebSuccesses, ebLong, ebCaller, ebErrors>>
errVars     == <<retries, breaker>>

ERRInit ==
  /\ erRetrier = [r \in Retrier |-> [at |-> "idle", attempt |-> 0, delay |-> 0]]
  /\ erMetrics = [total |-> 0, average |-> 0, largest |-> 0, failed |-> 0]
  /\ erRuns = [r \in Retrier |-> 0]
  /\ erMaxDelay = MaxDelay /\ erLimit = MaxDelay /\ erReset = "idle"
  /\ erWrapped = FALSE /\ erStolen = FALSE /\ erPanic = FALSE
  /\ ebState = "closed" /\ ebFailures = 0 /\ ebSuccesses = 0 /\ ebLong = TRUE
  /\ ebCaller = [c \in Claimer |-> "idle"] /\ ebErrors = 0
-----------------------------------------------------------------------------
(* RetryManager, with its exponential backoff.                             *)

InBits(i) == ((i + 2 ^ (DurationBits - 1)) % (2 ^ DurationBits)) - 2 ^ (DurationBits - 1)
Towards0(a, b) == IF a < 0 THEN -((-a) \div b) ELSE a \div b

Reaches(r, to) == erRetrier' = [erRetrier EXCEPT ![r].at = to]

Retry(r) ==
  /\ erRetrier[r].at = "idle" /\ erRuns[r] = 0 /\ Reaches(r, "running")
  /\ UNCHANGED <<erMetrics, erRuns, retryBounds, retryPast, breaker>>
OperationSucceeds(r) ==
  /\ erRetrier[r].at = "running" /\ Reaches(r, "idle")
  /\ erRuns' = [erRuns EXCEPT ![r] = @ + 1]
  /\ UNCHANGED <<erMetrics, retryBounds, retryPast, breaker>>
\* The doubled delay may overflow, and then is not above the largest one.
calculateDelayUncut(attempt) ==   \* mutant: no largest delay
  [at |-> "delayed", attempt |-> attempt, delay |-> InBits(BaseDelay * 2 ^ (attempt - 1))]
calculateDelay(attempt) ==
  LET delay == InBits(BaseDelay * 2 ^ (attempt - 1)) IN
  [at |-> IF delay > erMaxDelay THEN "cutting" ELSE "delayed", attempt |-> attempt, delay |-> delay]
OperationFails(r) ==
  LET last == erRetrier[r].attempt = MaxRetries IN
  /\ erRetrier[r].at = "running"
  /\ erRuns' = [erRuns EXCEPT ![r] = @ + 1]
  /\ erRetrier' = [erRetrier EXCEPT ![r] = IF last THEN [@ EXCEPT !.at = "exhausted"]
                                                   ELSE calculateDelay(@.attempt + 1)]
  /\ erMetrics' = IF last THEN [erMetrics EXCEPT !.failed = @ + 1] ELSE erMetrics
  /\ UNCHANGED <<retryBounds, retryPast, breaker>>
\* maxDelay is read again, and may be another one by now.
CutDelay(r) ==
  /\ erRetrier[r].at = "cutting"
  /\ erRetrier' = [erRetrier EXCEPT ![r].at = "delayed", ![r].delay = erMaxDelay]
  /\ UNCHANGED <<erMetrics, erRuns, retryBounds, retryPast, breaker>>
CountRetry(r) ==
  /\ erRetrier[r].at = "delayed" /\ Reaches(r, "counted")
  /\ erMetrics' = [erMetrics EXCEPT !.total = @ + 1]
  /\ UNCHANGED <<erRuns, retryBounds, retryPast, breaker>>
\* The average is over the total, which others have counted in meanwhile, or
\* Reset has cleared: then the division panics.
updateDelayMetrics(r) ==
  LET delay == erRetrier[r].delay
      n     == erMetrics.total
      sum   == erMetrics.average * (n - 1) + delay
  IN
  /\ erRetrier[r].at = "counted" /\ Reaches(r, "running")
  /\ IF n = 0
     THEN erPanic' = TRUE /\ UNCHANGED <<erMetrics, erWrapped>>
     ELSE /\ erMetrics' = [erMetrics EXCEPT
                             !.average = IF n = 1 THEN delay ELSE Towards0(InBits(sum), n),
                             !.largest = IF delay > @ THEN delay ELSE @]
          /\ erWrapped' = IF n = 1 THEN FALSE ELSE erWrapped \/ InBits(sum) # sum
          /\ UNCHANGED erPanic
  /\ UNCHANGED <<erRuns, retryBounds, erStolen, breaker>>

SetMaxDelay(d) ==
  /\ erMaxDelay' = d
  /\ erLimit' = IF d > erLimit THEN d ELSE erLimit
  /\ UNCHANGED <<erRetrier, erMetrics, erRuns, erReset, retryPast, breaker>>

\* Reset clears the counters one after the other, then the delays together.
ResetTotal ==
  /\ erReset = "idle" /\ erReset' = "failed"
  /\ erMetrics' = [erMetrics EXCEPT !.total = 0]
  /\ erStolen' = (erStolen \/ \E r \in Retrier : erRetrier[r].at = "counted")
  /\ UNCHANGED <<erRetrier, erRuns, erMaxDelay, erLimit, erWrapped, erPanic, breaker>>
ResetFailed ==
  /\ erReset = "failed" /\ erReset' = "delays"
  /\ erMetrics' = [erMetrics EXCEPT !.failed = 0]
  /\ UNCHANGED <<erRetrier, erRuns, erMaxDelay, erLimit, retryPast, breaker>>
ResetDelays ==
  /\ erReset = "delays" /\ erReset' = "idle"
  /\ erMetrics' = [erMetrics EXCEPT !.average = 0, !.largest = 0]
  /\ erWrapped' = FALSE
  /\ UNCHANGED <<erRetrier, erRuns, erMaxDelay, erLimit, erStolen, erPanic, breaker>>
-----------------------------------------------------------------------------
(* CircuitBreakerErrorHandler.                                             *)

Steps(c, from, to) == ebCaller[c] = from /\ ebCaller' = [ebCaller EXCEPT ![c] = to]

Timeout == /\ ~ebLong /\ ebLong' = TRUE
           /\ UNCHANGED <<retries, ebState, ebFailures, ebSuccesses, ebCaller, ebErrors>>

HandleError(c) ==
  /\ ebErrors < MaxErrors /\ ebErrors' = ebErrors + 1
  /\ Steps(c, "idle", IF ebState # "open" THEN "handling" ELSE IF ebLong THEN "half-opening" ELSE "idle")
  /\ UNCHANGED <<retries, ebState, ebFailures, ebSuccesses, ebLong>>
EnterHalfOpen(c) ==
  /\ Steps(c, "half-opening", "resetting") /\ ebState' = "half-open"
  /\ UNCHANGED <<retries, ebFailures, ebSuccesses, ebLong, ebErrors>>
ResetSuccesses(c) ==
  /\ Steps(c, "resetting", "handling") /\ ebSuccesses' = 0
  /\ UNCHANGED <<retries, ebState, ebFailures, ebLong, ebErrors>>

ShouldRetry(c) ==
  /\ Steps(c, "handling", "failed")
  /\ ebFailures' = ebFailures + 1 /\ ebLong' = FALSE
  /\ UNCHANGED <<retries, ebState, ebSuccesses, ebErrors>>
JudgeFailure(c) ==
  /\ Steps(c, "failed", IF ebState = "half-open" \/ ebFailures >= Threshold THEN "opening" ELSE "idle")
  /\ UNCHANGED <<retries, ebState, ebFailures, ebSuccesses, ebLong, ebErrors>>
Open(c) ==
  /\ Steps(c, "opening", "idle") /\ ebState' = "open"
  /\ UNCHANGED <<retries, ebFailures, ebSuccesses, ebLong, ebErrors>>

ShouldNotRetry(c) ==
  /\ Steps(c, "handling", IF ebState = "half-open" THEN "counting" ELSE "idle")
  /\ UNCHANGED <<retries, ebState, ebFailures, ebSuccesses, ebLong, ebErrors>>
CountSuccess(c) ==
  /\ Steps(c, "counting", IF ebSuccesses + 1 >= Successes THEN "closing" ELSE "idle")
  /\ ebSuccesses' = ebSuccesses + 1
  /\ UNCHANGED <<retries, ebState, ebFailures, ebLong, ebErrors>>
CloseBreaker(c) ==
  /\ Steps(c, "closing", "clearing") /\ ebState' = "closed"
  /\ UNCHANGED <<retries, ebFailures, ebSuccesses, ebLong, ebErrors>>
ClearKeepingFailures(c) ==   \* mutant: failureCount is kept
  /\ Steps(c, "clearing", "idle")
  /\ UNCHANGED <<retries, ebState, ebFailures, ebSuccesses, ebLong, ebErrors>>
ClearFailures(c) ==
  /\ Steps(c, "clearing", "idle") /\ ebFailures' = 0
  /\ UNCHANGED <<retries, ebState, ebSuccesses, ebLong, ebErrors>>
-----------------------------------------------------------------------------
ERRNext(part) ==
  \/ part = "retry" /\ ~erPanic
       /\ \/ \E r \in Retrier :
                \/ Retry(r) \/ OperationFails(r) \/ OperationSucceeds(r)
                \/ CutDelay(r) \/ CountRetry(r) \/ updateDelayMetrics(r)
          \/ \E d \in MaxDelays : SetMaxDelay(d)
          \/ ResetTotal \/ ResetFailed \/ ResetDelays
  \/ part = "breaker" /\ \/ Timeout
                         \/ \E c \in Claimer :
                              \/ HandleError(c) \/ EnterHalfOpen(c) \/ ResetSuccesses(c)
                              \/ ShouldRetry(c) \/ JudgeFailure(c) \/ Open(c)
                              \/ ShouldNotRetry(c) \/ CountSuccess(c) \/ CloseBreaker(c) \/ ClearFailures(c)

ERRSpec == ERRInit /\ [][\E part \in {"retry", "breaker"} : ERRNext(part)]_errVars
-----------------------------------------------------------------------------
(* Properties.                                                             *)

\* Whoever counts, resets or changes the limit between a caller's steps: the
\* average delay is at most the largest as long as the sum it is made of has fitted
\* its width; no delay exceeds every limit there has been; an operation that is
\* retried runs once more at most; the process dies of the average only when Reset
\* cleared a caller's count before that caller divided by it.
MetricsBounded ==
  /\ ~erWrapped => erMetrics.average <= erMetrics.largest
  /\ erMetrics.largest <= erLimit
  /\ \A r \in Retrier : erRuns[r] <= MaxRetries + 1
  /\ erPanic => erStolen

\* With nobody in HandleError, a breaker that is closed has counted fewer
\* failures than open it: closing forgets those that had opened it.
ClosedBelowThreshold ==
  (\A c \in Claimer : ebCaller[c] = "idle") /\ ebState = "closed" => ebFailures < Threshold

\* Retries and breaker keep their counts whoever interleaves.
ErrorsAreCounted == MetricsBounded /\ ClosedBelowThreshold
=============================================================================
