------------------------- MODULE ReliabilityTracker -------------------------
(***************************************************************************)
(* pkg/kubernetes/reliability.go: the backoff and the circuit breaker that *)
(* watch over the leader election of one process.  Its methods run under a *)
(* mutex, so each is one step; the goroutine that ends the process after   *)
(* the breaker trips is a step of its own.  Time is a clock that ticks     *)
(* between steps; durations are in ticks.  Definitions whose name ends in   *)
(* Fault are plausible bugs, kept so that each property can be shown to     *)
(* catch one; no action uses them.                                         *)
(***************************************************************************)
EXTENDS TimesAndDelays

CONSTANTS Threshold,     \* CircuitBreakerFailureThreshold
          Window,        \* CircuitBreakerWindowDuration
          Cooldown,      \* CircuitBreakerCooldownPeriod
          MaxTime,       \* bound on the clock
          MaxRecords     \* bound on retryCount and on the failures kept

ASSUME TrackerAssumption ==
    /\ Threshold \in Nat \ {0} /\ Window \in Nat \ {0} /\ Cooldown \in Nat
    /\ MaxTime \in Nat /\ MaxRecords \in Nat /\ MaxRecords >= Threshold

VARIABLES
    now,         \* the clock
    state,       \* the state of the breaker
    retryCount,
    failures,    \* times of the failures kept, oldest first
    trippedAt,
    exiting      \* the goroutine that calls exitFunc has been started

trackerVars == <<state, retryCount, failures, trippedAt, exiting>>

TrackerTypeOK ==
    /\ now \in 0 .. MaxTime
    /\ state \in {"closed", "open", "half-open"}
    /\ retryCount \in 0 .. MaxRecords
    /\ failures \in Seq(0 .. MaxTime) /\ Len(failures) <= MaxRecords
    /\ trippedAt \in 0 .. MaxTime
    /\ exiting \in BOOLEAN

TrackerInit ==
    /\ state = "closed" /\ retryCount = 0 /\ failures = <<>>
    /\ trippedAt = 0 /\ exiting = FALSE

\* The process ends and takes its tracker with it.
TrackerReset ==
    /\ state' = "closed" /\ retryCount' = 0 /\ failures' = <<>>
    /\ trippedAt' = 0 /\ exiting' = FALSE

\* The times inside the window.
Recent(times) == TimesAfter(times, now - Window)

RecordFailure_WindowFault ==            \* only the failures before this one count
    LET kept == Recent(failures)
        trip == state = "closed" /\ Len(kept) >= Threshold
    IN  /\ retryCount' = IF state = "closed" THEN retryCount + 1 ELSE retryCount
        /\ failures' = Append(kept, now)
        /\ state' = IF trip THEN "open" ELSE state
        /\ trippedAt' = IF trip THEN now ELSE trippedAt
        /\ exiting' = (exiting \/ trip)

RecordFailure ==
    LET kept == Recent(Append(failures, now))
        trip == state = "closed" /\ Len(kept) >= Threshold
    IN  /\ retryCount' = IF state = "closed" THEN retryCount + 1 ELSE retryCount
        /\ failures' = kept
        /\ state' = IF trip THEN "open" ELSE state
        /\ trippedAt' = IF trip THEN now ELSE trippedAt
        /\ exiting' = (exiting \/ trip)

RecordSuccess_CountFault ==             \* retryCount survives a success
    /\ state' = IF state = "half-open" THEN "closed" ELSE state
    /\ failures' = IF state = "half-open" THEN <<>> ELSE failures
    /\ UNCHANGED <<retryCount, trippedAt, exiting>>

RecordSuccess_FailuresFault ==          \* the failures before the trip count again
    /\ retryCount' = 0
    /\ state' = IF state = "half-open" THEN "closed" ELSE state
    /\ UNCHANGED <<failures, trippedAt, exiting>>

RecordSuccess ==
    /\ retryCount' = 0
    /\ state' = IF state = "half-open" THEN "closed" ELSE state
    /\ failures' = IF state = "half-open" THEN <<>> ELSE failures
    /\ UNCHANGED <<trippedAt, exiting>>

\* The question has an effect: after the cooldown it half-opens the circuit.
IsCircuitOpen ==
    /\ state' = IF state = "open" /\ now - trippedAt > Cooldown
                  THEN "half-open" ELSE state
    /\ UNCHANGED <<retryCount, failures, trippedAt, exiting>>

\* Before the jitter, in tenths of a second: MinBackoffSeconds doubled at each
\* retry, up to MaxBackoffSeconds.
MinBackoff == 10
MaxBackoff == 300
BackoffAfter(retries) ==
    LET delay == Doubled(MinBackoff, retries)
    IN  IF delay > MaxBackoff THEN MaxBackoff ELSE delay
Backoff == BackoffAfter(retryCount)

GetBackoffDuration_JitterFault ==       \* half of it up or down
    (5 * Backoff) \div 10 .. (15 * Backoff) \div 10

\* The delays it may return: a fifth is added or taken away, after the cap.
GetBackoffDuration == (8 * Backoff) \div 10 .. (12 * Backoff) \div 10

Tick == now < MaxTime /\ now' = now + 1
=============================================================================
