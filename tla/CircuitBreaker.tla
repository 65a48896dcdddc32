--------------------------- MODULE CircuitBreaker ---------------------------
(***************************************************************************)
(* The ReliabilityTracker under any sequence of calls, as its exported     *)
(* methods allow and its tests make them, with the history of failures     *)
(* that its pruned list of times stands for.                               *)
(***************************************************************************)
EXTENDS ReliabilityTracker, FiniteSets

VARIABLE history    \* times of all failures since the start or the last reset

vars == <<now, trackerVars, history>>

TypeOK == TrackerTypeOK /\ history \in Seq(0 .. MaxTime)

Init == now = 0 /\ TrackerInit /\ history = <<>>

Fail ==
    /\ Len(history) < MaxRecords
    /\ RecordFailure
    /\ history' = Append(history, now)
    /\ UNCHANGED now

Succeed ==
    /\ RecordSuccess
    /\ history' = IF state = "half-open" THEN <<>> ELSE history
    /\ UNCHANGED now

Ask == IsCircuitOpen /\ UNCHANGED <<now, history>>

Wait == Tick /\ UNCHANGED <<trackerVars, history>>

Next == Fail \/ Succeed \/ Ask \/ Wait

Spec == Init /\ [][Next]_vars

-----------------------------------------------------------------------------

FailuresWithin(from, to) ==
    Cardinality({i \in 1 .. Len(history) : from < history[i] /\ history[i] <= to})

\* The circuit never stays closed with the threshold of failures inside the
\* window, however failures, successes, questions and time are interleaved:
\* pruning the list of times forgets none that still counts (RecordFailure).
TripsWhenDue == state = "closed" => FailuresWithin(now - Window, now) < Threshold

\* When the circuit tripped, the window held the threshold of failures, and none
\* of them from before the last reset (RecordFailure, RecordSuccess).
TripsOnlyWhenDue ==
    state # "closed" => FailuresWithin(trippedAt - Window, trippedAt) >= Threshold

\* From one failure to the next the delay grows, whatever the jitter: the longest
\* that could have been drawn before is shorter than the shortest after, until
\* the cap is reached; and no delay is longer than 36 s, the cap and the jitter
\* (GetBackoffDuration, RecordFailure).
BackoffGrows ==
    [][retryCount' > retryCount =>
          /\ \A d \in GetBackoffDuration, later \in GetBackoffDuration' :
                d < later \/ Backoff = MaxBackoff
          /\ \A later \in GetBackoffDuration' : later <= 360]_vars
=============================================================================
