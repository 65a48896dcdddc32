--------------------------- MODULE LeaderElection ---------------------------
(***************************************************************************)
(* pkg/kubernetes/client.go, Start and runLeaderElection: one process that *)
(* competes for a lease and watches nodes while it holds it.  Its          *)
(* goroutines are                                                          *)
(*   - the supervisor (Start), which restarts an election that ended;      *)
(*   - the election (client-go's LeaderElector), which acquires, renews    *)
(*     and releases the lease and runs OnStoppedLeading itself;            *)
(*   - one OnStartedLeading for each term of leadership;                   *)
(*   - OnNewLeader, started when another holder of the lease is seen;      *)
(*   - the circuit breaker's, which ends the process.                      *)
(* The other replicas, the API server and client-go are environment.       *)
(***************************************************************************)
EXTENDS ReliabilityTracker, FiniteSets

CONSTANT MaxTerms    \* bound on the terms of leadership of one process

\* A failure is the end of a term: the records have room for one each.
ASSUME TermsAssumption == MaxTerms \in Nat \ {0} /\ MaxTerms <= MaxRecords

Terms == 1 .. MaxTerms

VARIABLES
    lease,      \* the holder in the lease object: "self", "other", "free"
    election,   \* the election goroutine
    observed,   \* the holder it has last reported to OnNewLeader
    term,       \* term[t]: where OnStartedLeading of term t is
    notice,     \* where OnNewLeader is, with the value it is about to publish
    supervisor, \* where Start is
    errCh,      \* is there an error in the channel (capacity 1)?
    stopping,   \* the context of the process is cancelled
    cancelled,  \* the context of the present election is cancelled
    isLeader,
    gauge,      \* the metric leader_status
    informers,  \* the terms whose informer runs: nothing closes its stopCh
    prompt      \* callbacks run before the lease next changes (constant)

callbackVars == <<term, notice, isLeader, gauge, informers>>
electionVars == <<lease, election, observed>>
startVars == <<supervisor, errCh, stopping, cancelled>>
vars == <<now, trackerVars, electionVars, callbackVars, startVars, prompt>>

TypeOK ==
    /\ TrackerTypeOK
    /\ lease \in {"self", "other", "free"}
    /\ election \in {"none", "acquiring", "leading", "stopped", "unflagged",
                     "unmetered", "ended"}
    /\ observed \in {"none", "self", "other"}
    /\ term \in [Terms -> {"none", "started", "flagged", "metered", "recorded",
                           "syncing", "watching", "done"}]
    /\ notice \in [step: {"none", "started", "flagged", "read"}, value: BOOLEAN]
    /\ supervisor \in {"down", "select", "failed", "recorded", "backoff",
                       "exiting"}
    /\ errCh \in BOOLEAN /\ stopping \in BOOLEAN /\ cancelled \in BOOLEAN
    /\ isLeader \in BOOLEAN /\ gauge \in BOOLEAN
    /\ informers \subseteq Terms
    /\ prompt \in BOOLEAN

NoNotice == [step |-> "none", value |-> FALSE]

Init ==
    /\ now = 0 /\ TrackerInit
    /\ lease \in {"free", "other"}
    /\ election = "acquiring" /\ observed = "none"
    /\ term = [t \in Terms |-> "none"] /\ notice = NoNotice
    /\ supervisor = "select" /\ errCh = FALSE
    /\ stopping = FALSE /\ cancelled = FALSE
    /\ isLeader = FALSE /\ gauge = FALSE /\ informers = {}
    /\ prompt \in BOOLEAN

\* No callback goroutine is between two of its writes.
CallbacksAtRest ==
    /\ notice.step = "none"
    /\ \A t \in Terms : term[t] \in {"none", "syncing", "watching", "done"}

OnTime == prompt => CallbacksAtRest

-----------------------------------------------------------------------------
(* The lease.  Other replicas take it when it is free and give it up.  A      *)
(* leader stops after RenewDeadline, before its lease expires.                *)

OtherAcquires == lease = "free" /\ lease' = "other"
OtherReleases == lease = "other" /\ OnTime /\ lease' = "free"
LeaseExpires  == lease = "self" /\ election # "leading" /\ lease' = "free"

Lease ==
    /\ OtherAcquires \/ OtherReleases \/ LeaseExpires
    /\ UNCHANGED <<now, trackerVars, election, observed, callbackVars, startVars>>

-----------------------------------------------------------------------------
(* The election goroutine.  Definitions whose name ends in Fault are plausible *)
(* bugs, kept so that each property can be shown to catch one; no action uses  *)
(* them.                                                                       *)

\* The lease is acquired, or found to be the process's own from before, and
\* OnStartedLeading starts in a goroutine.
Acquire ==
    /\ election = "acquiring" /\ lease # "other" /\ ~cancelled
    /\ \E t \in Terms :
          /\ \A u \in Terms : term[u] = "none" <=> u >= t
          /\ term' = [term EXCEPT ![t] = "started"]
    /\ lease' = "self" /\ election' = "leading" /\ observed' = "self"
    /\ UNCHANGED <<notice, isLeader, gauge, errCh>>

\* Another holder is seen for the first time: OnNewLeader starts in a goroutine.
\* (One such goroutine at a time.)
SeeOther ==
    /\ election = "acquiring" /\ lease = "other" /\ observed # "other"
    /\ notice.step = "none"
    /\ observed' = "other" /\ notice' = [NoNotice EXCEPT !.step = "started"]
    /\ UNCHANGED <<lease, election, term, isLeader, gauge, errCh>>

\* The lease was not renewed before RenewDeadline, or the context is cancelled:
\* the term's context is cancelled and the lease given up, if the API answers.
GiveUp ==
    /\ election = "leading" /\ OnTime
    /\ election' = "stopped" /\ lease' \in {"self", "free"}
    /\ UNCHANGED <<observed, term, notice, isLeader, gauge, errCh>>

\* OnStoppedLeading is deferred, so it also runs after a cancelled acquisition.
StopAcquiring ==
    /\ election = "acquiring" /\ cancelled
    /\ election' = "stopped"
    /\ UNCHANGED <<lease, observed, term, notice, isLeader, gauge, errCh>>

ClearFlag_ReportFault ==               \* the end is reported before the status is cleared
    /\ election = "stopped"
    /\ election' = "unflagged" /\ isLeader' = FALSE /\ errCh' = (errCh \/ ~cancelled)
    /\ UNCHANGED gauge

ClearFlag_StatusFault ==               \* only the gauge is cleared
    /\ election = "stopped"
    /\ election' = "unflagged"
    /\ UNCHANGED <<isLeader, gauge, errCh>>

ClearFlag ==
    /\ election = "stopped"
    /\ election' = "unflagged" /\ isLeader' = FALSE
    /\ UNCHANGED <<gauge, errCh>>

ClearGauge ==
    /\ election = "unflagged"
    /\ election' = "unmetered" /\ gauge' = FALSE
    /\ UNCHANGED <<isLeader, errCh>>

ReportStopped_ContextFault ==          \* an election that was told to end reports an error
    /\ election = "unmetered"
    /\ election' = "ended" /\ errCh' = TRUE
    /\ UNCHANGED <<isLeader, gauge>>

\* stopCh is replaced, not closed, and the end of the election is reported
\* unless its context is cancelled.
ReportStopped ==
    /\ election = "unmetered"
    /\ election' = "ended" /\ errCh' = (errCh \/ ~cancelled)
    /\ UNCHANGED <<isLeader, gauge>>

OnStoppedLeading ==
    /\ ClearFlag \/ ClearGauge \/ ReportStopped
    /\ UNCHANGED <<now, trackerVars, lease, observed, term, notice, informers,
                   supervisor, stopping, cancelled, prompt>>

Elect ==
    /\ Acquire \/ SeeOther \/ GiveUp \/ StopAcquiring
    /\ UNCHANGED <<now, trackerVars, informers, supervisor, stopping, cancelled>>

-----------------------------------------------------------------------------
(* The callback goroutines. *)

MoveTo(t, step) == term' = [term EXCEPT ![t] = step]

SetFlag(t) ==
    /\ term[t] = "started" /\ MoveTo(t, "flagged") /\ isLeader' = TRUE
    /\ UNCHANGED <<trackerVars, gauge, informers>>

SetGauge(t) ==
    /\ term[t] = "flagged" /\ MoveTo(t, "metered") /\ gauge' = TRUE
    /\ UNCHANGED <<trackerVars, isLeader, informers>>

RecordTerm(t) ==
    /\ term[t] = "metered" /\ MoveTo(t, "recorded") /\ RecordSuccess
    /\ UNCHANGED <<isLeader, gauge, informers>>

\* watchNodes starts the informer, whatever has become of the term meanwhile.
WatchNodes(t) ==
    /\ term[t] = "recorded" /\ MoveTo(t, "syncing")
    /\ informers' = informers \cup {t}
    /\ UNCHANGED <<trackerVars, isLeader, gauge>>

\* Its store has been filled.  The wait for that ends in no other way: it does not
\* heed the context, and nothing closes stopCh.
SyncCache(t) ==
    /\ term[t] = "syncing" /\ MoveTo(t, "watching")
    /\ UNCHANGED <<trackerVars, isLeader, gauge, informers>>

\* The context of term t is cancelled.
Over(t) ==
    /\ term[t] # "none"
    /\ election # "leading" \/ \E u \in Terms : u > t /\ term[u] # "none"

StopWatching_Fault(t) ==               \* the wait is for stopCh, not for the context
    /\ term[t] = "watching" /\ stopping
    /\ MoveTo(t, "done")
    /\ UNCHANGED <<trackerVars, isLeader, gauge, informers>>

\* The wait for the term's context ends when the term has; the informer goes on.
StopWatching(t) ==
    /\ term[t] = "watching" /\ Over(t)
    /\ MoveTo(t, "done")
    /\ UNCHANGED <<trackerVars, isLeader, gauge, informers>>

CallbackStep(t) ==
    SetFlag(t) \/ SetGauge(t) \/ RecordTerm(t) \/ WatchNodes(t) \/ StopWatching(t)

OnStartedLeading(t) ==
    /\ CallbackStep(t) \/ SyncCache(t)
    /\ UNCHANGED <<now, electionVars, notice, startVars, prompt>>

\* OnNewLeader for another identity: the flag under its mutex, then the flag
\* read back without it, then the gauge.
NoticeFlag ==
    /\ notice.step = "started" /\ notice' = [notice EXCEPT !.step = "flagged"]
    /\ isLeader' = FALSE /\ UNCHANGED gauge

NoticeRead ==
    /\ notice.step = "flagged" /\ notice' = [step |-> "read", value |-> isLeader]
    /\ UNCHANGED <<isLeader, gauge>>

NoticeGauge ==
    /\ notice.step = "read" /\ notice' = NoNotice
    /\ gauge' = notice.value /\ UNCHANGED isLeader

OnNewLeader ==
    /\ NoticeFlag \/ NoticeRead \/ NoticeGauge
    /\ UNCHANGED <<now, trackerVars, electionVars, term, informers, startVars, prompt>>

-----------------------------------------------------------------------------
(* The supervisor. *)

ReceiveError ==
    /\ supervisor = "select" /\ errCh
    /\ supervisor' = "failed" /\ errCh' = FALSE /\ gauge' = FALSE
    /\ UNCHANGED <<trackerVars, election, observed, cancelled>>

RecordLoss ==
    /\ supervisor = "failed"
    /\ supervisor' = "recorded" /\ RecordFailure
    /\ UNCHANGED <<election, observed, errCh, cancelled, gauge>>

CheckCircuit_Fault ==                  \* the breaker's own goroutine will see to the exit
    /\ supervisor = "recorded"
    /\ IsCircuitOpen /\ supervisor' = "backoff"
    /\ UNCHANGED <<election, observed, errCh, cancelled, gauge>>

\* An open circuit is fatal.
CheckCircuit ==
    /\ supervisor = "recorded"
    /\ IsCircuitOpen /\ supervisor' = IF state' = "open" THEN "exiting" ELSE "backoff"
    /\ UNCHANGED <<election, observed, errCh, cancelled, gauge>>

RestartElection_ContextFault ==        \* the context cancelled is the new one
    /\ supervisor = "backoff"
    /\ supervisor' = "select" /\ cancelled' = TRUE
    /\ election' = "acquiring" /\ observed' = "none"
    /\ UNCHANGED <<trackerVars, errCh, gauge>>

\* The backoff is over: a new election with a new context.
RestartElection ==
    /\ supervisor = "backoff"
    /\ supervisor' = "select" /\ cancelled' = stopping
    /\ election' = "acquiring" /\ observed' = "none"
    /\ UNCHANGED <<trackerVars, errCh, gauge>>

\* Start returns, and main takes that for a fatal error.
ReturnFromStart ==
    /\ stopping /\ supervisor \in {"select", "backoff"}
    /\ supervisor' = "exiting"
    /\ UNCHANGED <<trackerVars, election, observed, errCh, cancelled, gauge>>

Start ==
    /\ \/ ReceiveError \/ RecordLoss \/ CheckCircuit \/ RestartElection
       \/ ReturnFromStart
    /\ UNCHANGED <<now, lease, term, notice, isLeader, informers, stopping, prompt>>

-----------------------------------------------------------------------------
(* The process. *)

\* A signal cancels the context of the process and the one derived from it.
Shutdown ==
    /\ supervisor # "down" /\ ~stopping
    /\ stopping' = TRUE /\ cancelled' = TRUE
    /\ UNCHANGED <<now, trackerVars, electionVars, callbackVars, supervisor, errCh>>

\* The supervisor's exit, or the one of the breaker's goroutine.  The lease stays.
Exit ==
    /\ supervisor = "exiting" \/ exiting
    /\ supervisor' = "down" /\ election' = "none" /\ observed' = "none"
    /\ TrackerReset
    /\ term' = [t \in Terms |-> "none"] /\ notice' = NoNotice
    /\ errCh' = FALSE /\ stopping' = FALSE /\ cancelled' = FALSE
    /\ isLeader' = FALSE /\ gauge' = FALSE /\ informers' = {}
    /\ UNCHANGED <<now, lease, prompt>>

StartProcess ==
    /\ supervisor = "down"
    /\ supervisor' = "select" /\ election' = "acquiring"
    /\ UNCHANGED <<now, trackerVars, lease, observed, callbackVars, errCh,
                   stopping, cancelled>>

Wait == Tick /\ UNCHANGED <<trackerVars, electionVars, callbackVars, startVars>>

-----------------------------------------------------------------------------

Next ==
    \/ OnStoppedLeading \/ OnNewLeader \/ Start \/ Exit
    \/ \E t \in Terms : OnStartedLeading(t)
    \/ (Lease \/ Elect \/ Shutdown \/ StartProcess \/ Wait) /\ UNCHANGED prompt

\* A goroutine that can run is scheduled, and a backoff ends.  Nothing makes the
\* process win the lease, lose it, or end, nor an informer's first list succeed.
Fairness ==
    /\ WF_vars(OnStoppedLeading) /\ WF_vars(OnNewLeader)
    /\ WF_vars(Start) /\ WF_vars(Exit)
    /\ \A t \in Terms : WF_vars(CallbackStep(t) /\ OnStartedLeading(t))

Spec == Init /\ [][Next]_vars /\ Fairness

-----------------------------------------------------------------------------
(* Correctness. *)

\* A process has one election at a time: while Start deals with the end of one,
\* that one is over, and so is its OnStoppedLeading, which reports the end.  Its
\* OnStartedLeading may still be at work, see TermsEnd.
OneElectionAtATime ==
    supervisor \in {"failed", "recorded", "backoff"} => election = "ended"

\* A process whose circuit is open is not in an election: it never comes to lead
\* again in the time the breaker's goroutine takes to end it (Start).
TrippedStaysOut == state = "open" => election = "ended"

\* The breaker counts lost terms of leadership: a standby never trips it, not
\* even one that is told to stop (ReportStopped, RecordFailure).
StandbyNeverTrips ==
    state # "closed" => \E lost \in SUBSET Terms :
                           /\ Cardinality(lost) >= Threshold
                           /\ \A t \in lost : term[t] # "none"

\* When callbacks run before the lease next changes and none is running, the flag
\* and the gauge say whether the process leads (OnStartedLeading,
\* OnStoppedLeading, OnNewLeader and Start all write them).
StatusTellsLeader ==
    prompt /\ CallbacksAtRest /\ election \in {"acquiring", "leading", "ended"} =>
        isLeader = (election = "leading") /\ gauge = (election = "leading")

\* An election that ended is followed by another, or by the end of the process:
\* no error is lost on its way to Start, and no restart starts dead.
ElectionResumes ==
    election = "ended" ~> election = "acquiring" \/ supervisor = "down"

\* However often leadership is won and lost, the wait before the next election
\* stays at the one of a first failure, 2.4 s with its jitter: each term won
\* starts the count anew, so the "exponential backoff for restart delay" of Start
\* never grows while callbacks run on time (RecordSuccess in OnStartedLeading).
BackoffStartsOver ==
    prompt /\ supervisor = "backoff" => \A d \in GetBackoffDuration : d <= 24

\* The goroutine of a term ends after the term, unless the first list of its
\* informer never succeeds (watchNodes waits for that first, and only then for
\* the context of the term).
TermsEnd ==
    \A t \in Terms :
        \/ Over(t) ~> term[t] \in {"none", "done"}
        \/ <>[](term[t] = "syncing")

\* client.go:542, "Node informer stopped", when a term is over: while another
\* replica holds the lease and no term is in progress, no informer runs.
OnlyLeaderWatches ==
    /\ lease = "other" /\ election = "acquiring"
    /\ \A t \in Terms : term[t] \in {"none", "done"}
    => informers = {}
=============================================================================
