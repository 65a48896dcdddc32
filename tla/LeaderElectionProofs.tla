------------------------ MODULE LeaderElectionProofs ------------------------
(***************************************************************************)
(* Proofs about LeaderElection for any threshold, window, cooldown and     *)
(* number of terms: one election at a time, none once the breaker has      *)
(* tripped, a status that tells who leads, a breaker that counts lost      *)
(* terms only, and a delay that never grows.                               *)
(***************************************************************************)
EXTENDS LeaderElection, TimesAndDelaysProofs

Time == 0 .. MaxTime

\* Start deals with the end of an election.
Dealing == supervisor \in {"failed", "recorded", "backoff"}

\* The inductive form of OneElectionAtATime and TrippedStaysOut: an error in the
\* channel, like an error being dealt with, means that the election is over, and
\* the circuit opens between RecordFailure and the question that follows it.
OneElection ==
    /\ supervisor \in {"down", "select", "failed", "recorded", "backoff", "exiting"}
    /\ supervisor = "down" => election = "none" /\ state # "open"
    /\ errCh => election = "ended" /\ supervisor \in {"select", "exiting"}
    /\ Dealing => election = "ended" /\ ~errCh
    /\ state = "open" => election = "ended" /\ supervisor \in {"recorded", "exiting"}

LEMMA OneElectionInit == Init => OneElection
  BY DEF Init, TrackerInit, OneElection, Dealing

\* Only the supervisor takes an election out of "ended", and never with an open
\* circuit.
LEMMA OneElectionNext == OneElection /\ [Next]_vars => OneElection'
<1> SUFFICES ASSUME OneElection, [Next]_vars PROVE OneElection'
  OBVIOUS
<1> USE DEF OneElection, Dealing
<1>1. CASE Lease
  BY <1>1 DEF Lease, trackerVars, startVars
<1>2. CASE Elect
  BY <1>2 DEF Elect, Acquire, SeeOther, GiveUp, StopAcquiring, trackerVars
<1>3. CASE OnStoppedLeading
  <2>1. CASE ClearFlag \/ ClearGauge
    BY <1>3, <2>1 DEF OnStoppedLeading, ClearFlag, ClearGauge, trackerVars
  <2>2. CASE ReportStopped
    BY <1>3, <2>2 DEF OnStoppedLeading, ReportStopped, trackerVars
  <2> QED
    BY <1>3, <2>1, <2>2 DEF OnStoppedLeading
<1>4. CASE OnNewLeader
  BY <1>4 DEF OnNewLeader, trackerVars, electionVars, startVars
<1>5. CASE Start
  <2>1. CASE ReceiveError
    BY <1>5, <2>1 DEF Start, ReceiveError, trackerVars
  <2>2. CASE RecordLoss
    BY <1>5, <2>2 DEF Start, RecordLoss, RecordFailure
  <2>3. CASE CheckCircuit
    BY <1>5, <2>3 DEF Start, CheckCircuit, IsCircuitOpen
  <2>4. CASE RestartElection
    BY <1>5, <2>4 DEF Start, RestartElection, trackerVars
  <2>5. CASE ReturnFromStart
    BY <1>5, <2>5 DEF Start, ReturnFromStart, trackerVars
  <2> QED
    BY <1>5, <2>1, <2>2, <2>3, <2>4, <2>5 DEF Start
<1>6. CASE Shutdown
  BY <1>6 DEF Shutdown, trackerVars, electionVars
<1>7. CASE Exit
  BY <1>7 DEF Exit, TrackerReset
<1>8. CASE StartProcess
  BY <1>8 DEF StartProcess, trackerVars
<1>9. CASE Wait
  BY <1>9 DEF Wait, trackerVars, electionVars, startVars
<1>10. CASE \E t \in Terms : OnStartedLeading(t)
  <2> PICK t \in Terms : OnStartedLeading(t)
    BY <1>10
  <2>1. CASE RecordTerm(t)
    BY <2>1 DEF OnStartedLeading, RecordTerm, RecordSuccess, electionVars, startVars
  <2>2. CASE SetFlag(t) \/ SetGauge(t) \/ WatchNodes(t) \/ SyncCache(t) \/ StopWatching(t)
    BY <2>2 DEF OnStartedLeading, SetFlag, SetGauge, WatchNodes, SyncCache, StopWatching,
                trackerVars, electionVars, startVars
  <2> QED
    BY <2>1, <2>2 DEF OnStartedLeading, CallbackStep
<1>11. CASE UNCHANGED vars
  BY <1>11 DEF vars, trackerVars, electionVars, startVars
<1> QED
  BY <1>1, <1>2, <1>3, <1>4, <1>5, <1>6, <1>7, <1>8, <1>9, <1>10, <1>11 DEF Next

\* A process has one election at a time: while Start deals with the end of one,
\* from the error it receives to the restart, that one is over (Start,
\* OnStoppedLeading).
THEOREM ElectionsDoNotOverlap == Spec => []OneElectionAtATime
<1>1. OneElection => OneElectionAtATime
  BY DEF OneElection, Dealing, OneElectionAtATime
<1> QED
  BY OneElectionInit, OneElectionNext, <1>1, PTL DEF Spec

\* A process whose circuit is open is in no election, however long the breaker's
\* goroutine takes to end it (RecordFailure, IsCircuitOpen, Start).
THEOREM NoElectionAfterTrip == Spec => []TrippedStaysOut
<1>1. OneElection => TrippedStaysOut
  BY DEF OneElection, TrippedStaysOut
<1> QED
  BY OneElectionInit, OneElectionNext, <1>1, PTL DEF Spec

-----------------------------------------------------------------------------
(* The status that the callbacks and Start write. *)

ControlTypes ==
    /\ election \in {"none", "acquiring", "leading", "stopped", "unflagged",
                     "unmetered", "ended"}
    /\ term \in [Terms -> {"none", "started", "flagged", "metered", "recorded",
                           "syncing", "watching", "done"}]
    /\ notice \in [step: {"none", "started", "flagged", "read"}, value: BOOLEAN]
    /\ isLeader \in BOOLEAN

\* OnStartedLeading of term t has writes of its own to make.
InProgress(t) == term[t] \in {"started", "flagged", "metered", "recorded"}

\* Who may still write what.  Callbacks of a term are in progress only while the
\* process leads, and those of one term only; OnNewLeader only while another
\* leads; so each finds the status as it should leave it.
StatusInOrder ==
    /\ \A t \in Terms : InProgress(t) => election = "leading"
    /\ \A t, u \in Terms : InProgress(t) /\ InProgress(u) => t = u
    /\ election = "leading" =>
          /\ notice.step = "none"
          /\ isLeader = TRUE \/ \E t \in Terms : term[t] = "started"
          /\ gauge = TRUE \/ \E t \in Terms : term[t] \in {"started", "flagged"}
    /\ notice.step # "none" => lease = "other" /\ isLeader = FALSE /\ gauge = FALSE
    /\ notice.step = "read" => notice.value = FALSE
    /\ election \in {"none", "acquiring", "unmetered", "ended"} =>
          isLeader = FALSE /\ gauge = FALSE
    /\ election = "unflagged" => isLeader = FALSE

StatusInv == OneElection /\ ControlTypes /\ (prompt => StatusInOrder)

LEMMA StatusInit == Init => StatusInv
<1> SUFFICES ASSUME Init PROVE ControlTypes /\ StatusInOrder
  BY OneElectionInit DEF StatusInv
<1> QED
  BY DEF Init, NoNotice, ControlTypes, StatusInOrder, InProgress

\* Every step keeps the places of the goroutines in their sets.
LEMMA ControlTypesNext == ControlTypes /\ [Next]_vars => ControlTypes'
<1> SUFFICES ASSUME ControlTypes, [Next]_vars PROVE ControlTypes'
  OBVIOUS
<1> USE DEF ControlTypes
<1>1. CASE Lease \/ Shutdown \/ StartProcess \/ Wait
  BY <1>1 DEF Lease, Shutdown, StartProcess, Wait, electionVars, callbackVars
<1>2. CASE Elect
  BY <1>2 DEF Elect, Acquire, SeeOther, GiveUp, StopAcquiring, NoNotice
<1>3. CASE OnStoppedLeading
  BY <1>3 DEF OnStoppedLeading, ClearFlag, ClearGauge, ReportStopped
<1>4. CASE OnNewLeader
  <2>1. CASE NoticeFlag
    BY <1>4, <2>1 DEF OnNewLeader, NoticeFlag, electionVars
  <2>2. CASE NoticeRead
    BY <1>4, <2>2 DEF OnNewLeader, NoticeRead, electionVars
  <2>3. CASE NoticeGauge
    BY <1>4, <2>3 DEF OnNewLeader, NoticeGauge, NoNotice, electionVars
  <2> QED
    BY <1>4, <2>1, <2>2, <2>3 DEF OnNewLeader
<1>5. CASE Start
  BY <1>5 DEF Start, ReceiveError, RecordLoss, CheckCircuit, RestartElection,
              ReturnFromStart
<1>6. CASE Exit
  BY <1>6 DEF Exit, NoNotice
<1>7. CASE \E t \in Terms : OnStartedLeading(t)
  BY <1>7 DEF OnStartedLeading, CallbackStep, SetFlag, SetGauge, RecordTerm,
              WatchNodes, SyncCache, StopWatching, MoveTo, electionVars
<1>8. CASE UNCHANGED vars
  BY <1>8 DEF vars, electionVars, callbackVars
<1> QED
  BY <1>1, <1>2, <1>3, <1>4, <1>5, <1>6, <1>7, <1>8 DEF Next

\* Who may write the status stays in order over every step: callbacks of a term end
\* before the election does, and those of OnNewLeader before the other releases.
LEMMA StatusInOrderNext ==
  ASSUME OneElection, ControlTypes, StatusInOrder, prompt, [Next]_vars
  PROVE  StatusInOrder'
<1> USE DEF StatusInOrder, InProgress
<1>1. CASE Lease
  <2>1. CASE OtherAcquires
    BY <1>1, <2>1 DEF Lease, OtherAcquires, callbackVars
  <2>2. CASE OtherReleases
    BY <1>1, <2>2 DEF Lease, OtherReleases, OnTime, CallbacksAtRest, callbackVars
  <2>3. CASE LeaseExpires
    BY <1>1, <2>3 DEF Lease, LeaseExpires, callbackVars
  <2> QED
    BY <1>1, <2>1, <2>2, <2>3 DEF Lease
<1>2. CASE Elect
  <2>1. CASE Acquire
    BY <1>2, <2>1 DEF Elect, Acquire, ControlTypes
  <2>2. CASE SeeOther
    BY <1>2, <2>2 DEF Elect, SeeOther, NoNotice
  <2>3. CASE GiveUp
    BY <1>2, <2>3 DEF Elect, GiveUp, OnTime, CallbacksAtRest
  <2>4. CASE StopAcquiring
    BY <1>2, <2>4 DEF Elect, StopAcquiring
  <2> QED
    BY <1>2, <2>1, <2>2, <2>3, <2>4 DEF Elect
<1>3. CASE OnStoppedLeading
  BY <1>3 DEF OnStoppedLeading, ClearFlag, ClearGauge, ReportStopped
<1>4. CASE OnNewLeader
  <2>1. CASE NoticeFlag
    BY <1>4, <2>1 DEF OnNewLeader, NoticeFlag, electionVars, ControlTypes
  <2>2. CASE NoticeRead
    BY <1>4, <2>2 DEF OnNewLeader, NoticeRead, electionVars
  <2>3. CASE NoticeGauge
    BY <1>4, <2>3 DEF OnNewLeader, NoticeGauge, NoNotice, electionVars
  <2> QED
    BY <1>4, <2>1, <2>2, <2>3 DEF OnNewLeader
<1>5. CASE Start
  BY <1>5 DEF Start, ReceiveError, RecordLoss, CheckCircuit, RestartElection,
              ReturnFromStart, OneElection, Dealing
<1>6. CASE Exit
  BY <1>6 DEF Exit, NoNotice
<1>7. CASE Shutdown \/ Wait
  BY <1>7 DEF Shutdown, Wait, electionVars, callbackVars
<1>8. CASE StartProcess
  BY <1>8 DEF StartProcess, callbackVars, OneElection
<1>9. CASE \E t \in Terms : OnStartedLeading(t)
  <2> PICK t \in Terms : OnStartedLeading(t)
    BY <1>9
  <2> USE DEF OnStartedLeading, MoveTo, electionVars, ControlTypes
  <2>1. CASE SetFlag(t)
    BY <2>1 DEF SetFlag
  <2>2. CASE SetGauge(t)
    BY <2>2 DEF SetGauge
  <2>3. CASE RecordTerm(t)
    BY <2>3 DEF RecordTerm
  <2>4. CASE WatchNodes(t)
    BY <2>4 DEF WatchNodes
  <2>5. CASE SyncCache(t)
    BY <2>5 DEF SyncCache
  <2>6. CASE StopWatching(t)
    BY <2>6 DEF StopWatching
  <2> QED
    BY <2>1, <2>2, <2>3, <2>4, <2>5, <2>6 DEF CallbackStep
<1>10. CASE UNCHANGED vars
  BY <1>10 DEF vars, electionVars, callbackVars
<1> QED
  BY <1>1, <1>2, <1>3, <1>4, <1>5, <1>6, <1>7, <1>8, <1>9, <1>10 DEF Next

LEMMA PromptConstant == [Next]_vars => prompt' = prompt
  BY DEF Next, OnStoppedLeading, OnNewLeader, Start, Exit, OnStartedLeading, vars

\* While callbacks run before the lease next changes, and none is running, the flag
\* and the gauge say whether the process leads: every write of OnStartedLeading,
\* OnStoppedLeading, OnNewLeader and Start finds the status as it leaves it.
THEOREM StatusIsTrue == Spec => []StatusTellsLeader
<1>1. StatusInv /\ [Next]_vars => StatusInv'
  BY OneElectionNext, ControlTypesNext, StatusInOrderNext, PromptConstant DEF StatusInv
<1>2. StatusInv => StatusTellsLeader
  BY DEF StatusInv, StatusInOrder, ControlTypes, CallbacksAtRest, StatusTellsLeader
<1> QED
  BY StatusInit, <1>1, <1>2, PTL DEF Spec

-----------------------------------------------------------------------------
(* The failures that the tracker counts. *)

Won == {t \in Terms : term[t] # "none"}

\* A term that was won is being lost, or its loss is not recorded yet.
Unrecorded ==
    \/ election = "leading"
    \/ election \in {"stopped", "unflagged", "unmetered"} /\ ~cancelled
    \/ errCh
    \/ supervisor = "failed"

Pending == IF Unrecorded THEN 1 ELSE 0

\* The types that no control depends on, but for the tracker's two counters.
PlainTypes ==
    /\ now \in Time /\ failures \in Seq(Time) /\ trippedAt \in Time
    /\ state \in {"closed", "open", "half-open"} /\ retryCount \in Nat
    /\ exiting \in BOOLEAN
    /\ lease \in {"self", "other", "free"}
    /\ observed \in {"none", "self", "other"}
    /\ errCh \in BOOLEAN /\ stopping \in BOOLEAN /\ cancelled \in BOOLEAN
    /\ gauge \in BOOLEAN
    /\ informers \subseteq Terms
    /\ prompt \in BOOLEAN

\* Each failure has a term of its own, the one being lost included.  No election is
\* cancelled but by the end of the process, so one that never led reports no failure.
LossesCounted ==
    /\ Len(failures) + Pending <= Cardinality(Won)
    /\ retryCount + Pending <= Cardinality(Won)
    /\ state # "closed" => Cardinality(Won) >= Threshold
    /\ cancelled = stopping

LossInv == OneElection /\ ControlTypes /\ PlainTypes /\ LossesCounted

LEMMA WonFinite ==
  /\ IsFiniteSet(Won) /\ Cardinality(Won) \in Nat /\ Cardinality(Won) <= MaxTerms
<1>1. IsFiniteSet(Terms) /\ Cardinality(Terms) = MaxTerms
  BY TermsAssumption, FS_Interval DEF Terms
<1>2. Won \subseteq Terms
  BY DEF Won
<1> QED
  BY <1>1, <1>2, FS_Subset, FS_CardinalityType

LEMMA LossInit == Init => LossInv
<1> SUFFICES ASSUME Init PROVE LossInv
  OBVIOUS
<1>1. OneElection /\ ControlTypes
  BY OneElectionInit, StatusInit DEF StatusInv
<1>2. <<>> \in Seq(Time) /\ Len(<<>>) = 0
  OBVIOUS
<1>3. 0 \in Time
  BY TrackerAssumption DEF Time
<1>4. PlainTypes
  <2>1. failures \in Seq(Time)
    BY <1>2, Zenon DEF Init, TrackerInit
  <2>2. now \in Time /\ trippedAt \in Time /\ retryCount \in Nat
    BY <1>3 DEF Init, TrackerInit
  <2> QED
    BY <2>1, <2>2 DEF Init, TrackerInit, PlainTypes
<1>5. Won = {}
  BY DEF Init, Won
<1>6. Cardinality(Won) = 0
  BY <1>5, FS_EmptySet
<1>7. Pending = 0
  BY DEF Init, Pending, Unrecorded
<1>8. LossesCounted
  <2>1. Len(failures) = 0
    BY <1>2, Zenon DEF Init, TrackerInit
  <2>2. retryCount = 0 /\ state = "closed" /\ cancelled = stopping
    BY DEF Init, TrackerInit
  <2> QED
    BY <1>6, <1>7, <2>1, <2>2 DEF LossesCounted
<1> QED
  BY <1>1, <1>4, <1>8 DEF LossInv

\* What RecordFailure makes of the list of failures.
LEMMA RecordedFailures ==
  ASSUME PlainTypes, RecordFailure
  PROVE  failures' \in Seq(Time) /\ Len(failures') <= Len(failures) + 1
<1>1. failures \in Seq(Time) /\ now \in Time
  BY DEF PlainTypes
<1>2. Append(failures, now) \in Seq(Time) /\ Len(Append(failures, now)) = Len(failures) + 1
  BY <1>1
<1>3. failures' = Recent(Append(failures, now))
  BY DEF RecordFailure
<1> QED
  <2>1. Time \in SUBSET Int /\ now - Window \in Int
    BY <1>1, TrackerAssumption DEF Time
  <2> QED
    BY <1>2, <1>3, <2>1, TimesAfterKeeps DEF Recent

LEMMA PlainTypesNext == PlainTypes /\ ControlTypes /\ [Next]_vars => PlainTypes'
<1> SUFFICES ASSUME PlainTypes, ControlTypes, [Next]_vars PROVE PlainTypes'
  OBVIOUS
<1> USE DEF PlainTypes
<1>1. <<>> \in Seq(Time)
  OBVIOUS
<1>2. 0 \in Time
  BY TrackerAssumption DEF Time
<1>3. prompt' \in BOOLEAN
  BY PromptConstant
<1>4. CASE Lease
  BY <1>3, <1>4 DEF Lease, OtherAcquires, OtherReleases, LeaseExpires, trackerVars,
                    callbackVars, startVars
<1>5. CASE Elect
  BY <1>3, <1>5 DEF Elect, Acquire, SeeOther, GiveUp, StopAcquiring, trackerVars
<1>6. CASE OnStoppedLeading
  <2>1. UNCHANGED <<now, trackerVars, lease, observed, informers, stopping, cancelled>>
    BY <1>6 DEF OnStoppedLeading
  <2>2. errCh' \in BOOLEAN /\ gauge' \in BOOLEAN
    BY <1>6, Zenon DEF OnStoppedLeading, ClearFlag, ClearGauge, ReportStopped
  <2> QED
    BY <1>3, <2>1, <2>2 DEF trackerVars
<1>7. CASE Shutdown \/ StartProcess
  BY <1>3, <1>7 DEF Shutdown, StartProcess, trackerVars, electionVars, callbackVars
<1>8. CASE Wait
  <2>1. now' \in Time
    BY <1>8, TrackerAssumption DEF Wait, Tick, Time
  <2>2. UNCHANGED <<trackerVars, electionVars, callbackVars, startVars>>
    BY <1>8 DEF Wait
  <2> QED
    BY <1>3, <2>1, <2>2 DEF trackerVars, electionVars, callbackVars, startVars
<1>9. CASE OnNewLeader
  <2>1. UNCHANGED <<now, trackerVars, electionVars, informers, startVars>>
    BY <1>9 DEF OnNewLeader
  <2>2. gauge' \in BOOLEAN
    BY <1>9 DEF OnNewLeader, NoticeFlag, NoticeRead, NoticeGauge, ControlTypes
  <2> QED
    BY <1>3, <2>1, <2>2 DEF trackerVars, electionVars, startVars
<1>10. CASE Start
  <2>1. UNCHANGED <<now, lease, informers, stopping>>
    BY <1>10 DEF Start
  <2>2. CASE ReceiveError \/ RestartElection \/ ReturnFromStart
    BY <1>3, <2>1, <2>2 DEF ReceiveError, RestartElection, ReturnFromStart, trackerVars
  <2>3. CASE RecordLoss
    <3>1. failures' \in Seq(Time)
      BY <2>3, RecordedFailures DEF RecordLoss
    <3>2. trippedAt' \in Time /\ state' \in {"closed", "open", "half-open"} /\ retryCount' \in Nat
      BY <2>3 DEF RecordLoss, RecordFailure
    <3>3. exiting' \in BOOLEAN
      BY <2>3, Zenon DEF RecordLoss, RecordFailure
    <3>4. UNCHANGED <<observed, errCh, cancelled, gauge>>
      BY <2>3 DEF RecordLoss
    <3> QED
      BY <1>3, <2>1, <3>1, <3>2, <3>3, <3>4
  <2>4. CASE CheckCircuit
    BY <1>3, <2>1, <2>4 DEF CheckCircuit, IsCircuitOpen
  <2> QED
    BY <1>10, <2>2, <2>3, <2>4 DEF Start
<1>11. CASE Exit
  <2>1. failures' \in Seq(Time)
    BY <1>1, <1>11, Zenon DEF Exit, TrackerReset
  <2>2. trippedAt' \in Time /\ state' \in {"closed", "open", "half-open"} /\ retryCount' \in Nat
    BY <1>2, <1>11 DEF Exit, TrackerReset
  <2>3. exiting' = FALSE /\ observed' = "none" /\ UNCHANGED <<now, lease>>
        /\ errCh' = FALSE /\ stopping' = FALSE /\ cancelled' = FALSE
        /\ gauge' = FALSE /\ informers' = {}
    BY <1>11 DEF Exit, TrackerReset
  <2> QED
    BY <1>3, <2>1, <2>2, <2>3
<1>12. CASE \E t \in Terms : OnStartedLeading(t)
  <2> PICK t \in Terms : OnStartedLeading(t)
    BY <1>12
  <2>1. UNCHANGED <<now, electionVars, startVars>>
    BY DEF OnStartedLeading
  <2>2. CASE RecordTerm(t)
    <3>1. failures' \in Seq(Time)
      BY <1>1, <2>2, Zenon DEF RecordTerm, RecordSuccess
    <3>2. state' \in {"closed", "open", "half-open"} /\ retryCount' \in Nat
      BY <2>2 DEF RecordTerm, RecordSuccess
    <3>3. UNCHANGED <<trippedAt, exiting, gauge, informers>>
      BY <2>2 DEF RecordTerm, RecordSuccess
    <3> QED
      BY <1>3, <2>1, <3>1, <3>2, <3>3 DEF electionVars, startVars
  <2>3. CASE SetFlag(t) \/ SetGauge(t) \/ WatchNodes(t) \/ SyncCache(t) \/ StopWatching(t)
    BY <1>3, <2>1, <2>3 DEF SetFlag, SetGauge, WatchNodes, SyncCache, StopWatching,
                            trackerVars, electionVars, startVars
  <2> QED
    BY <2>2, <2>3 DEF OnStartedLeading, CallbackStep
<1>13. CASE UNCHANGED vars
  BY <1>13 DEF vars, trackerVars, electionVars, callbackVars, startVars
<1> QED
  BY <1>4, <1>5, <1>6, <1>7, <1>8, <1>9, <1>10, <1>11, <1>12, <1>13 DEF Next

\* A step that wins no term and records nothing keeps the count, if it does not make up
\* a loss.
LEMMA CountKept ==
  ASSUME PlainTypes, LossesCounted, UNCHANGED <<failures, retryCount>>, Won' = Won,
         Unrecorded' => Unrecorded, state' = "closed" <=> state = "closed",
         cancelled' = stopping'
  PROVE  LossesCounted'
<1>1. Pending \in 0 .. 1 /\ Pending' \in 0 .. 1 /\ Pending' <= Pending
  BY DEF Pending
<1>2. Len(failures) \in Nat /\ retryCount \in Nat
  BY DEF PlainTypes
<1> QED
  BY <1>1, <1>2, WonFinite DEF LossesCounted

LEMMA LossesCountedNext ==
  ASSUME OneElection, ControlTypes, PlainTypes, LossesCounted, [Next]_vars
  PROVE  LossesCounted'
<1>1. Len(failures) \in Nat /\ retryCount \in Nat /\ cancelled = stopping
  BY DEF PlainTypes, LossesCounted
<1> USE DEF Unrecorded, Won
<1>2. CASE Lease
  BY <1>1, <1>2, CountKept DEF Lease, trackerVars, callbackVars, startVars
<1>3. CASE Elect
  <2>1. UNCHANGED <<failures, retryCount, state, cancelled, stopping, supervisor, errCh>>
    BY <1>3 DEF Elect, Acquire, SeeOther, GiveUp, StopAcquiring, trackerVars
  <2>2. CASE Acquire
    <3>1. PICK t \in Terms : /\ \A u \in Terms : term[u] = "none" <=> u >= t
                            /\ term' = [term EXCEPT ![t] = "started"]
      BY <2>2 DEF Acquire
    <3>2. t \notin Won /\ Won' = Won \cup {t}
      BY <3>1, TermsAssumption DEF ControlTypes, Terms
    <3>3. Cardinality(Won') = Cardinality(Won) + 1
      BY <3>2, WonFinite, FS_AddElement
    <3>4. ~Unrecorded
      BY <2>2 DEF Acquire, OneElection, Dealing
    <3>5. Pending = 0 /\ Pending' \in {0, 1}
      BY <3>4 DEF Pending
    <3> QED
      BY <1>1, <2>1, <3>3, <3>5, WonFinite, TrackerAssumption DEF LossesCounted
  <2>3. CASE SeeOther \/ GiveUp \/ StopAcquiring
    BY <1>1, <2>1, <2>3, CountKept DEF SeeOther, GiveUp, StopAcquiring
  <2> QED
    BY <1>3, <2>2, <2>3 DEF Elect
<1>4. CASE OnStoppedLeading
  <2>1. UNCHANGED <<failures, retryCount, state, term, cancelled, stopping, supervisor>>
    BY <1>4 DEF OnStoppedLeading, trackerVars
  <2>2. CASE ClearFlag \/ ClearGauge
    BY <1>1, <2>1, <2>2, CountKept DEF ClearFlag, ClearGauge
  <2>3. CASE ReportStopped
    <3>1. election = "unmetered" /\ election' = "ended" /\ (errCh' => errCh \/ ~cancelled)
      BY <2>3, Zenon DEF ReportStopped
    <3> QED
      BY <1>1, <2>1, <3>1, CountKept
  <2> QED
    BY <1>4, <2>2, <2>3 DEF OnStoppedLeading
<1>5. CASE OnNewLeader
  BY <1>1, <1>5, CountKept DEF OnNewLeader, trackerVars, electionVars, startVars
<1>6. CASE Start
  <2>1. Won' = Won /\ stopping' = stopping
    BY <1>6 DEF Start
  <2>2. CASE ReceiveError
    BY <1>1, <2>1, <2>2, CountKept DEF ReceiveError, trackerVars
  <2>3. CASE RecordLoss
    <3>1. Unrecorded /\ ~Unrecorded'
      BY <2>3 DEF RecordLoss, OneElection, Dealing
    <3>2. Pending = 1 /\ Pending' = 0
      BY <3>1, Zenon DEF Pending
    <3>3. Len(failures') <= Len(failures) + 1 /\ Len(failures') \in Nat
      BY <2>3, RecordedFailures DEF RecordLoss
    <3>4. retryCount' \in {retryCount, retryCount + 1}
      BY <2>3 DEF RecordLoss, RecordFailure
    <3>5. state' # "closed" => state # "closed" \/ Len(failures') >= Threshold
      BY <2>3 DEF RecordLoss, RecordFailure
    <3>6. cancelled' = stopping'
      BY <1>1, <2>1, <2>3 DEF RecordLoss
    <3> HIDE DEF Won, Unrecorded
    <3>7. Cardinality(Won') = Cardinality(Won)
      BY <2>1
    <3> QED
      BY <1>1, <3>2, <3>3, <3>4, <3>5, <3>6, <3>7, WonFinite, TrackerAssumption
         DEF LossesCounted
  <2>4. CASE CheckCircuit
    BY <1>1, <2>1, <2>4, CountKept DEF CheckCircuit, IsCircuitOpen
  <2>5. CASE RestartElection
    BY <1>1, <2>1, <2>5, CountKept DEF RestartElection, trackerVars
  <2>6. CASE ReturnFromStart
    BY <1>1, <2>1, <2>6, CountKept DEF ReturnFromStart, trackerVars
  <2> QED
    BY <1>6, <2>2, <2>3, <2>4, <2>5, <2>6 DEF Start
<1>7. CASE Shutdown
  BY <1>1, <1>7, CountKept DEF Shutdown, trackerVars, electionVars, callbackVars
<1>8. CASE Exit
  <2>1. Won' = {}
    BY <1>8 DEF Exit
  <2>2. ~Unrecorded'
    BY <1>8 DEF Exit
  <2>3. failures' = <<>> /\ retryCount' = 0 /\ state' = "closed" /\ cancelled' = stopping'
    BY <1>8 DEF Exit, TrackerReset
  <2> HIDE DEF Won, Unrecorded
  <2>4. Cardinality(Won') = 0 /\ Pending' = 0
    BY <2>1, <2>2, FS_EmptySet DEF Pending
  <2>5. Len(<<>>) = 0
    OBVIOUS
  <2>6. Len(failures') = 0
    BY <2>3, <2>5, Zenon
  <2>7. retryCount' = 0 /\ state' = "closed" /\ cancelled' = stopping'
    BY <2>3
  <2> QED
    BY <2>4, <2>6, <2>7 DEF LossesCounted
<1>9. CASE StartProcess
  BY <1>1, <1>9, CountKept DEF StartProcess, trackerVars, callbackVars
<1>10. CASE Wait
  BY <1>1, <1>10, CountKept DEF Wait, trackerVars, electionVars, callbackVars, startVars
<1>11. CASE \E t \in Terms : OnStartedLeading(t)
  <2> PICK t \in Terms : OnStartedLeading(t)
    BY <1>11
  <2>1. UNCHANGED <<election, cancelled, stopping, errCh, supervisor>>
    BY DEF OnStartedLeading, electionVars, startVars
  <2>2. Won' = Won
    BY DEF OnStartedLeading, CallbackStep, SetFlag, SetGauge, RecordTerm, WatchNodes,
           SyncCache, StopWatching, MoveTo, ControlTypes
  <2>3. CASE RecordTerm(t)
    <3>1. failures' \in {<<>>, failures} /\ retryCount' = 0
      BY <2>3 DEF RecordTerm, RecordSuccess
    <3>2. state' # "closed" => state # "closed"
      BY <2>3 DEF RecordTerm, RecordSuccess
    <3>3. Len(<<>>) = 0
      OBVIOUS
    <3>4. Len(failures') = 0 \/ Len(failures') = Len(failures)
      BY <3>1, <3>3
    <3>5. Pending' = Pending /\ Pending \in 0 .. 1
      BY <2>1 DEF Pending
    <3> HIDE DEF Won, Unrecorded
    <3>6. Cardinality(Won') = Cardinality(Won)
      BY <2>2
    <3> QED
      BY <1>1, <2>1, <3>1, <3>2, <3>4, <3>5, <3>6, WonFinite DEF LossesCounted
  <2>4. CASE SetFlag(t) \/ SetGauge(t) \/ WatchNodes(t) \/ SyncCache(t) \/ StopWatching(t)
    BY <1>1, <2>1, <2>2, <2>4, CountKept DEF SetFlag, SetGauge, WatchNodes, SyncCache,
                                             StopWatching, trackerVars
  <2> QED
    BY <2>3, <2>4 DEF OnStartedLeading, CallbackStep
<1>12. CASE UNCHANGED vars
  BY <1>1, <1>12, CountKept DEF vars, trackerVars, electionVars, callbackVars, startVars
<1> QED
  BY <1>2, <1>3, <1>4, <1>5, <1>6, <1>7, <1>8, <1>9, <1>10, <1>11, <1>12 DEF Next

LEMMA LossNext == LossInv /\ [Next]_vars => LossInv'
  BY OneElectionNext, ControlTypesNext, PlainTypesNext, LossesCountedNext DEF LossInv

\* The types of the whole process.  The tracker's two counters stay inside their bound
\* because each failure is the end of a term (RecordFailure, RecordSuccess, Start).
THEOREM TypeCorrect == Spec => []TypeOK
<1>1. ASSUME LossInv PROVE TypeOK
  <2>1. Len(failures) \in Nat /\ Len(failures) <= MaxRecords /\ retryCount \in 0 .. MaxRecords
    <3>1. Len(failures) \in Nat /\ retryCount \in Nat /\ Pending \in 0 .. 1
      BY <1>1 DEF LossInv, PlainTypes, Pending
    <3> QED
      BY <1>1, <3>1, WonFinite, TermsAssumption, TrackerAssumption DEF LossInv, LossesCounted
  <2>2. TrackerTypeOK
    BY <1>1, <2>1 DEF LossInv, PlainTypes, TrackerTypeOK, Time
  <2>3. supervisor \in {"down", "select", "failed", "recorded", "backoff", "exiting"}
    BY <1>1 DEF LossInv, OneElection
  <2> QED
    BY <1>1, <2>2, <2>3 DEF LossInv, PlainTypes, ControlTypes, TypeOK
<1> QED
  BY LossInit, LossNext, <1>1, PTL DEF Spec

\* The breaker counts lost terms: where it is not closed, at least the threshold of terms
\* have been won, so a standby never trips it (ReportStopped, RecordFailure).
THEOREM OnlyLossesTrip == Spec => []StandbyNeverTrips
<1>1. ASSUME LossInv PROVE StandbyNeverTrips
  <2>1. state # "closed" => Cardinality(Won) >= Threshold
    BY <1>1 DEF LossInv, LossesCounted
  <2>2. Won \in SUBSET Terms /\ \A t \in Won : term[t] # "none"
    BY DEF Won
  <2> QED
    BY <2>1, <2>2 DEF StandbyNeverTrips
<1> QED
  BY LossInit, LossNext, <1>1, PTL DEF Spec

-----------------------------------------------------------------------------
(* The delay between elections. *)

\* The inductive form of BackoffStartsOver: from the moment OnStartedLeading has recorded
\* the term until its loss is recorded, the count is zero.  Callbacks that run on time
\* see to it that no term ends before.
CountStartsOver ==
    /\ election = "leading" /\ (\A t \in Terms : term[t] \notin {"started", "flagged", "metered"})
          => retryCount = 0
    /\ election \in {"stopped", "unflagged", "unmetered"} /\ ~cancelled => retryCount = 0
    /\ errCh \/ supervisor = "failed" => retryCount = 0
    /\ supervisor \in {"recorded", "backoff"} => retryCount \in {0, 1}

LEMMA CountStartsOverNext ==
  ASSUME OneElection, ControlTypes, CountStartsOver, prompt, [Next]_vars
  PROVE  CountStartsOver'
<1> USE DEF CountStartsOver
<1>1. CASE Lease
  BY <1>1 DEF Lease, trackerVars, callbackVars, startVars
<1>2. CASE Elect
  <2>1. UNCHANGED <<retryCount, supervisor, errCh, cancelled>>
    BY <1>2 DEF Elect, Acquire, SeeOther, GiveUp, StopAcquiring, trackerVars
  <2>2. CASE Acquire
    BY <2>1, <2>2 DEF Acquire, OneElection, Dealing, ControlTypes
  <2>3. CASE SeeOther \/ StopAcquiring
    BY <2>1, <2>3 DEF SeeOther, StopAcquiring
  <2>4. CASE GiveUp
    BY <2>1, <2>4 DEF GiveUp, OnTime, CallbacksAtRest
  <2> QED
    BY <1>2, <2>2, <2>3, <2>4 DEF Elect
<1>3. CASE OnStoppedLeading
  <2>1. UNCHANGED <<retryCount, term, cancelled, supervisor>>
    BY <1>3 DEF OnStoppedLeading, trackerVars
  <2>2. CASE ClearFlag \/ ClearGauge
    BY <2>1, <2>2 DEF ClearFlag, ClearGauge
  <2>3. CASE ReportStopped
    <3>1. election = "unmetered" /\ election' = "ended" /\ (errCh' => errCh \/ ~cancelled)
      BY <2>3, Zenon DEF ReportStopped
    <3> QED
      BY <2>1, <3>1
  <2> QED
    BY <1>3, <2>2, <2>3 DEF OnStoppedLeading
<1>4. CASE OnNewLeader
  BY <1>4 DEF OnNewLeader, trackerVars, electionVars, startVars
<1>5. CASE Start
  <2>1. term' = term
    BY <1>5 DEF Start
  <2>2. CASE ReceiveError
    BY <2>1, <2>2 DEF ReceiveError, trackerVars
  <2>3. CASE RecordLoss
    BY <2>1, <2>3 DEF RecordLoss, RecordFailure, OneElection, Dealing
  <2>4. CASE CheckCircuit
    BY <2>1, <2>4 DEF CheckCircuit, IsCircuitOpen
  <2>5. CASE RestartElection
    BY <2>1, <2>5 DEF RestartElection, trackerVars
  <2>6. CASE ReturnFromStart
    BY <2>1, <2>6 DEF ReturnFromStart, trackerVars
  <2> QED
    BY <1>5, <2>2, <2>3, <2>4, <2>5, <2>6 DEF Start
<1>6. CASE Shutdown
  BY <1>6 DEF Shutdown, trackerVars, electionVars, callbackVars
<1>7. CASE Exit
  BY <1>7 DEF Exit, TrackerReset
<1>8. CASE StartProcess
  BY <1>8 DEF StartProcess, trackerVars, callbackVars
<1>9. CASE Wait
  BY <1>9 DEF Wait, trackerVars, electionVars, callbackVars, startVars
<1>10. CASE \E t \in Terms : OnStartedLeading(t)
  <2> PICK t \in Terms : OnStartedLeading(t)
    BY <1>10
  <2>1. UNCHANGED <<election, cancelled, errCh, supervisor>>
    BY DEF OnStartedLeading, electionVars, startVars
  <2>2. CASE RecordTerm(t)
    BY <2>1, <2>2 DEF RecordTerm, RecordSuccess
  <2>3. CASE SetFlag(t) \/ SetGauge(t)
    BY <2>1, <2>3 DEF SetFlag, SetGauge, MoveTo, ControlTypes, trackerVars
  <2>4. CASE WatchNodes(t) \/ SyncCache(t) \/ StopWatching(t)
    BY <2>1, <2>4 DEF WatchNodes, SyncCache, StopWatching, MoveTo, ControlTypes, trackerVars
  <2> QED
    BY <2>2, <2>3, <2>4 DEF OnStartedLeading, CallbackStep
<1>11. CASE UNCHANGED vars
  BY <1>11 DEF vars, trackerVars, electionVars, callbackVars, startVars
<1> QED
  BY <1>1, <1>2, <1>3, <1>4, <1>5, <1>6, <1>7, <1>8, <1>9, <1>10, <1>11 DEF Next

\* While callbacks run on time, every wait before a new election is that of a first
\* failure: however often leadership is lost, the delay of Start never grows.
THEOREM BackoffNeverGrows == Spec => []BackoffStartsOver
<1> DEFINE Inv == OneElection /\ ControlTypes /\ (prompt => CountStartsOver)
<1>1. Init => Inv
  <2> SUFFICES ASSUME Init PROVE Inv
    OBVIOUS
  <2>1. CountStartsOver
    BY DEF Init, TrackerInit, CountStartsOver
  <2> QED
    BY <2>1, OneElectionInit, StatusInit DEF StatusInv
<1>2. Inv /\ [Next]_vars => Inv'
  BY OneElectionNext, ControlTypesNext, CountStartsOverNext, PromptConstant
<1>3. Inv => BackoffStartsOver
  <2> SUFFICES ASSUME CountStartsOver, supervisor = "backoff", NEW d \in GetBackoffDuration
               PROVE  d <= 24
    BY DEF BackoffStartsOver
  <2>1. retryCount \in {0, 1}
    BY DEF CountStartsOver
  <2>2. Backoff \in {10, 20}
    <3>1. 0 \in Nat /\ 1 \in Nat /\ 10 \in Nat
      OBVIOUS
    <3>2. Doubled(10, 0) = 10 /\ Doubled(10, 1) = 2 * 10
      BY <3>1, DoubledTable
    <3> QED
      BY <2>1, <3>2 DEF Backoff, BackoffAfter, MinBackoff, MaxBackoff
  <2> QED
    BY <2>2 DEF GetBackoffDuration
<1> HIDE DEF Inv
<1> QED
  BY <1>1, <1>2, <1>3, PTL DEF Spec
=============================================================================
