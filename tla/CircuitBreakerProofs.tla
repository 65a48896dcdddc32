------------------------ MODULE CircuitBreakerProofs ------------------------
(***************************************************************************)
(* Proofs about CircuitBreaker for any threshold, window and cooldown: the *)
(* circuit trips when the window holds the threshold of failures and only  *)
(* then, and the delay between elections grows up to its cap.              *)
(***************************************************************************)
EXTENDS CircuitBreaker, TimesAndDelaysProofs

Time == 0 .. MaxTime

LEMMA TimeType == Time \in SUBSET Int
  BY TrackerAssumption DEF Time

\* What every step keeps of the types: each failure counted by retryCount, and each
\* one in the list, is in the history.
BreakerTypes ==
    /\ TypeOK
    /\ Len(history) <= MaxRecords
    /\ Len(failures) <= Len(history) /\ retryCount <= Len(history)

LEMMA TypesInit == Init => BreakerTypes
<1> SUFFICES ASSUME Init PROVE BreakerTypes
  OBVIOUS
<1>1. <<>> \in Seq(0 .. MaxTime) /\ Len(<<>>) = 0
  OBVIOUS
<1>2. 0 \in 0 .. MaxTime /\ 0 \in 0 .. MaxRecords /\ 0 <= MaxRecords
  BY TrackerAssumption
<1>3. now = 0 /\ retryCount = 0 /\ failures = <<>> /\ history = <<>> /\ trippedAt = 0
  BY DEF Init, TrackerInit
<1>4. state \in {"closed", "open", "half-open"} /\ exiting \in BOOLEAN
  BY DEF Init, TrackerInit
<1>5. /\ failures \in Seq(0 .. MaxTime) /\ history \in Seq(0 .. MaxTime)
      /\ Len(failures) = 0 /\ Len(history) = 0
  BY <1>1, <1>3, Zenon
<1>6. Len(failures) <= MaxRecords /\ Len(history) <= MaxRecords
      /\ Len(failures) <= Len(history) /\ retryCount <= Len(history)
  BY <1>2, <1>3, <1>5
<1> QED
  BY <1>2, <1>3, <1>4, <1>5, <1>6, Zenon DEF BreakerTypes, TypeOK, TrackerTypeOK

\* What RecordFailure does, in terms of the lists it makes.
LEMMA FailStep ==
  ASSUME BreakerTypes, Fail
  PROVE  /\ now' = now /\ now \in Time /\ now \in Int
         /\ history \in Seq(Time) /\ history' = Append(history, now)
         /\ failures \in Seq(Time) /\ failures' \in Seq(Time)
         /\ failures' = Recent(Append(failures, now))
         /\ Append(failures, now) \in Seq(Time)
         /\ Len(failures') <= Len(failures) + 1 /\ Len(failures) + 1 <= Len(history) + 1
         /\ Len(history) + 1 <= MaxRecords
         /\ Cardinality(Since(failures', now - Window)) = Len(failures')
         /\ \A c \in Int : c >= now - Window =>
               Cardinality(Since(failures', c)) = Cardinality(Since(Append(failures, now), c))
<1>1. /\ now' = now /\ history' = Append(history, now)
      /\ failures' = Recent(Append(failures, now)) /\ Len(history) < MaxRecords
  BY DEF Fail, RecordFailure
<1>2. /\ now \in Time /\ history \in Seq(Time) /\ failures \in Seq(Time)
      /\ Len(failures) <= Len(history)
  BY DEF BreakerTypes, TypeOK, TrackerTypeOK, Time
<1>3. now \in Int
  BY <1>2, TrackerAssumption DEF Time
<1>4. Append(failures, now) \in Seq(Time) /\ Len(Append(failures, now)) = Len(failures) + 1
  BY <1>2
<1>5. /\ failures' \in Seq(Time) /\ Len(failures') <= Len(failures) + 1
      /\ Cardinality(Since(failures', now - Window)) = Len(failures')
      /\ \A c \in Int : c >= now - Window =>
            Cardinality(Since(failures', c)) = Cardinality(Since(Append(failures, now), c))
  <2>1. now - Window \in Int
    BY <1>3, TrackerAssumption
  <2> QED
    BY <1>1, <1>4, <2>1, TimeType, TimesAfterKeeps DEF Recent
<1>6. Len(failures) + 1 <= Len(history) + 1 /\ Len(history) + 1 <= MaxRecords
  BY <1>1, <1>2, TrackerAssumption
<1> QED
  BY <1>1, <1>2, <1>3, <1>4, <1>5, <1>6

LEMMA TypesNext == BreakerTypes /\ [Next]_vars => BreakerTypes'
<1> SUFFICES ASSUME BreakerTypes, [Next]_vars PROVE BreakerTypes'
  OBVIOUS
<1> USE DEF BreakerTypes, TypeOK, TrackerTypeOK
<1>1. CASE Fail
  <2>1. /\ Len(history') = Len(history) + 1 /\ history' \in Seq(Time)
        /\ Len(failures') <= Len(history') /\ Len(history') <= MaxRecords
        /\ Len(failures') <= MaxRecords
    <3>1. Len(Append(history, now)) = Len(history) + 1 /\ Append(history, now) \in Seq(Time)
      BY <1>1, FailStep
    <3>2. history' = Append(history, now)
      BY <1>1, FailStep
    <3>3. /\ Len(failures') <= Len(failures) + 1 /\ Len(failures) + 1 <= Len(history) + 1
          /\ Len(history) + 1 <= MaxRecords
      BY <1>1, FailStep
    <3>4. failures' \in Seq(Time) /\ failures \in Seq(Time) /\ history \in Seq(Time)
      BY <1>1, FailStep
    <3>5. Len(failures') \in Nat /\ Len(failures) \in Nat /\ Len(history) \in Nat
      BY <3>4
    <3> QED
      BY <3>1, <3>2, <3>3, <3>5, TrackerAssumption
  <2>2. retryCount' \in Nat /\ retryCount' <= Len(history')
    BY <1>1, <2>1 DEF Fail, RecordFailure
  <2>3. retryCount' \in 0 .. MaxRecords
    BY <2>1, <2>2, TrackerAssumption
  <2>4. trippedAt' \in 0 .. MaxTime /\ state' \in {"closed", "open", "half-open"}
    BY <1>1 DEF Fail, RecordFailure
  <2>5. exiting' \in BOOLEAN
    BY <1>1, Zenon DEF Fail, RecordFailure
  <2>6. now' \in 0 .. MaxTime /\ failures' \in Seq(0 .. MaxTime)
    BY <1>1, FailStep DEF Time
  <2>7. history' \in Seq(0 .. MaxTime)
    BY <2>1 DEF Time
  <2> QED
    BY <2>1, <2>2, <2>3, <2>4, <2>5, <2>6, <2>7
<1>2. CASE Succeed
  <2>1. <<>> \in Seq(0 .. MaxTime) /\ Len(<<>>) = 0
    OBVIOUS
  <2>2. 0 \in 0 .. MaxRecords /\ 0 <= MaxRecords
    BY TrackerAssumption
  <2>3. 0 <= Len(history)
    OBVIOUS
  <2>4. CASE state = "half-open"
    BY <1>2, <2>1, <2>2, <2>4 DEF Succeed, RecordSuccess
  <2>5. CASE state # "half-open"
    BY <1>2, <2>2, <2>3, <2>5 DEF Succeed, RecordSuccess
  <2> QED
    BY <2>4, <2>5
<1>3. CASE Ask
  BY <1>3 DEF Ask, IsCircuitOpen
<1>4. CASE Wait
  BY <1>4, TrackerAssumption DEF Wait, Tick, trackerVars
<1>5. CASE UNCHANGED vars
  BY <1>5 DEF vars, trackerVars
<1> QED
  BY <1>1, <1>2, <1>3, <1>4, <1>5 DEF Next

\* The tracker's fields keep their types under any sequence of calls, and its list of
\* failures is never longer than the failures there were (RecordFailure).
THEOREM TypeCorrect == Spec => []TypeOK
<1>1. BreakerTypes => TypeOK
  BY DEF BreakerTypes
<1> QED
  BY TypesInit, TypesNext, <1>1, PTL DEF Spec

-----------------------------------------------------------------------------
(* When the circuit trips. *)

\* The inductive form.  The list stands for the history: after any time that is inside
\* the window, now or later, both have as many failures.  So while the circuit is
\* closed the list's count inside the window is the one that decides; and the failures
\* that tripped it stay in the history until the reset.
BreakerInv ==
    /\ BreakerTypes
    /\ \A i \in 1 .. Len(history) : history[i] <= now
    /\ \A c \in Int : c >= now - Window =>
          Cardinality(Since(failures, c)) = Cardinality(Since(history, c))
    /\ state = "closed" => Cardinality(Since(failures, now - Window)) < Threshold
    /\ state # "closed" => FailuresWithin(trippedAt - Window, trippedAt) >= Threshold

Within(times, from, to) == {i \in 1 .. Len(times) : from < times[i] /\ times[i] <= to}

\* If no failure is later than a time, those up to it are all.
LEMMA WithinAll ==
  ASSUME NEW h \in Seq(Time), NEW to \in Int, NEW from \in Int,
         \A i \in 1 .. Len(h) : h[i] <= to
  PROVE  Within(h, from, to) = Since(h, from)
<1>1. \A i \in 1 .. Len(h) : h[i] \in Int
  <2>1. \A i \in 1 .. Len(h) : h[i] \in Time
    OBVIOUS
  <2> QED
    BY <2>1, TrackerAssumption DEF Time
<1> QED
  BY <1>1 DEF Since, Within

\* A failure more does not take any away.
LEMMA WithinGrows ==
  ASSUME NEW h \in Seq(Time), NEW t \in Time, NEW from, NEW to
  PROVE  /\ Cardinality(Within(h, from, to)) <= Cardinality(Within(Append(h, t), from, to))
         /\ Cardinality(Within(h, from, to)) \in Nat
         /\ Cardinality(Within(Append(h, t), from, to)) \in Nat
<1> DEFINE a == Append(h, t)
<1>1. /\ Len(h) \in Nat /\ Len(a) = Len(h) + 1 /\ Len(a) \in Nat
      /\ \A i \in 1 .. Len(h) : a[i] = h[i] /\ i \in 1 .. Len(a)
  OBVIOUS
<1> HIDE DEF a
<1>2. /\ Within(h, from, to) \subseteq Within(a, from, to)
      /\ Within(h, from, to) \subseteq 1 .. Len(h) /\ Within(a, from, to) \subseteq 1 .. Len(a)
  BY <1>1 DEF Within
<1>3. IsFiniteSet(1 .. Len(h)) /\ IsFiniteSet(1 .. Len(a))
  BY <1>1, FS_Interval
<1>4. IsFiniteSet(Within(h, from, to)) /\ IsFiniteSet(Within(a, from, to))
  BY <1>2, <1>3, FS_Subset
<1> QED
  BY <1>2, <1>4, FS_Subset, FS_CardinalityType DEF a

LEMMA BreakerInit == Init => BreakerInv
<1> SUFFICES ASSUME Init PROVE BreakerInv
  OBVIOUS
<1>1. BreakerTypes
  BY TypesInit
<1>2. history = <<>> /\ failures = <<>> /\ state = "closed"
  BY DEF Init, TrackerInit
<1>3. \A i \in 1 .. Len(history) : history[i] <= now
  BY <1>2
<1>4. \A c \in Int : Cardinality(Since(failures, c)) = Cardinality(Since(history, c))
  BY <1>2
<1>5. Cardinality(Since(failures, now - Window)) < Threshold
  BY <1>2, SinceEmpty, TrackerAssumption
<1> QED
  BY <1>1, <1>2, <1>3, <1>4, <1>5 DEF BreakerInv

\* RecordFailure: the new time is in both lists, and no time that still counts is pruned.
LEMMA FailKeepsInv == BreakerInv /\ Fail => BreakerInv'
<1> SUFFICES ASSUME BreakerInv, Fail PROVE BreakerInv'
  OBVIOUS
<1>1. BreakerTypes /\ BreakerTypes'
  BY TypesNext DEF BreakerInv, Next
<1>2. /\ now' = now /\ now \in Time /\ now \in Int
      /\ history \in Seq(Time) /\ history' = Append(history, now)
      /\ failures \in Seq(Time) /\ failures' \in Seq(Time)
      /\ Cardinality(Since(failures', now - Window)) = Len(failures')
      /\ \A c \in Int : c >= now - Window =>
            Cardinality(Since(failures', c)) = Cardinality(Since(Append(failures, now), c))
  BY <1>1, FailStep
<1>3. history' \in Seq(Time) /\ \A i \in 1 .. Len(history') : history'[i] <= now'
  <2>1. \A i \in 1 .. Len(history) : history[i] <= now
    BY DEF BreakerInv
  <2>2. /\ Append(history, now) \in Seq(Time)
        /\ \A i \in 1 .. Len(Append(history, now)) : Append(history, now)[i] <= now
    BY <1>2, <2>1
  <2> QED
    BY <1>2, <2>2
<1>4. \A c \in Int : c >= now' - Window =>
         Cardinality(Since(failures', c)) = Cardinality(Since(history', c))
  <2> SUFFICES ASSUME NEW c \in Int, c >= now - Window
               PROVE  Cardinality(Since(failures', c)) = Cardinality(Since(history', c))
    BY <1>2
  <2>1. Cardinality(Since(failures', c)) = Cardinality(Since(Append(failures, now), c))
    BY <1>2
  <2>2. Cardinality(Since(failures, c)) = Cardinality(Since(history, c))
    BY DEF BreakerInv
  <2>3. Cardinality(Since(Append(failures, now), c)) = Cardinality(Since(Append(history, now), c))
    BY <1>2, <2>2, TimeType, SinceAppend
  <2> QED
    BY <1>2, <2>1, <2>3
<1> DEFINE trip == state = "closed" /\ Len(failures') >= Threshold
<1>5. /\ state' = IF trip THEN "open" ELSE state
      /\ trippedAt' = IF trip THEN now ELSE trippedAt
  BY DEF Fail, RecordFailure
<1>6. Len(failures') \in Nat /\ Threshold \in Nat /\ Window \in Nat
  BY <1>2, TrackerAssumption
<1>7. state' = "closed" => Cardinality(Since(failures', now' - Window)) < Threshold
  BY <1>2, <1>5, <1>6
<1>8. CASE trip
  <2>1. state' # "closed" /\ trippedAt' = now
    BY <1>5, <1>8
  <2>2. now - Window \in Int /\ now - Window >= now - Window
    BY <1>2, <1>6
  <2>3. Cardinality(Since(history', now - Window)) >= Threshold
    BY <1>2, <1>4, <1>8, <2>2
  <2>4. Within(history', now - Window, now) = Since(history', now - Window)
    BY <1>2, <1>3, <2>2, WithinAll
  <2>5. FailuresWithin(trippedAt - Window, trippedAt)' >= Threshold
    BY <2>1, <2>3, <2>4, <1>6 DEF FailuresWithin, Within
  <2> QED
    BY <1>1, <1>3, <1>4, <1>7, <2>1, <2>5 DEF BreakerInv
<1>9. CASE ~trip
  <2>1. state' = state /\ trippedAt' = trippedAt
    BY <1>5, <1>9
  <2>2. state' # "closed" => FailuresWithin(trippedAt - Window, trippedAt)' >= Threshold
    <3> SUFFICES ASSUME state # "closed"
                 PROVE  FailuresWithin(trippedAt - Window, trippedAt)' >= Threshold
      BY <2>1
    <3> DEFINE from == trippedAt - Window
               to == trippedAt
    <3>1. Cardinality(Within(history, from, to)) >= Threshold
      BY DEF BreakerInv, FailuresWithin, Within
    <3>2. FailuresWithin(trippedAt - Window, trippedAt)' = Cardinality(Within(history', from, to))
      BY <2>1 DEF FailuresWithin, Within
    <3> HIDE DEF from, to
    <3>3. /\ Cardinality(Within(history, from, to))
               <= Cardinality(Within(Append(history, now), from, to))
          /\ Cardinality(Within(history, from, to)) \in Nat
          /\ Cardinality(Within(Append(history, now), from, to)) \in Nat
      BY <1>2, WithinGrows
    <3> QED
      BY <1>2, <1>6, <3>1, <3>2, <3>3
  <2> QED
    BY <1>1, <1>3, <1>4, <1>7, <2>2 DEF BreakerInv
<1> QED
  BY <1>8, <1>9

LEMMA BreakerNext == BreakerInv /\ [Next]_vars => BreakerInv'
<1> SUFFICES ASSUME BreakerInv, [Next]_vars PROVE BreakerInv'
  OBVIOUS
<1>1. BreakerTypes /\ BreakerTypes'
  BY TypesNext DEF BreakerInv
<1>2. now \in Int /\ Window \in Int /\ failures \in Seq(Time) /\ history \in Seq(Time)
  BY <1>1, TrackerAssumption DEF BreakerTypes, TypeOK, TrackerTypeOK, Time
<1>3. CASE Fail
  BY <1>3, FailKeepsInv
<1>4. CASE Succeed
  <2>1. CASE state = "half-open"
    <3>1. history' = <<>> /\ failures' = <<>> /\ state' = "closed"
      BY <1>4, <2>1 DEF Succeed, RecordSuccess
    <3>2. \A i \in 1 .. Len(history') : history'[i] <= now'
      BY <3>1
    <3>3. Cardinality(Since(failures', now' - Window)) < Threshold
      BY <3>1, SinceEmpty, TrackerAssumption
    <3> QED
      BY <1>1, <3>1, <3>2, <3>3 DEF BreakerInv
  <2>2. CASE state # "half-open"
    <3>1. UNCHANGED <<now, history, failures, state, trippedAt>>
      BY <1>4, <2>2 DEF Succeed, RecordSuccess
    <3> QED
      BY <1>1, <3>1 DEF BreakerInv, FailuresWithin
  <2> QED
    BY <2>1, <2>2
<1>5. CASE Ask
  <2>1. UNCHANGED <<now, history, failures, trippedAt>>
    BY <1>5 DEF Ask, IsCircuitOpen
  <2>2. state' = "closed" <=> state = "closed"
    BY <1>5 DEF Ask, IsCircuitOpen
  <2> QED
    BY <1>1, <2>1, <2>2 DEF BreakerInv, FailuresWithin
<1>6. CASE Wait
  <2>1. now' = now + 1 /\ UNCHANGED <<history, failures, state, trippedAt>>
    BY <1>6 DEF Wait, Tick, trackerVars
  <2>2. \A i \in 1 .. Len(history) : history[i] \in Int
    <3>1. \A i \in 1 .. Len(history) : history[i] \in Time
      BY <1>2
    <3> QED
      BY <3>1, TrackerAssumption DEF Time
  <2>3. \A i \in 1 .. Len(history) : history[i] <= now'
    BY <1>2, <2>1, <2>2 DEF BreakerInv
  <2>4. \A c \in Int : c >= now' - Window => c >= now - Window
    BY <1>2, <2>1
  <2>5. \A c \in Int : c >= now' - Window =>
           Cardinality(Since(failures, c)) = Cardinality(Since(history, c))
    BY <2>4 DEF BreakerInv
  <2>6. now - Window \in Int /\ now' - Window \in Int /\ now - Window <= now' - Window
    BY <1>2, <2>1
  <2>7. /\ Cardinality(Since(failures, now' - Window)) <= Cardinality(Since(failures, now - Window))
        /\ Cardinality(Since(failures, now' - Window)) \in Nat
        /\ Cardinality(Since(failures, now - Window)) \in Nat
    BY <1>2, <2>6, TimeType, SinceLater, SinceFinite
  <2>8. state = "closed" => Cardinality(Since(failures, now' - Window)) < Threshold
    BY <2>7, TrackerAssumption DEF BreakerInv
  <2>9. FailuresWithin(trippedAt - Window, trippedAt)' = FailuresWithin(trippedAt - Window, trippedAt)
    BY <2>1 DEF FailuresWithin
  <2> QED
    BY <1>1, <2>1, <2>3, <2>5, <2>8, <2>9 DEF BreakerInv
<1>7. CASE UNCHANGED vars
  BY <1>1, <1>7 DEF BreakerInv, FailuresWithin, vars, trackerVars
<1> QED
  BY <1>3, <1>4, <1>5, <1>6, <1>7 DEF Next

\* The circuit never stays closed with the threshold of failures inside the window:
\* whatever RecordFailure prunes, the list counts every failure that still matters.
THEOREM TripIsNotMissed == Spec => []TripsWhenDue
<1>1. ASSUME BreakerInv PROVE TripsWhenDue
  <2>1. now \in Int /\ Window \in Int /\ history \in Seq(Time) /\ now - Window \in Int
        /\ now - Window >= now - Window
    BY <1>1, TrackerAssumption DEF BreakerInv, BreakerTypes, TypeOK, TrackerTypeOK, Time
  <2>2. FailuresWithin(now - Window, now) = Cardinality(Since(history, now - Window))
    BY <1>1, <2>1, WithinAll DEF BreakerInv, FailuresWithin, Within
  <2> QED
    BY <1>1, <2>1, <2>2 DEF BreakerInv, TripsWhenDue
<1> QED
  BY BreakerInit, BreakerNext, <1>1, PTL DEF Spec

\* The circuit is open or half-open only if, when it tripped, the window held the
\* threshold of failures, all of them since the last reset (RecordFailure,
\* RecordSuccess).
THEOREM TripIsDue == Spec => []TripsOnlyWhenDue
<1>1. BreakerInv => TripsOnlyWhenDue
  BY DEF BreakerInv, TripsOnlyWhenDue
<1> QED
  BY BreakerInit, BreakerNext, <1>1, PTL DEF Spec

-----------------------------------------------------------------------------
(* The delay before the next election. *)

\* A delay of 1, 2, 4, 8 and 16 s, then the cap.
LEMMA BackoffTable ==
  ASSUME NEW N \in Nat
  PROVE  BackoffAfter(N) = CASE N = 0 -> 10 [] N = 1 -> 20 [] N = 2 -> 40
                             [] N = 3 -> 80 [] N = 4 -> 160 [] OTHER -> 300
<1> DEFINE delay == Doubled(10, N)
<1>1. /\ N = 0 => delay = 10
      /\ N = 1 => delay = 2 * 10
      /\ N = 2 => delay = 4 * 10
      /\ N = 3 => delay = 8 * 10
      /\ N = 4 => delay = 16 * 10
      /\ N >= 5 => delay >= 32 * 10
  BY DoubledTable
<1>2. delay \in Nat
  BY DoubledStep
<1>3. BackoffAfter(N) = IF delay > 300 THEN 300 ELSE delay
  BY DEF BackoffAfter, MinBackoff, MaxBackoff
<1> HIDE DEF delay
<1> QED
  BY <1>1, <1>2, <1>3

\* With one failure more, or with several, the shortest delay is longer than the longest
\* before was, until the cap.
LEMMA LongerBackoff ==
  ASSUME NEW m \in Nat, NEW n \in Nat, m < n, BackoffAfter(m) # 300
  PROVE  (12 * BackoffAfter(m)) \div 10 < (8 * BackoffAfter(n)) \div 10
<1>1. m \in {0, 1, 2, 3, 4}
  BY BackoffTable
<1>2. BackoffAfter(n) \in {20, 40, 80, 160, 300}
  BY BackoffTable
<1>3. CASE m = 0
  BY <1>2, <1>3, BackoffTable
<1>4. CASE m = 1
  <2>1. BackoffAfter(m) = 20 /\ BackoffAfter(n) \in {40, 80, 160, 300}
    BY <1>4, BackoffTable
  <2> QED
    BY <2>1
<1>5. CASE m = 2
  <2>1. BackoffAfter(m) = 40 /\ BackoffAfter(n) \in {80, 160, 300}
    BY <1>5, BackoffTable
  <2> QED
    BY <2>1
<1>6. CASE m = 3
  <2>1. BackoffAfter(m) = 80 /\ BackoffAfter(n) \in {160, 300}
    BY <1>6, BackoffTable
  <2> QED
    BY <2>1
<1>7. CASE m = 4
  <2>1. BackoffAfter(m) = 160 /\ BackoffAfter(n) = 300
    BY <1>7, BackoffTable
  <2> QED
    BY <2>1
<1> QED
  BY <1>1, <1>3, <1>4, <1>5, <1>6, <1>7

\* From one failure to the next the delay grows whatever the jitter draws, until the cap,
\* and none is longer than the cap and its jitter (RecordFailure, GetBackoffDuration).
THEOREM BackoffAlwaysGrows == Spec => BackoffGrows
<1> DEFINE Grows == retryCount' > retryCount =>
               /\ \A d \in GetBackoffDuration, later \in GetBackoffDuration' :
                     d < later \/ Backoff = MaxBackoff
               /\ \A later \in GetBackoffDuration' : later <= 360
<1>1. ASSUME BreakerTypes, BreakerTypes' PROVE Grows
  <2> SUFFICES ASSUME retryCount' > retryCount
               PROVE  /\ \A d \in GetBackoffDuration, later \in GetBackoffDuration' :
                            d < later \/ Backoff = MaxBackoff
                      /\ \A later \in GetBackoffDuration' : later <= 360
    OBVIOUS
  <2>1. retryCount \in Nat /\ retryCount' \in Nat /\ retryCount < retryCount'
    BY <1>1, TrackerAssumption DEF BreakerTypes, TypeOK, TrackerTypeOK
  <2> DEFINE b == BackoffAfter(retryCount)
             c == BackoffAfter(retryCount')
  <2>2. Backoff = b /\ Backoff' = c /\ MaxBackoff = 300
    BY DEF Backoff, BackoffAfter, MaxBackoff
  <2>3. /\ GetBackoffDuration = (8 * b) \div 10 .. (12 * b) \div 10
        /\ GetBackoffDuration' = (8 * c) \div 10 .. (12 * c) \div 10
    BY <2>2 DEF GetBackoffDuration
  <2>4. b \in Nat /\ c \in Nat /\ c <= 300
    BY <2>1, BackoffTable
  <2>5. b # 300 => (12 * b) \div 10 < (8 * c) \div 10
    BY <2>1, LongerBackoff
  <2> HIDE DEF b, c
  <2>6. (12 * c) \div 10 <= 360
    BY <2>4
  <2>7. /\ (12 * b) \div 10 \in Int /\ (8 * b) \div 10 \in Int
        /\ (12 * c) \div 10 \in Int /\ (8 * c) \div 10 \in Int
    BY <2>4
  <2>8. \A later \in GetBackoffDuration' : later <= 360
    BY <2>3, <2>6, <2>7
  <2>9. ASSUME NEW d \in GetBackoffDuration, NEW later \in GetBackoffDuration', b # 300
        PROVE  d < later
    BY <2>3, <2>5, <2>7, <2>9
  <2> QED
    BY <2>2, <2>8, <2>9
<1>2. ASSUME BreakerTypes, [Next]_vars PROVE [Grows]_vars
  BY <1>1, <1>2, TypesNext
<1>3. Spec => [][Grows]_vars
  BY TypesInit, TypesNext, <1>2, PTL DEF Spec
<1> QED
  BY <1>3 DEF BackoffGrows
=============================================================================
