----------------------- MODULE AllowListClientProofs -----------------------
(***************************************************************************)
(* Proofs about AllowListClient for any number of replicas, informers,     *)
(* databases and addresses: type correctness, that no database's list ever *)
(* holds an entry that was neither there, nor edited in, nor asked for,    *)
(* that only retries go without a permit of the rate limiter, and that the *)
(* waits of a turn never get shorter.                                      *)
(***************************************************************************)
EXTENDS AllowListClient, TimesAndDelaysProofs

InCall(f) == f \in Frame /\ WellFormed(f) /\ f.step \notin {"idle", "return"}

\* The normal form of an entry is an entry, in normal form.
LEMMA NormalEntry ==
    /\ \A e \in Entry : /\ normalizeIP(e) \in Entry
                        /\ normalizeIP(normalizeIP(e)) = normalizeIP(e)
    /\ \A ip \in Addrs : Host(ip) \in Entry /\ normalizeIP(Host(ip)) = Host(ip)
    BY DEF Entry, normalizeIP, Host

\* A call has databases of the configuration.
LEMMA DatabasesType ==
    ASSUME NEW k \in Call
    PROVE  DatabasesOf[k.pool] \in Seq(DBs)
    BY ConfigAssumption DEF Call

LEMMA TargetType ==
    ASSUME NEW f, InCall(f)
    PROVE  /\ f.call \in Call
           /\ f.idx \in 1 .. Len(Databases(f))
           /\ Target(f) \in DBs
    BY DatabasesType DEF InCall, WellFormed, Target, Databases

\* NextDatabase keeps a frame well formed.
LEMMA NextDatabaseType ==
    ASSUME NEW f, InCall(f), NEW err \in BOOLEAN
    PROVE  /\ NextDatabase(f, err) \in Frame
           /\ WellFormed(NextDatabase(f, err))
    <1> DEFINE n == NextDatabase(f, err)
    <1>1. f \in Frame /\ f.call \in Call /\ f.idx \in 1 .. Len(Databases(f))
        BY TargetType DEF InCall
    <1>2. /\ Databases(f) \in Seq(DBs)
          /\ Len(Databases(f)) \in Nat
          /\ DOMAIN Databases(f) = 1 .. Len(Databases(f))
        BY <1>1, DatabasesType DEF Databases
    <1>3. n \in Frame
        <2> DEFINE last == f.idx = Len(Databases(f))
                   st == IF last THEN "return" ELSE "lookup"
                   ix == IF last THEN f.idx ELSE f.idx + 1
                   pm == ~last
                   fl == f.failed \/ err
        <2>1. /\ st \in Steps /\ ix \in Nat \ {0}
              /\ 0 \in 0 .. (MaxAttempts - 1) /\ 0 \in Int
            BY <1>1, <1>2, ConfigAssumption DEF Steps
        <2>2. pm \in BOOLEAN /\ fl \in BOOLEAN
            OBVIOUS
        <2>3. n = [f EXCEPT !.step = st, !.idx = ix, !.attempt = 0, !.nextBackoff = 0,
                            !.list = {}, !.permit = pm, !.failed = fl]
            BY Zenon DEF NextDatabase
        <2> HIDE DEF n, st, ix, pm, fl
        <2> QED
            BY <1>1, <2>1, <2>2, <2>3 DEF Frame
    <1>4. n.call = f.call /\ Databases(n) = Databases(f)
        BY <1>1 DEF NextDatabase, Frame, Databases
    <1>5. /\ n.step # "idle"
          /\ n.step # "return" => n.idx \in 1 .. Len(Databases(f))
        BY <1>1, <1>2 DEF NextDatabase, Frame
    <1> QED
        BY <1>1, <1>2, <1>3, <1>4, <1>5 DEF WellFormed

\* A call that goes to its next database holds no list.
LEMMA NextDatabaseBacked ==
    ASSUME NEW f, InCall(f), NEW err \in BOOLEAN, NEW g, FrameBacked(f, g)
    PROVE  FrameBacked(NextDatabase(f, err), g)
    BY DEF InCall, NextDatabase, Frame, FrameBacked, Databases, Backed, Target

\* So does Decide, whatever list it is given.
LEMMA DecideType ==
    ASSUME NEW f, InCall(f), NEW L \in SUBSET Entry
    PROVE  Decide(f, L) \in Frame /\ WellFormed(Decide(f, L))
    <1>1. f \in Frame /\ f.call \in Call
        BY TargetType DEF InCall
    <1>2. NewList(f, L) \in SUBSET Entry
        BY <1>1, NormalEntry DEF NewList, Norm, Call
    <1>3. LET p == [f EXCEPT !.step = "put", !.list = NewList(f, L)]
          IN  p \in Frame /\ WellFormed(p)
        BY <1>1, <1>2 DEF InCall, Frame, Steps, WellFormed, Databases
    <1> QED
        BY <1>3, NextDatabaseType DEF Decide

\* The list that Decide hands to the PUT is backed when the one it read is.
LEMMA DecideBacked ==
    ASSUME NEW f, InCall(f), NEW L \in SUBSET Entry, NEW g,
           FrameBacked(f, g), Backed(L, g[Target(f)])
    PROVE  FrameBacked(Decide(f, L), g)
    <1> DEFINE p == [f EXCEPT !.step = "put", !.list = NewList(f, L)]
    <1>1. /\ f \in Frame /\ f.call \in Call /\ f.step # "idle"
          /\ f.idx \in DOMAIN Databases(f)
        BY TargetType DEF InCall, WellFormed
    <1>2. /\ p.call = f.call /\ p.list = NewList(f, L) /\ p.step = "put"
          /\ Target(p) = Target(f) /\ Databases(p) = Databases(f)
        BY <1>1 DEF Frame, Target, Databases
    <1>3. f.call.op = "add" => Host(f.call.ip) \in g[Target(f)]
        BY <1>1 DEF FrameBacked, Target
    <1>4. Backed(Norm(L), g[Target(f)])
        BY NormalEntry DEF Backed, Norm
    <1>5. Backed(NewList(f, L), g[Target(f)])
        BY <1>1, <1>3, <1>4, NormalEntry DEF NewList, Backed, Call
    <1>6. FrameBacked(p, g)
        BY <1>1, <1>2, <1>5 DEF FrameBacked
    <1> QED
        BY <1>6, NextDatabaseBacked DEF Decide

-----------------------------------------------------------------------------
(* Type correctness, one step per action. *)

LEMMA HomeType ==
    ASSUME NEW c \in Caller
    PROVE  Home(c) \in Replicas
    BY DEF Caller, Home

\* A caller that is neither idle nor returning is in a call.
LEMMA CallerInCall ==
    ASSUME TypeOK, NEW c \in Caller, frame[c].step \notin {"idle", "return"}
    PROVE  InCall(frame[c])
    BY DEF TypeOK, InCall

\* Replacing one caller's frame by a well-formed one keeps the frames typed.
LEMMA FrameUpdate ==
    ASSUME TypeOK, NEW c \in Caller, NEW x \in Frame, WellFormed(x),
           frame' = [frame EXCEPT ![c] = x]
    PROVE  frame' \in [Caller -> Frame] /\ \A b \in Caller : WellFormed(frame'[b])
    BY DEF TypeOK

\* Whatever the jitter and the overflow, a delay is a number.
LEMMA NextBackoffType ==
    ASSUME NEW attempt, NEW wait \in NextBackoff(attempt)
    PROVE  wait \in Int
    <1> DEFINE backoff == Doubled(InitialBackoff, attempt)
               durations == UNION {ToDuration(x) : x \in
                   {d \in backoff .. 2 * backoff : d = backoff \/ 2 * d < 3 * backoff}}
    <1>1. \A x \in backoff .. 2 * backoff : ToDuration(x) \subseteq Int
        <2> HIDE DEF backoff
        <2> QED
            BY ConfigAssumption DEF ToDuration
    <1>2. durations \subseteq Int
        <2> HIDE DEF backoff
        <2> QED
            BY <1>1
    <1>3. \/ wait = InitialBackoff
          \/ \E d \in durations : wait = IF d > MaxBackoff THEN MaxBackoff ELSE d
        BY Zenon DEF NextBackoff
    <1> HIDE DEF durations
    <1> QED
        BY <1>2, <1>3, ConfigAssumption

\* The parts of a frame that a failed attempt leaves alone.
LEMMA AttemptFailedType ==
    ASSUME NEW f, InCall(f), NEW wait \in Int
    PROVE  /\ AttemptFailed(f, wait) \in Frame /\ WellFormed(AttemptFailed(f, wait))
           /\ InCall(AttemptFailed(f, wait))
    BY DEF AttemptFailed, InCall, Frame, Steps, WellFormed, Databases

LEMMA AfterBackoffType ==
    ASSUME NEW f, InCall(f)
    PROVE  AfterBackoff(f) \in Frame /\ WellFormed(AfterBackoff(f))
    <1>1. CASE f.attempt + 1 < MaxAttempts
        <2> DEFINE a == f.attempt + 1
        <2>1. a \in 0 .. (MaxAttempts - 1)
            BY <1>1, ConfigAssumption DEF InCall, Frame
        <2>2. AfterBackoff(f) = [f EXCEPT !.step = "lookup", !.attempt = a]
            BY <1>1 DEF AfterBackoff
        <2> HIDE DEF a
        <2> QED
            BY <2>1, <2>2 DEF InCall, Frame, Steps, WellFormed, Databases
    <1>2. CASE ~(f.attempt + 1 < MaxAttempts)
        BY <1>2, NextDatabaseType DEF AfterBackoff
    <1> QED
        BY <1>1, <1>2

LEMMA IdleType == Idle \in Frame /\ WellFormed(Idle)
    BY ConfigAssumption DEF Idle, Frame, Steps, WellFormed

LEMMA StartedType ==
    ASSUME NEW k \in Call
    PROVE  Started(k) \in Frame /\ WellFormed(Started(k))
    <1>1. DatabasesOf[k.pool] \in Seq(DBs)
        BY DatabasesType
    <1>2. DatabasesOf[k.pool] # <<>> => 1 \in DOMAIN DatabasesOf[k.pool]
        BY <1>1
    <1> QED
        BY <1>2, IdleType DEF Started, Idle, Frame, Steps, WellFormed, Databases

LEMMA TypeInit == Init => TypeOK
    <1> SUFFICES ASSUME Init PROVE TypeOK
        OBVIOUS
    <1>1. server \in [DBs -> SUBSET Entry]
        BY EntryAssumption DEF Init
    <1>2. granted \in [DBs -> SUBSET Entry]
        BY <1>1, NormalEntry DEF Init, Norm
    <1>3. cache \in [Replicas -> [DBs -> CacheEntry]]
        BY DEF Init, Absent, CacheEntry
    <1> QED
        BY <1>1, <1>2, <1>3, IdleType DEF Init, TypeOK

\* The steps inside a call.
LEMMA TypeContinue ==
    ASSUME TypeOK, NEW c \in Caller, Continue(c)
    PROVE  TypeOK'
    <1> DEFINE f == frame[c]
               d == Target(f)
               p == Home(c)
    <1>a. f \in Frame /\ p \in Replicas
        BY HomeType DEF TypeOK
    <1>b. ASSUME f.step \notin {"idle", "return"}
          PROVE  InCall(f) /\ d \in DBs /\ cache[p][d] \in CacheEntry
        BY <1>a, <1>b, CallerInCall, TargetType DEF TypeOK
    <1>1. CASE Lookup(c)
        <2>1. InCall(f) /\ cache[p][d].list \in SUBSET Entry
            BY <1>1, <1>b DEF Lookup, At, CacheEntry
        <2>2. [f EXCEPT !.step = "fetch"] \in Frame
              /\ WellFormed([f EXCEPT !.step = "fetch"])
            BY <2>1 DEF InCall, Frame, Steps, WellFormed, Databases
        <2>3. Decide(f, cache[p][d].list) \in Frame
              /\ WellFormed(Decide(f, cache[p][d].list))
            BY <2>1, DecideType
        <2> QED
            BY <1>1, <2>2, <2>3, FrameUpdate DEF Lookup, TypeOK
    <1>2. CASE Fetch(c)
        <2> DEFINE x == [f EXCEPT !.step = "store", !.list = server[d]]
        <2>1. InCall(f) /\ d \in DBs
            BY <1>2, <1>b DEF Fetch, At
        <2>2. x \in Frame /\ WellFormed(x)
            BY <2>1 DEF InCall, Frame, Steps, WellFormed, Databases, TypeOK
        <2>3. ASSUME NEW wait \in NextBackoff(f.attempt)
              PROVE  AttemptFailed(f, wait) \in Frame /\ WellFormed(AttemptFailed(f, wait))
            BY <2>1, NextBackoffType, AttemptFailedType
        <2>4. \/ frame' = [frame EXCEPT ![c] = x]
              \/ \E wait \in NextBackoff(f.attempt) :
                    frame' = [frame EXCEPT ![c] = AttemptFailed(f, wait)]
            BY <1>2 DEF Fetch, TypeOK
        <2> HIDE DEF x
        <2> QED
            BY <1>2, <2>2, <2>3, <2>4, FrameUpdate DEF Fetch, TypeOK
    <1>3. CASE Store(c)
        <2> DEFINE x == [f EXCEPT !.step = "reread", !.list = {}]
        <2>1. InCall(f) /\ d \in DBs
            BY <1>3, <1>b DEF Store, At
        <2>2. x \in Frame /\ WellFormed(x)
            BY <2>1 DEF InCall, Frame, Steps, WellFormed, Databases
        <2>3. [present |-> TRUE, list |-> f.list] \in CacheEntry
            BY <1>a DEF Frame, CacheEntry
        <2>4. cache' \in [Replicas -> [DBs -> CacheEntry]]
            BY <1>3, <2>3 DEF Store, TypeOK
        <2>5. frame' = [frame EXCEPT ![c] = x]
            BY <1>3 DEF Store, TypeOK
        <2> HIDE DEF x
        <2> QED
            BY <1>3, <2>2, <2>4, <2>5, FrameUpdate DEF Store, TypeOK
    <1>4. CASE Reread(c)
        <2>1. InCall(f) /\ cache[p][d].list \in SUBSET Entry
            BY <1>4, <1>b DEF Reread, At, CacheEntry
        <2> QED
            BY <1>4, <2>1, DecideType, FrameUpdate DEF Reread, TypeOK
    <1>5. CASE PutApplied(c)
        <2> DEFINE x == [f EXCEPT !.step = "invalidate", !.list = {}, !.permit = FALSE]
        <2>1. InCall(f) /\ d \in DBs
            BY <1>5, <1>b DEF PutApplied, At
        <2>2. x \in Frame /\ WellFormed(x)
            BY <2>1 DEF InCall, Frame, Steps, WellFormed, Databases
        <2>3. server' \in [DBs -> SUBSET Entry]
            BY <1>5, <1>a DEF PutApplied, ReplaceList, Frame, TypeOK
        <2>4. frame' = [frame EXCEPT ![c] = x]
            BY <1>5 DEF PutApplied, TypeOK
        <2> HIDE DEF x
        <2> QED
            BY <1>5, <2>2, <2>3, <2>4, FrameUpdate DEF PutApplied, TypeOK
    <1>6. CASE PutFailed(c)
        <2> PICK wait \in NextBackoff(f.attempt) :
                frame' = [frame EXCEPT ![c] =
                             [AttemptFailed(@, wait) EXCEPT !.permit = FALSE]]
            BY <1>6 DEF PutFailed
        <2> DEFINE x == [AttemptFailed(f, wait) EXCEPT !.permit = FALSE]
        <2>1. InCall(AttemptFailed(f, wait))
            BY <1>6, <1>b, NextBackoffType, AttemptFailedType DEF PutFailed, At
        <2>2. x \in Frame /\ WellFormed(x)
            BY <2>1 DEF InCall, Frame, WellFormed, Databases
        <2>3. server' \in [DBs -> SUBSET Entry]
            BY <1>6, <1>a DEF PutFailed, ReplaceList, Frame, TypeOK
        <2>4. frame' = [frame EXCEPT ![c] = x]
            BY DEF TypeOK
        <2> HIDE DEF x
        <2> QED
            BY <1>6, <2>2, <2>3, <2>4, FrameUpdate DEF PutFailed, TypeOK
    <1>7. CASE Invalidate(c)
        <2>1. InCall(f)
            BY <1>7, <1>b DEF Invalidate, At
        <2>2. cache' \in [Replicas -> [DBs -> CacheEntry]]
            BY <1>7 DEF Invalidate, TypeOK, Absent, CacheEntry
        <2> QED
            BY <1>7, <2>1, <2>2, NextDatabaseType, FrameUpdate DEF Invalidate, TypeOK
    <1>8. CASE Backoff(c)
        <2>1. InCall(f)
            BY <1>8, <1>b DEF Backoff, At
        <2> QED
            BY <1>8, <2>1, AfterBackoffType, FrameUpdate DEF Backoff, TypeOK
    <1>9. CASE Return(c)
        BY <1>9, IdleType, FrameUpdate DEF Return, TypeOK
    <1> QED
        BY <1>1, <1>2, <1>3, <1>4, <1>5, <1>6, <1>7, <1>8, <1>9 DEF Continue

\* Every step keeps the state typed.
LEMMA TypeNext == TypeOK /\ [Next]_vars => TypeOK'
    <1> SUFFICES ASSUME TypeOK, [Next]_vars PROVE TypeOK'
        OBVIOUS
    <1>1. ASSUME NEW p \in Replicas, Crash(p) PROVE TypeOK'
        <2>1. frame' \in [Caller -> Frame] /\ \A c \in Caller : WellFormed(frame'[c])
            BY <1>1, IdleType DEF Crash, TypeOK
        <2>2. cache' \in [Replicas -> [DBs -> CacheEntry]]
            BY <1>1 DEF Crash, TypeOK, Absent, CacheEntry
        <2> QED
            BY <1>1, <2>1, <2>2 DEF Crash, TypeOK
    <1>2. ASSUME NEW p \in Replicas, NEW d \in DBs, InitializeCache(p, d) PROVE TypeOK'
        <2> DEFINE x == [present |-> TRUE, list |-> server[d]]
        <2>1. x \in CacheEntry
            BY DEF TypeOK, CacheEntry
        <2>2. cache' \in [Replicas -> [DBs -> CacheEntry]]
            <3>1. \/ cache' = [cache EXCEPT ![p][d] = x]
                  \/ cache' = cache
                BY <1>2 DEF InitializeCache
            <3> HIDE DEF x
            <3>2. CASE cache' = [cache EXCEPT ![p][d] = x]
                BY <2>1, <3>2 DEF TypeOK
            <3>3. CASE cache' = cache
                BY <3>3 DEF TypeOK
            <3> QED
                BY <3>1, <3>2, <3>3
        <2>3. booting' \in [Replicas -> SUBSET DBs]
            BY <1>2 DEF InitializeCache, TypeOK
        <2> QED
            BY <1>2, <2>2, <2>3 DEF InitializeCache, TypeOK
    <1>3. ASSUME NEW c \in Caller, Continue(c) PROVE TypeOK'
        BY <1>3, TypeContinue
    <1>4. ASSUME NEW c \in Caller, NEW k \in Call, UpdateAllowList(c, k) PROVE TypeOK'
        <2>1. Host(k.ip) \in Entry
            BY NormalEntry DEF Call
        <2>2. granted' \in [DBs -> SUBSET Entry]
            BY <1>4, <2>1 DEF UpdateAllowList, TypeOK
        <2> QED
            BY <1>4, <2>2, StartedType, FrameUpdate DEF UpdateAllowList, TypeOK
    <1>5. ASSUME NEW d \in DBs, NEW e \in EditEntries, ExternalEdit(d, e) PROVE TypeOK'
        <2>1. e \in Entry /\ normalizeIP(e) \in Entry
            BY EntryAssumption, NormalEntry
        <2> QED
            BY <1>5, <2>1 DEF ExternalEdit, TypeOK
    <1>6. CASE UNCHANGED vars
        BY <1>6 DEF vars, TypeOK
    <1> QED
        BY <1>1, <1>2, <1>3, <1>4, <1>5, <1>6 DEF Next

\* Every behaviour of the client keeps its state typed; in particular a caller
\* never indexes beyond the databases of its pool (handleAddOperation).
THEOREM TypeCorrect == Spec => []TypeOK
    BY TypeInit, TypeNext, PTL DEF Spec

-----------------------------------------------------------------------------
(* No unrequested entry, one step per action. *)

\* The two parts of the invariant that the name covers beside the lists of the API.
CachesBacked == \A p \in Replicas, d \in DBs : Backed(cache[p][d].list, granted[d])
FramesBacked == \A c \in Caller : FrameBacked(frame[c], granted)

LEMMA BackedInit == Init => UnrequestedNowhere
    <1> SUFFICES ASSUME Init PROVE UnrequestedNowhere
        OBVIOUS
    <1>1. TypeOK
        BY TypeInit
    <1>2. NoUnrequestedEntries
        BY DEF Init, NoUnrequestedEntries, Backed, Norm
    <1>3. CachesBacked
        BY DEF Init, CachesBacked, Absent, Backed
    <1>4. FramesBacked
        BY DEF Init, FramesBacked, FrameBacked, Idle
    <1> QED
        BY <1>1, <1>2, <1>3, <1>4 DEF UnrequestedNowhere, CachesBacked, FramesBacked

\* Replacing one caller's frame by a backed one keeps the frames backed.
LEMMA FrameBackedUpdate ==
    ASSUME TypeOK, FramesBacked, NEW c \in Caller, NEW x, FrameBacked(x, granted),
           frame' = [frame EXCEPT ![c] = x], granted' = granted
    PROVE  FramesBacked'
    BY DEF TypeOK, FramesBacked

\* Writing a backed list to the API, or to a cache, keeps the lists backed.
LEMMA BackedServerWrite ==
    ASSUME TypeOK, NoUnrequestedEntries, NEW d \in DBs, NEW L,
           Backed(L, granted[d]), granted' = granted,
           server' = [server EXCEPT ![d] = L]
    PROVE  NoUnrequestedEntries'
    BY DEF TypeOK, NoUnrequestedEntries

LEMMA BackedCacheWrite ==
    ASSUME TypeOK, CachesBacked, NEW p \in Replicas, NEW d \in DBs, NEW x,
           Backed(x.list, granted[d]), granted' = granted,
           cache' = [cache EXCEPT ![p][d] = x]
    PROVE  CachesBacked'
    BY DEF TypeOK, CachesBacked

\* The steps inside a call.
LEMMA BackedContinue ==
    ASSUME UnrequestedNowhere, NEW c \in Caller, Continue(c)
    PROVE  NoUnrequestedEntries' /\ CachesBacked' /\ FramesBacked'
    <1> DEFINE f == frame[c]
               d == Target(f)
               p == Home(c)
    <1>a. /\ TypeOK /\ NoUnrequestedEntries /\ CachesBacked /\ FramesBacked
          /\ f \in Frame /\ p \in Replicas /\ FrameBacked(f, granted)
        BY HomeType DEF UnrequestedNowhere, CachesBacked, FramesBacked, TypeOK
    <1>b. ASSUME f.step \notin {"idle", "return"}
          PROVE  /\ InCall(f) /\ d \in DBs
                 /\ cache[p][d].list \in SUBSET Entry
                 /\ Backed(cache[p][d].list, granted[d])
        BY <1>a, <1>b, CallerInCall, TargetType DEF TypeOK, CacheEntry, CachesBacked
    <1>d. granted' = granted
        BY DEF Continue, Lookup, Fetch, Store, Reread, PutApplied, PutFailed,
               Invalidate, Backoff, Return
    <1>e. ASSUME cache' = cache PROVE CachesBacked'
        BY <1>a, <1>d, <1>e DEF CachesBacked
    <1>f. ASSUME server' = server PROVE NoUnrequestedEntries'
        BY <1>a, <1>d, <1>f DEF NoUnrequestedEntries
    <1>1. CASE Lookup(c)
        <2>1. InCall(f) /\ cache[p][d].list \in SUBSET Entry
              /\ Backed(cache[p][d].list, granted[d])
            BY <1>1, <1>b DEF Lookup, At
        <2>2. FrameBacked([f EXCEPT !.step = "fetch"], granted)
            BY <1>a, <2>1 DEF InCall, Frame, FrameBacked, Databases
        <2>3. FrameBacked(Decide(f, cache[p][d].list), granted)
            BY <1>a, <2>1, DecideBacked
        <2>4. FramesBacked'
            BY <1>1, <1>a, <1>d, <2>2, <2>3, FrameBackedUpdate DEF Lookup
        <2> QED
            BY <1>1, <1>e, <1>f, <2>4 DEF Lookup
    <1>2. CASE Fetch(c)
        <2> DEFINE x == [f EXCEPT !.step = "store", !.list = server[d]]
        <2>1. InCall(f) /\ d \in DBs
            BY <1>2, <1>b DEF Fetch, At
        <2>2. Backed(server[d], granted[d])
            BY <1>a, <2>1 DEF NoUnrequestedEntries
        <2>3. FrameBacked(x, granted)
            BY <1>a, <2>1, <2>2 DEF InCall, Frame, FrameBacked, Databases, Target
        <2>4. \A wait : FrameBacked(AttemptFailed(f, wait), granted)
            BY <1>a, <2>1 DEF InCall, AttemptFailed, Frame, FrameBacked, Databases
        <2>5. \/ frame' = [frame EXCEPT ![c] = x]
              \/ \E wait : frame' = [frame EXCEPT ![c] = AttemptFailed(f, wait)]
            BY <1>2, <1>a DEF Fetch, TypeOK
        <2> HIDE DEF x
        <2>6. FramesBacked'
            BY <1>a, <1>d, <2>3, <2>4, <2>5, FrameBackedUpdate
        <2> QED
            BY <1>2, <1>e, <1>f, <2>6 DEF Fetch
    <1>3. CASE Store(c)
        <2> DEFINE x == [f EXCEPT !.step = "reread", !.list = {}]
        <2>1. InCall(f) /\ d \in DBs /\ Backed(f.list, granted[d])
            BY <1>3, <1>a, <1>b DEF Store, At, FrameBacked
        <2>2. FrameBacked(x, granted)
            BY <1>a, <2>1 DEF InCall, Frame, FrameBacked, Databases
        <2>3. frame' = [frame EXCEPT ![c] = x]
            BY <1>3, <1>a DEF Store, TypeOK
        <2>4. CachesBacked'
            <3> DEFINE y == [present |-> TRUE, list |-> f.list]
            <3>1. cache' = [cache EXCEPT ![p][d] = y]
                BY <1>3 DEF Store
            <3>2. Backed(y.list, granted[d])
                BY <2>1
            <3> HIDE DEF y
            <3> QED
                BY <1>a, <1>d, <2>1, <3>1, <3>2, BackedCacheWrite
        <2> HIDE DEF x
        <2>5. FramesBacked'
            BY <1>a, <1>d, <2>2, <2>3, FrameBackedUpdate
        <2> QED
            BY <1>3, <1>f, <2>4, <2>5 DEF Store
    <1>4. CASE Reread(c)
        <2>1. InCall(f) /\ cache[p][d].list \in SUBSET Entry
              /\ Backed(cache[p][d].list, granted[d])
            BY <1>4, <1>b DEF Reread, At
        <2>2. FramesBacked'
            BY <1>4, <1>a, <1>d, <2>1, DecideBacked, FrameBackedUpdate DEF Reread
        <2> QED
            BY <1>4, <1>e, <1>f, <2>2 DEF Reread
    <1>5. CASE PutApplied(c)
        <2> DEFINE x == [f EXCEPT !.step = "invalidate", !.list = {}, !.permit = FALSE]
        <2>1. InCall(f) /\ d \in DBs /\ Backed(f.list, granted[d])
            BY <1>5, <1>a, <1>b DEF PutApplied, At, FrameBacked
        <2>2. FrameBacked(x, granted)
            BY <1>a, <2>1 DEF InCall, Frame, FrameBacked, Databases
        <2>3. frame' = [frame EXCEPT ![c] = x]
            BY <1>5, <1>a DEF PutApplied, TypeOK
        <2>4. NoUnrequestedEntries'
            BY <1>5, <1>a, <1>d, <2>1, BackedServerWrite DEF PutApplied, ReplaceList
        <2> HIDE DEF x
        <2>5. FramesBacked'
            BY <1>a, <1>d, <2>2, <2>3, FrameBackedUpdate
        <2> QED
            BY <1>5, <1>e, <2>4, <2>5 DEF PutApplied
    <1>6. CASE PutFailed(c)
        <2> PICK wait :
                frame' = [frame EXCEPT ![c] =
                             [AttemptFailed(@, wait) EXCEPT !.permit = FALSE]]
            BY <1>6 DEF PutFailed
        <2> DEFINE x == [AttemptFailed(f, wait) EXCEPT !.permit = FALSE]
        <2>1. InCall(f) /\ d \in DBs /\ Backed(f.list, granted[d])
            BY <1>6, <1>a, <1>b DEF PutFailed, At, FrameBacked
        <2>2. FrameBacked(x, granted)
            BY <1>a, <2>1 DEF InCall, AttemptFailed, Frame, FrameBacked, Databases
        <2>3. frame' = [frame EXCEPT ![c] = x]
            BY <1>a DEF TypeOK
        <2>4. NoUnrequestedEntries'
            BY <1>6, <1>a, <1>d, <1>f, <2>1, BackedServerWrite DEF PutFailed, ReplaceList
        <2> HIDE DEF x
        <2>5. FramesBacked'
            BY <1>a, <1>d, <2>2, <2>3, FrameBackedUpdate
        <2> QED
            BY <1>6, <1>e, <2>4, <2>5 DEF PutFailed
    <1>7. CASE Invalidate(c)
        <2>1. InCall(f) /\ d \in DBs
            BY <1>7, <1>b DEF Invalidate, At
        <2>2. CachesBacked'
            BY <1>7, <1>a, <1>d, <2>1 DEF Invalidate, Absent, CachesBacked, Backed, TypeOK
        <2>3. FramesBacked'
            BY <1>7, <1>a, <1>d, <2>1, NextDatabaseBacked, FrameBackedUpdate DEF Invalidate
        <2> QED
            BY <1>7, <1>f, <2>2, <2>3 DEF Invalidate
    <1>8. CASE Backoff(c)
        <2>1. InCall(f)
            BY <1>8, <1>b DEF Backoff, At
        <2>2. FrameBacked([f EXCEPT !.step = "lookup", !.attempt = @ + 1], granted)
            BY <1>a, <2>1 DEF InCall, Frame, FrameBacked, Databases
        <2>3. FrameBacked(AfterBackoff(f), granted)
            BY <1>a, <2>1, <2>2, NextDatabaseBacked DEF AfterBackoff
        <2>4. FramesBacked'
            BY <1>8, <1>a, <1>d, <2>3, FrameBackedUpdate DEF Backoff
        <2> QED
            BY <1>8, <1>e, <1>f, <2>4 DEF Backoff
    <1>9. CASE Return(c)
        <2>1. FrameBacked(Idle, granted)
            BY DEF Idle, FrameBacked
        <2>2. FramesBacked'
            BY <1>9, <1>a, <1>d, <2>1, FrameBackedUpdate DEF Return
        <2> QED
            BY <1>9, <1>e, <1>f, <2>2 DEF Return
    <1> QED
        BY <1>1, <1>2, <1>3, <1>4, <1>5, <1>6, <1>7, <1>8, <1>9 DEF Continue

\* A call that was backed stays so when more entries are granted.
LEMMA MoreGranted ==
    ASSUME TypeOK, NEW c \in Caller, FrameBacked(frame[c], granted), NEW g,
           \A d \in DBs : granted[d] \subseteq g[d]
    PROVE  FrameBacked(frame[c], g)
    <1> DEFINE f == frame[c]
    <1>1. f.step \in {"store", "put"} => Target(f) \in DBs
        BY CallerInCall, TargetType
    <1>2. f.step # "idle" => Databases(f) \in Seq(DBs)
        BY DatabasesType DEF TypeOK, WellFormed, Databases
    <1> QED
        BY <1>1, <1>2 DEF FrameBacked, Backed

LEMMA BackedNext == UnrequestedNowhere /\ [Next]_vars => UnrequestedNowhere'
    <1> SUFFICES ASSUME UnrequestedNowhere, [Next]_vars
                 PROVE  NoUnrequestedEntries' /\ CachesBacked' /\ FramesBacked'
        BY TypeNext DEF UnrequestedNowhere, CachesBacked, FramesBacked
    <1> DEFINE Goal == NoUnrequestedEntries' /\ CachesBacked' /\ FramesBacked'
    <1>a. TypeOK /\ NoUnrequestedEntries /\ CachesBacked /\ FramesBacked
        BY DEF UnrequestedNowhere, CachesBacked, FramesBacked
    <1>1. ASSUME NEW p \in Replicas, Crash(p) PROVE Goal
        <2>1. NoUnrequestedEntries'
            BY <1>1, <1>a DEF Crash, NoUnrequestedEntries
        <2>2. CachesBacked'
            BY <1>1, <1>a DEF Crash, CachesBacked, Backed, Absent, TypeOK
        <2>3. FrameBacked(Idle, granted)
            BY DEF Idle, FrameBacked
        <2>4. FramesBacked'
            BY <1>1, <1>a, <2>3 DEF Crash, FramesBacked
        <2> QED
            BY <2>1, <2>2, <2>4
    <1>2. ASSUME NEW p \in Replicas, NEW d \in DBs, InitializeCache(p, d) PROVE Goal
        <2> DEFINE x == [present |-> TRUE, list |-> server[d]]
        <2>1. /\ server' = server /\ granted' = granted /\ frame' = frame
              /\ \/ cache' = [cache EXCEPT ![p][d] = x]
                 \/ cache' = cache
            BY <1>2 DEF InitializeCache
        <2>2. Backed(x.list, granted[d])
            BY <1>a DEF NoUnrequestedEntries
        <2> HIDE DEF x
        <2>3. CachesBacked'
            <3>1. CASE cache' = [cache EXCEPT ![p][d] = x]
                BY <1>a, <2>1, <2>2, <3>1, BackedCacheWrite
            <3>2. CASE cache' = cache
                BY <1>a, <2>1, <3>2 DEF CachesBacked
            <3> QED
                BY <2>1, <3>1, <3>2
        <2>4. NoUnrequestedEntries' /\ FramesBacked'
            BY <1>a, <2>1 DEF NoUnrequestedEntries, FramesBacked
        <2> QED
            BY <2>3, <2>4
    <1>3. ASSUME NEW c \in Caller, Continue(c) PROVE Goal
        BY <1>3, BackedContinue
    <1>4. ASSUME NEW c \in Caller, NEW k \in Call, UpdateAllowList(c, k) PROVE Goal
        <2>1. \A d \in DBs : granted[d] \subseteq granted'[d]
            BY <1>4 DEF UpdateAllowList
        <2>2. NoUnrequestedEntries' /\ CachesBacked'
            BY <1>4, <1>a, <2>1
            DEF UpdateAllowList, NoUnrequestedEntries, CachesBacked, Backed
        <2>3. FrameBacked(Started(k), granted')
            <3>1. Started(k).call = k /\ Started(k).step \in {"lookup", "return"}
                BY DEF Started, Idle
            <3>2. DatabasesOf[k.pool] \in Seq(DBs)
                BY DatabasesType
            <3>3. k.op = "add" => \A i \in DOMAIN DatabasesOf[k.pool] :
                                     Host(k.ip) \in granted'[DatabasesOf[k.pool][i]]
                BY <1>4, <3>2 DEF UpdateAllowList
            <3> QED
                BY <3>1, <3>3 DEF FrameBacked, Databases
        <2>4. ASSUME NEW b \in Caller, b # c PROVE FrameBacked(frame[b], granted')
            BY <1>a, <2>1, MoreGranted DEF FramesBacked
        <2>5. FramesBacked'
            BY <1>4, <1>a, <2>3, <2>4 DEF UpdateAllowList, FramesBacked, TypeOK
        <2> QED
            BY <2>2, <2>5
    <1>5. ASSUME NEW d \in DBs, NEW e \in EditEntries, ExternalEdit(d, e) PROVE Goal
        <2>1. \A b \in DBs : granted[b] \subseteq granted'[b]
            BY <1>5, <1>a DEF ExternalEdit, TypeOK
        <2>2. CachesBacked'
            BY <1>5, <1>a, <2>1 DEF ExternalEdit, CachesBacked, Backed
        <2>3. FramesBacked'
            BY <1>5, <1>a, <2>1, MoreGranted DEF ExternalEdit, FramesBacked
        <2>4. NoUnrequestedEntries'
            <3>1. ASSUME NEW b \in DBs, NEW x \in server'[b]
                  PROVE  x \in server[b] \/ normalizeIP(x) \in granted'[b]
                BY <1>5, <1>a, <3>1 DEF ExternalEdit, TypeOK
            <3> QED
                BY <1>a, <2>1, <3>1 DEF NoUnrequestedEntries, Backed
        <2> QED
            BY <2>2, <2>3, <2>4
    <1>6. CASE UNCHANGED vars
        BY <1>6, <1>a DEF vars, NoUnrequestedEntries, CachesBacked, FramesBacked
    <1> QED
        BY <1>1, <1>2, <1>3, <1>4, <1>5, <1>6 DEF Next

\* Nothing unrequested is in a list, in a cache or on its way, whatever replicas
\* and informers do to each other (updateDatabaseAllowList, allowListCache).
THEOREM UnrequestedIsNowhere == Spec => []UnrequestedNowhere
    BY BackedInit, BackedNext, PTL DEF Spec

\* However many replicas and informers race, crash, retry and lose answers, no
\* database's list ever holds an entry that was not there at the start, was not
\* put there by an operator and was never asked for by an "add" call for a pool
\* of that database (updateDatabaseAllowList and its cache).
THEOREM NothingUnrequested == Spec => []NoUnrequestedEntries
    <1>1. UnrequestedNowhere => NoUnrequestedEntries
        BY DEF UnrequestedNowhere
    <1> QED
        BY BackedInit, BackedNext, <1>1, PTL DEF Spec

-----------------------------------------------------------------------------
(* What the rate limiter covers. *)

\* The first attempt of a database's turn has a permit from its start to its PUT.
Metered(f) ==
    f.step \in {"lookup", "fetch", "store", "reread", "put"} => f.permit \/ f.attempt > 0

FramesMetered == \A c \in Caller : Metered(frame[c])

LEMMA NextDatabaseMetered ==
    ASSUME NEW f \in Frame, NEW err PROVE Metered(NextDatabase(f, err))
    BY DEF NextDatabase, Frame, Metered

LEMMA DecideMetered ==
    ASSUME NEW f \in Frame, Metered(f), f.step \in {"lookup", "reread"}, NEW L
    PROVE  Metered(Decide(f, L))
    <1>1. Metered([f EXCEPT !.step = "put", !.list = NewList(f, L)])
        BY DEF Frame, Metered
    <1> QED
        BY <1>1, NextDatabaseMetered DEF Decide

\* Replacing one caller's frame by a metered one keeps the frames metered.
LEMMA MeteredUpdate ==
    ASSUME TypeOK, FramesMetered, NEW c \in Caller, NEW x, Metered(x),
           frame' = [frame EXCEPT ![c] = x]
    PROVE  FramesMetered'
    BY DEF TypeOK, FramesMetered

LEMMA MeteredContinue ==
    ASSUME TypeOK, FramesMetered, NEW c \in Caller, Continue(c)
    PROVE  FramesMetered'
    <1> DEFINE f == frame[c]
    <1>a. f \in Frame /\ Metered(f)
        BY DEF TypeOK, FramesMetered
    <1>1. CASE Lookup(c)
        <2> DEFINE entry == cache[Home(c)][Target(f)]
        <2>1. f.step = "lookup"
            BY <1>1 DEF Lookup, At
        <2>2. Metered([f EXCEPT !.step = "fetch"]) /\ Metered(Decide(f, entry.list))
            BY <1>a, <2>1, DecideMetered DEF Frame, Metered
        <2> QED
            BY <1>1, <2>2, MeteredUpdate DEF Lookup
    <1>2. CASE Fetch(c)
        <2> DEFINE x == [f EXCEPT !.step = "store", !.list = server[Target(f)]]
        <2>1. f.step = "fetch"
            BY <1>2 DEF Fetch, At
        <2>2. Metered(x) /\ \A wait : Metered(AttemptFailed(f, wait))
            BY <1>a, <2>1 DEF AttemptFailed, Frame, Metered
        <2>3. \/ frame' = [frame EXCEPT ![c] = x]
              \/ \E wait : frame' = [frame EXCEPT ![c] = AttemptFailed(f, wait)]
            BY <1>2 DEF Fetch, TypeOK
        <2> HIDE DEF x
        <2> QED
            BY <2>2, <2>3, MeteredUpdate
    <1>3. CASE Store(c)
        <2> DEFINE x == [f EXCEPT !.step = "reread", !.list = {}]
        <2>1. Metered(x)
            BY <1>3, <1>a DEF Store, At, Frame, Metered
        <2>2. frame' = [frame EXCEPT ![c] = x]
            BY <1>3 DEF Store, TypeOK
        <2> HIDE DEF x
        <2> QED
            BY <2>1, <2>2, MeteredUpdate
    <1>4. CASE Reread(c)
        BY <1>4, <1>a, DecideMetered, MeteredUpdate DEF Reread, At
    <1>5. CASE PutApplied(c)
        <2> DEFINE x == [f EXCEPT !.step = "invalidate", !.list = {}, !.permit = FALSE]
        <2>1. Metered(x)
            BY <1>a DEF Frame, Metered
        <2>2. frame' = [frame EXCEPT ![c] = x]
            BY <1>5 DEF PutApplied, TypeOK
        <2> HIDE DEF x
        <2> QED
            BY <2>1, <2>2, MeteredUpdate
    <1>6. CASE PutFailed(c)
        <2> PICK wait :
                frame' = [frame EXCEPT ![c] =
                             [AttemptFailed(@, wait) EXCEPT !.permit = FALSE]]
            BY <1>6 DEF PutFailed
        <2> DEFINE x == [AttemptFailed(f, wait) EXCEPT !.permit = FALSE]
        <2>1. Metered(x)
            BY <1>a DEF AttemptFailed, Frame, Metered
        <2>2. frame' = [frame EXCEPT ![c] = x]
            BY DEF TypeOK
        <2> HIDE DEF x
        <2> QED
            BY <2>1, <2>2, MeteredUpdate
    <1>7. CASE Invalidate(c)
        BY <1>7, <1>a, NextDatabaseMetered, MeteredUpdate DEF Invalidate
    <1>8. CASE Backoff(c)
        <2>1. Metered([f EXCEPT !.step = "lookup", !.attempt = @ + 1])
            BY <1>a DEF Frame, Metered
        <2>2. Metered(AfterBackoff(f))
            BY <1>a, <2>1, NextDatabaseMetered DEF AfterBackoff
        <2> QED
            BY <1>8, <2>2, MeteredUpdate DEF Backoff
    <1>9. CASE Return(c)
        <2>1. Metered(Idle)
            BY DEF Idle, Metered
        <2> QED
            BY <1>9, <2>1, MeteredUpdate DEF Return
    <1> QED
        BY <1>1, <1>2, <1>3, <1>4, <1>5, <1>6, <1>7, <1>8, <1>9 DEF Continue

LEMMA MeteredNext == TypeOK /\ FramesMetered /\ [Next]_vars => FramesMetered'
    <1> SUFFICES ASSUME TypeOK, FramesMetered, [Next]_vars PROVE FramesMetered'
        OBVIOUS
    <1>1. ASSUME NEW p \in Replicas, Crash(p) PROVE FramesMetered'
        BY <1>1 DEF Crash, FramesMetered, Metered, Idle
    <1>2. ASSUME NEW p \in Replicas, NEW d \in DBs, InitializeCache(p, d)
          PROVE  FramesMetered'
        BY <1>2 DEF InitializeCache, FramesMetered
    <1>3. ASSUME NEW c \in Caller, Continue(c) PROVE FramesMetered'
        BY <1>3, MeteredContinue
    <1>4. ASSUME NEW c \in Caller, NEW k \in Call, UpdateAllowList(c, k)
          PROVE  FramesMetered'
        <2>1. Metered(Started(k))
            BY DEF Started, Idle, Metered
        <2> QED
            BY <1>4, <2>1, MeteredUpdate DEF UpdateAllowList
    <1>5. ASSUME NEW d \in DBs, NEW e \in EditEntries, ExternalEdit(d, e)
          PROVE  FramesMetered'
        BY <1>5 DEF ExternalEdit, FramesMetered
    <1>6. CASE UNCHANGED vars
        BY <1>6 DEF vars, FramesMetered
    <1> QED
        BY <1>1, <1>2, <1>3, <1>4, <1>5, <1>6 DEF Next

\* A PUT without a permit of the rate limiter is a retry of one that had it,
\* whatever the API answers: a turn never starts without one (handleAddOperation,
\* handleDeleteOperation, updateDatabaseAllowList).
THEOREM OnlyRetriesAreUnmetered == Spec => []UnmeteredPutsAreRetries
    <1>1. Init => TypeOK /\ FramesMetered
        BY TypeInit DEF Init, FramesMetered, Metered, Idle
    <1>2. TypeOK /\ FramesMetered /\ [Next]_vars => TypeOK' /\ FramesMetered'
        BY TypeNext, MeteredNext
    <1>3. FramesMetered => UnmeteredPutsAreRetries
        BY DEF FramesMetered, Metered, UnmeteredPutsAreRetries, At
    <1> QED
        BY <1>1, <1>2, <1>3, PTL DEF Spec

-----------------------------------------------------------------------------
(* How long a turn waits. *)

\* What a failed attempt is compared with: the wait of the attempt before it, which is
\* still in nextBackoff.
Before(n) == IF n = 0 THEN {0} ELSE NextBackoff(n - 1)

Paced(f) ==
    f.nextBackoff \in IF f.step = "backoff" THEN NextBackoff(f.attempt) ELSE Before(f.attempt)

FramesPaced == \A c \in Caller : Paced(frame[c])

\* No delay of any attempt, with its jitter, is too long for a time.Duration.
FitsDuration == \A n \in 1 .. MaxAttempts - 1 : 3 * Doubled(InitialBackoff, n) <= 2 * MaxDuration

\* A delay that fits is at least the doubled one, less than the next doubled one, but
\* for the cap.
LEMMA WaitBounds ==
    ASSUME FitsDuration, NEW n \in 1 .. MaxAttempts - 1, NEW wait \in NextBackoff(n)
    PROVE  \E d \in Nat : /\ Doubled(InitialBackoff, n) <= d /\ d <= 2 * Doubled(InitialBackoff, n)
                          /\ wait = IF d > MaxBackoff THEN MaxBackoff ELSE d
    <1> DEFINE backoff == Doubled(InitialBackoff, n)
    <1>1. n \in Nat /\ n # 0
        BY ConfigAssumption
    <1>2. backoff \in Nat /\ 3 * backoff <= 2 * MaxDuration /\ MaxDuration \in Nat
        BY <1>1, ConfigAssumption, DoubledStep DEF FitsDuration
    <1>3. PICK x \in backoff .. 2 * backoff :
             /\ x = backoff \/ 2 * x < 3 * backoff
             /\ \E d \in ToDuration(x) : wait = IF d > MaxBackoff THEN MaxBackoff ELSE d
        BY <1>1 DEF NextBackoff
    <1> HIDE DEF backoff
    <1>4. x \in Nat /\ backoff <= x /\ x <= 2 * backoff /\ x <= MaxDuration
        BY <1>2, <1>3
    <1>5. ToDuration(x) = {x}
        BY <1>4 DEF ToDuration
    <1> QED
        BY <1>3, <1>4, <1>5 DEF backoff

\* A wait is no shorter than the one before it.
LEMMA WaitGrows ==
    ASSUME MaxBackoff # 0, FitsDuration, NEW n \in 0 .. MaxAttempts - 1,
           NEW before \in Before(n), NEW wait \in NextBackoff(n)
    PROVE  wait >= before /\ (n > 0 => wait <= MaxBackoff)
    <1>1. InitialBackoff \in Nat /\ MaxBackoff \in Nat /\ InitialBackoff <= MaxBackoff
        BY ConfigAssumption
    <1>2. CASE n = 0
        BY <1>1, <1>2 DEF Before, NextBackoff
    <1>3. CASE n # 0
        <2> DEFINE m == n - 1
                   b == Doubled(InitialBackoff, m)
                   c == Doubled(InitialBackoff, n)
        <2>1. n \in 1 .. MaxAttempts - 1 /\ m \in Nat /\ m + 1 = n
            BY <1>3, ConfigAssumption
        <2>2. b \in Nat /\ c = 2 * b
            BY <1>1, <2>1, DoubledStep
        <2>3. PICK d \in Nat : c <= d /\ wait = IF d > MaxBackoff THEN MaxBackoff ELSE d
            BY <2>1, WaitBounds
        <2>4. before \in NextBackoff(m)
            BY <1>3 DEF Before
        <2>5. \E e \in Nat : e <= c /\ before = IF e > MaxBackoff THEN MaxBackoff ELSE e
            <3>1. CASE m = 0
                <4>1. before = InitialBackoff /\ b = InitialBackoff
                    BY <1>1, <2>4, <3>1, DoubledStep DEF NextBackoff
                <4> QED
                    BY <1>1, <2>2, <4>1
            <3>2. CASE m # 0
                <4>1. m \in 1 .. MaxAttempts - 1
                    BY <2>1, <3>2, ConfigAssumption
                <4> HIDE DEF m
                <4>2. \E e \in Nat : /\ b <= e /\ e <= 2 * b
                                     /\ before = IF e > MaxBackoff THEN MaxBackoff ELSE e
                    BY <2>4, <4>1, WaitBounds
                <4> QED
                    BY <2>2, <4>2
            <3> QED
                BY <3>1, <3>2
        <2> HIDE DEF b, c, m
        <2> QED
            BY <1>1, <2>2, <2>3, <2>5
    <1> QED
        BY <1>2, <1>3

LEMMA NextDatabasePaced ==
    ASSUME NEW f \in Frame, NEW err
    PROVE  Paced(NextDatabase(f, err)) /\ NextDatabase(f, err).step # "backoff"
    BY DEF NextDatabase, Frame, Paced, Before

LEMMA DecidePaced ==
    ASSUME NEW f \in Frame, Paced(f), f.step # "backoff", NEW L
    PROVE  Paced(Decide(f, L)) /\ Decide(f, L).step # "backoff"
    <1> DEFINE p == [f EXCEPT !.step = "put", !.list = NewList(f, L)]
    <1>1. p.step = "put" /\ p.nextBackoff = f.nextBackoff /\ p.attempt = f.attempt
        BY DEF Frame
    <1>2. Paced(p) /\ p.step # "backoff"
        BY <1>1 DEF Paced
    <1>3. Decide(f, L) = p \/ Decide(f, L) = NextDatabase(f, FALSE)
        BY DEF Decide
    <1> HIDE DEF p
    <1> QED
        BY <1>2, <1>3, NextDatabasePaced

\* A step that begins a wait draws it for the attempt that has just failed.
Waits(f, x) ==
    f.step # "backoff" /\ x.step = "backoff" =>
        x.attempt = f.attempt /\ x.nextBackoff \in NextBackoff(f.attempt)

PacedWaits == FramesPaced /\ \A c \in Caller : Paced(frame'[c]) /\ Waits(frame[c], frame'[c])

\* Replacing one caller's frame in pace keeps the frames in pace.
LEMMA PacedUpdate ==
    ASSUME TypeOK, FramesPaced, NEW c \in Caller, NEW x, Paced(x), Waits(frame[c], x),
           frame' = [frame EXCEPT ![c] = x]
    PROVE  PacedWaits
    BY DEF TypeOK, FramesPaced, PacedWaits, Waits

LEMMA PacedContinue ==
    ASSUME TypeOK, FramesPaced, NEW c \in Caller, Continue(c)
    PROVE  PacedWaits
    <1> DEFINE f == frame[c]
    <1>a. f \in Frame /\ Paced(f)
        BY DEF TypeOK, FramesPaced
    <1>1. CASE Lookup(c)
        <2> DEFINE entry == cache[Home(c)][Target(f)]
                   x == [f EXCEPT !.step = "fetch"]
                   y == Decide(f, entry.list)
        <2>1. f.step = "lookup"
            BY <1>1 DEF Lookup, At
        <2>2. Paced(x) /\ x.step # "backoff"
            BY <1>a, <2>1 DEF Frame, Paced
        <2>3. Paced(y) /\ y.step # "backoff"
            BY <1>a, <2>1, DecidePaced
        <2>4. frame' = [frame EXCEPT ![c] = x] \/ frame' = [frame EXCEPT ![c] = y]
            BY <1>1 DEF Lookup
        <2> HIDE DEF x, y
        <2> QED
            BY <2>2, <2>3, <2>4, PacedUpdate DEF Waits
    <1>2. CASE Fetch(c)
        <2> DEFINE x == [f EXCEPT !.step = "store", !.list = server[Target(f)]]
        <2>1. f.step = "fetch"
            BY <1>2 DEF Fetch, At
        <2>2. Paced(x) /\ Waits(f, x)
            BY <1>a, <2>1 DEF Frame, Paced, Waits
        <2>3. ASSUME NEW wait \in NextBackoff(f.attempt)
              PROVE  Paced(AttemptFailed(f, wait)) /\ Waits(f, AttemptFailed(f, wait))
            BY <1>a DEF AttemptFailed, Frame, Paced, Waits
        <2>4. \/ frame' = [frame EXCEPT ![c] = x]
              \/ \E wait \in NextBackoff(f.attempt) :
                    frame' = [frame EXCEPT ![c] = AttemptFailed(f, wait)]
            BY <1>2 DEF Fetch, TypeOK
        <2> HIDE DEF x
        <2> QED
            BY <2>2, <2>3, <2>4, PacedUpdate
    <1>3. CASE Store(c)
        <2> DEFINE x == [f EXCEPT !.step = "reread", !.list = {}]
        <2>1. Paced(x) /\ Waits(f, x)
            BY <1>3, <1>a DEF Store, At, Frame, Paced, Waits
        <2>2. frame' = [frame EXCEPT ![c] = x]
            BY <1>3 DEF Store, TypeOK
        <2> HIDE DEF x
        <2> QED
            BY <2>1, <2>2, PacedUpdate
    <1>4. CASE Reread(c)
        <2> DEFINE x == Decide(f, cache[Home(c)][Target(f)].list)
        <2>1. f.step = "reread" /\ frame' = [frame EXCEPT ![c] = x]
            BY <1>4 DEF Reread, At
        <2>2. Paced(x) /\ x.step # "backoff"
            BY <1>a, <2>1, DecidePaced
        <2> HIDE DEF x
        <2> QED
            BY <2>1, <2>2, PacedUpdate DEF Waits
    <1>5. CASE PutApplied(c)
        <2> DEFINE x == [f EXCEPT !.step = "invalidate", !.list = {}, !.permit = FALSE]
        <2>1. Paced(x) /\ Waits(f, x)
            BY <1>5, <1>a DEF PutApplied, At, Frame, Paced, Waits
        <2>2. frame' = [frame EXCEPT ![c] = x]
            BY <1>5 DEF PutApplied, TypeOK
        <2> HIDE DEF x
        <2> QED
            BY <2>1, <2>2, PacedUpdate
    <1>6. CASE PutFailed(c)
        <2> PICK wait \in NextBackoff(f.attempt) :
                frame' = [frame EXCEPT ![c] =
                             [AttemptFailed(@, wait) EXCEPT !.permit = FALSE]]
            BY <1>6 DEF PutFailed
        <2> DEFINE x == [AttemptFailed(f, wait) EXCEPT !.permit = FALSE]
        <2>1. Paced(x) /\ Waits(f, x)
            BY <1>a DEF AttemptFailed, Frame, Paced, Waits
        <2>2. frame' = [frame EXCEPT ![c] = x]
            BY DEF TypeOK
        <2> HIDE DEF x
        <2> QED
            BY <2>1, <2>2, PacedUpdate
    <1>7. CASE Invalidate(c)
        <2> DEFINE x == NextDatabase(f, FALSE)
        <2>1. Paced(x) /\ x.step # "backoff" /\ frame' = [frame EXCEPT ![c] = x]
            BY <1>7, <1>a, NextDatabasePaced DEF Invalidate
        <2> HIDE DEF x
        <2> QED
            BY <2>1, PacedUpdate DEF Waits
    <1>8. CASE Backoff(c)
        <2> DEFINE x == [f EXCEPT !.step = "lookup", !.attempt = @ + 1]
                   y == NextDatabase(f, TRUE)
        <2>1. f.step = "backoff" /\ f.attempt \in Nat /\ f.nextBackoff \in NextBackoff(f.attempt)
            BY <1>8, <1>a, ConfigAssumption DEF Backoff, At, Frame, Paced
        <2>2. Paced(x)
            <3>1. /\ x.step = "lookup" /\ x.attempt = f.attempt + 1
                  /\ x.nextBackoff = f.nextBackoff
                BY <1>a DEF Frame
            <3>2. x.attempt # 0 /\ x.attempt - 1 = f.attempt
                BY <2>1, <3>1
            <3> HIDE DEF x
            <3> QED
                BY <2>1, <3>1, <3>2, Zenon DEF Paced, Before
        <2>3. Paced(y)
            BY <1>a, NextDatabasePaced
        <2>4. frame' = [frame EXCEPT ![c] = x] \/ frame' = [frame EXCEPT ![c] = y]
            BY <1>8 DEF Backoff, AfterBackoff
        <2> HIDE DEF x, y
        <2> QED
            BY <2>1, <2>2, <2>3, <2>4, PacedUpdate DEF Waits
    <1>9. CASE Return(c)
        <2>1. Paced(Idle) /\ Idle.step # "backoff"
            BY DEF Idle, Paced, Before
        <2> QED
            BY <1>9, <2>1, PacedUpdate DEF Return, Waits
    <1> QED
        BY <1>1, <1>2, <1>3, <1>4, <1>5, <1>6, <1>7, <1>8, <1>9 DEF Continue

LEMMA PacedNext == TypeOK /\ FramesPaced /\ [Next]_vars => PacedWaits
    <1> SUFFICES ASSUME TypeOK, FramesPaced, [Next]_vars PROVE PacedWaits
        OBVIOUS
    <1>1. Paced(Idle) /\ Idle.step # "backoff"
        BY DEF Idle, Paced, Before
    <1>2. ASSUME frame' = frame PROVE PacedWaits
        BY <1>2 DEF FramesPaced, PacedWaits, Waits
    <1>3. ASSUME NEW p \in Replicas, Crash(p) PROVE PacedWaits
        <2>1. \A c \in Caller : frame'[c] = Idle \/ frame'[c] = frame[c]
            BY <1>3 DEF Crash
        <2> QED
            BY <1>1, <2>1 DEF FramesPaced, PacedWaits, Waits
    <1>4. ASSUME NEW p \in Replicas, NEW d \in DBs, InitializeCache(p, d) PROVE PacedWaits
        BY <1>2, <1>4 DEF InitializeCache
    <1>5. ASSUME NEW c \in Caller, Continue(c) PROVE PacedWaits
        BY <1>5, PacedContinue
    <1>6. ASSUME NEW c \in Caller, NEW k \in Call, UpdateAllowList(c, k) PROVE PacedWaits
        <2>1. Paced(Started(k)) /\ Started(k).step # "backoff"
            BY DEF Started, Idle, Paced, Before
        <2> QED
            BY <1>6, <2>1, PacedUpdate DEF UpdateAllowList, Waits
    <1>7. ASSUME NEW d \in DBs, NEW e \in EditEntries, ExternalEdit(d, e) PROVE PacedWaits
        BY <1>2, <1>7 DEF ExternalEdit
    <1>8. CASE UNCHANGED vars
        BY <1>2, <1>8 DEF vars
    <1> QED
        BY <1>3, <1>4, <1>5, <1>6, <1>7, <1>8 DEF Next

\* With a cap, and while no delay is too long for a time.Duration, no wait of a turn is
\* shorter than the one before it and only the first can exceed the cap, whatever the
\* jitter draws and however callers are interleaved (RetryWithBackoff).
THEOREM WaitsNeverShrink ==
    ASSUME MaxBackoff # 0, FitsDuration PROVE Spec => BackoffsGrow
    <1> DEFINE Grows == \A c \in Caller : ~At(c, "backoff") /\ At(c, "backoff")' =>
                   LET wait == frame'[c].nextBackoff IN
                   /\ wait >= frame[c].nextBackoff
                   /\ frame[c].attempt > 0 => wait <= MaxBackoff
    <1>1. Init => TypeOK /\ FramesPaced
        BY TypeInit DEF Init, FramesPaced, Paced, Before, Idle
    <1>2. TypeOK /\ FramesPaced /\ [Next]_vars => TypeOK' /\ FramesPaced'
        BY TypeNext, PacedNext DEF PacedWaits, FramesPaced
    <1>3. ASSUME TypeOK, FramesPaced, [Next]_vars PROVE Grows
        <2> SUFFICES ASSUME NEW c \in Caller, ~At(c, "backoff"), At(c, "backoff")'
                     PROVE  /\ frame'[c].nextBackoff >= frame[c].nextBackoff
                            /\ frame[c].attempt > 0 => frame'[c].nextBackoff <= MaxBackoff
            OBVIOUS
        <2>1. /\ frame'[c].nextBackoff \in NextBackoff(frame[c].attempt)
              /\ frame[c].nextBackoff \in Before(frame[c].attempt)
            BY <1>3, PacedNext DEF PacedWaits, FramesPaced, Waits, Paced, At
        <2>2. frame[c].attempt \in 0 .. MaxAttempts - 1
            BY <1>3 DEF TypeOK, Frame
        <2> QED
            BY <2>1, <2>2, WaitGrows
    <1>4. TypeOK /\ FramesPaced /\ [Next]_vars => [Grows]_vars
        BY <1>3
    <1> HIDE DEF Grows
    <1>5. Spec => [][Grows]_vars
        BY <1>1, <1>2, <1>4, PTL DEF Spec
    <1> QED
        BY <1>5 DEF BackoffsGrow, Grows
=============================================================================
