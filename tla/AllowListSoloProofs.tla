------------------------ MODULE AllowListSoloProofs ------------------------
(***************************************************************************)
(* Proofs about the AllowListClient of one informer of one replica, when   *)
(* nothing else writes the lists and a PUT that reports an error had no    *)
(* effect: the cache agrees with the API, success means that the change    *)
(* has been made everywhere, an add drops no entry, and every step is one  *)
(* of AllowList or none.                                                   *)
(***************************************************************************)
EXTENDS AllowListClientProofs

Solo ==
    /\ \E p, i : Replicas = {p} /\ Informers = {i}
    /\ EditEntries = {} /\ ~AmbiguousPut

\* The change that call f asks for shows in the i-th list of its pool.
Applied(f, i, s) == Host(f.call.ip) \in Norm(s[Databases(f)[i]]) <=> f.call.op = "add"

\* For frame f, lists s and the cache ch of f's replica: the cache is up to date,
Coherent(f, s, ch) ==
    \A d \in DBs : ch[d].present =>
        ch[d].list = s[d] \/ (f.step = "invalidate" /\ Target(f) = d)

\* so is the list that the call works on, between the cache and the PUT,
Fresh(f, s, ch) ==
    /\ f.step = "store" => f.list = s[Target(f)]
    /\ f.step = "reread" => ch[Target(f)].present
    /\ f.step = "put" => f.list = NewList(f, s[Target(f)])

\* The first database of the pool that the call is still to change.
Reached(f) == IF f.step = "return" THEN Len(Databases(f)) + 1
              ELSE IF f.step = "invalidate" THEN f.idx + 1 ELSE f.idx

\* and the databases behind the call have its change.
Done(f, s) ==
    f.step # "idle" /\ ~f.failed =>
        \A i \in DOMAIN Databases(f) : i < Reached(f) => Applied(f, i, s)

InStep(f, s, ch) == Coherent(f, s, ch) /\ Fresh(f, s, ch) /\ Done(f, s)

SoloInv == TypeOK /\ \A c \in Caller : InStep(frame[c], server, cache[Home(c)])

LEMMA OneCaller ==
    ASSUME Solo, NEW c \in Caller
    PROVE  /\ \A b \in Caller : b = c
           /\ \A p \in Replicas : p = Home(c)
    BY DEF Solo, Caller, Home

-----------------------------------------------------------------------------
(* The computation. *)

\* The list to PUT is in normal form, has the address or not, as asked, and of an
\* add all the entries there were.
LEMMA NewListApplies ==
    ASSUME NEW f, f.call \in Call, NEW L \in SUBSET Entry
    PROVE  /\ Norm(NewList(f, L)) = NewList(f, L)
           /\ Host(f.call.ip) \in NewList(f, L) <=> f.call.op = "add"
           /\ f.call.op = "add" => Norm(L) \subseteq NewList(f, L)
    <1>1. f.call.op \in {"add", "remove"} /\ f.call.ip \in Addrs
        BY DEF Call
    <1>2. \A e \in NewList(f, L) : normalizeIP(e) = e
        BY <1>1, NormalEntry DEF NewList, Norm
    <1>3. Norm(NewList(f, L)) = NewList(f, L)
        BY <1>2 DEF Norm
    <1> QED
        BY <1>1, <1>3 DEF NewList

LEMMA NextDatabaseMoves ==
    ASSUME NEW f, InCall(f), NEW err \in BOOLEAN
    PROVE  LET n == NextDatabase(f, err) IN
           /\ n.step \in {"lookup", "return"} /\ n.call = f.call
           /\ n.failed = (f.failed \/ err) /\ Databases(n) = Databases(f)
           /\ Reached(n) = f.idx + 1
    <1> DEFINE n == NextDatabase(f, err)
    <1>1. /\ f \in Frame /\ f.idx \in 1 .. Len(Databases(f))
          /\ Len(Databases(f)) \in Nat
        BY TargetType, DatabasesType DEF InCall, Databases
    <1>2. /\ n.step \in {"lookup", "return"} /\ n.call = f.call
          /\ n.failed = (f.failed \/ err) /\ Databases(n) = Databases(f)
        BY <1>1 DEF NextDatabase, Frame, Databases
    <1>3. Reached(n) = f.idx + 1
        <2>1. CASE f.idx = Len(Databases(f))
            BY <1>1, <1>2, <2>1 DEF NextDatabase, Frame, Reached
        <2>2. CASE f.idx # Len(Databases(f))
            <3>1. n.step = "lookup" /\ n.idx = f.idx + 1
                BY <1>1, <2>2 DEF NextDatabase, Frame
            <3> QED
                BY <3>1 DEF Reached
        <2> QED
            BY <2>1, <2>2
    <1> QED
        BY <1>2, <1>3

LEMMA NextDatabaseInStep ==
    ASSUME NEW f, InCall(f), NEW err \in BOOLEAN, NEW s, NEW ch,
           \A d \in DBs : ch[d].present => ch[d].list = s[d],
           ~err /\ ~f.failed => \A i \in 1 .. f.idx : Applied(f, i, s)
    PROVE  InStep(NextDatabase(f, err), s, ch)
    <1> DEFINE n == NextDatabase(f, err)
    <1>1. /\ f.idx \in 1 .. Len(Databases(f)) /\ Len(Databases(f)) \in Nat
          /\ DOMAIN Databases(f) = 1 .. Len(Databases(f))
        BY TargetType, DatabasesType DEF Databases
    <1>2. /\ n.step \in {"lookup", "return"} /\ n.call = f.call
          /\ n.failed = (f.failed \/ err) /\ Databases(n) = Databases(f)
          /\ Reached(n) = f.idx + 1
        BY NextDatabaseMoves
    <1> HIDE DEF n
    <1>3. Done(n, s)
        <2> SUFFICES ASSUME ~n.failed, NEW i \in DOMAIN Databases(n), i < Reached(n)
                     PROVE  Applied(n, i, s)
            BY DEF Done
        <2>1. i \in 1 .. f.idx
            BY <1>1, <1>2
        <2>2. ~err /\ ~f.failed
            BY <1>2
        <2> QED
            BY <1>2, <2>1, <2>2 DEF Applied
    <1>4. InStep(n, s, ch)
        BY <1>2, <1>3 DEF InStep, Coherent, Fresh
    <1> QED
        BY <1>4 DEF n

LEMMA DecideInStep ==
    ASSUME NEW f, InCall(f), f.step \in {"lookup", "reread"}, NEW s, NEW ch,
           s[Target(f)] \in SUBSET Entry, InStep(f, s, ch)
    PROVE  InStep(Decide(f, s[Target(f)]), s, ch)
    <1> DEFINE L == s[Target(f)]
               x == [f EXCEPT !.step = "put", !.list = NewList(f, L)]
    <1>1. /\ f \in Frame /\ f.call \in Call /\ f.idx \in 1 .. Len(Databases(f))
          /\ Len(Databases(f)) \in Nat /\ DOMAIN Databases(f) = 1 .. Len(Databases(f))
        BY TargetType, DatabasesType DEF InCall, Databases
    <1>2. \A d \in DBs : ch[d].present => ch[d].list = s[d]
        BY DEF InStep, Coherent
    <1>3. ~f.failed => \A i \in 1 .. f.idx : i < f.idx => Applied(f, i, s)
        BY <1>1 DEF InStep, Done, Reached
    <1>4. CASE (f.call.op = "add") = (Host(f.call.ip) \in Norm(L))
        <2>1. Applied(f, f.idx, s)
            BY <1>4 DEF Applied, Target
        <2>2. ~f.failed => \A i \in 1 .. f.idx : Applied(f, i, s)
            BY <1>1, <1>3, <2>1
        <2>3. Decide(f, L) = NextDatabase(f, FALSE)
            BY <1>4 DEF Decide
        <2> QED
            BY <1>2, <2>2, <2>3, NextDatabaseInStep
    <1>5. CASE ~((f.call.op = "add") = (Host(f.call.ip) \in Norm(L)))
        <2>1. /\ x.step = "put" /\ x.call = f.call /\ x.idx = f.idx
              /\ x.failed = f.failed /\ x.list = NewList(f, L)
              /\ Databases(x) = Databases(f) /\ Target(x) = Target(f)
            BY <1>1 DEF Frame, Databases, Target
        <2>2. Fresh(x, s, ch)
            BY <2>1 DEF Fresh, NewList
        <2>3. Done(x, s)
            <3>1. Reached(x) = f.idx
                BY <2>1 DEF Reached
            <3> HIDE DEF x
            <3> QED
                BY <1>1, <1>3, <2>1, <3>1 DEF Done, Applied
        <2>4. Decide(f, L) = x
            BY <1>5 DEF Decide
        <2> QED
            BY <1>2, <2>2, <2>3, <2>4 DEF InStep, Coherent
    <1> QED
        BY <1>4, <1>5

-----------------------------------------------------------------------------
(* The steps of the call, one by one. *)

Working == {"lookup", "fetch", "store", "reread", "put", "backoff"}

\* A step within a database's turn changes nothing behind the call.
LEMMA DoneWithinTurn ==
    ASSUME NEW f, NEW x, NEW s, f.step \in Working, x.step \in Working, Done(f, s),
           x.call = f.call, x.idx = f.idx, x.failed = f.failed
    PROVE  Done(x, s)
    BY DEF Working, Done, Reached, Applied, Databases

LEMMA SoloContinue ==
    ASSUME Solo, SoloInv, NEW c \in Caller, Continue(c)
    PROVE  InStep(frame'[c], server', cache'[Home(c)])
    <1> DEFINE f == frame[c]
               d == Target(f)
               p == Home(c)
               ch == cache[p]
    <1>a. /\ TypeOK /\ f \in Frame /\ p \in Replicas
          /\ Coherent(f, server, ch) /\ Fresh(f, server, ch) /\ Done(f, server)
        BY HomeType DEF SoloInv, TypeOK, InStep
    <1>b. ASSUME f.step \notin {"idle", "return"}
          PROVE  /\ InCall(f) /\ d \in DBs /\ f.call \in Call
                 /\ f.idx \in 1 .. Len(Databases(f)) /\ Len(Databases(f)) \in Nat
                 /\ DOMAIN Databases(f) = 1 .. Len(Databases(f))
                 /\ server[d] \in SUBSET Entry /\ ch[d] \in CacheEntry
        <2>1. InCall(f)
            BY <1>a, <1>b, CallerInCall
        <2> QED
            BY <1>a, <2>1, TargetType, DatabasesType DEF TypeOK, Databases
    <1>1. CASE Lookup(c)
        <2>1. f.step = "lookup" /\ server' = server /\ cache' = cache
            BY <1>1 DEF Lookup, At
        <2>2. CASE ch[d].present
            <3>1. ch[d].list = server[d]
                BY <1>a, <1>b, <2>1, <2>2 DEF Coherent
            <3>2. frame'[c] = Decide(f, server[d])
                BY <1>1, <1>a, <2>2, <3>1 DEF Lookup, TypeOK
            <3> QED
                BY <1>a, <1>b, <2>1, <3>2, DecideInStep DEF InStep
        <2>3. CASE ~ch[d].present
            <3> DEFINE x == [f EXCEPT !.step = "fetch"]
            <3>1. frame'[c] = x
                BY <1>1, <1>a, <2>3 DEF Lookup, TypeOK
            <3>2. /\ x.step = "fetch" /\ x.call = f.call /\ x.idx = f.idx
                  /\ x.failed = f.failed
                BY <1>a DEF Frame
            <3> HIDE DEF x
            <3>3. Done(x, server)
                BY <1>a, <2>1, <3>2, DoneWithinTurn DEF Working
            <3> QED
                BY <1>a, <2>1, <3>1, <3>2, <3>3 DEF InStep, Coherent, Fresh
        <2> QED
            BY <2>2, <2>3
    <1>2. CASE Fetch(c)
        <2>1. f.step = "fetch" /\ server' = server /\ cache' = cache
            BY <1>2 DEF Fetch, At
        <2>2. \/ frame'[c] = [f EXCEPT !.step = "store", !.list = server[d]]
              \/ \E wait : frame'[c] = AttemptFailed(f, wait)
            BY <1>2, <1>a DEF Fetch, TypeOK
        <2>3. CASE frame'[c] = [f EXCEPT !.step = "store", !.list = server[d]]
            <3> DEFINE x == [f EXCEPT !.step = "store", !.list = server[d]]
            <3>1. /\ x.step = "store" /\ x.call = f.call /\ x.idx = f.idx
                  /\ x.failed = f.failed /\ x.list = server[d] /\ Target(x) = d
                BY <1>a DEF Frame, Target, Databases
            <3>2. frame'[c] = x
                BY <2>3
            <3> HIDE DEF x
            <3>3. Done(x, server)
                BY <1>a, <2>1, <3>1, DoneWithinTurn DEF Working
            <3> QED
                BY <1>a, <2>1, <3>1, <3>2, <3>3 DEF InStep, Coherent, Fresh
        <2>4. CASE \E wait : frame'[c] = AttemptFailed(f, wait)
            <3> PICK wait : frame'[c] = AttemptFailed(f, wait)
                BY <2>4
            <3> DEFINE x == AttemptFailed(f, wait)
            <3>1. /\ x.step = "backoff" /\ x.call = f.call /\ x.idx = f.idx
                  /\ x.failed = f.failed
                BY <1>a DEF AttemptFailed, Frame
            <3>2. frame'[c] = x
                OBVIOUS
            <3> HIDE DEF x
            <3>3. Done(x, server)
                BY <1>a, <2>1, <3>1, DoneWithinTurn DEF Working
            <3> QED
                BY <1>a, <2>1, <3>1, <3>2, <3>3 DEF InStep, Coherent, Fresh
        <2> QED
            BY <2>2, <2>3, <2>4
    <1>3. CASE Store(c)
        <2> DEFINE x == [f EXCEPT !.step = "reread", !.list = {}]
        <2>1. f.step = "store" /\ server' = server /\ f.list = server[d]
            BY <1>3, <1>a DEF Store, At, Fresh
        <2>2. /\ x.step = "reread" /\ x.call = f.call /\ x.idx = f.idx
              /\ x.failed = f.failed /\ Target(x) = d
            BY <1>a DEF Frame, Target, Databases
        <2>3. frame'[c] = x
            BY <1>3, <1>a DEF Store, TypeOK
        <2> HIDE DEF x
        <2>4. Done(x, server)
            BY <1>a, <2>1, <2>2, DoneWithinTurn DEF Working
        <2>5. /\ cache'[p][d].present /\ cache'[p][d].list = server[d]
              /\ \A b \in DBs : b # d => cache'[p][b] = ch[b]
            BY <1>3, <1>a, <1>b, <2>1 DEF Store, TypeOK
        <2> QED
            BY <1>a, <2>1, <2>2, <2>3, <2>4, <2>5 DEF InStep, Coherent, Fresh
    <1>4. CASE Reread(c)
        <2>1. f.step = "reread" /\ server' = server /\ cache' = cache
            BY <1>4 DEF Reread, At
        <2>2. ch[d].list = server[d]
            BY <1>a, <1>b, <2>1 DEF Coherent, Fresh
        <2>3. frame'[c] = Decide(f, server[d])
            BY <1>4, <1>a, <2>2 DEF Reread, TypeOK
        <2> QED
            BY <1>a, <1>b, <2>1, <2>3, DecideInStep DEF InStep
    <1>5. CASE PutApplied(c)
        <2> DEFINE x == [f EXCEPT !.step = "invalidate", !.list = {}, !.permit = FALSE]
        <2>1. f.step = "put" /\ cache' = cache /\ f.list = NewList(f, server[d])
            BY <1>5, <1>a DEF PutApplied, At, Fresh
        <2>2. /\ server'[d] = NewList(f, server[d])
              /\ \A b \in DBs : b # d => server'[b] = server[b]
            BY <1>5, <1>a, <1>b, <2>1 DEF PutApplied, ReplaceList, TypeOK
        <2>3. /\ x.step = "invalidate" /\ x.call = f.call /\ x.idx = f.idx
              /\ x.failed = f.failed /\ Target(x) = d /\ Databases(x) = Databases(f)
            BY <1>a DEF Frame, Target, Databases
        <2>4. frame'[c] = x
            BY <1>5, <1>a DEF PutApplied, TypeOK
        <2> HIDE DEF x
        <2>5. Coherent(x, server', ch)
            BY <1>a, <2>1, <2>2, <2>3 DEF Coherent
        <2>6. Done(x, server')
            <3> SUFFICES ASSUME ~f.failed, NEW i \in DOMAIN Databases(f), i < f.idx + 1
                         PROVE  Applied(f, i, server')
                BY <2>3 DEF Done, Reached, Applied
            <3>1. CASE Databases(f)[i] = d
                BY <1>b, <2>1, <2>2, <3>1, NewListApplies DEF Applied
            <3>2. CASE Databases(f)[i] # d
                <4>1. i < f.idx /\ Databases(f)[i] \in DBs
                    BY <1>b, <2>1, <3>2, DatabasesType DEF Target, Databases
                <4>2. Applied(f, i, server)
                    BY <1>a, <2>1, <4>1 DEF Done, Reached
                <4> QED
                    BY <2>2, <3>2, <4>1, <4>2 DEF Applied
            <3> QED
                BY <3>1, <3>2
        <2> QED
            BY <2>1, <2>3, <2>4, <2>5, <2>6 DEF InStep, Fresh
    <1>6. CASE PutFailed(c)
        <2> PICK wait :
                frame' = [frame EXCEPT ![c] =
                             [AttemptFailed(@, wait) EXCEPT !.permit = FALSE]]
            BY <1>6 DEF PutFailed
        <2> DEFINE x == [AttemptFailed(f, wait) EXCEPT !.permit = FALSE]
        <2>1. f.step = "put" /\ server' = server /\ cache' = cache
            BY <1>6 DEF PutFailed, At, Solo
        <2>2. /\ x.step = "backoff" /\ x.call = f.call /\ x.idx = f.idx
              /\ x.failed = f.failed
            BY <1>a DEF AttemptFailed, Frame
        <2>3. frame'[c] = x
            BY <1>a DEF TypeOK
        <2> HIDE DEF x
        <2>4. Done(x, server)
            BY <1>a, <2>1, <2>2, DoneWithinTurn DEF Working
        <2> QED
            BY <1>a, <2>1, <2>2, <2>3, <2>4 DEF InStep, Coherent, Fresh
    <1>7. CASE Invalidate(c)
        <2>1. f.step = "invalidate" /\ server' = server
            BY <1>7 DEF Invalidate, At
        <2>2. \A b \in DBs : cache'[p][b] = IF b = d THEN Absent ELSE ch[b]
            BY <1>7, <1>a, <1>b, <2>1 DEF Invalidate, TypeOK
        <2>3. \A b \in DBs : cache'[p][b].present => cache'[p][b].list = server[b]
            BY <1>a, <2>2 DEF Absent, Coherent
        <2>4. ~f.failed => \A i \in 1 .. f.idx : Applied(f, i, server)
            BY <1>a, <1>b, <2>1 DEF Done, Reached
        <2>5. frame'[c] = NextDatabase(f, FALSE)
            BY <1>7, <1>a DEF Invalidate, TypeOK
        <2> QED
            BY <1>b, <2>1, <2>3, <2>4, <2>5, NextDatabaseInStep
    <1>8. CASE Backoff(c)
        <2>1. f.step = "backoff" /\ server' = server /\ cache' = cache
            BY <1>8 DEF Backoff, At
        <2>2. frame'[c] = AfterBackoff(f)
            BY <1>8, <1>a DEF Backoff, TypeOK
        <2>3. CASE f.attempt + 1 < MaxAttempts
            <3> DEFINE x == [f EXCEPT !.step = "lookup", !.attempt = @ + 1]
            <3>1. /\ x.step = "lookup" /\ x.call = f.call /\ x.idx = f.idx
                  /\ x.failed = f.failed
                BY <1>a DEF Frame
            <3>2. frame'[c] = x
                BY <2>2, <2>3 DEF AfterBackoff
            <3> HIDE DEF x
            <3>3. Done(x, server)
                BY <1>a, <2>1, <3>1, DoneWithinTurn DEF Working
            <3> QED
                BY <1>a, <2>1, <3>1, <3>2, <3>3 DEF InStep, Coherent, Fresh
        <2>4. CASE ~(f.attempt + 1 < MaxAttempts)
            <3>1. frame'[c] = NextDatabase(f, TRUE)
                BY <2>2, <2>4 DEF AfterBackoff
            <3>2. \A b \in DBs : ch[b].present => ch[b].list = server[b]
                BY <1>a, <2>1 DEF Coherent
            <3> QED
                BY <1>b, <2>1, <3>1, <3>2, NextDatabaseInStep
        <2> QED
            BY <2>3, <2>4
    <1>9. CASE Return(c)
        <2>1. f.step = "return" /\ server' = server /\ cache' = cache /\ frame'[c] = Idle
            BY <1>9, <1>a DEF Return, At, TypeOK
        <2> QED
            BY <1>a, <2>1 DEF InStep, Coherent, Fresh, Done, Idle
    <1> QED
        BY <1>1, <1>2, <1>3, <1>4, <1>5, <1>6, <1>7, <1>8, <1>9 DEF Continue

-----------------------------------------------------------------------------
(* All steps, and the theorems. *)

LEMMA IdleInStep ==
    ASSUME NEW s, NEW ch, \A d \in DBs : ch[d].present => ch[d].list = s[d]
    PROVE  InStep(Idle, s, ch)
    BY DEF InStep, Coherent, Fresh, Done, Idle

LEMMA SoloInit == Init => SoloInv
    <1> SUFFICES ASSUME Init, NEW c \in Caller
                 PROVE  InStep(frame[c], server, cache[Home(c)])
        BY TypeInit DEF SoloInv
    <1> QED
        BY HomeType, IdleInStep DEF Init, Absent

LEMMA SoloNext ==
    ASSUME Solo, SoloInv, [Next]_vars
    PROVE  SoloInv'
    <1> SUFFICES ASSUME NEW c \in Caller
                 PROVE  InStep(frame'[c], server', cache'[Home(c)])
        BY TypeNext DEF SoloInv
    <1> DEFINE f == frame[c]
               p == Home(c)
    <1>a. TypeOK /\ f \in Frame /\ WellFormed(f) /\ p \in Replicas
          /\ InStep(f, server, cache[p])
        BY HomeType DEF SoloInv, TypeOK
    <1>1. ASSUME NEW q \in Replicas, Crash(q)
          PROVE  InStep(frame'[c], server', cache'[p])
        <2>1. q = p
            BY OneCaller
        <2>2. /\ frame'[c] = Idle /\ server' = server
              /\ \A d \in DBs : ~cache'[p][d].present
            BY <1>1, <1>a, <2>1 DEF Crash, Absent, TypeOK
        <2> QED
            BY <2>2, IdleInStep
    <1>2. ASSUME NEW q \in Replicas, NEW d \in DBs, InitializeCache(q, d)
          PROVE  InStep(frame'[c], server', cache'[p])
        <2> DEFINE x == [present |-> TRUE, list |-> server[d]]
        <2>1. frame' = frame /\ server' = server
            BY <1>2 DEF InitializeCache
        <2>2. \A b \in DBs : \/ cache'[p][b] = cache[p][b]
                             \/ b = d /\ cache'[p][b] = x
            <3>1. cache' = cache \/ cache' = [cache EXCEPT ![q][d] = x]
                BY <1>2 DEF InitializeCache
            <3> HIDE DEF x
            <3> QED
                BY <1>a, <3>1 DEF TypeOK
        <2>3. \A b \in DBs : \/ cache'[p][b] = cache[p][b]
                             \/ cache'[p][b].present /\ cache'[p][b].list = server[b]
            BY <2>2
        <2>4. Coherent(f, server, cache'[p])
            BY <1>a, <2>3 DEF InStep, Coherent
        <2>5. f.step = "reread" => Target(f) \in DBs
            BY <1>a, TargetType DEF InCall
        <2>6. Fresh(f, server, cache'[p])
            BY <1>a, <2>3, <2>5 DEF InStep, Fresh
        <2> QED
            BY <1>a, <2>1, <2>4, <2>6 DEF InStep
    <1>3. ASSUME NEW b \in Caller, Continue(b)
          PROVE  InStep(frame'[c], server', cache'[p])
        BY <1>3, OneCaller, SoloContinue
    <1>4. ASSUME NEW b \in Caller, NEW k \in Call, UpdateAllowList(b, k)
          PROVE  InStep(frame'[c], server', cache'[p])
        <2> DEFINE x == Started(k)
        <2>1. b = c
            BY OneCaller
        <2>2. f.step = "idle" /\ server' = server /\ cache' = cache /\ frame'[c] = x
            BY <1>4, <1>a, <2>1 DEF UpdateAllowList, At, TypeOK
        <2>3. /\ x.call = k /\ x.idx = 1
              /\ \/ x.step = "lookup"
                 \/ x.step = "return" /\ x.failed = TRUE
            BY DEF Started, Idle
        <2> HIDE DEF x
        <2>4. DatabasesOf[k.pool] \in Seq(DBs)
            BY DatabasesType
        <2>5. Done(x, server)
            BY <2>3, <2>4 DEF Done, Reached, Databases
        <2> QED
            BY <1>a, <2>2, <2>3, <2>5 DEF InStep, Coherent, Fresh
    <1>5. ASSUME NEW d \in DBs, NEW e \in EditEntries, ExternalEdit(d, e)
          PROVE  InStep(frame'[c], server', cache'[p])
        BY <1>5 DEF Solo
    <1>6. CASE UNCHANGED vars
        BY <1>6, <1>a DEF vars
    <1> QED
        BY <1>1, <1>2, <1>3, <1>4, <1>5, <1>6 DEF Next

LEMMA SoloAlways == ASSUME Solo PROVE Spec => []SoloInv
    <1>1. SoloInv /\ [Next]_vars => SoloInv'
        BY SoloNext
    <1> QED
        BY SoloInit, <1>1, PTL DEF Spec

\* With one informer and no other writer, the cache holds what the API holds,
\* except from a PUT to the invalidation after it (getCachedAllowList,
\* fetchAndCacheAllowList, invalidateCache).
THEOREM CacheIsCoherent == ASSUME Solo PROVE Spec => []CacheCoherent
    <1>1. SoloInv => CacheCoherent
        <2> SUFFICES ASSUME SoloInv, NEW p \in Replicas, NEW d \in DBs, cache[p][d].present
                     PROVE  \/ cache[p][d].list = server[d]
                            \/ \E c \in Caller : /\ Home(c) = p /\ At(c, "invalidate")
                                                /\ Target(frame[c]) = d
            BY DEF CacheCoherent
        <2>1. PICK c \in Caller : Home(c) = p
            <3>1. PICK i \in Informers : TRUE
                BY DEF Solo
            <3>2. <<p, i>> \in Caller /\ Home(<<p, i>>) = p
                BY <3>1 DEF Caller, Home
            <3> QED
                BY <3>2
        <2> QED
            BY <2>1 DEF SoloInv, InStep, Coherent, At
    <1> QED
        BY SoloAlways, <1>1, PTL

\* A call that reports success has had its effect on every database of its pool, also
\* on those whose turn was followed by failed attempts or other turns
\* (handleAddOperation, handleDeleteOperation).
THEOREM SuccessIsApplied == ASSUME Solo PROVE Spec => []SuccessMeansApplied
    <1>1. SoloInv => SuccessMeansApplied
        <2> SUFFICES ASSUME SoloInv, NEW c \in Caller,
                            frame[c].step = "return", ~frame[c].failed,
                            NEW i \in DOMAIN Databases(frame[c])
                     PROVE  Applied(frame[c], i, server)
            BY DEF SuccessMeansApplied, At, Holds, Applied, Databases
        <2>1. Databases(frame[c]) \in Seq(DBs)
            BY DatabasesType DEF SoloInv, TypeOK, WellFormed, Databases
        <2>2. i < Reached(frame[c])
            BY <2>1 DEF Reached
        <2> QED
            BY <2>2 DEF SoloInv, InStep, Done
    <1> QED
        BY SoloAlways, <1>1, PTL

\* A PUT that adds an address drops no entry: the list it was computed from is the
\* one it replaces (updateDatabaseAllowList).
THEOREM AddsKeepEntries == ASSUME Solo PROVE Spec => AddKeepsEntries
    <1> DEFINE Kept(c) ==
            At(c, "put") /\ frame[c].call.op = "add" =>
                LET d == Target(frame[c]) IN
                frame'[c] # frame[c] => Norm(server[d]) \subseteq Norm(server'[d])
    <1>1. ASSUME SoloInv, [Next]_vars, NEW c \in Caller PROVE Kept(c)
        <2> DEFINE f == frame[c]
                   d == Target(f)
        <2> SUFFICES ASSUME f.step = "put", f.call.op = "add", server' # server
                     PROVE  Norm(server[d]) \subseteq Norm(server'[d])
            BY DEF At
        <2>1. PutApplied(c)
            <3>1. ASSUME NEW b \in Caller, Continue(b), ~PutApplied(b) PROVE server' = server
                BY <3>1 DEF Continue, Lookup, Fetch, Store, Reread, PutFailed, Invalidate,
                            Backoff, Return, Solo
            <3>2. \E b \in Caller : PutApplied(b)
                BY <1>1, <3>1 DEF Next, Crash, InitializeCache, UpdateAllowList,
                                  ExternalEdit, Solo, vars
            <3> QED
                BY <3>2, OneCaller
        <2>2. /\ f.call \in Call /\ d \in DBs /\ server[d] \in SUBSET Entry
              /\ f.list = NewList(f, server[d])
            BY <1>1, CallerInCall, TargetType DEF SoloInv, TypeOK, InStep, Fresh
        <2>3. server'[d] = NewList(f, server[d])
            BY <1>1, <2>1, <2>2 DEF PutApplied, ReplaceList, SoloInv, TypeOK
        <2> QED
            BY <2>2, <2>3, NewListApplies
    <1>2. SoloInv /\ [Next]_vars =>
            [\A c \in Caller : At(c, "put") /\ frame[c].call.op = "add" =>
                LET d == Target(frame[c]) IN
                frame'[c] # frame[c] => Norm(server[d]) \subseteq Norm(server'[d])]_vars
        BY <1>1
    <1> QED
        BY SoloAlways, <1>2, PTL DEF Spec, AddKeepsEntries

-----------------------------------------------------------------------------
(* The client of one informer implements AllowList, up to fairness.  Below,     *)
(* allow and job are what the refinement mapping takes AllowList's variables to. *)

allow == [d \in DBs |-> Norm(server[d])]
job == [c \in Caller |-> JobOf(frame[c])]

LEMMA JobOfFrame ==
    ASSUME NEW f
    PROVE  JobOf(f) = [call |-> f.call, failed |-> f.failed, pos |-> Reached(f)]
    BY Zenon DEF JobOf, Reached

\* Only the frame of c changes, and so only its job.
LEMMA JobUpdate ==
    ASSUME TypeOK, NEW c \in Caller, NEW x, frame' = [frame EXCEPT ![c] = x]
    PROVE  job' = [job EXCEPT ![c] = JobOf(x)]
    BY DEF job, TypeOK

\* The job of a caller in a call of Call is busy, one of an idle caller is not.
LEMMA BusyCaller ==
    ASSUME TypeOK, NEW c \in Caller, NEW C
    PROVE  /\ Abstract!Busy(c) <=> job[c].call \in Call
           /\ job[c] = JobOf(frame[c])
           /\ job[c].call = frame[c].call /\ job[c].failed = frame[c].failed
           /\ job[c].pos = Reached(frame[c])
    BY JobOfFrame DEF Abstract!Busy, job

\* A turn that ends with its change made is a step of AllowList: Apply.
LEMMA ApplyStep ==
    ASSUME TypeOK, NEW c \in Caller, NEW x, InCall(frame[c]),
           Reached(frame[c]) = frame[c].idx, Reached(x) = frame[c].idx + 1,
           x.call = frame[c].call, x.failed = frame[c].failed,
           frame' = [frame EXCEPT ![c] = x],
           \A b \in DBs : Norm(server'[b]) =
               IF b = Target(frame[c]) THEN Abstract!Changed(x.call, Norm(server[b]))
                                       ELSE Norm(server[b])
    PROVE  Abstract!Apply(c)
    <1> DEFINE f == frame[c]
    <1>1. /\ f.call \in Call /\ f.idx \in 1 .. Len(Databases(f))
          /\ Target(f) \in DBs
        BY TargetType
    <1>2. job[c] = [call |-> f.call, failed |-> f.failed, pos |-> f.idx]
        BY BusyCaller, JobOfFrame DEF job
    <1>3. Abstract!Pool(c) = Databases(f)
        BY <1>2 DEF Abstract!Pool, Databases, job
    <1>4. Abstract!Pending(c)
        BY <1>1, <1>2, <1>3 DEF Abstract!Pending, Abstract!Busy, job
    <1>5. JobOf(x) = [job[c] EXCEPT !.pos = @ + 1]
        BY <1>2, JobOfFrame
    <1>6. job' = [job EXCEPT ![c].pos = @ + 1]
        <2>1. job' = [job EXCEPT ![c] = JobOf(x)]
            BY JobUpdate
        <2> QED
            BY <1>5, <2>1, Zenon
    <1>7. allow' = [allow EXCEPT ![Target(f)] = Abstract!Changed(f.call, @)]
        BY <1>1 DEF allow
    <1>8. Abstract!Pool(c)[job[c].pos] = Target(f)
        BY <1>2, <1>3 DEF Target
    <1>9. /\ Abstract!Pending(c)
          /\ allow' = [allow EXCEPT ![Abstract!Pool(c)[job[c].pos]] =
                          Abstract!Changed(job[c].call, @)]
          /\ job' = [job EXCEPT ![c].pos = @ + 1]
        BY <1>2, <1>4, <1>6, <1>7, <1>8
    <1> QED
        BY <1>9, Zenon DEF Abstract!Apply, allow, job

\* A turn that ends in failure is a step of AllowList: Skip.
LEMMA SkipStep ==
    ASSUME TypeOK, NEW c \in Caller, NEW x, InCall(frame[c]),
           Reached(frame[c]) = frame[c].idx, Reached(x) = frame[c].idx + 1,
           x.call = frame[c].call, x.failed = TRUE,
           frame' = [frame EXCEPT ![c] = x], server' = server
    PROVE  Abstract!Skip(c)
    <1> DEFINE f == frame[c]
    <1>1. f.call \in Call /\ f.idx \in 1 .. Len(Databases(f))
        BY TargetType
    <1>2. job[c] = [call |-> f.call, failed |-> f.failed, pos |-> f.idx]
        BY BusyCaller, JobOfFrame DEF job
    <1>3. Abstract!Pool(c) = Databases(f)
        BY <1>2 DEF Abstract!Pool, Databases, job
    <1>4. Abstract!Pending(c)
        BY <1>1, <1>2, <1>3 DEF Abstract!Pending, Abstract!Busy, job
    <1>5. JobOf(x) = [call |-> job[c].call, pos |-> job[c].pos + 1, failed |-> TRUE]
        BY <1>2, JobOfFrame
    <1>6. job' = [job EXCEPT ![c] = JobOf(x)]
        BY JobUpdate
    <1>7. job' = [job EXCEPT ![c] =
                     [call |-> @.call, pos |-> @.pos + 1, failed |-> TRUE]]
        BY <1>5, <1>6, Zenon
    <1>8. UNCHANGED allow
        BY DEF allow
    <1> QED
        BY <1>4, <1>7, <1>8, Zenon DEF Abstract!Skip, allow, job

\* A step that moves no job and changes no list is none of AllowList's.
LEMMA StutterStep ==
    ASSUME TypeOK, NEW c \in Caller, NEW x, frame' = [frame EXCEPT ![c] = x],
           x.call = frame[c].call, x.failed = frame[c].failed,
           Reached(x) = Reached(frame[c]), server' = server
    PROVE  UNCHANGED <<allow, job>>
    <1>1. JobOf(x) = JobOf(frame[c])
        BY JobOfFrame
    <1>2. job' = [job EXCEPT ![c] = job[c]]
        BY <1>1, JobUpdate DEF job
    <1>3. job' = job
        BY <1>2 DEF job
    <1> QED
        BY <1>3 DEF allow

\* What Decide does with a list that is the database's: Apply without a change, or
\* nothing yet.
LEMMA RefineDecide ==
    ASSUME TypeOK, NEW c \in Caller, InCall(frame[c]),
           frame[c].step \in {"lookup", "reread"},
           frame' = [frame EXCEPT ![c] = Decide(frame[c], server[Target(frame[c])])],
           server' = server
    PROVE  Abstract!Apply(c) \/ UNCHANGED <<allow, job>>
    <1> DEFINE f == frame[c]
               L == server[Target(f)]
    <1>1. f \in Frame /\ f.call \in Call /\ Reached(f) = f.idx
        BY TargetType DEF InCall, Reached
    <1>2. CASE (f.call.op = "add") = (Host(f.call.ip) \in Norm(L))
        <2> DEFINE x == NextDatabase(f, FALSE)
        <2>1. frame' = [frame EXCEPT ![c] = x]
            BY <1>2 DEF Decide
        <2>2. /\ x.call = f.call /\ Reached(x) = f.idx + 1
              /\ x.failed = (f.failed \/ FALSE)
            BY NextDatabaseMoves
        <2>3. f.failed \in BOOLEAN
            BY <1>1 DEF Frame
        <2>4. x.failed = f.failed
            BY <2>2, <2>3
        <2>5. Abstract!Changed(f.call, Norm(L)) = Norm(L)
            BY <1>1, <1>2 DEF Abstract!Changed, Call
        <2> HIDE DEF x
        <2> QED
            BY <1>1, <2>1, <2>2, <2>4, <2>5, ApplyStep
    <1>3. CASE ~((f.call.op = "add") = (Host(f.call.ip) \in Norm(L)))
        <2> DEFINE x == [f EXCEPT !.step = "put", !.list = NewList(f, L)]
        <2>1. frame' = [frame EXCEPT ![c] = x]
            BY <1>3 DEF Decide
        <2>2. /\ x.call = f.call /\ x.failed = f.failed /\ Reached(x) = Reached(f)
            BY <1>1 DEF Frame, Reached
        <2> HIDE DEF x
        <2> QED
            BY <2>1, <2>2, StutterStep
    <1> QED
        BY <1>2, <1>3

LEMMA IdleJob == JobOf(Idle) = Abstract!NoJob
    BY JobOfFrame DEF Idle, NoCall, Reached, Abstract!NoJob

\* Every step inside a call is one of AllowList's, or none.
LEMMA RefineContinue ==
    ASSUME Solo, SoloInv, NEW c \in Caller, Continue(c)
    PROVE  \/ Abstract!Apply(c) \/ Abstract!Skip(c) \/ Abstract!End(c)
           \/ UNCHANGED <<allow, job>>
    <1> DEFINE f == frame[c]
               d == Target(f)
               ch == cache[Home(c)]
    <1>a. /\ TypeOK /\ f \in Frame /\ WellFormed(f)
          /\ Coherent(f, server, ch) /\ Fresh(f, server, ch)
        BY DEF SoloInv, TypeOK, InStep
    <1>b. ASSUME f.step \notin {"idle", "return"}
          PROVE  InCall(f) /\ d \in DBs /\ f.call \in Call /\ server[d] \in SUBSET Entry
        BY <1>a, <1>b, CallerInCall, TargetType DEF TypeOK
    <1>1. CASE Lookup(c)
        <2>1. f.step = "lookup" /\ server' = server
            BY <1>1 DEF Lookup, At
        <2>2. CASE ch[d].present
            <3>1. ch[d].list = server[d]
                BY <1>a, <1>b, <2>1, <2>2 DEF Coherent
            <3>2. frame' = [frame EXCEPT ![c] = Decide(f, server[d])]
                BY <1>1, <2>2, <3>1 DEF Lookup
            <3> QED
                BY <1>a, <1>b, <2>1, <3>2, RefineDecide
        <2>3. CASE ~ch[d].present
            <3> DEFINE x == [f EXCEPT !.step = "fetch"]
            <3>1. frame' = [frame EXCEPT ![c] = x]
                BY <1>1, <2>3 DEF Lookup
            <3>2. x.call = f.call /\ x.failed = f.failed /\ Reached(x) = Reached(f)
                BY <1>a, <2>1 DEF Frame, Reached
            <3> HIDE DEF x
            <3> QED
                BY <1>a, <2>1, <3>1, <3>2, StutterStep
        <2> QED
            BY <2>2, <2>3
    <1>2. CASE Fetch(c)
        <2> DEFINE x == [f EXCEPT !.step = "store", !.list = server[d]]
        <2>1. f.step = "fetch" /\ server' = server
            BY <1>2 DEF Fetch, At
        <2>2. \/ frame' = [frame EXCEPT ![c] = x]
              \/ \E wait : frame' = [frame EXCEPT ![c] = AttemptFailed(f, wait)]
            BY <1>2, <1>a DEF Fetch, TypeOK
        <2>3. x.call = f.call /\ x.failed = f.failed /\ Reached(x) = Reached(f)
            BY <1>a, <2>1 DEF Frame, Reached
        <2>4. \A wait : LET y == AttemptFailed(f, wait) IN
                 y.call = f.call /\ y.failed = f.failed /\ Reached(y) = Reached(f)
            BY <1>a, <2>1 DEF AttemptFailed, Frame, Reached
        <2> HIDE DEF x
        <2> QED
            BY <1>a, <2>1, <2>2, <2>3, <2>4, StutterStep
    <1>3. CASE Store(c)
        <2> DEFINE x == [f EXCEPT !.step = "reread", !.list = {}]
        <2>1. f.step = "store" /\ server' = server
            BY <1>3 DEF Store, At
        <2>2. frame' = [frame EXCEPT ![c] = x]
            BY <1>3, <1>a DEF Store, TypeOK
        <2>3. x.call = f.call /\ x.failed = f.failed /\ Reached(x) = Reached(f)
            BY <1>a, <2>1 DEF Frame, Reached
        <2> HIDE DEF x
        <2> QED
            BY <1>a, <2>1, <2>2, <2>3, StutterStep
    <1>4. CASE Reread(c)
        <2>1. f.step = "reread" /\ server' = server
            BY <1>4 DEF Reread, At
        <2>2. ch[d].list = server[d]
            BY <1>a, <1>b, <2>1 DEF Coherent, Fresh
        <2>3. frame' = [frame EXCEPT ![c] = Decide(f, server[d])]
            BY <1>4, <2>2 DEF Reread
        <2> QED
            BY <1>a, <1>b, <2>1, <2>3, RefineDecide
    <1>5. CASE PutApplied(c)
        <2> DEFINE x == [f EXCEPT !.step = "invalidate", !.list = {}, !.permit = FALSE]
        <2>1. f.step = "put" /\ f.list = NewList(f, server[d])
            BY <1>5, <1>a DEF PutApplied, At, Fresh
        <2>2. frame' = [frame EXCEPT ![c] = x]
            BY <1>5, <1>a DEF PutApplied, TypeOK
        <2>3. /\ x.call = f.call /\ x.failed = f.failed
              /\ Reached(f) = f.idx /\ Reached(x) = f.idx + 1
            BY <1>a, <2>1 DEF Frame, Reached
        <2>4. Norm(NewList(f, server[d])) = Abstract!Changed(f.call, Norm(server[d]))
            BY <1>b, <2>1, NewListApplies DEF NewList, Abstract!Changed
        <2>5. \A b \in DBs : server'[b] = IF b = d THEN NewList(f, server[d]) ELSE server[b]
            BY <1>5, <1>a, <1>b, <2>1 DEF PutApplied, ReplaceList, TypeOK
        <2> HIDE DEF x
        <2> QED
            BY <1>a, <1>b, <2>1, <2>2, <2>3, <2>4, <2>5, ApplyStep
    <1>6. CASE PutFailed(c)
        <2> PICK wait :
                frame' = [frame EXCEPT ![c] =
                             [AttemptFailed(@, wait) EXCEPT !.permit = FALSE]]
            BY <1>6 DEF PutFailed
        <2> DEFINE x == [AttemptFailed(f, wait) EXCEPT !.permit = FALSE]
        <2>1. f.step = "put" /\ server' = server
            BY <1>6 DEF PutFailed, At, Solo
        <2>2. x.call = f.call /\ x.failed = f.failed /\ Reached(x) = Reached(f)
            BY <1>a, <2>1 DEF AttemptFailed, Frame, Reached
        <2>3. frame' = [frame EXCEPT ![c] = x]
            BY <1>a DEF TypeOK
        <2> HIDE DEF x
        <2> QED
            BY <1>a, <2>1, <2>2, <2>3, StutterStep
    <1>7. CASE Invalidate(c)
        <2> DEFINE x == NextDatabase(f, FALSE)
        <2>1. f.step = "invalidate" /\ server' = server
              /\ frame' = [frame EXCEPT ![c] = x]
            BY <1>7 DEF Invalidate, At
        <2>2. x.call = f.call /\ x.failed = (f.failed \/ FALSE) /\ Reached(x) = f.idx + 1
            BY <1>b, <2>1, NextDatabaseMoves
        <2>3. x.failed = f.failed /\ Reached(f) = f.idx + 1
            BY <1>a, <2>1, <2>2 DEF Frame, Reached
        <2> HIDE DEF x
        <2> QED
            BY <1>a, <2>1, <2>2, <2>3, StutterStep
    <1>8. CASE Backoff(c)
        <2>1. f.step = "backoff" /\ server' = server /\ Reached(f) = f.idx
              /\ frame' = [frame EXCEPT ![c] = AfterBackoff(f)]
            BY <1>8 DEF Backoff, At, Reached
        <2>2. CASE f.attempt + 1 < MaxAttempts
            <3> DEFINE x == [f EXCEPT !.step = "lookup", !.attempt = @ + 1]
            <3>1. frame' = [frame EXCEPT ![c] = x]
                BY <2>1, <2>2 DEF AfterBackoff
            <3>2. x.call = f.call /\ x.failed = f.failed /\ Reached(x) = Reached(f)
                BY <1>a, <2>1 DEF Frame, Reached
            <3> HIDE DEF x
            <3> QED
                BY <1>a, <2>1, <3>1, <3>2, StutterStep
        <2>3. CASE ~(f.attempt + 1 < MaxAttempts)
            <3> DEFINE x == NextDatabase(f, TRUE)
            <3>1. frame' = [frame EXCEPT ![c] = x]
                BY <2>1, <2>3 DEF AfterBackoff
            <3>2. x.call = f.call /\ x.failed = TRUE /\ Reached(x) = f.idx + 1
                BY <1>b, <2>1, NextDatabaseMoves
            <3> HIDE DEF x
            <3> QED
                BY <1>a, <1>b, <2>1, <3>1, <3>2, SkipStep
        <2> QED
            BY <2>2, <2>3
    <1>9. CASE Return(c)
        <2>1. f.step = "return" /\ f.call \in Call /\ server' = server
              /\ frame' = [frame EXCEPT ![c] = Idle]
            BY <1>9, <1>a DEF Return, At, WellFormed
        <2>2. job[c].call = f.call /\ job[c].pos = Len(Databases(f)) + 1
              /\ Len(Databases(f)) \in Nat
            BY <2>1, BusyCaller, DatabasesType, <1>a DEF Reached, Databases
        <2>3. Abstract!Busy(c) /\ ~Abstract!Pending(c)
            BY <2>1, <2>2 DEF Abstract!Busy, Abstract!Pending, Abstract!Pool, job, Databases
        <2>4. job' = [job EXCEPT ![c] = Abstract!NoJob]
            BY <1>a, <2>1, IdleJob, JobUpdate
        <2>5. UNCHANGED allow
            BY <2>1 DEF allow
        <2> QED
            BY <2>3, <2>4, <2>5, Zenon DEF Abstract!End, allow, job
    <1> QED
        BY <1>1, <1>2, <1>3, <1>4, <1>5, <1>6, <1>7, <1>8, <1>9 DEF Continue

LEMMA RefineNext ==
    ASSUME Solo, SoloInv, [Next]_vars
    PROVE  Abstract!Next \/ UNCHANGED <<allow, job>>
    <1>a. TypeOK
        BY DEF SoloInv
    <1>1. ASSUME NEW p \in Replicas, Crash(p)
          PROVE  \E C \in SUBSET Caller : Abstract!Abandon(C)
        <2> DEFINE C == {c \in Caller : Home(c) = p}
        <2>1. job' = [c \in Caller |-> IF c \in C THEN Abstract!NoJob ELSE job[c]]
            BY <1>1, IdleJob DEF Crash, job
        <2>2. UNCHANGED allow
            BY <1>1 DEF Crash, allow
        <2>3. Abstract!Abandon(C)
            BY <2>1, <2>2, Zenon DEF Abstract!Abandon, allow, job
        <2> QED
            BY <2>3
    <1>2. ASSUME NEW p \in Replicas, NEW d \in DBs, InitializeCache(p, d)
          PROVE  UNCHANGED <<allow, job>>
        BY <1>2 DEF InitializeCache, allow, job
    <1>3. ASSUME NEW c \in Caller, Continue(c)
          PROVE  Abstract!Advance(c) \/ UNCHANGED <<allow, job>>
        BY <1>3, RefineContinue DEF Abstract!Advance
    <1>4. ASSUME NEW c \in Caller, NEW k \in Call, UpdateAllowList(c, k)
          PROVE  Abstract!Begin(c, k)
        <2>1. /\ frame[c].step = "idle" /\ server' = server
              /\ frame' = [frame EXCEPT ![c] = Started(k)]
            BY <1>4 DEF UpdateAllowList, At
        <2>2. JobOf(Started(k)) = [call |-> k, pos |-> 1, failed |-> DatabasesOf[k.pool] = <<>>]
            <3>1. CASE DatabasesOf[k.pool] = <<>>
                <4>1. /\ Started(k).call = k /\ Started(k).step = "return"
                      /\ Started(k).failed = TRUE
                    BY <3>1 DEF Started, Idle
                <4>2. Reached(Started(k)) = 1
                    BY <3>1, <4>1 DEF Reached, Databases
                <4> QED
                    BY <3>1, <4>1, <4>2, JobOfFrame
            <3>2. CASE DatabasesOf[k.pool] # <<>>
                <4>1. /\ Started(k).call = k /\ Started(k).step = "lookup"
                      /\ Started(k).failed = FALSE /\ Started(k).idx = 1
                    BY <3>2 DEF Started, Idle
                <4>2. Reached(Started(k)) = 1
                    BY <4>1 DEF Reached
                <4> QED
                    BY <3>2, <4>1, <4>2, JobOfFrame
            <3> QED
                BY <3>1, <3>2
        <2>3. job' = [job EXCEPT ![c] =
                         [call |-> k, pos |-> 1, failed |-> DatabasesOf[k.pool] = <<>>]]
            <3>1. job' = [job EXCEPT ![c] = JobOf(Started(k))]
                BY <1>a, <2>1, JobUpdate
            <3> QED
                BY <2>2, <3>1, Zenon
        <2>4. ~Abstract!Busy(c)
            <3>1. frame[c].call = NoCall
                BY <1>a, <2>1 DEF TypeOK, WellFormed
            <3>2. NoCall \notin Call
                BY DEF NoCall, Call
            <3> QED
                BY <1>a, <3>1, <3>2, BusyCaller
        <2>5. UNCHANGED allow
            BY <2>1 DEF allow
        <2> QED
            BY <2>3, <2>4, <2>5, Zenon DEF Abstract!Begin, allow, job
    <1>5. ASSUME NEW d \in DBs, NEW e \in EditEntries, ExternalEdit(d, e)
          PROVE  FALSE
        BY <1>5 DEF Solo
    <1>6. CASE UNCHANGED vars
        BY <1>6 DEF vars, allow, job
    <1> QED
        BY <1>1, <1>2, <1>3, <1>4, <1>5, <1>6 DEF Next, Abstract!Next

\* The calls of one informer behave as AllowList says, each change of a database's
\* list in one step, however requests fail, caches age and the process restarts
\* (UpdateAllowList). That they also end is left to the run.
THEOREM ClientImplementsAllowList ==
    ASSUME Solo PROVE Spec => Abstract!Init /\ [][Abstract!Next]_(Abstract!vars)
    <1>1. Init => Abstract!Init
        <2> SUFFICES ASSUME Init PROVE Abstract!Init
            OBVIOUS
        <2>1. allow \in {[d \in DBs |-> Norm(L[d])] : L \in InitialLists}
            BY DEF Init, allow
        <2>2. job = [c \in Caller |-> Abstract!NoJob]
            BY IdleJob DEF Init, job
        <2> QED
            BY <2>1, <2>2, Zenon DEF Abstract!Init, allow, job
    <1>2. SoloInv /\ [Next]_vars => [Abstract!Next]_(Abstract!vars)
        <2> SUFFICES ASSUME SoloInv, [Next]_vars
                     PROVE  Abstract!Next \/ UNCHANGED Abstract!vars
            OBVIOUS
        <2> QED
            BY RefineNext, Zenon DEF Abstract!vars, allow, job
    <1> QED
        BY SoloAlways, <1>1, <1>2, PTL DEF Spec
=============================================================================
