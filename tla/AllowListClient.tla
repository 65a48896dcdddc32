-------------------------- MODULE AllowListClient --------------------------
(***************************************************************************)
(* pkg/linode/client.go and the retry loop of pkg/utils/retry.go: a        *)
(* client that adds an IP to, or removes it from, the allow list of every  *)
(* database of a nodepool.  The provider's API only replaces a whole list, *)
(* so each change is a read (through a per-process cache), a computation   *)
(* and a PUT of the whole list, retried on error.                          *)
(*                                                                         *)
(* A replica is one process of the deployment (it runs two).  A caller is  *)
(* one informer of a replica: an informer calls its handlers one at a      *)
(* time, but a replica has one informer per term of leadership it has      *)
(* held, because the informers of earlier terms are never stopped.         *)
(* The API and its other users (operators who edit a list) are             *)
(* environment.                                                            *)
(***************************************************************************)
EXTENDS TimesAndDelays, FiniteSets

CONSTANTS Replicas, Informers,
          Addrs,          \* node addresses, written without a prefix length
          Nets,           \* address ranges, always written with one
          DBs, Pools,
          DatabasesOf,    \* the databases of each nodepool, in the order configured;
                          \* none for a nodepool that is not configured
          MaxAttempts,    \* retry.maxAttempts
          InitialBackoff, MaxBackoff,   \* retry.initialBackoff, retry.maxBackoff
          MaxDuration,    \* the longest time.Duration
          AmbiguousPut,   \* may a PUT that took effect report an error?
          EditEntries,    \* entries operators may add or delete by other means
          InitialLists    \* the allow lists the API may hold at the start

(***************************************************************************)
(* Entries.  An address appears raw or with its full prefix length (/32,   *)
(* /128): two different strings, one meaning.                              *)
(***************************************************************************)
Entry == [addr: Addrs, cidr: BOOLEAN] \cup [addr: Nets, cidr: {TRUE}]

normalizeIP(e) == [addr |-> e.addr, cidr |-> TRUE]

Host(ip) == normalizeIP([addr |-> ip, cidr |-> FALSE])

Norm(L) == {normalizeIP(e) : e \in L}

ASSUME ConfigAssumption ==
    /\ DatabasesOf \in [Pools -> Seq(DBs)]
    /\ MaxAttempts \in Nat \ {0}
    /\ InitialBackoff \in Nat /\ MaxBackoff \in Nat /\ MaxDuration \in Nat
    /\ InitialBackoff <= MaxBackoff \/ MaxBackoff = 0
    /\ AmbiguousPut \in BOOLEAN

ASSUME EntryAssumption ==
    /\ EditEntries \subseteq Entry
    /\ InitialLists \subseteq [DBs -> SUBSET Entry]

Caller == Replicas \X Informers
Home(c) == c[1]

\* A call UpdateAllowList(pool, ip, op).
Call == [op: {"add", "remove"}, pool: Pools, ip: Addrs]
NoCall == [op |-> "none"]

Steps == {"idle", "lookup", "fetch", "store", "reread", "put", "invalidate",
          "backoff", "return"}

VARIABLES
    server,    \* server[d]: the allow list the API holds for database d
    granted,   \* history: the entries d started with, was edited to have or was asked to have
    cache,     \* cache[p][d]: allowListCache of replica p
    booting,   \* booting[p]: databases InitializeCache of p has still to fetch
    frame      \* frame[c]: the call that caller c is executing

vars == <<server, granted, cache, booting, frame>>

\* A missing map key reads as Go's zero value: an entry with an empty list.
Absent == [present |-> FALSE, list |-> {}]
CacheEntry == [present: BOOLEAN, list: SUBSET Entry]

Idle == [step |-> "idle", call |-> NoCall, idx |-> 1, attempt |-> 0,
         nextBackoff |-> 0, list |-> {}, failed |-> FALSE, permit |-> FALSE]

\* failed is lastErr # nil; list is the fetched list at "store", the new one at
\* "put"; permit is a rate limiter permit taken for a PUT and not yet used.
Frame == [step: Steps, call: Call \cup {NoCall}, idx: Nat \ {0},
          attempt: 0 .. (MaxAttempts - 1), nextBackoff: Int,
          list: SUBSET Entry, failed: BOOLEAN, permit: BOOLEAN]

Databases(f) == DatabasesOf[f.call.pool]
Target(f) == Databases(f)[f.idx]
At(c, s) == frame[c].step = s

\* A caller in a call is in one of the call's databases until it returns.
WellFormed(f) ==
    /\ f.step = "idle" => f.call = NoCall
    /\ f.step # "idle" => /\ f.call \in Call
                          /\ f.step # "return" => f.idx \in DOMAIN Databases(f)

TypeOK ==
    /\ server \in [DBs -> SUBSET Entry]
    /\ granted \in [DBs -> SUBSET Entry]
    /\ cache \in [Replicas -> [DBs -> CacheEntry]]
    /\ booting \in [Replicas -> SUBSET DBs]
    /\ frame \in [Caller -> Frame]
    /\ \A c \in Caller : WellFormed(frame[c])

Init ==
    /\ server \in InitialLists
    /\ granted = [d \in DBs |-> Norm(server[d])]
    /\ cache = [p \in Replicas |-> [d \in DBs |-> Absent]]
    /\ booting = [p \in Replicas |-> DBs]
    /\ frame = [c \in Caller |-> Idle]

-----------------------------------------------------------------------------
(* What one step does to the frame of its caller.  Definitions whose name     *)
(* ends in _Fault are plausible bugs, kept so that each property can be shown *)
(* to catch one; no action uses them.                                         *)

NextDatabase_LoopFault(f, err) ==      \* the loop goes one database too far
    LET last == f.idx > Len(Databases(f)) IN
    [f EXCEPT !.step = IF last THEN "return" ELSE "lookup", !.idx = @ + 1,
              !.attempt = 0, !.nextBackoff = 0, !.list = {}, !.permit = ~last,
              !.failed = @ \/ err]

NextDatabase_PermitFault(f, err) ==    \* one permit for the whole loop
    LET last == f.idx = Len(Databases(f)) IN
    [f EXCEPT !.step = IF last THEN "return" ELSE "lookup",
              !.idx = IF last THEN @ ELSE @ + 1,
              !.attempt = 0, !.nextBackoff = 0, !.list = {}, !.failed = @ \/ err]

NextDatabase_ErrorFault(f, err) ==     \* a later success overwrites lastErr
    LET last == f.idx = Len(Databases(f)) IN
    [f EXCEPT !.step = IF last THEN "return" ELSE "lookup",
              !.idx = IF last THEN @ ELSE @ + 1,
              !.attempt = 0, !.nextBackoff = 0, !.list = {}, !.permit = ~last,
              !.failed = err]

\* The loop over the pool's databases: an error is kept in lastErr and the loop goes on.
NextDatabase(f, err) ==
    LET last == f.idx = Len(Databases(f)) IN
    [f EXCEPT !.step = IF last THEN "return" ELSE "lookup",
              !.idx = IF last THEN @ ELSE @ + 1,
              !.attempt = 0, !.nextBackoff = 0, !.list = {}, !.permit = ~last,
              !.failed = @ \/ err]

NewList_RawFault(f, L) ==              \* entries that are not normalised get lost
    LET kept == {e \in L : e.cidr} IN
    IF f.call.op = "add" THEN kept \cup {Host(f.call.ip)} ELSE kept \ {Host(f.call.ip)}

NewList(f, L) == IF f.call.op = "add" THEN Norm(L) \cup {Host(f.call.ip)}
                                      ELSE Norm(L) \ {Host(f.call.ip)}

\* A list that needs no change ends the database's turn as a success.
Decide(f, L) ==
    IF (f.call.op = "add") = (Host(f.call.ip) \in Norm(L))
      THEN NextDatabase(f, FALSE)
      ELSE [f EXCEPT !.step = "put", !.list = NewList(f, L)]

AttemptFailed(f, wait) ==
    [f EXCEPT !.step = "backoff", !.nextBackoff = wait, !.list = {}]

\* A float64 beyond the longest duration becomes that duration on some platforms
\* and a negative one, which is no wait at all, on others.
ToDuration(d) == IF d <= MaxDuration THEN {d} ELSE {MaxDuration, -1}

NextBackoff_JitterFault(attempt) ==    \* any part of the delay
    {IF d > MaxBackoff THEN MaxBackoff ELSE d : d \in 0 .. Doubled(InitialBackoff, attempt)}

\* The delays after a failed attempt: the first as configured, the later ones
\* doubled, with up to half of it added, and capped.
NextBackoff(attempt) ==
    IF attempt = 0 THEN {InitialBackoff}
    ELSE LET backoff == Doubled(InitialBackoff, attempt)
             jittered == {d \in backoff .. 2 * backoff :
                             d = backoff \/ 2 * d < 3 * backoff}
         IN  {IF d > MaxBackoff THEN MaxBackoff ELSE d :
                 d \in UNION {ToDuration(x) : x \in jittered}}

AfterBackoff_AbortFault(f) ==          \* one database's error ends the whole call
    IF f.attempt + 1 < MaxAttempts
      THEN [f EXCEPT !.step = "lookup", !.attempt = @ + 1]
      ELSE [f EXCEPT !.step = "return", !.failed = TRUE]

AfterBackoff_CountFault(f) ==          \* the attempts are not counted
    [f EXCEPT !.step = "lookup"]

\* The retry loop also sleeps after its last attempt.
AfterBackoff(f) ==
    IF f.attempt + 1 < MaxAttempts
      THEN [f EXCEPT !.step = "lookup", !.attempt = @ + 1]
      ELSE NextDatabase(f, TRUE)

Started(k) ==
    IF DatabasesOf[k.pool] = <<>>
      THEN [Idle EXCEPT !.step = "return", !.call = k, !.failed = TRUE]
      ELSE [Idle EXCEPT !.step = "lookup", !.call = k, !.permit = TRUE]

-----------------------------------------------------------------------------
(* Process start. *)

InitializeCache_LoopFault(p, d) ==     \* the loop's goroutines share one variable
    /\ d \in booting[p]
    /\ booting' = [booting EXCEPT ![p] = @ \ {d}]
    /\ cache' = [cache EXCEPT ![p] =
                    [b \in DBs |-> [present |-> TRUE, list |-> server[d]]]]
    /\ UNCHANGED <<server, granted, frame>>

\* One database of InitializeCache; a failed fetch leaves it uncached.
InitializeCache(p, d) ==
    /\ d \in booting[p]
    /\ booting' = [booting EXCEPT ![p] = @ \ {d}]
    /\ \/ cache' = [cache EXCEPT ![p][d] = [present |-> TRUE, list |-> server[d]]]
       \/ UNCHANGED cache
    /\ UNCHANGED <<server, granted, frame>>

\* The process of replica p dies and is started again.
Crash(p) ==
    /\ booting' = [booting EXCEPT ![p] = DBs]
    /\ cache' = [cache EXCEPT ![p] = [d \in DBs |-> Absent]]
    /\ frame' = [c \in Caller |-> IF Home(c) = p THEN Idle ELSE frame[c]]
    /\ UNCHANGED <<server, granted>>

-----------------------------------------------------------------------------
(* One call of UpdateAllowList. *)

UpdateAllowList(c, k) ==
    /\ At(c, "idle")
    /\ booting[Home(c)] = {}
    /\ frame' = [frame EXCEPT ![c] = Started(k)]
    /\ granted' = [d \in DBs |->
                     IF k.op = "add" /\ \E i \in DOMAIN DatabasesOf[k.pool] :
                                           DatabasesOf[k.pool][i] = d
                       THEN granted[d] \cup {Host(k.ip)}
                       ELSE granted[d]]
    /\ UNCHANGED <<server, cache, booting>>

\* The first read of the cache, and on a hit the whole computation.
Lookup(c) ==
    LET entry == cache[Home(c)][Target(frame[c])] IN
    /\ At(c, "lookup")
    /\ frame' = [frame EXCEPT ![c] = IF entry.present
                                       THEN Decide(@, entry.list)
                                       ELSE [@ EXCEPT !.step = "fetch"]]
    /\ UNCHANGED <<server, granted, cache, booting>>

\* The GET, answered or failed.
Fetch(c) ==
    /\ At(c, "fetch")
    /\ \/ frame' = [frame EXCEPT ![c].step = "store",
                                 ![c].list = server[Target(frame[c])]]
       \/ \E wait \in NextBackoff(frame[c].attempt) :
             frame' = [frame EXCEPT ![c] = AttemptFailed(@, wait)]
    /\ UNCHANGED <<server, granted, cache, booting>>

Store_KeyFault(c) ==                   \* one cached list for all databases
    /\ At(c, "store")
    /\ cache' = [cache EXCEPT ![Home(c)] =
                    [d \in DBs |-> [present |-> TRUE, list |-> frame[c].list]]]
    /\ frame' = [frame EXCEPT ![c].step = "reread", ![c].list = {}]
    /\ UNCHANGED <<server, granted, booting>>

Store(c) ==
    /\ At(c, "store")
    /\ cache' = [cache EXCEPT ![Home(c)][Target(frame[c])] =
                    [present |-> TRUE, list |-> frame[c].list]]
    /\ frame' = [frame EXCEPT ![c].step = "reread", ![c].list = {}]
    /\ UNCHANGED <<server, granted, booting>>

\* The second read of the cache, in a critical section of its own, which does
\* not ask whether the key is there.
Reread(c) ==
    /\ At(c, "reread")
    /\ frame' = [frame EXCEPT ![c] =
                    Decide(@, cache[Home(c)][Target(frame[c])].list)]
    /\ UNCHANGED <<server, granted, cache, booting>>

ReplaceList(c) ==
    server' = [server EXCEPT ![Target(frame[c])] = frame[c].list]

PutApplied(c) ==
    /\ At(c, "put")
    /\ ReplaceList(c)
    /\ frame' = [frame EXCEPT ![c].step = "invalidate", ![c].list = {},
                              ![c].permit = FALSE]
    /\ UNCHANGED <<granted, cache, booting>>

\* The PUT reports an error, without or with its effect on the list.
PutFailed(c) ==
    /\ At(c, "put")
    /\ \/ UNCHANGED server
       \/ AmbiguousPut /\ ReplaceList(c)
    /\ \E wait \in NextBackoff(frame[c].attempt) :
          frame' = [frame EXCEPT ![c] = [AttemptFailed(@, wait) EXCEPT !.permit = FALSE]]
    /\ UNCHANGED <<granted, cache, booting>>

Invalidate_Fault(c) ==                 \* the cache keeps the list from before the PUT
    /\ At(c, "invalidate")
    /\ frame' = [frame EXCEPT ![c] = NextDatabase(@, FALSE)]
    /\ UNCHANGED <<server, granted, cache, booting>>

Invalidate(c) ==
    /\ At(c, "invalidate")
    /\ cache' = [cache EXCEPT ![Home(c)][Target(frame[c])] = Absent]
    /\ frame' = [frame EXCEPT ![c] = NextDatabase(@, FALSE)]
    /\ UNCHANGED <<server, granted, booting>>

Backoff(c) ==
    /\ At(c, "backoff")
    /\ frame' = [frame EXCEPT ![c] = AfterBackoff(@)]
    /\ UNCHANGED <<server, granted, cache, booting>>

Return(c) ==
    /\ At(c, "return")
    /\ frame' = [frame EXCEPT ![c] = Idle]
    /\ UNCHANGED <<server, granted, cache, booting>>

-----------------------------------------------------------------------------
(* Another user of the API adds or deletes one entry. *)

ExternalEdit(d, e) ==
    /\ \/ /\ e \notin server[d]
          /\ server' = [server EXCEPT ![d] = @ \cup {e}]
          /\ granted' = [granted EXCEPT ![d] = @ \cup {normalizeIP(e)}]
       \/ /\ e \in server[d]
          /\ server' = [server EXCEPT ![d] = @ \ {e}]
          /\ UNCHANGED granted
    /\ UNCHANGED <<cache, booting, frame>>

-----------------------------------------------------------------------------

\* What caller c does next in the call it is executing.
Continue(c) ==
    \/ Lookup(c) \/ Fetch(c) \/ Store(c) \/ Reread(c) \/ PutApplied(c)
    \/ PutFailed(c) \/ Invalidate(c) \/ Backoff(c) \/ Return(c)

Next ==
    \/ \E p \in Replicas : Crash(p) \/ \E d \in DBs : InitializeCache(p, d)
    \/ \E c \in Caller : Continue(c) \/ \E k \in Call : UpdateAllowList(c, k)
    \/ \E d \in DBs, e \in EditEntries : ExternalEdit(d, e)

\* A goroutine that can run is scheduled, and an API request is assumed to end with an
\* answer or an error; nothing makes an informer call the client.
Fairness == \A c \in Caller : WF_vars(Continue(c))

Spec == Init /\ [][Next]_vars /\ Fairness

-----------------------------------------------------------------------------
(* Correctness.  The properties down to CallsReturn hold of any number of   *)
(* replicas and informers, with crashes, edits and ambiguous PUTs.          *)

\* Every entry of list L means an entry of G.
Backed(L, G) == \A e \in L : normalizeIP(e) \in G

\* A database's list never holds an entry that nobody put there or asked for:
\* no stale cache, lost PUT, retry or crash carries an entry from one database
\* to another or makes one up (updateDatabaseAllowList).
NoUnrequestedEntries == \A d \in DBs : Backed(server[d], granted[d])

\* What a call may still write: the list it holds, and the address it adds.
FrameBacked(f, g) ==
    /\ f.step \in {"store", "put"} => Backed(f.list, g[Target(f)])
    /\ f.step # "idle" /\ f.call.op = "add" =>
          \A i \in DOMAIN Databases(f) : Host(f.call.ip) \in g[Databases(f)[i]]

\* The inductive form of NoUnrequestedEntries: the caches and the calls in
\* progress hold nothing unrequested either.
UnrequestedNowhere ==
    /\ TypeOK
    /\ NoUnrequestedEntries
    /\ \A p \in Replicas, d \in DBs : Backed(cache[p][d].list, granted[d])
    /\ \A c \in Caller : FrameBacked(frame[c], granted)

\* A PUT sent without a permit of the rate limiter is a retry: each database's
\* turn takes one permit for its first PUT, and the retries of that PUT take
\* none (the limiter stands outside RetryWithBackoff in updateDatabaseAllowList).
UnmeteredPutsAreRetries ==
    \A c \in Caller : At(c, "put") /\ ~frame[c].permit => frame[c].attempt > 0

\* The waits of one database's turn never get shorter from one failed attempt to
\* the next, whatever the jitter, and none but the first can exceed MaxBackoff; for
\* a MaxBackoff that is not 0, and while durations do not overflow (RetryWithBackoff).
BackoffsGrow ==
    [][\A c \in Caller : ~At(c, "backoff") /\ At(c, "backoff")' =>
          LET wait == frame'[c].nextBackoff IN
          /\ wait >= frame[c].nextBackoff
          /\ frame[c].attempt > 0 => wait <= MaxBackoff]_vars

\* Every call ends, whatever the API answers: the retry loop is bounded and
\* an error on one database does not hold up the next (RetryWithBackoff).
CallsReturn == \A c \in Caller : ~At(c, "idle") ~> At(c, "idle")

(* The properties below need one informer, no other writer and PUTs that    *)
(* fail only when they have no effect.                                      *)

\* Between calls of the API the cache is what the API holds, except from a PUT
\* to the invalidation that follows it (getCachedAllowList, invalidateCache).
CacheCoherent ==
    \A p \in Replicas, d \in DBs :
        cache[p][d].present =>
            \/ cache[p][d].list = server[d]
            \/ \E c \in Caller : /\ Home(c) = p /\ At(c, "invalidate")
                                /\ Target(frame[c]) = d

Holds(d, ip) == Host(ip) \in Norm(server[d])

\* A call that reports no error has had its effect on every database of the
\* pool, not only on the last one (lastErr in handleAddOperation and
\* handleDeleteOperation).
SuccessMeansApplied ==
    \A c \in Caller : At(c, "return") /\ ~frame[c].failed =>
        LET k == frame[c].call IN
        \A i \in DOMAIN DatabasesOf[k.pool] :
            Holds(DatabasesOf[k.pool][i], k.ip) <=> k.op = "add"

\* README.md:12, "Never removes existing IP addresses from database
\* allow_lists": a PUT made to add an address drops no entry.
AddKeepsEntries ==
    [][\A c \in Caller : At(c, "put") /\ frame[c].call.op = "add" =>
          LET d == Target(frame[c]) IN
          frame'[c] # frame[c] => Norm(server[d]) \subseteq Norm(server'[d])]_vars

\* README.md:31, "its IP is immediately removed from the database allow
\* lists": a removal that reports no error leaves no such entry.
RemovedIsGone ==
    \A c \in Caller :
        At(c, "return") /\ frame[c].call.op = "remove" /\ ~frame[c].failed =>
            \A i \in DOMAIN Databases(frame[c]) :
                ~Holds(Databases(frame[c])[i], frame[c].call.ip)

\* What the client implements: at "invalidate" the database is done, at
\* "return" all are.
JobOf(f) ==
    [call |-> f.call, failed |-> f.failed,
     pos |-> CASE f.step = "invalidate" -> f.idx + 1
               [] f.step = "return"     -> Len(Databases(f)) + 1
               [] OTHER                 -> f.idx]

Abstract == INSTANCE AllowList WITH
    Callers <- Caller, Calls <- Call,
    InitialLists <- {[d \in DBs |-> Norm(L[d])] : L \in InitialLists},
    allow <- [d \in DBs |-> Norm(server[d])],
    job <- [c \in Caller |-> JobOf(frame[c])]

\* One informer's calls behave as atomic changes of one entry, database by
\* database, that end (UpdateAllowList).
ImplementsAllowList == Abstract!Spec
=============================================================================
