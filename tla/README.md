# kube-linode-database-controller in TLA+

The controller (`src/`) keeps the allow lists of Linode managed databases in step
with the nodes of a Kubernetes cluster: the external addresses of the nodes of a
nodepool are to be on the lists of the nodepool's databases. It runs as a
deployment of two replicas, one of which leads. These modules model its logic,
TLC checks them on small instances, and TLAPS proves twenty-six theorems for every value
of the constants: each invariant and each action property that a passing run checks is
stated by one of them.

## The system

| Component | State | Operations | Talks to |
|---|---|---|---|
| Linode client, `pkg/linode/client.go`, with `pkg/utils/retry.go` | `allowListCache` (mutex), rate limiter | `InitializeCache`, `UpdateAllowList` → per database `updateDatabaseAllowList` (read through the cache, compute, PUT, invalidate) in `RetryWithBackoff` | Linode API (GET, PUT of whole lists) |
| Node watcher, `watchNodes` and handlers of `pkg/kubernetes/client.go`, `handleNodeEvent` of `cmd/nodewatcher/main.go` | an informer's store and queue for each term | Add-, Update-, DeleteFunc | client-go's informer, the Linode client |
| Leader election, `Start`, `runLeaderElection` of `pkg/kubernetes/client.go` | `isLeader`, `stopCh`, `electionErrCh`, contexts, the gauge `leader_status` | the three callbacks, the supervisor loop | client-go's elector, the tracker, `watchNodes` |
| Reliability tracker, `pkg/kubernetes/reliability.go` | `retryCount`, `failures`, `state`, `trippedAt` (mutex) | `RecordFailure`, `RecordSuccess`, `IsCircuitOpen`, `GetBackoffDuration` | ends the process |
| Watch monitoring: goroutines of `watchNodes`, `verifyWatchConsistency`, `updateNodeCountMetrics` | the gauge `nodes_watched`, `consecutiveMismatches` | a first check and periodic ones; an update of the gauge after each handled event | Kubernetes API (lists of nodes) |
| Configuration, `pkg/config/config.go` | – | `Load`, `Validate` | gives the others their constants |
| Process wiring, `main.go` | the root context | start, signals, exit | all |
| Other metrics, error classification, deployment | – | see *Not modelled* | |

A notification of an informer calls a handler, the handler calls
`UpdateAllowList` for each address and waits for it, so an informer makes one call
at a time. Yet calls are concurrent: with those of the other replica (each replica
has its own cache and both write the same lists), and with those of the same
process's informers of earlier terms, which are never stopped and share the
process's cache. Operators edit the lists too.

What is hard: the API only replaces whole lists, unconditionally, so every change
is a read-modify-write; the read goes through a cache without an age limit that is
dropped only after a PUT that reported success; a PUT may take effect and still
report an error; the watch may lose states of a node, tell of its deletion by a
tombstone, or, between two watches, not at all; processes die between any two steps and nothing is persisted but the
lists themselves; callbacks of the election run in goroutines that client-go does
not wait for; time decides when the breaker trips. `PROJECT.json` lists the places
under "hazards", each at its line with the properties that watch over it.

What makes each component correct:

- *client*: a list holds only what somebody wanted on it; an add removes nothing;
  success means that every database of the pool has the change; a call ends; the
  cache agrees with the API; to its caller the client looks like atomic changes of
  single entries;
- *watcher*: when things calm down, the lists hold the addresses of exactly the nodes
  of the watched pools, but for changes reported as failed;
- *election*: one election per process at a time, none after the breaker trips, an
  ended one is resumed, status flag and gauge tell the truth, only the leader watches;
- *breaker*: it trips when, and only when, the window holds the threshold of failures,
  and the delays between elections grow to their cap;
- *monitoring*: the gauge settles on the number of nodes; a check compares the API with
  what the informer has;
- *configuration*: what passes validation is what the other components assume.

## Modules

| Module | Models | Reads as |
|---|---|---|
| `AllowList` | what `UpdateAllowList` promises | abstract: `allow`, and `job` (the call of each caller). `Apply` changes one entry in one step, `Skip` reports a failure, `Abandon` is the end of a process |
| `AllowListClient` | `pkg/linode/client.go`, `pkg/utils/retry.go` | `server` (the API), `cache`, `booting` (progress of `InitializeCache`), `frame` (the stack frame of each caller: step, database, attempt, list), `granted` (history) |
| `NodeWatcher` | `watchNodes`, its handlers, `handleNodeEvent` | `nodes` (the cluster), `seen`, `missed`, `queue`, `work` of the informer; calls the client of `AllowList` |
| `ReliabilityTracker` | `pkg/kubernetes/reliability.go` | each method an operator that primes the tracker's variables |
| `TimesAndDelays` | the loop of `RecordFailure` over its list of times, the doubled delays of `pkg/utils/retry.go` and of the tracker | two recursive functions |
| `CircuitBreaker` | the tracker called in any order | adds the clock and the history of failures |
| `LeaderElection` | `Start`, `runLeaderElection`, exit and start of `main` | extends the tracker; one variable for the place of each goroutine |
| `WatchMonitor` | `updateNodeCountMetrics`, the goroutines of `watchNodes`, `verifyWatchConsistency` | `cluster`, `handled`, `trail` and `known` (how far informer and handlers are behind), `listing` and `counted` (updates of the gauge in progress), `gauge`, `check` |
| `Configuration` | `pkg/config/config.go` | operators from a file and an environment to a configuration |
| `MCAllowListClient`, `MCNodeWatcher`, `MCWatchMonitor` | – | small instances; the client's takes its constants from a loaded configuration |
| `AllowListClientProofs`, `AllowListSoloProofs`, `NodeWatcherProofs`, `LeaderElectionProofs`, `CircuitBreakerProofs`, `WatchMonitorProofs`, `ConfigurationProofs` | – | the theorems about the module they extend |
| `TimesAndDelaysProofs` | – | lemmas about `TimesAndDelays`, for three of those |

`NodeWatcher` composes with the client through `AllowList`: it instantiates the
abstract module, and `AllowListClient` is checked to implement it
(`ImplementsAllowList`, in `client_solo`) and proved to take only its steps, both for one
informer; so `NodeWatcher` has one (`OneInformer`). `LeaderElection` explains why there may
be several in one process, as there are in `AllowListClient`.
Definitions whose names end in `Fault` are plausible bugs that no action uses; each
property is shown to catch one of them ("mutants" in `PROJECT.json`).

How steps were chosen. A step ends where another goroutine or process can get in: at
each API request, at each critical section of `cacheMutex` (lookup, store, second
read and invalidation are four), at each channel operation and each write of the
status. `Decide` is the computation on the list just read, which touches nothing
shared, and is part of the step that reads. The whole handler is one action where
its effects are local (`TakeNotification`).

What is abstracted in the data. Lists are sets of entries: their order is sorted and
means nothing. An entry is an address with or without its prefix length, because
`normalizeIP` makes the two one; a network always has one. An address is IPv4 or
IPv6 only in so far as it is of an enabled version (`Tracked`). A node is its pool
and its addresses. `DatabasesOf[p] = <<>>` stands for a nodepool that is not
configured, as `UpdateAllowList` can be asked about one; a configured nodepool has
databases (`LoadedSuitsTheClient`).

### Choices that need a word

- `AllowListClient`: a PUT of a process that dies either took effect before or never
  does. `MaxAttempts` is `retry.maxAttempts`; no bound on calls is needed, frames
  and lists being finite. Handlers pass `context.Background()`, so neither the limiter
  nor the retry loop is cancelled; a cancelled `InitializeCache` leaves databases
  uncached, as a failing one does. A wait's length is drawn when an attempt fails
  (`NextBackoff`); it is a whole number of units, with the jitter's open upper end.
  A delay too long for a `time.Duration` becomes, by the platform, the longest one or a
  negative one, which is no wait (`ToDuration`); with the default of 1 s that takes 34
  attempts, and nothing bounds `maxAttempts`.
- `NodeWatcher`: what the informer is told. client.go:353-363 clears `ResourceVersion` for
  every request, so each watch starts at the most recent state, sends what exists and says
  nothing of what was deleted before it began, be it after the list or after the last watch;
  it ends after 300 s, and the next one needs no list. `Rewatch` is such a beginning: it
  puts into `missed` the nodes that were deleted and that the informer still has, and no
  `Observe` is possible of them until they exist again (`Overlooked`). A watch that ends
  with an error is followed by a list, which may be at any time; only that shows the
  deletion, as a tombstone. The notification of a deletion may carry any state that the informer
  saw last, coalesced or not. `QueueBound` bounds the listener's queue, which in
  client-go is unbounded: an informer then sees the cluster later, and skips states
  the more. A failed change is remembered in `reported` (the handler records a
  Kubernetes event about it); the properties excuse those.
- `NodeWatcher` has the one informer of a process's first term. Entries of a list change
  atomically in it, which is what the client implements for one informer and not for two:
  two informers of a process share a cache, and each can compute from, store and PUT
  a list that the other has changed, while both report success. With two informers an address can
  be missing from a list, or stay on it, with nothing reported; the properties of
  `NodeWatcher` say nothing of such a process. What two informers or replicas do to
  each other is the subject of `client_shared` and `client_stale_add`.
- `LeaderElection`: `prompt` is chosen at the start and says whether a callback
  goroutine, once started, runs before the lease next changes, which is seconds later:
  a leader holds on for `RenewDeadline`, 10 s, and another's lease lasts
  `LeaseDuration`, 15 s. `StatusTellsLeader` is claimed only then; without it a late
  `OnNewLeader` or `OnStartedLeading` overwrites the status, and TLC finds that when the
  premise is removed. All other properties are checked with both values. A leader
  stops before its lease expires, because `RenewDeadline < LeaseDuration`. `watchNodes`
  cannot fail in this program: it fails only when `stopCh` is closed, and `Stop` is
  never called; so the restart it would ask for is left out. Its wait for the first sync
  is a step (`SyncCache`) that may never come: that wait heeds only `stopCh`.
- `WatchMonitor`: a node is the pool it is in, as only counts matter. The handlers are
  seen as calls that end with or without an update of the gauge; an update is two steps,
  a list and a write, in a goroutine for each pool. `excused` names the pools whose gauge
  is not promised: their last update failed, overlapped another (the older count may be
  written last), or a lost watch skipped a state. `known` tells which of the places of
  a node the informer has in its store (`Stored`): only those have a notification to handle.
  No property of a passing run depends on the watch being quick, or on its speaking at all. `MaxUpdates` bounds the
  goroutines of one pool at a step, `MaxTrail` the states that handlers are behind;
  mismatches are counted to two, as the code tells no higher number apart. Comments at
  client.go:791-792 and 828 speak of a comparison with the informer's cache; the code
  compares two lists from the API, and so does the model, which `monitor_cache` shows.
- `Configuration`: a file is its settings, an environment its variables that are set, after
  parsing. Durations are seconds. The first nodepool of a name is the one that counts, and a
  database counts by its id.

## Runs

| Run | Instance | Result |
|---|---|---|
| `client_solo` | 1 replica, 1 informer, 2 addresses, 1 network, 2 databases; pools `<<d1, d2>>`, `<<d2>>`, none, from a file that names the first twice; 3 attempts, delays from 2 to 5; lists with raw, prefixed and doubled entries | 231 thousand states, holds |
| `client_shared` | 1 replica, 2 informers, 1 address, a network edited by operators, ambiguous PUTs, a database no call is about; no cap on delays, which overflow at 4 | 415 thousand, holds |
| `client_stale_add` | 2 replicas with 2 informers each, 2 addresses, 1 database | `AddKeepsEntries` violated |
| `client_ambiguous` | 1 informer, ambiguous PUTs | `RemovedIsGone` violated |
| `watcher` | 1 node, 2 addresses of which 1 tracked, 2 pools with a common database, 1 informer, queue of 2 | 792 thousand, holds |
| `watcher_departed` | 1 node, 1 informer | `DepartedHaveNoAccess` violated |
| `watcher_late_address` | 1 node that registers without an address | `SettledAdmits` violated |
| `monitor` | 1 node, 2 symmetric pools, 1 update of a pool at a step, informer and handlers up to 2 states behind | 9.1 million, holds |
| `monitor_cache` | the same, without symmetry | `ChecksCompareCache` violated |
| `breaker` | threshold 3, window 3, cooldown 1, 6 failures, clock to 9 | 154 thousand, holds |
| `election` | 2 terms per process, threshold 2, window 1, cooldown 0, clock to 1, any number of restarts | 515 thousand, holds |
| `election_informers` | 2 terms | `OnlyLeaderWatches` violated |

What they ask:

- `client_solo` asks whether the client keeps its promise when nothing else writes the
  lists, though requests fail and the process dies. That one informer makes the cache
  coherent (`CacheCoherent`) is what the correctness of every later decision on a
  cached list rests on. `SuccessMeansApplied` is about an early database's error
  and later success. `UnmeteredPutsAreRetries` says exactly what the rate limit
  covers: the first PUT of each database's turn has a permit and a retry has none,
  although README.md:65 speaks of an API rate limit in requests per minute.
  `BackoffsGrow` says that no wait of a turn is shorter than the one before, though each
  is drawn with jitter and capped after it.
- `client_shared` asks what is left when two informers race, operators edit and PUTs
  lie: no entry appears from nowhere or wanders between databases, and calls end.
- the two violations show what does not survive: an add overwrites what another
  writer added in between; an ambiguous PUT leaves a stale cache behind a removal. In
  `client_stale_add` the other writer may be another informer of the process or another
  replica. The instance also holds the second read of the cache: when another informer
  invalidates between the fetch and that read, `getCachedAllowList` returns an empty list,
  and the PUT leaves nothing but the one address. TLC reports the shortest of the
  violations; with one replica, two informers, one address and a list that starts with a
  network it is that one, in which the network is lost.
- `watcher` asks whether the lists follow the cluster through watches that end, lost events,
  tombstones and restarts: `SettledAdmits` and `SettledRemoves` at rest, `CatchesUp` as a promise
  that rest comes. At rest means that the informer has been told what it will be told: a node
  deleted between two watches stays in its store, and its addresses are excused (`Leftover`),
  as is what was inherited from an earlier process. `watcher_departed` has neither excuse
  and fails: a node deleted between two watches keeps its access. A node that leaves while no
  process runs, or whose deletion arrives as a tombstone, would violate it too, by a
  longer way. Nodes keep their tracked addresses
  in those two runs; `watcher_late_address` lets one change and fails.
- `monitor` asks what an operator may read from the gauge and the logs. `GaugeSettles`: at
  rest the gauge is right, except after a failed or overlapped update or a lost watch state.
  `monitor_cache` takes the comments of `verifyWatchConsistency` at their word, that
  it compares with the informer's cache (`ChecksCompareCache`), and fails: the pool of a node that
  the informer has not been told of is found consistent.
- `breaker` asks also about delays: `BackoffGrows`, that a later one is longer whatever the
  jitter until the cap is reached, and that the longest is 36 s, the cap and its jitter.
- `election` asks what is said of it above, and two things about its terms.
  `BackoffStartsOver`: each term won starts the count anew, so a process that wins and
  loses for ever waits at most 2.4 s between its elections; the wait grows only if terms
  are lost before their callback has recorded the success. `TermsEnd`: a term that is over ends its goroutine,
  once the first sync is through. `OneElectionAtATime` includes `OnStoppedLeading`, not
  `OnStartedLeading`, which may still be at work when the next election starts. `election_informers` shows the informer that goes on
  after its term.

Why the bounds are enough. Each case has all its actors: two databases make a first
and a last turn of the loop, three attempts a first wait, one that is doubled and one that
is capped, two informers or replicas a race, two addresses an entry to lose; pools that share a database are what the order
of a move is about. A second node would add addresses but no new relation between two
addresses, which the code treats one by one (a shared address is left for later). Two
terms and a threshold of two make the breaker trip on the last; a clock of two values
makes a circuit half-open. In `breaker` the window is longer than the cooldown, as in
the code, so that failures from before a reset could still count, and six failures take
the delay past its cap. In `monitor` one node moves between two pools, is behind by more
than one state, and its updates overlap with those of the next call; a second node would
add to a count, not to the order of list and write.

Fairness. `AllowListClient`: a caller in a call goes on, since a backoff is finite and an
API request is assumed to end (the code sets no timeout of its own on it). `NodeWatcher`: a process comes to lead, the
watch shows what exists and those deletions that no gap has swallowed (`Observe`), handlers run (their
calls return: `CallsReturn`); no fairness is assumed of a list, so a deletion that was missed
may stay so. `LeaderElection`: every
goroutine that can run does, and a backoff ends; but no fairness is assumed of
`SyncCache`, as the API may never answer. No fairness is assumed of the cluster,
of crashes or signals, of success of a request, or of winning the lease. `WatchMonitor`
and `CircuitBreaker` promise nothing that needs any.

## Proofs

`AllowListClientProofs` proves for every value of the constants, under the assumptions
`ConfigAssumption` and `EntryAssumption` of `AllowListClient` (each pool has a sequence of
databases, at least one attempt, initial lists and edits made of entries):

- `TypeCorrect`: `Spec => []TypeOK`. `TypeOK` holds more than types: a caller in a call is
  at one of the databases of its pool (`WellFormed`), which is what makes it inductive,
  as `Target` is applied in most actions.
- `NothingUnrequested`: `Spec => []NoUnrequestedEntries`. A list is written from a frame, a
  frame is filled from a cache or from the API, and a cache from a frame, so the invariant
  must speak of all three: `UnrequestedNowhere` adds that cached lists, lists on their way
  and the address of an add in progress are backed by `granted`. `granted` only grows
  (`MoreGranted`), so a step that grants keeps what was backed; the other steps are
  taken one action at a time. `UnrequestedIsNowhere` states the invariant itself;
  `client_shared` checks it with TLC.
- `OnlyRetriesAreUnmetered`: `Spec => []UnmeteredPutsAreRetries`. The invariant carries the
  permit from the start of a database's turn to its first PUT.
- `WaitsNeverShrink`: `Spec => BackoffsGrow`, if there is a cap and no delay is too long for
  a `time.Duration` (`FitsDuration`). Both hypotheses are needed: a cap of 0 makes every
  later wait 0, and a delay that overflows may become none. `Paced` says that from one
  failed attempt to the next `nextBackoff` still holds the wait before; `WaitGrows` compares
  the two: the jitter adds less than the next doubling, and the cap is no shorter than the
  first wait.

`AllowListSoloProofs` takes one replica, one informer, no edits by others and no ambiguous
PUT (`Solo`), the case the client is built for, with any number of databases, pools,
addresses and attempts, and any failures and crashes of requests and process. Its
invariant is built from the places where the list of a database can be on its way: what is
cached, fetched or about to be PUT is related to what the API holds.

- `CacheIsCoherent`, `SuccessIsApplied`, `AddsKeepEntries`: `[]CacheCoherent`,
  `[]SuccessMeansApplied`, `AddKeepsEntries`.
- `ClientImplementsAllowList`: `Spec => Abstract!Init /\ [][Abstract!Next]_(Abstract!vars)`,
  the step simulation under the refinement mapping of `Abstract`: a PUT that took effect
  is `Apply`, giving up on a database is `Skip`, a crash is `Abandon`, and all between
  stutters.

`NodeWatcherProofs` takes one informer and any nodes, pools, databases and bounds, with lost
watch states, deletions that no watch tells of, tombstones, failing calls and restarts. `TypeCorrect` is
`Spec => []TypeOK`. `SettledAdmitsAll` and `SettledRemovesAll`, `Spec => []SettledAdmits` and
`Spec => []SettledRemoves`, have three hypotheses. `OneInformer`: without it the client's
entries do not change atomically, and the module is no model of the program.
`StableAddresses`: a node keeps its
addresses of the enabled versions; `watcher_late_address` is what happens without it.
`OwnAddresses`: no two nodes ever have such an address in common; without it a removal may
be handled after the add of the next owner. The run `watcher` is an instance of all three.

The two properties speak of states with nothing left to do, so the invariant (`WatcherInv`)
must say of all others what is still to come. It does so by the nodes each informer has
*handled*, which no variable of the code holds, so they are quantified: there are stores
`handled[i]` such that

- the queue leads from what is handled to what was seen (`Leads`): each notification turns
  one node of a store into the next, though states between may be missing;
- of the calls an informer has still to make about an entry, the last one leaves it as the
  handled nodes want it (`LastIsRight`). This is where the order in `UpdateFunc` counts: the
  removal from the old pool comes before the add to the new one, and they may share a database;
- every entry of every list has its reason (`Explained`): its last change was reported as
  failed, a call about it is under way, some running informer left it as its handled nodes
  want it, or no running informer wants it and it is as it was inherited.

At rest the queue is empty, so what is handled is what is in the store (`SettledStores`): the
cluster, but for the nodes whose deletion was overlooked. Those have left the cluster, so
every address it wants is admitted; theirs may still be on a list, which is `Leftover`.

`LeaderElectionProofs` proves, from `TrackerAssumption` and `TermsAssumption` (a threshold of
at least one failure; bounds on the tracker's lists that the number of terms fits in):

- `ElectionsDoNotOverlap`: `Spec => []OneElectionAtATime`, and `NoElectionAfterTrip`:
  `Spec => []TrippedStaysOut`. Neither is inductive, because the supervisor learns of the end
  of an election from the channel. `OneElection` says for each place an error can be in
  (the channel, the supervisor) that the election is over and the other place is empty, and
  that the circuit is open only between `RecordFailure` and the question after it, or with
  the process on its way out. Only three actions then need a thought: `ReportStopped`,
  which fills the channel; `CheckCircuit`, which lets no open circuit through to the
  backoff; `RestartElection`, which leaves "ended". The proof does not use the timing
  premise `prompt`, nor the bounds.
- `StatusIsTrue`: `Spec => []StatusTellsLeader`. `StatusInOrder` relates flag and gauge to
  the place of each callback, under `prompt`; it needs types for the places
  (`ControlTypes`) and `OneElection`, so that no callback of an earlier term is at work.
- `OnlyLossesTrip`: `Spec => []StandbyNeverTrips`. `LossesCounted` compares the failures kept,
  and those counted by `retryCount`, with the terms won: there is one term more than failures
  while a term is being lost and its failure not yet recorded (`Unrecorded`), so recording
  it cannot get ahead. `TypeCorrect`, `Spec => []TypeOK`, needs the same invariant, as nothing
  else bounds the tracker's counters.
- `BackoffNeverGrows`: `Spec => []BackoffStartsOver`. Under `prompt` the count is zero from the
  moment the callback has recorded the term until its loss is recorded (`CountStartsOver`),
  so a delay is drawn for a count of at most one.

`CircuitBreakerProofs` proves, from `TrackerAssumption`:

- `TripIsNotMissed` and `TripIsDue`: `Spec => []TripsWhenDue`, `Spec => []TripsOnlyWhenDue`. The code
  decides on a pruned list, the properties speak of all failures since the last reset.
  `BreakerInv` joins the two: after any time that is inside the window, now or later, list and
  history have as many failures. It must be said of all later times, because the window
  moves on and the list is not pruned until the next failure.
- `BackoffAlwaysGrows`: `Spec => BackoffGrows`, from the six delays there are (`BackoffTable`).
- `TypeCorrect`: `Spec => []TypeOK`, with the history as the bound of count and list.

`TimesAndDelaysProofs` has the lemmas that these and `WaitsNeverShrink` need. The provers cannot
unfold a recursive function, nor use the library's induction, which takes an operator as a
parameter; what they can use is that a set of naturals has a least element
(`LeastNatural`). From it come the existence of a function with given equations
(`IterationExists`) and, by a smallest counterexample, what the loop over the times keeps
(`TimesAfterKeeps`) and that each retry doubles the delay (`DoubledStep`).

`WatchMonitorProofs` proves, from `MonitorAssumption` (finitely many nodes; the place
of a node outside the watched pools is not a pool):

- `GaugeIsRightAtRest`: `Spec => []GaugeSettles`. `GaugeInv` says of each pool that is not
  excused that no wrong count is the last: an update is about to list the nodes, or one has
  counted and is right unless another is coming, or none is at work and the gauge is right
  unless one is coming. One is coming when a handler has still a change of that pool
  to treat, so the invariant also says that the trail of a node ends where the node is.
- `TypeCorrect`: `Spec => []TypeOK`.

`ConfigurationProofs` proves, with no assumption:

- `LoadedSuitsTheClient`: what `Load` returns meets `ConfigAssumption`, and exactly the
  configured names have databases, one at least. It joins the client's proofs to the
  program: their assumption is what `Validate` enforces.
- `EnvironmentIsNotEnough`: without a file `Load` fails in every environment, as nodepools
  cannot be given there, although README.md:51 says "via environment variables or a
  configuration file".

Out of reach of the prover, and only model-checked: the liveness properties `CallsReturn`,
`CatchesUp`, `ElectionResumes` and `TermsEnd`, and the fairness part of the refinement of
`AllowList` (`ImplementsAllowList`), whose steps are proved. The six runs that expect a
violation need no proof.

## Plan

Written so far: all modules of the table above, with their proofs. Next, in this order:

1. Two nodes with a common address in `NodeWatcher`, as when an address passes from a
   deleted node to a new one: the removal may be handled last.
2. Two informers over `AllowListClient` itself instead of the abstract client, with two
   terms of leadership.
3. `LeaderElection` with two processes of equal standing over one lease.
4. Proofs: the two theorems about settled lists without `OwnAddresses`, for the entries of
   addresses that one node at a time has, once item 1 has shown what holds of the others; the
   refinement of `AllowList` with operators who edit lists of other databases.

## Not modelled

- `verifyWatchConnection`, which nothing calls: the loop of `watchNodes` does its work.
- `pkg/metrics` but for `leader_status` and `nodes_watched`: counters that nothing in the
  program reads, and the HTTP server.
- `LoadFromEnv`, which only tests call. The flag `--log-level` replaces the level after
  the validation and without one of its own: an unknown level leaves the logger's default.
  A flag `--nodepool-label-key`, which README.md:34 names, does not exist.
- `error_classification.go`: labels of metrics; of the texts it knows the program itself
  only ever sends "stopped leading unexpectedly".
- `LogEvent`: events for people, which nothing reads back.
- Manifests, chart, image, loggers.
- The 0.0.0.0/0 alert, a warning without effect on lists.
