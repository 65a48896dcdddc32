---------------------------- MODULE WatchMonitor ----------------------------
(***************************************************************************)
(* What a leader says about its watch: the gauge of nodes per nodepool     *)
(* (updateNodeCountMetrics of cmd/nodewatcher/main.go) and the checks of   *)
(* the watch (the goroutines of watchNodes and verifyWatchConsistency of   *)
(* pkg/kubernetes/client.go).  Both ask the API for lists of nodes while   *)
(* the cluster changes and while the handlers are still behind it.         *)
(*                                                                         *)
(* The handlers are those of NodeWatcher, seen from here as calls that     *)
(* succeed or fail.  One term of leadership and its informer are modelled, *)
(* from the moment the informer has synced; the end of the term is a       *)
(* cancelled context.                                                      *)
(***************************************************************************)
EXTENDS Integers, Sequences, FiniteSets

CONSTANTS Nodes,
          Pools,         \* the configured nodepools
          MaxUpdates,    \* bound on the goroutines of one pool's gauge at a time
          MaxTrail       \* bound on the states of a node not yet handled

ASSUME MonitorAssumption ==
    /\ IsFiniteSet(Nodes) /\ "unwatched" \notin Pools
    /\ MaxUpdates \in Nat \ {0} /\ MaxTrail \in Nat \ {0}

\* Where a node is: in a configured pool or not, be it that it does not exist.
Unwatched == "unwatched"
Place == Pools \cup {Unwatched}

VARIABLES
    cluster,      \* cluster[n]: where the API has node n
    handled,      \* handled[n]: where the handlers last learned it is
    trail,        \* trail[n]: its later places, oldest first; the last is the present
    known,        \* known[n]: how many of those the watch has told the informer of
    calls,        \* calls that the handler at work has still to end
    listing,      \* listing[p]: updates of the gauge of p that have still to list
    counted,      \* counted[p][k]: those that have counted k nodes
    gauge,        \* gauge[p]: the metric nodes_watched
    excused,      \* history: pools whose last update failed, was overlapped by
                  \* another or was never due
    over,         \* the context of the term is cancelled
    check,        \* the check of the watch, in progress or next
    consecutiveMismatches

clusterVars == <<cluster, handled, trail, known, calls>>
gaugeVars == <<listing, counted, gauge, excused>>
checkVars == <<over, check, consecutiveMismatches>>
vars == <<clusterVars, gaugeVars, checkVars>>

Counts == 0 .. Cardinality(Nodes)

\* GetNodesByNodepool asks the API, not the informer.
Count(p) == Cardinality({n \in Nodes : cluster[n] = p})

\* Where the informer's store has node n.
Stored(n) == IF known[n] = 0 THEN handled[n] ELSE trail[n][known[n]]

\* The first check of a term is made by a goroutine of its own; the later ones
\* by the periodic goroutine, until it is "done".
Check == [phase: {"initial", "periodic", "done"}, running: BOOLEAN,
          left: SUBSET Pools,                   \* pools still to compare
          nodepoolCounts: [Pools -> Counts],
          consistent: BOOLEAN]

NextCheck(phase) == [phase |-> phase, running |-> FALSE, left |-> {},
                     nodepoolCounts |-> [p \in Pools |-> 0],
                     consistent |-> TRUE]

TypeOK ==
    /\ cluster \in [Nodes -> Place] /\ handled \in [Nodes -> Place]
    /\ trail \in [Nodes -> Seq(Place)] /\ known \in [Nodes -> Nat]
    /\ \A n \in Nodes : known[n] <= Len(trail[n]) /\ Len(trail[n]) <= MaxTrail
    /\ calls \in 0 .. 2
    /\ listing \in [Pools -> 0 .. MaxUpdates]
    /\ counted \in [Pools -> [Counts -> 0 .. MaxUpdates]]
    /\ gauge \in [Pools -> Counts] /\ excused \subseteq Pools
    /\ over \in BOOLEAN /\ check \in Check
    /\ consecutiveMismatches \in 0 .. 2

\* The informer has listed the nodes; its handlers have dealt with none.
Init ==
    /\ cluster \in [Nodes -> Place]
    /\ handled = [n \in Nodes |-> Unwatched]
    /\ trail = [n \in Nodes |-> IF cluster[n] = Unwatched THEN <<>> ELSE <<cluster[n]>>]
    /\ known = [n \in Nodes |-> Len(trail[n])]
    /\ calls = 0
    /\ listing = [p \in Pools |-> 0]
    /\ counted = [p \in Pools |-> [k \in Counts |-> 0]]
    /\ gauge = [p \in Pools |-> 0] /\ excused = {}
    /\ over = FALSE /\ check = NextCheck("initial") /\ consecutiveMismatches = 0

-----------------------------------------------------------------------------
(* The cluster, the watch and the handlers.  Definitions whose names end in   *)
(* Fault are plausible bugs, kept so that each property can be shown to catch *)
(* one; no action uses them.                                                  *)

InFlight(p) == listing[p] > 0 \/ \E k \in Counts : counted[p][k] > 0

ChangeNode(n, place) ==
    /\ place # cluster[n] /\ Len(trail[n]) < MaxTrail
    /\ cluster' = [cluster EXCEPT ![n] = place]
    /\ trail' = [trail EXCEPT ![n] = Append(@, place)]
    /\ UNCHANGED <<handled, known, calls, gaugeVars, checkVars>>

\* The watch tells the informer of the next change.  Nothing makes it do so: see
\* Rewatch in NodeWatcher.
Observe(n) ==
    /\ known[n] < Len(trail[n])
    /\ known' = [known EXCEPT ![n] = @ + 1]
    /\ UNCHANGED <<cluster, handled, trail, calls, gaugeVars, checkVars>>

\* A list, or a watch after another, shows the present state only.  The gauge may
\* hold a count from in between, and no handler call need follow.
Relist(n) ==
    /\ known[n] + 1 < Len(trail[n])
    /\ trail' = [trail EXCEPT ![n] = Append(SubSeq(@, 1, known[n]), cluster[n])]
    /\ excused' = Pools
    /\ UNCHANGED <<cluster, handled, known, calls, listing, counted, gauge, checkVars>>

\* The calls of handleNodeEvent that a change of place makes: one to remove and
\* one to add.
HandlerCalls(was, is) == IF was = is THEN 0 ELSE Cardinality({was, is} \cap Pools)

HandleNode(n) ==
    /\ calls = 0 /\ known[n] > 0
    /\ calls' = HandlerCalls(handled[n], Head(trail[n]))
    /\ handled' = [handled EXCEPT ![n] = Head(trail[n])]
    /\ trail' = [trail EXCEPT ![n] = Tail(@)] /\ known' = [known EXCEPT ![n] = @ - 1]
    /\ UNCHANGED <<cluster, gaugeVars, checkVars>>

updateNodeCountMetrics_PoolFault ==    \* pools that have no node now are left out
    LET counts == {p \in Pools : Count(p) > 0} IN
    /\ listing' = [p \in Pools |-> listing[p] + IF p \in counts THEN 1 ELSE 0]
    /\ excused' = {p \in Pools : InFlight(p)}
    /\ UNCHANGED <<counted, gauge>>

\* One goroutine for each configured pool, also those the event is not about.
updateNodeCountMetrics ==
    /\ listing' = [p \in Pools |-> listing[p] + 1]
    /\ excused' = {p \in Pools : InFlight(p)}
    /\ UNCHANGED <<counted, gauge>>

\* handleNodeEvent ends; after an error it returns before it updates the gauge.
EndCall ==
    /\ calls > 0
    /\ calls' = calls - 1
    /\ \/ /\ \A p \in Pools : listing[p] < MaxUpdates
          /\ updateNodeCountMetrics
       \/ excused' = Pools /\ UNCHANGED <<listing, counted, gauge>>
    /\ UNCHANGED <<cluster, handled, trail, known, checkVars>>

-----------------------------------------------------------------------------
(* An update of the gauge: two steps of a goroutine that nothing orders with  *)
(* the other goroutines of its pool.                                          *)

GetNodesByNodepool(p) ==
    /\ listing[p] > 0
    /\ listing' = [listing EXCEPT ![p] = @ - 1]
    /\ \/ /\ counted[p][Count(p)] < MaxUpdates
          /\ counted' = [counted EXCEPT ![p][Count(p)] = @ + 1]
          /\ UNCHANGED excused
       \/ excused' = excused \cup {p} /\ UNCHANGED counted
    /\ UNCHANGED <<clusterVars, gauge, checkVars>>

UpdateNodesWatched(p) ==
    /\ \E k \in Counts :
          /\ counted[p][k] > 0
          /\ counted' = [counted EXCEPT ![p][k] = @ - 1]
          /\ gauge' = [gauge EXCEPT ![p] = k]
    /\ UNCHANGED <<clusterVars, listing, excused, checkVars>>

-----------------------------------------------------------------------------
(* The checks of the watch. *)

Verdict_PhaseFault(consistent) ==      \* the first check counts as well, and no count is kept small
    /\ check' = NextCheck("periodic")
    /\ consecutiveMismatches' = IF consistent THEN 0 ELSE consecutiveMismatches + 1

\* What the goroutine makes of a verdict: the first check of a term only warns;
\* two mismatches in a row are logged as a broken watch.  Counted to two, as no
\* higher number is told apart.
Verdict(consistent) ==
    /\ check' = NextCheck("periodic")
    /\ consecutiveMismatches' =
          IF check.phase = "initial" THEN consecutiveMismatches
          ELSE IF consistent THEN 0
          ELSE IF consecutiveMismatches < 2 THEN consecutiveMismatches + 1 ELSE 2

Due == check.phase # "done" /\ ~check.running

\* All nodes are listed once and counted per pool.
BeginCheck ==
    /\ Due /\ ~over
    /\ check' = [check EXCEPT !.running = TRUE, !.left = Pools,
                              !.nodepoolCounts = [p \in Pools |-> Count(p)]]
    /\ UNCHANGED consecutiveMismatches

\* That list fails, as it must with the context of a term that is over.
FailCheck == Due /\ Verdict(FALSE)

\* "Now verify against our informer cache by using GetNodesByNodepool", which
\* lists the nodes of the pool from the API, whatever has become of the term.
ComparePool(p) ==
    /\ check.running /\ p \in check.left
    /\ \/ check' = [check EXCEPT !.left = @ \ {p},
                        !.consistent = @ /\ check.nodepoolCounts[p] = Count(p)]
       \/ check' = [check EXCEPT !.left = @ \ {p}, !.consistent = FALSE]
    /\ UNCHANGED consecutiveMismatches

EndCheck == check.running /\ check.left = {} /\ Verdict(check.consistent)

\* The periodic goroutine's select takes either of a tick and the end of the term.
StopChecks ==
    /\ over /\ check.phase = "periodic" /\ ~check.running
    /\ check' = NextCheck("done")
    /\ UNCHANGED consecutiveMismatches

verifyWatchConsistency ==
    /\ BeginCheck \/ FailCheck \/ EndCheck \/ StopChecks \/ \E p \in Pools : ComparePool(p)
    /\ UNCHANGED <<clusterVars, gaugeVars, over>>

EndTerm ==
    /\ ~over /\ over' = TRUE
    /\ UNCHANGED <<clusterVars, gaugeVars, check, consecutiveMismatches>>

-----------------------------------------------------------------------------

Next ==
    \/ \E n \in Nodes : \/ Observe(n) \/ Relist(n) \/ HandleNode(n)
                        \/ \E place \in Place : ChangeNode(n, place)
    \/ EndCall \/ \E p \in Pools : GetNodesByNodepool(p) \/ UpdateNodesWatched(p)
    \/ verifyWatchConsistency \/ EndTerm

Spec == Init /\ [][Next]_vars

-----------------------------------------------------------------------------
(* Correctness. *)

\* The handlers have caught up with the cluster and no update is in progress.
Settled ==
    /\ calls = 0 /\ \A n \in Nodes : trail[n] = <<>>
    /\ \A p \in Pools : ~InFlight(p)

\* At rest the gauge shows how many nodes each pool has, also when a node moved
\* between pools or changed again while a handler ran: an older count is left in
\* it only by an update that failed or overlapped another, or by a watch that lost
\* states (handleNodeEvent, updateNodeCountMetrics).
GaugeSettles == Settled => \A p \in Pools \ excused : gauge[p] = Count(p)

\* client.go:791-792, "verifies the watch connection by listing nodes directly and
\* comparing with what's in our cache": a pool is found consistent only if the
\* informer's store has as many of its nodes as the list (verifyWatchConsistency).
ChecksCompareCache ==
    [][\A p \in check.left \ check'.left :
          check'.consistent =>
              check.nodepoolCounts[p] = Cardinality({n \in Nodes : Stored(n) = p})]_vars
=============================================================================
