---------------------------- MODULE NodeWatcher ----------------------------
(***************************************************************************)
(* watchNodes of pkg/kubernetes/client.go with its three event handlers,   *)
(* and handleNodeEvent of cmd/nodewatcher/main.go: what one process does   *)
(* to the allow lists as nodes come, go and change pool.                   *)
(*                                                                         *)
(* An informer has a store of the nodes as it last saw them (client-go's   *)
(* indexer), a queue of notifications and one goroutine that calls the     *)
(* handlers.  A watch lasts 300 s at most.  The next one asks for no       *)
(* resource version, so it starts at the most recent state: it sends what  *)
(* exists and says nothing of what was deleted in between.  Intermediate   *)
(* states of a node may be skipped for the same reason.                    *)
(*                                                                         *)
(* The Linode client is the abstract one of AllowList: an entry changes in *)
(* one step or the call reports an error.  AllowListClient implements it   *)
(* for one informer, so there is one here, that of the first term of       *)
(* leadership of a process.  A later term starts another beside it.        *)
(***************************************************************************)
EXTENDS Naturals, Sequences, FiniteSets, Functions

CONSTANTS Nodes, Informers, Addrs,
          Tracked,       \* external addresses of an enabled IP version
          DBs, Pools,    \* Pools are the configured nodepools
          DatabasesOf,
          AddressesOf,   \* AddressesOf[n]: the address sets node n can have
          InitialLists,
          QueueBound     \* bound on an informer's queue of notifications

ASSUME ClusterAssumption ==
    /\ Tracked \subseteq Addrs
    /\ DatabasesOf \in [Pools -> Seq(DBs)]
    /\ AddressesOf \in [Nodes -> SUBSET SUBSET Addrs]
    /\ InitialLists \subseteq [DBs -> SUBSET Addrs]
    /\ QueueBound \in Nat \ {0}
    /\ "gone" \notin Pools /\ "unwatched" \notin Pools

\* For two informers of a process entries do not change atomically (AllowListClient).
ASSUME OneInformer == \A i, j \in Informers : i = j

\* The node does not exist; the node carries no configured label value.
Gone == [pool |-> "gone", ips |-> {}]
NoPool == "unwatched"
Node == [pool: Pools \cup {NoPool}, ips: SUBSET Addrs]

VARIABLES
    nodes,      \* nodes[n]: the node in the Kubernetes API
    running,    \* the informers that have been started
    seen,       \* seen[i][n]: the node in the store of informer i
    missed,     \* missed[i]: nodes that informer i knows and that were deleted in
                \* a gap between two watches
    queue,      \* queue[i]: notifications not yet handled
    work,       \* work[i]: handler calls still to make for the current one
    allow, job, \* the Linode client
    reported,   \* <<database, address>>: its last change was reported as failed
    inherited   \* <<database, address>>: on the list since before this process

clientVars == <<allow, job>>
informerVars == <<running, seen, missed, queue, work>>
vars == <<nodes, informerVars, clientVars, reported, inherited>>

Call == [op: {"add", "remove"}, pool: Pools, ip: Addrs]
Host(ip) == ip

Client == INSTANCE AllowList WITH Callers <- Informers, Calls <- Call

isNodeInWatchedNodepool(node) == node.pool \in Pools

GetExternalIPs(node) == node.ips \cap Tracked

Notification == [kind: {"add", "update", "delete", "tombstone"},
                 old: Node \cup {Gone}, new: Node \cup {Gone}]

\* One call of a node handler: the addresses it has still to treat.
Handling == [op: {"add", "remove"}, pool: Pools, ips: SUBSET Tracked]

Job == [call: Call \cup {Client!NoJob.call}, pos: Nat \ {0}, failed: BOOLEAN]

TypeOK ==
    /\ nodes \in [Nodes -> Node \cup {Gone}]
    /\ running \subseteq Informers
    /\ seen \in [Informers -> [Nodes -> Node \cup {Gone}]]
    /\ missed \in [Informers -> SUBSET Nodes]
    /\ queue \in [Informers -> Seq(Notification)]
    /\ work \in [Informers -> Seq(Handling)]
    /\ \A i \in Informers : Len(queue[i]) <= QueueBound /\ Len(work[i]) <= 2
    /\ allow \in [DBs -> SUBSET Addrs]
    /\ job \in [Informers -> Job]
    /\ reported \subseteq DBs \X Addrs
    /\ inherited \subseteq DBs \X Addrs

Pairs(lists) == {x \in DBs \X Addrs : x[2] \in lists[x[1]]}

Init ==
    /\ nodes = [n \in Nodes |-> Gone]
    /\ running = {}
    /\ seen = [i \in Informers |-> [n \in Nodes |-> Gone]]
    /\ missed = [i \in Informers |-> {}]
    /\ queue = [i \in Informers |-> <<>>]
    /\ work = [i \in Informers |-> <<>>]
    /\ Client!Init
    /\ reported = {}
    /\ inherited = Pairs(allow)

-----------------------------------------------------------------------------
(* The cluster. *)

\* A node registers, leaves, or has its label or its addresses changed.
ChangeNode(n, node) ==
    /\ node # nodes[n]
    /\ nodes' = [nodes EXCEPT ![n] = node]
    /\ UNCHANGED <<informerVars, clientVars, reported, inherited>>

CreateNode(n) ==
    /\ nodes[n] = Gone
    /\ \E pool \in Pools \cup {NoPool}, ips \in AddressesOf[n] :
          ChangeNode(n, [pool |-> pool, ips |-> ips])

RelabelNode(n) ==
    /\ nodes[n] # Gone
    /\ \E pool \in Pools \cup {NoPool} : ChangeNode(n, [nodes[n] EXCEPT !.pool = pool])

ReaddressNode(n) ==
    /\ nodes[n] # Gone
    /\ \E ips \in AddressesOf[n] : ChangeNode(n, [nodes[n] EXCEPT !.ips = ips])

DeleteNode(n) == nodes[n] # Gone /\ ChangeNode(n, Gone)

-----------------------------------------------------------------------------
(* The informers.  Definitions whose name ends in Fault are plausible bugs,   *)
(* kept so that each property can be shown to catch one; no action uses them. *)

\* A term of leadership starts: a new informer with an empty store.
StartInformer(i) ==
    /\ i \notin running
    /\ running' = running \cup {i}
    /\ UNCHANGED <<nodes, seen, missed, queue, work, clientVars, reported, inherited>>

\* The watch of informer i ends and another begins, or the first one after the
\* list: the nodes deleted by now that it has not been told of are missed.
Rewatch(i) ==
    /\ i \in running
    /\ missed' = [missed EXCEPT ![i] = {n \in Nodes : seen[i][n] # Gone /\ nodes[n] = Gone}]
    /\ UNCHANGED <<nodes, running, seen, queue, work, clientVars, reported, inherited>>

\* No watch will tell informer i what has become of node n.
Overlooked(i, n) == n \in missed[i] /\ nodes[n] = Gone

Notify(i, n, kind) ==
    /\ i \in running
    /\ Len(queue[i]) < QueueBound
    /\ queue' = [queue EXCEPT ![i] =
                    Append(@, [kind |-> kind, old |-> seen[i][n], new |-> nodes[n]])]
    /\ seen' = [seen EXCEPT ![i][n] = nodes[n]]
    /\ missed' = [missed EXCEPT ![i] = @ \ {n}]
    /\ UNCHANGED <<nodes, running, work, clientVars, reported, inherited>>

\* The list or the watch shows informer i the present state of node n, also of one
\* that was deleted and created anew in a gap.
Observe(i, n) ==
    /\ seen[i][n] # nodes[n] /\ ~Overlooked(i, n)
    /\ \/ seen[i][n] = Gone /\ Notify(i, n, "add")
       \/ seen[i][n] # Gone /\ nodes[n] # Gone /\ Notify(i, n, "update")
       \/ nodes[n] = Gone /\ Notify(i, n, "delete")

\* A watch that ended with an error is followed by a list, which lacks the node: the
\* notification carries a cache.DeletedFinalStateUnknown in its place.
ObserveByRelist(i, n) ==
    /\ seen[i][n] # Gone /\ nodes[n] = Gone
    /\ Notify(i, n, "tombstone")

\* The periodic resync notifies an update that changes nothing.
Resync(i, n) ==
    /\ queue[i] = <<>>
    /\ seen[i][n] # Gone /\ seen[i][n] = nodes[n]
    /\ Notify(i, n, "update")

-----------------------------------------------------------------------------
(* The handlers. *)

Handle_NameFault(op, node) ==       \* the event's name is taken for the operation's
    IF GetExternalIPs(node) = {} THEN <<>>
    ELSE <<[op |-> IF op = "remove" THEN "delete" ELSE op,
            pool |-> node.pool, ips |-> GetExternalIPs(node)]>>

\* handleNodeEvent: a node without a suitable address is an error and no call.
Handle(op, node) ==
    IF GetExternalIPs(node) = {} THEN <<>>
    ELSE <<[op |-> op, pool |-> node.pool, ips |-> GetExternalIPs(node)]>>

HandlerCalls_OrderFault(e) ==       \* a moved node is added before it is removed
    LET was == isNodeInWatchedNodepool(e.old)
        is  == isNodeInWatchedNodepool(e.new)
    IN  CASE was /\ is  -> IF e.old.pool = e.new.pool THEN <<>>
                           ELSE Handle("add", e.new) \o Handle("remove", e.old)
          [] was /\ ~is -> Handle("remove", e.old)
          [] ~was /\ is -> Handle("add", e.new)
          [] OTHER      -> <<>>

HandlerCalls_LabelFault(e) ==       \* a removed label is no removal
    LET was == isNodeInWatchedNodepool(e.old)
        is  == isNodeInWatchedNodepool(e.new)
    IN  CASE was /\ is  -> IF e.old.pool = e.new.pool THEN <<>>
                           ELSE Handle("remove", e.old) \o Handle("add", e.new)
          [] was /\ ~is -> IF e.new = Gone THEN Handle("remove", e.old) ELSE <<>>
          [] ~was /\ is -> Handle("add", e.new)
          [] OTHER      -> <<>>

HandlerCalls_MoveFault(e) ==        \* a move between watched pools is no change
    LET was == isNodeInWatchedNodepool(e.old)
        is  == isNodeInWatchedNodepool(e.new)
    IN  CASE was /\ ~is -> Handle("remove", e.old)
          [] ~was /\ is -> Handle("add", e.new)
          [] OTHER      -> <<>>

\* What AddFunc, UpdateFunc and DeleteFunc do with a notification.
HandlerCalls(e) ==
    LET was == isNodeInWatchedNodepool(e.old)
        is  == isNodeInWatchedNodepool(e.new)
    IN  CASE was /\ is  -> IF e.old.pool = e.new.pool THEN <<>>
                           ELSE Handle("remove", e.old) \o Handle("add", e.new)
          [] was /\ ~is -> Handle("remove", e.old)
          [] ~was /\ is -> Handle("add", e.new)
          [] OTHER      -> <<>>

HandlerFree(i) == work[i] = <<>> /\ ~Client!Busy(i)

TakeNotification(i) ==
    /\ HandlerFree(i)
    /\ queue[i] # <<>> /\ Head(queue[i]).kind # "tombstone"
    /\ work' = [work EXCEPT ![i] = HandlerCalls(Head(queue[i]))]
    /\ queue' = [queue EXCEPT ![i] = Tail(@)]
    /\ UNCHANGED <<nodes, running, seen, missed, clientVars, reported, inherited>>

\* handleNodeEvent calls the Linode client for the next address, in no
\* particular order, and goes on to the next whatever the call returns.
CallClient(i) ==
    /\ work[i] # <<>>
    /\ \E ip \in Head(work[i]).ips :
          LET h == Head(work[i])
              rest == IF h.ips = {ip} THEN <<>> ELSE <<[h EXCEPT !.ips = @ \ {ip}]>>
          IN  /\ Client!Begin(i, [op |-> h.op, pool |-> h.pool, ip |-> ip])
              /\ work' = [work EXCEPT ![i] = rest \o Tail(@)]
    /\ UNCHANGED <<nodes, running, seen, missed, queue, reported, inherited>>

\* The entry that the call in progress deals with.
Current(i) == <<Client!Pool(i)[job[i].pos], job[i].call.ip>>

\* The call deals with one database, or fails on it and reports so, or ends.
ClientStep(i) ==
    /\ \/ /\ Client!Apply(i)
          /\ reported' = reported \ {Current(i)}
          /\ inherited' = inherited \ {Current(i)}
       \/ /\ Client!Skip(i)
          /\ reported' = reported \cup {Current(i)}
          /\ UNCHANGED inherited
       \/ /\ Client!End(i)
          /\ UNCHANGED <<reported, inherited>>
    /\ UNCHANGED <<nodes, informerVars>>

-----------------------------------------------------------------------------
(* The process ends and is started again. *)

Restart ==
    /\ running' = {}
    /\ seen' = [i \in Informers |-> [n \in Nodes |-> Gone]]
    /\ missed' = [i \in Informers |-> {}]
    /\ queue' = [i \in Informers |-> <<>>]
    /\ work' = [i \in Informers |-> <<>>]
    /\ Client!Abandon(Informers)
    /\ reported' = {}
    /\ inherited' = Pairs(allow)
    /\ UNCHANGED nodes

\* DeleteFunc asserts that what it is given is a node; a tombstone is not, and
\* client-go lets the panic of a handler end the process.
PanicOnTombstone(i) ==
    /\ HandlerFree(i)
    /\ queue[i] # <<>> /\ Head(queue[i]).kind = "tombstone"
    /\ Restart

-----------------------------------------------------------------------------

ChangeCluster == \E n \in Nodes : CreateNode(n) \/ RelabelNode(n)
                                  \/ ReaddressNode(n) \/ DeleteNode(n)

RunHandler(i) == TakeNotification(i) \/ PanicOnTombstone(i) \/ CallClient(i)
                 \/ ClientStep(i)

Next ==
    \/ ChangeCluster
    \/ Restart
    \/ \E i \in Informers :
          \/ StartInformer(i) \/ Rewatch(i) \/ RunHandler(i)
          \/ \E n \in Nodes : Observe(i, n) \/ ObserveByRelist(i, n) \/ Resync(i, n)

FirstInformer == running = {} /\ \E i \in Informers : StartInformer(i)

\* The process comes to lead, the watch shows what exists and what it has not gone
\* by, handlers run and calls of the client return (CallsReturn of AllowListClient).
\* Nothing makes a list follow, so an overlooked deletion may stay unknown.
Fairness ==
    /\ WF_vars(FirstInformer)
    /\ \A i \in Informers : /\ WF_vars(RunHandler(i))
                            /\ \A n \in Nodes : WF_vars(Observe(i, n))

Spec == Init /\ [][Next]_vars /\ Fairness

-----------------------------------------------------------------------------
(* Correctness. *)

\* The addresses that database d should admit.
Desired(d) ==
    UNION {GetExternalIPs(nodes[n]) : n \in
              {m \in Nodes : /\ isNodeInWatchedNodepool(nodes[m])
                             /\ d \in Range(DatabasesOf[nodes[m].pool])}}

\* The informer has been told all that it will be told, and has nothing left to do.
Settled ==
    /\ running # {}
    /\ \A i \in running : /\ queue[i] = <<>> /\ HandlerFree(i)
                          /\ \A n \in Nodes : seen[i][n] = nodes[n] \/ Overlooked(i, n)

\* The entries of the nodes whose deletion was overlooked.
Leftover ==
    {x \in DBs \X Addrs : \E i \in running, n \in Nodes :
        /\ Overlooked(i, n) /\ isNodeInWatchedNodepool(seen[i][n])
        /\ x[1] \in Range(DatabasesOf[seen[i][n].pool])
        /\ x[2] \in GetExternalIPs(seen[i][n])}

NodesAdmitted ==
    \A d \in DBs, a \in Addrs :
        a \in Desired(d) \ allow[d] => <<d, a>> \in reported

DepartedRemoved ==
    \A d \in DBs, a \in Addrs :
        a \in allow[d] \ Desired(d) => <<d, a>> \in reported \cup inherited \cup Leftover

\* With nothing left to do, every address of a node in a watched pool is on the
\* lists of the pool's databases, unless the last attempt to put it there was
\* reported as failed: not even lost watch events, restarts and moves between pools
\* that share a database make it missing (UpdateFunc, handleNodeEvent).
SettledAdmits == Settled => NodesAdmitted

\* With nothing left to do, an address of no such node is on a list only if its
\* removal was reported as failed, if it was there before the process started and
\* the process has not changed it since, or if it is of a node whose deletion no
\* watch has told of.
SettledRemoves == Settled => DepartedRemoved

\* If the cluster and the process are left alone long enough, the lists come to
\* be what the cluster asks for, but for those exceptions, and stay so.
CatchesUp ==
    \/ []<><<ChangeCluster \/ Restart>>_vars
    \/ <>[](NodesAdmitted /\ DepartedRemoved)

\* README.md:17, "immediately removes access when nodes are removed from a
\* nodepool": with nothing left to do no node that left is still admitted,
\* but for reported failures.
DepartedHaveNoAccess ==
    Settled => \A d \in DBs : \A a \in allow[d] \ Desired(d) : <<d, a>> \in reported
=============================================================================
