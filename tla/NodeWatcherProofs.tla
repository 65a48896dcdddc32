------------------------- MODULE NodeWatcherProofs -------------------------
(***************************************************************************)
(* Proofs about NodeWatcher, of one informer, for any nodes, pools and     *)
(* databases: its types, and that the allow lists agree with the cluster   *)
(* whenever nothing is left to do, as long as a node keeps the addresses   *)
(* that count and no two nodes have one in common.                         *)
(***************************************************************************)
EXTENDS NodeWatcher, SequenceTheorems, TLAPS

\* A node never gains or loses an external address of an enabled IP version.
\* Without this the watcher misses an address: UpdateFunc looks at the pools of a
\* node only (run watcher_late_address).
StableAddresses ==
    \A n \in Nodes : \A A, B \in AddressesOf[n] : A \cap Tracked = B \cap Tracked

\* No two nodes ever have such an address in common, not even one after the other.
OwnAddresses ==
    \A m, n \in Nodes : \A A \in AddressesOf[m], B \in AddressesOf[n] :
        A \cap B \cap Tracked # {} => m = n

-----------------------------------------------------------------------------
(* What the lists should be, for the nodes in a store. *)

State == Node \cup {Gone}
Stores == {s \in [Nodes -> State] : \A n \in Nodes : s[n] = Gone \/ s[n].ips \in AddressesOf[n]}
Empty == [n \in Nodes |-> Gone]

\* The external addresses of node n.
ExternalIPs(n) == UNION {A \cap Tracked : A \in AddressesOf[n]}

Admits(state, d) == isNodeInWatchedNodepool(state) /\ d \in Range(DatabasesOf[state.pool])
Wanted(s, d, a) == \E n \in Nodes : a \in ExternalIPs(n) /\ Admits(s[n], d)

-----------------------------------------------------------------------------
(* What an informer has handled, and what is under way.  An informer's queue  *)
(* leads, one change of one node after the other, from the nodes its handlers *)
(* have dealt with to those in its store; the former need no variable.        *)

Change(s, e, t) ==
    \E n \in Nodes : /\ e.old = s[n] /\ e.new = t[n]
                     /\ \A m \in Nodes \ {n} : t[m] = s[m]

Leads(s, q, t) ==
    \E h \in [0 .. Len(q) -> Stores] :
        h[0] = s /\ h[Len(q)] = t /\ \A k \in 1 .. Len(q) : Change(h[k-1], q[k], h[k])

\* Handler call w has address a to treat on database d; one of the calls w has;
\* the client call of job j has database d still ahead of it for address a.
Treats(w, d, a) == a \in w.ips /\ d \in Range(DatabasesOf[w.pool])
InWork(w, d, a) == \E k \in 1 .. Len(w) : Treats(w[k], d, a)
InJob(j, d, a) ==
    /\ j.call \in Call /\ j.call.ip = a
    /\ \E m \in j.pos .. Len(DatabasesOf[j.call.pool]) : DatabasesOf[j.call.pool][m] = d

Active(i, d, a) == InJob(job[i], d, a) \/ InWork(work[i], d, a)

\* The last treatment of an entry that is under way leaves it as nodes s want it.
LastInWorkIsRight(w, s, d, a) ==
    \A k \in 1 .. Len(w) :
        Treats(w[k], d, a) /\ (\A m \in k + 1 .. Len(w) : ~Treats(w[m], d, a))
            => (w[k].op = "add" <=> Wanted(s, d, a))

LastIsRight(w, j, s) ==
    \A d \in DBs, a \in Addrs :
        /\ LastInWorkIsRight(w, s, d, a)
        /\ InJob(j, d, a) /\ ~InWork(w, d, a) => (j.call.op = "add" <=> Wanted(s, d, a))

\* Why the entry for address a of database d is as it is: its last change was reported
\* as failed, it is being treated, some informer left it as it should be, or no
\* informer has had a reason to touch it.
Explained(d, a, handled) ==
    \/ <<d, a>> \in reported
    \/ \E i \in running : Active(i, d, a)
    \/ \E i \in running : a \in allow[d] <=> Wanted(handled[i], d, a)
    \/ /\ \A i \in running : ~Wanted(handled[i], d, a)
       /\ a \in allow[d] => <<d, a>> \in inherited

AtRest(i) == seen[i] = Empty /\ queue[i] = <<>> /\ work[i] = <<>> /\ ~Client!Busy(i)

HandledInv(handled) ==
    /\ \A i \in Informers : /\ Leads(handled[i], queue[i], seen[i])
                            /\ LastIsRight(work[i], job[i], handled[i])
    /\ \A d \in DBs, a \in Addrs : Explained(d, a, handled)

WatcherInv ==
    /\ TypeOK
    /\ nodes \in Stores
    /\ \A i \in Informers : seen[i] \in Stores
    /\ \A i \in Informers \ running : AtRest(i)
    /\ \E handled \in [Informers -> Stores] : HandledInv(handled)

-----------------------------------------------------------------------------
(* Types. *)

LEMMA GoneIsUnwatched == ~isNodeInWatchedNodepool(Gone) /\ Gone \notin Node
  BY ClusterAssumption DEF isNodeInWatchedNodepool, Gone, Node, NoPool

LEMMA NoJobIsIdle == Client!NoJob.call \notin Call
<1>1. Client!NoJob.call.op = "none"
  BY DEF Client!NoJob
<1> QED
  BY <1>1 DEF Call

\* w is a sequence of at most n handler calls.
Handlings(w, n) == w \in Seq(Handling) /\ Len(w) <= n

LEMMA HandlingsConcat ==
  ASSUME NEW x, NEW y, Handlings(x, 1), Handlings(y, 1)
  PROVE  Handlings(x, 2) /\ Handlings(<<>>, 2) /\ Handlings(x \o y, 2)
<1>1. x \o y \in Seq(Handling) /\ Len(x \o y) = Len(x) + Len(y)
  BY ConcatProperties DEF Handlings
<1>2. Handlings(<<>>, 2)
  BY DEF Handlings
<1> QED
  BY <1>1, <1>2 DEF Handlings

LEMMA HandleType ==
  ASSUME NEW op \in {"add", "remove"}, NEW node \in State, isNodeInWatchedNodepool(node)
  PROVE  Handlings(Handle(op, node), 1)
<1> DEFINE w == [op |-> op, pool |-> node.pool, ips |-> GetExternalIPs(node)]
<1>1. w \in Handling
  BY GoneIsUnwatched DEF State, isNodeInWatchedNodepool, GetExternalIPs, Handling
<1>2. CASE GetExternalIPs(node) = {}
  <2>1. Handle(op, node) = <<>>
    BY <1>2 DEF Handle
  <2> QED
    BY <2>1 DEF Handlings
<1>3. CASE GetExternalIPs(node) # {}
  <2>1. Handle(op, node) = <<w>>
    BY <1>3 DEF Handle
  <2> HIDE DEF w
  <2> QED
    BY <1>1, <2>1 DEF Handlings
<1> QED
  BY <1>2, <1>3

\* A notification makes two handler calls at most, each for a configured pool.
LEMMA HandlerCallsType ==
  ASSUME NEW e, e.old \in State, e.new \in State
  PROVE  Handlings(HandlerCalls(e), 2)
<1>1. ASSUME isNodeInWatchedNodepool(e.old) PROVE Handlings(Handle("remove", e.old), 1)
  BY <1>1, HandleType
<1>2. ASSUME isNodeInWatchedNodepool(e.new) PROVE Handlings(Handle("add", e.new), 1)
  BY <1>2, HandleType
<1>3. Handlings(<<>>, 2)
  BY DEF Handlings
<1>4. CASE isNodeInWatchedNodepool(e.old) /\ isNodeInWatchedNodepool(e.new)
  <2>1. Handlings(Handle("remove", e.old) \o Handle("add", e.new), 2)
    BY <1>1, <1>2, <1>4, HandlingsConcat, Zenon
  <2> QED
    BY <1>3, <1>4, <2>1, Zenon DEF HandlerCalls
<1>5. CASE isNodeInWatchedNodepool(e.old) /\ ~isNodeInWatchedNodepool(e.new)
  BY <1>1, <1>5, HandlingsConcat, Zenon DEF HandlerCalls
<1>6. CASE ~isNodeInWatchedNodepool(e.old) /\ isNodeInWatchedNodepool(e.new)
  BY <1>2, <1>6, HandlingsConcat, Zenon DEF HandlerCalls
<1>7. CASE ~isNodeInWatchedNodepool(e.old) /\ ~isNodeInWatchedNodepool(e.new)
  BY <1>3, <1>7, Zenon DEF HandlerCalls
<1> QED
  BY <1>4, <1>5, <1>6, <1>7, Zenon

LEMMA TypesInit == Init => TypeOK
<1> SUFFICES ASSUME Init PROVE TypeOK
  OBVIOUS
<1>1. nodes \in [Nodes -> State] /\ seen \in [Informers -> [Nodes -> State]]
  BY DEF Init, State
<1>2. queue \in [Informers -> Seq(Notification)] /\ work \in [Informers -> Seq(Handling)]
  BY DEF Init
<1>3. \A i \in Informers : Len(queue[i]) <= QueueBound /\ Len(work[i]) <= 2
  BY ClusterAssumption DEF Init
<1>4. allow \in [DBs -> SUBSET Addrs]
  BY ClusterAssumption DEF Init, Client!Init
<1>5. job \in [Informers -> Job]
  BY DEF Init, Client!Init, Client!NoJob, Job
<1>6. /\ reported \subseteq DBs \X Addrs /\ inherited \subseteq DBs \X Addrs
      /\ running \subseteq Informers
      /\ missed \in [Informers -> SUBSET Nodes]
  BY DEF Init, Pairs
<1> QED
  BY <1>1, <1>2, <1>3, <1>4, <1>5, <1>6 DEF TypeOK, State

\* A call of the client: its entry is in the lists' range, and stays one.
LEMMA ClientTypes ==
  ASSUME TypeOK, NEW i \in Informers, Client!Advance(i) 
  PROVE  /\ allow' \in [DBs -> SUBSET Addrs]
         /\ job' \in [Informers -> Job]
         /\ Client!Pending(i) => Current(i) \in DBs \X Addrs
<1> USE DEF Client!Advance, Client!Apply, Client!Skip, Client!End
<1>1. job \in [Informers -> Job] /\ allow \in [DBs -> SUBSET Addrs]
  BY DEF TypeOK
<1>2. Client!NoJob \in Job
  BY DEF Client!NoJob, Job
<1>3. ASSUME Client!Pending(i)
      PROVE  /\ job[i].call \in Call /\ job[i].call.ip \in Addrs
             /\ Client!Pool(i) \in Seq(DBs) /\ Client!Pool(i)[job[i].pos] \in DBs
  <2>1. job[i].call \in Call /\ job[i].call.ip \in Addrs /\ job[i].call.pool \in Pools
    BY <1>3 DEF Client!Pending, Client!Busy, Call
  <2>2. Client!Pool(i) \in Seq(DBs)
    BY <2>1, ClusterAssumption DEF Client!Pool
  <2>3. job[i].pos \in Nat \ {0} /\ job[i].pos <= Len(Client!Pool(i))
    BY <1>1, <1>3 DEF Client!Pending, Job
  <2>4. Client!Pool(i)[job[i].pos] \in DBs
    <3> DEFINE q == Client!Pool(i)
    <3> HIDE DEF q
    <3>1. q \in Seq(DBs) /\ job[i].pos \in 1 .. Len(q)
      BY <2>2, <2>3 DEF q
    <3>2. q[job[i].pos] \in DBs
      BY <3>1
    <3> QED
      BY <3>2 DEF q
  <2> QED
    BY <2>1, <2>2, <2>4
<1>4. allow' \in [DBs -> SUBSET Addrs]
  <2>1. CASE Client!Apply(i)
    <3>1. Client!Changed(job[i].call, allow[Client!Pool(i)[job[i].pos]]) \in SUBSET Addrs
      BY <1>1, <1>3, <2>1 DEF Client!Changed, Host
    <3> QED
      BY <1>1, <2>1, <3>1
  <2> QED
    BY <1>1, <2>1
<1>5. job' \in [Informers -> Job]
  <2>1. job[i] \in Job
    BY <1>1
  <2>2. CASE Client!Apply(i) \/ Client!Skip(i)
    <3>1. [job[i] EXCEPT !.pos = @ + 1] \in Job
      BY <2>1 DEF Job
    <3>2. [call |-> job[i].call, pos |-> job[i].pos + 1, failed |-> TRUE] \in Job
      BY <2>1 DEF Job
    <3> QED
      BY <1>1, <2>2, <3>1, <3>2
  <2>3. CASE Client!End(i)
    BY <1>1, <1>2, <2>3
  <2> QED
    BY <2>2, <2>3
<1> QED
  BY <1>3, <1>4, <1>5 DEF Current

LEMMA RestartTypes == TypeOK /\ Restart => TypeOK'
<1> SUFFICES ASSUME TypeOK, Restart PROVE TypeOK'
  OBVIOUS
<1>1. /\ seen' \in [Informers -> [Nodes -> State]]
      /\ queue' \in [Informers -> Seq(Notification)]
      /\ work' \in [Informers -> Seq(Handling)]
      /\ \A i \in Informers : Len(queue'[i]) <= QueueBound /\ Len(work'[i]) <= 2
  BY ClusterAssumption DEF Restart, State
<1>2. job' \in [Informers -> Job] /\ allow' = allow
  BY DEF Restart, Client!Abandon, TypeOK, Client!NoJob, Job
<1>3. /\ running' = {} /\ nodes' = nodes /\ reported' = {} /\ inherited' \subseteq DBs \X Addrs
      /\ missed' \in [Informers -> SUBSET Nodes]
  BY <1>2 DEF Restart, Pairs
<1> QED
  BY <1>1, <1>2, <1>3 DEF TypeOK, State

\* The client begins a call that the handler makes, on a configured pool.
LEMMA CallTypes ==
  ASSUME TypeOK, NEW i \in Informers, CallClient(i)
  PROVE  /\ job' \in [Informers -> Job]
         /\ work' \in [Informers -> Seq(Handling)]
         /\ \A j \in Informers : Len(work'[j]) <= 2
<1>1. work[i] \in Seq(Handling) /\ work[i] # <<>> /\ Len(work[i]) <= 2
  BY DEF TypeOK, CallClient
<1>2. Head(work[i]) \in Handling /\ Tail(work[i]) \in Seq(Handling) /\ Len(Tail(work[i])) <= 1
  BY <1>1
<1> DEFINE h == Head(work[i])
           left(ip) == IF h.ips = {ip} THEN <<>> ELSE <<[h EXCEPT !.ips = @ \ {ip}]>>
<1>3. PICK ip \in h.ips :
         /\ Client!Begin(i, [op |-> h.op, pool |-> h.pool, ip |-> ip])
         /\ work' = [work EXCEPT ![i] = left(ip) \o Tail(@)]
  BY DEF CallClient
<1>4. [op |-> h.op, pool |-> h.pool, ip |-> ip] \in Call
  BY <1>2, ClusterAssumption DEF Handling, Call
<1>5. job' \in [Informers -> Job]
  <2>1. [call |-> [op |-> h.op, pool |-> h.pool, ip |-> ip], pos |-> 1,
         failed |-> DatabasesOf[h.pool] = <<>>] \in Job
    BY <1>4 DEF Job
  <2> QED
    BY <1>3, <2>1 DEF TypeOK, Client!Begin
<1>6. left(ip) \in Seq(Handling) /\ Len(left(ip)) <= 1
  <2>1. CASE h.ips = {ip}
    BY <2>1
  <2>2. CASE h.ips # {ip}
    <3>1. [h EXCEPT !.ips = @ \ {ip}] \in Handling
      BY <1>2 DEF Handling
    <3> QED
      BY <2>2, <3>1
  <2> QED
    BY <2>1, <2>2
<1> HIDE DEF left
<1>7. left(ip) \o Tail(work[i]) \in Seq(Handling) /\ Len(left(ip) \o Tail(work[i])) <= 2
  BY <1>2, <1>6, ConcatProperties
<1> QED
  BY <1>3, <1>5, <1>7 DEF TypeOK

LEMMA NotifyTypes ==
  ASSUME TypeOK, NEW i \in Informers, NEW n \in Nodes,
         NEW kind \in {"add", "update", "delete", "tombstone"}, Notify(i, n, kind)
  PROVE  TypeOK'
<1> DEFINE e == [kind |-> kind, old |-> seen[i][n], new |-> nodes[n]]
<1>1. nodes[n] \in State /\ seen[i][n] \in State /\ queue[i] \in Seq(Notification)
  BY DEF TypeOK, State
<1>2. e \in Notification
  BY <1>1 DEF Notification, State
<1>3. queue' = [queue EXCEPT ![i] = Append(@, e)] /\ Len(queue[i]) < QueueBound
  BY DEF Notify
<1> HIDE DEF e
<1>4. Append(queue[i], e) \in Seq(Notification) /\ Len(Append(queue[i], e)) <= QueueBound
  BY <1>1, <1>2, <1>3, ClusterAssumption
<1>5. queue' \in [Informers -> Seq(Notification)]
  BY <1>3, <1>4 DEF TypeOK
<1>6. \A j \in Informers : Len(queue'[j]) <= QueueBound
  BY <1>3, <1>4 DEF TypeOK
<1>7. seen' \in [Informers -> [Nodes -> Node \cup {Gone}]]
  <2>1. seen' = [seen EXCEPT ![i] = [seen[i] EXCEPT ![n] = nodes[n]]]
    BY DEF Notify
  <2>2. [seen[i] EXCEPT ![n] = nodes[n]] \in [Nodes -> Node \cup {Gone}]
    BY <1>1 DEF TypeOK, State
  <2> QED
    BY <2>1, <2>2 DEF TypeOK
<1>8. missed' \in [Informers -> SUBSET Nodes]
  BY DEF Notify, TypeOK
<1> QED
  BY <1>5, <1>6, <1>7, <1>8 DEF TypeOK, Notify, clientVars

LEMMA ObserveNotifies ==
  ASSUME NEW i \in Informers, NEW n \in Nodes,
         Observe(i, n) \/ ObserveByRelist(i, n) \/ Resync(i, n)
  PROVE  \E kind \in {"add", "update", "delete", "tombstone"} : Notify(i, n, kind)
  BY DEF Observe, ObserveByRelist, Resync

\* Every action of the watcher, told apart.
LEMMA WatcherSteps ==
  ASSUME [Next]_vars
  PROVE  \/ ChangeCluster
         \/ Restart
         \/ \E i \in Informers : StartInformer(i)
         \/ \E i \in Informers : Rewatch(i)
         \/ \E i \in Informers, n \in Nodes : 
               \E kind \in {"add", "update", "delete", "tombstone"} : Notify(i, n, kind)
         \/ \E i \in Informers : TakeNotification(i)
         \/ \E i \in Informers : CallClient(i)
         \/ \E i \in Informers : ClientStep(i)
         \/ UNCHANGED vars
  BY ObserveNotifies DEF Next, RunHandler, PanicOnTombstone

LEMMA ClusterTypes ==
  ASSUME TypeOK, ChangeCluster
  PROVE  /\ \E n \in Nodes, node \in State : nodes' = [nodes EXCEPT ![n] = node]
         /\ UNCHANGED <<informerVars, clientVars, reported, inherited>>
<1>1. PICK n \in Nodes : CreateNode(n) \/ RelabelNode(n) \/ ReaddressNode(n) \/ DeleteNode(n)
  BY DEF ChangeCluster
<1>2. nodes[n] \in State /\ AddressesOf[n] \subseteq SUBSET Addrs
  BY ClusterAssumption DEF TypeOK, State
<1>3. \E node \in State : ChangeNode(n, node)
  <2>1. CASE CreateNode(n)
    BY <1>2, <2>1 DEF CreateNode, State, Node
  <2>2. CASE RelabelNode(n)
    BY <1>2, <2>2 DEF RelabelNode, State, Node
  <2>3. CASE ReaddressNode(n)
    BY <1>2, <2>3 DEF ReaddressNode, State, Node
  <2>4. CASE DeleteNode(n)
    BY <2>4 DEF DeleteNode, State
  <2> QED
    BY <1>1, <2>1, <2>2, <2>3, <2>4
<1> QED
  BY <1>3 DEF ChangeNode

LEMMA TypesNext == TypeOK /\ [Next]_vars => TypeOK'
<1> SUFFICES ASSUME TypeOK, [Next]_vars PROVE TypeOK'
  OBVIOUS
<1>1. CASE ChangeCluster
  BY <1>1, ClusterTypes DEF TypeOK, State, informerVars, clientVars
<1>2. CASE Restart
  BY <1>2, RestartTypes
<1>3. ASSUME NEW i \in Informers, StartInformer(i) PROVE TypeOK'
  BY <1>3 DEF StartInformer, TypeOK, clientVars
<1>4. ASSUME NEW i \in Informers, NEW n \in Nodes,
             NEW kind \in {"add", "update", "delete", "tombstone"}, Notify(i, n, kind)
      PROVE  TypeOK'
  BY <1>4, NotifyTypes
<1>5. ASSUME NEW i \in Informers, TakeNotification(i) PROVE TypeOK'
  <2>1. queue[i] \in Seq(Notification) /\ queue[i] # <<>> /\ Len(queue[i]) <= QueueBound
    BY <1>5 DEF TypeOK, TakeNotification
  <2>2. /\ Head(queue[i]) \in Notification /\ Tail(queue[i]) \in Seq(Notification)
        /\ Len(Tail(queue[i])) <= QueueBound
    BY <2>1, ClusterAssumption
  <2>3. Handlings(HandlerCalls(Head(queue[i])), 2)
    BY <2>2, HandlerCallsType DEF Notification, State
  <2> HIDE DEF TypeOK
  <2>4. /\ queue' \in [Informers -> Seq(Notification)]
        /\ \A j \in Informers : Len(queue'[j]) <= QueueBound
    BY <1>5, <2>2 DEF TypeOK, TakeNotification
  <2>5. work' \in [Informers -> Seq(Handling)] /\ \A j \in Informers : Len(work'[j]) <= 2
    BY <1>5, <2>3 DEF TypeOK, TakeNotification, Handlings
  <2> QED
    BY <1>5, <2>4, <2>5 DEF TypeOK, TakeNotification, clientVars
<1>6. ASSUME NEW i \in Informers, CallClient(i) PROVE TypeOK'
  BY <1>6, CallTypes DEF TypeOK, CallClient, Client!Begin
<1>7. ASSUME NEW i \in Informers, ClientStep(i) PROVE TypeOK'
  <2>1. Client!Advance(i)
    BY <1>7 DEF ClientStep, Client!Advance
  <2>2. reported' \subseteq DBs \X Addrs /\ inherited' \subseteq DBs \X Addrs
    BY <1>7, <2>1, ClientTypes DEF ClientStep, TypeOK, Client!Skip
  <2> QED
    BY <1>7, <2>1, <2>2, ClientTypes DEF ClientStep, TypeOK, informerVars
<1>8. CASE UNCHANGED vars
  BY <1>8 DEF vars, informerVars, clientVars, TypeOK
<1>9. ASSUME NEW i \in Informers, Rewatch(i) PROVE TypeOK'
  BY <1>9 DEF Rewatch, TypeOK, clientVars
<1> QED
  BY <1>1, <1>2, <1>3, <1>4, <1>5, <1>6, <1>7, <1>8, <1>9, WatcherSteps

\* An informer's goroutine has at most two handler calls to make, each call of the client
\* is for a configured pool, and what is reported or inherited is a database's entry.
THEOREM TypeCorrect == Spec => []TypeOK
  BY TypesInit, TypesNext, PTL DEF Spec

-----------------------------------------------------------------------------
(* The queue of an informer leads from what is handled to what is seen.       *)

LEMMA LeadsNowhere ==
  ASSUME NEW s \in Stores, NEW t
  PROVE  Leads(s, <<>>, t) <=> s = t
<1>1. ASSUME s = t PROVE Leads(s, <<>>, t)
  <2> DEFINE h == [k \in 0 .. 0 |-> s]
  <2>1. h \in [0 .. Len(<<>>) -> Stores] /\ h[0] = s /\ h[Len(<<>>)] = t
    BY <1>1
  <2>2. \A k \in 1 .. Len(<<>>) : FALSE
    OBVIOUS
  <2> HIDE DEF h
  <2> QED
    BY <2>1, <2>2, Zenon DEF Leads
<1>2. Len(<<>>) = 0
  OBVIOUS
<1> QED
  BY <1>1, <1>2 DEF Leads

\* A notification of the change that the store undergoes.
LEMMA LeadsAppend ==
  ASSUME NEW q \in Seq(Notification), NEW e \in Notification, NEW s, NEW t, NEW u \in Stores,
         Leads(s, q, t), Change(t, e, u)
  PROVE  Leads(s, Append(q, e), u)
<1>1. PICK h \in [0 .. Len(q) -> Stores] :
         /\ h[0] = s /\ h[Len(q)] = t
         /\ \A k \in 1 .. Len(q) : Change(h[k-1], q[k], h[k])
  BY DEF Leads
<1> DEFINE n == Len(q) + 1
           g == [k \in 0 .. n |-> IF k = n THEN u ELSE h[k]]
<1>2. Len(q) \in Nat /\ Len(Append(q, e)) = n /\ n \in Nat
  OBVIOUS
<1>3. g \in [0 .. n -> Stores] /\ g[n] = u
  BY <1>2
<1>4. \A k \in 0 .. Len(q) : g[k] = h[k]
  BY <1>2
<1>5. g[0] = s /\ g[Len(q)] = t
  BY <1>1, <1>2, <1>4
<1> HIDE DEF g
<1>6. ASSUME NEW k \in 1 .. n PROVE Change(g[k-1], Append(q, e)[k], g[k])
  <2>1. CASE k = n
    <3>1. g[k-1] = t /\ Append(q, e)[k] = e /\ g[k] = u
      BY <1>2, <1>3, <1>5, <2>1
    <3> QED
      BY <3>1
  <2>2. CASE k # n
    <3>1. k \in 1 .. Len(q) /\ k - 1 \in 0 .. Len(q) /\ k \in 0 .. Len(q)
      BY <1>2, <2>2
    <3>2. g[k-1] = h[k-1] /\ g[k] = h[k] /\ Append(q, e)[k] = q[k]
      BY <1>4, <3>1
    <3> QED
      BY <1>1, <3>1, <3>2
  <2> QED
    BY <2>1, <2>2
<1> HIDE DEF n
<1> QED
  BY <1>2, <1>3, <1>5, <1>6, Zenon DEF Leads

\* The handlers deal with the first notification.
LEMMA LeadsTake ==
  ASSUME NEW q \in Seq(Notification), q # <<>>, NEW s, NEW t, Leads(s, q, t)
  PROVE  \E u \in Stores : Change(s, Head(q), u) /\ Leads(u, Tail(q), t)
<1>1. PICK h \in [0 .. Len(q) -> Stores] :
         /\ h[0] = s /\ h[Len(q)] = t
         /\ \A k \in 1 .. Len(q) : Change(h[k-1], q[k], h[k])
  BY DEF Leads
<1> DEFINE n == Len(q) - 1
           g == [k \in 0 .. n |-> h[k+1]]
<1>2. Len(q) \in Nat /\ Len(q) >= 1 /\ Len(Tail(q)) = n /\ n \in Nat /\ Head(q) = q[1]
  OBVIOUS
<1>3. \A k \in 0 .. n : k + 1 \in 0 .. Len(q) /\ g[k] = h[k+1]
  BY <1>2
<1>4. g \in [0 .. n -> Stores] /\ g[0] = h[1] /\ g[n] = t
  BY <1>1, <1>2, <1>3
<1> HIDE DEF g
<1>5. ASSUME NEW k \in 1 .. n PROVE Change(g[k-1], Tail(q)[k], g[k])
  <2>1. k \in 0 .. n /\ k - 1 \in 0 .. n /\ k + 1 \in 1 .. Len(q) /\ (k - 1) + 1 = k /\ (k + 1) - 1 = k
    BY <1>2
  <2>2. g[k-1] = h[k] /\ g[k] = h[k+1] /\ Tail(q)[k] = q[k+1]
    BY <1>2, <1>3, <2>1
  <2>3. Change(h[(k+1)-1], q[k+1], h[k+1])
    BY <1>1, <2>1
  <2> QED
    BY <2>1, <2>2, <2>3
<1>6. Leads(g[0], Tail(q), t)
  <2> HIDE DEF n
  <2> QED
    BY <1>2, <1>4, <1>5, Zenon DEF Leads
<1>7. Change(s, Head(q), g[0]) /\ g[0] \in Stores
  <2>1. 1 \in 1 .. Len(q) /\ 1 \in 0 .. Len(q) /\ 1 - 1 = 0
    BY <1>2
  <2>2. Change(h[0], q[1], h[1]) /\ h[1] \in Stores
    BY <1>1, <2>1
  <2> QED
    BY <1>1, <1>2, <1>4, <2>2
<1> QED
  BY <1>6, <1>7

-----------------------------------------------------------------------------
(* What the handlers do with a notification. *)

\* A node in a watched pool has its external addresses, and nobody else has one.
LEMMA WatchedAddresses ==
  ASSUME StableAddresses, NEW s \in Stores, NEW n \in Nodes, isNodeInWatchedNodepool(s[n])
  PROVE  GetExternalIPs(s[n]) = ExternalIPs(n)
<1>1. s[n] # Gone /\ s[n].ips \in AddressesOf[n]
  BY GoneIsUnwatched DEF Stores
<1>2. \A A \in AddressesOf[n] : A \cap Tracked = s[n].ips \cap Tracked
  BY <1>1 DEF StableAddresses
<1> QED
  BY <1>1, <1>2 DEF GetExternalIPs, ExternalIPs

LEMMA WantedByItsNode ==
  ASSUME OwnAddresses, NEW s, NEW n \in Nodes, NEW a \in ExternalIPs(n), NEW d
  PROVE  Wanted(s, d, a) <=> Admits(s[n], d)
<1>1. ASSUME NEW m \in Nodes, a \in ExternalIPs(m) PROVE m = n
  BY <1>1 DEF OwnAddresses, ExternalIPs
<1> QED
  BY <1>1, Zenon DEF Wanted

LEMMA ConcatOfOnes ==
  ASSUME NEW x, NEW y
  PROVE  <<>> \o <<>> = <<>> /\ <<>> \o <<y>> = <<y>> /\ <<x>> \o <<>> = <<x>> /\ <<x>> \o <<y>> = <<x, y>>
<1> DEFINE S == {x, y}
<1>1. /\ <<>> \in Seq(S) /\ <<x>> \in Seq(S) /\ <<y>> \in Seq(S) /\ <<x, y>> \in Seq(S)
      /\ Len(<<x>>) = 1 /\ Len(<<y>>) = 1 /\ Len(<<x, y>>) = 2
      /\ <<x>>[1] = x /\ <<y>>[1] = y /\ <<x, y>>[1] = x /\ <<x, y>>[2] = y
  OBVIOUS
<1>2. <<>> \o <<>> = <<>> /\ <<>> \o <<y>> = <<y>> /\ <<x>> \o <<>> = <<x>>
  BY <1>1, ConcatEmptySeq, Zenon
<1>3. /\ <<x>> \o <<y>> \in Seq(S) /\ Len(<<x>> \o <<y>>) = Len(<<x>>) + Len(<<y>>)
      /\ \A i \in 1 .. Len(<<x>>) + Len(<<y>>) :
            (<<x>> \o <<y>>)[i] = IF i <= Len(<<x>>) THEN <<x>>[i] ELSE <<y>>[i - Len(<<x>>)]
  BY <1>1, ConcatProperties, Zenon
<1> HIDE DEF S
<1>4. Len(<<x>> \o <<y>>) = 2 /\ (<<x>> \o <<y>>)[1] = x /\ (<<x>> \o <<y>>)[2] = y
  BY <1>1, <1>3
<1>5. 1 .. 2 = {1, 2}
  OBVIOUS
<1>6. /\ Len(<<x>> \o <<y>>) = Len(<<x, y>>)
      /\ \A i \in 1 .. Len(<<x>> \o <<y>>) : (<<x>> \o <<y>>)[i] = <<x, y>>[i]
  BY <1>1, <1>4, <1>5, Zenon
<1>7. <<x>> \o <<y>> = <<x, y>>
  BY <1>1, <1>3, <1>6, SeqEqual, Zenon
<1> QED
  BY <1>2, <1>7

LEMMA NoWork ==
  ASSUME NEW s, NEW d, NEW a
  PROVE  LastInWorkIsRight(<<>>, s, d, a) /\ ~InWork(<<>>, d, a)
<1>1. \A k \in 1 .. Len(<<>>) : FALSE
  OBVIOUS
<1> QED
  BY <1>1, Zenon DEF LastInWorkIsRight, InWork

LEMMA OneWork ==
  ASSUME NEW x, NEW s, NEW d, NEW a
  PROVE  /\ LastInWorkIsRight(<<x>>, s, d, a)
              <=> (Treats(x, d, a) => (x.op = "add" <=> Wanted(s, d, a)))
         /\ InWork(<<x>>, d, a) <=> Treats(x, d, a)
<1>1. Len(<<x>>) = 1 /\ <<x>>[1] = x
  OBVIOUS
<1>2. \A k \in 1 .. 1 : k = 1 /\ \A m \in k + 1 .. 1 : FALSE
  OBVIOUS
<1>3. 1 \in 1 .. 1
  OBVIOUS
<1> QED
  BY <1>1, <1>2, <1>3, Zenon DEF LastInWorkIsRight, InWork

LEMMA TwoWorks ==
  ASSUME NEW x, NEW y, NEW s, NEW d, NEW a
  PROVE  /\ LastInWorkIsRight(<<x, y>>, s, d, a)
              <=> /\ Treats(y, d, a) => (y.op = "add" <=> Wanted(s, d, a))
                  /\ Treats(x, d, a) /\ ~Treats(y, d, a) => (x.op = "add" <=> Wanted(s, d, a))
         /\ InWork(<<x, y>>, d, a) <=> Treats(x, d, a) \/ Treats(y, d, a)
<1>1. Len(<<x, y>>) = 2 /\ <<x, y>>[1] = x /\ <<x, y>>[2] = y
  OBVIOUS
<1>2. 1 .. 2 = {1, 2} /\ 1 + 1 .. 2 = {2} /\ 2 + 1 .. 2 = {}
  OBVIOUS
<1> QED
  BY <1>1, <1>2, Zenon DEF LastInWorkIsRight, InWork

\* The handler calls that a notification makes leave each entry as the nodes it leads
\* to want it, and there is one for each entry that those want otherwise than before.
LEMMA HandlerCallsAreRight ==
  ASSUME StableAddresses, OwnAddresses, NEW s \in Stores, NEW t \in Stores,
         NEW e, Change(s, e, t), NEW d \in DBs, NEW a \in Addrs
  PROVE  /\ LastInWorkIsRight(HandlerCalls(e), t, d, a)
         /\ InWork(HandlerCalls(e), d, a) \/ (Wanted(s, d, a) <=> Wanted(t, d, a))
<1> DEFINE w == HandlerCalls(e)
<1>1. PICK n \in Nodes : e.old = s[n] /\ e.new = t[n] /\ \A m \in Nodes \ {n} : t[m] = s[m]
  BY DEF Change
<1> DEFINE E == ExternalIPs(n)
           was == isNodeInWatchedNodepool(s[n])
           is  == isNodeInWatchedNodepool(t[n])
           r == [op |-> "remove", pool |-> s[n].pool, ips |-> E]
           x == [op |-> "add", pool |-> t[n].pool, ips |-> E]
<1>2. was => Handle("remove", e.old) = IF E = {} THEN <<>> ELSE <<r>>
  BY <1>1, WatchedAddresses, Zenon DEF Handle
<1>3. is => Handle("add", e.new) = IF E = {} THEN <<>> ELSE <<x>>
  BY <1>1, WatchedAddresses, Zenon DEF Handle
<1>4. Treats(r, d, a) <=> a \in E /\ d \in Range(DatabasesOf[s[n].pool])
  BY DEF Treats
<1>5. Treats(x, d, a) <=> a \in E /\ d \in Range(DatabasesOf[t[n].pool])
  BY DEF Treats
<1>6. a \in E => /\ Wanted(s, d, a) <=> was /\ d \in Range(DatabasesOf[s[n].pool])
                 /\ Wanted(t, d, a) <=> is /\ d \in Range(DatabasesOf[t[n].pool])
  BY WantedByItsNode, Zenon DEF Admits
<1>7. a \notin E => (Wanted(s, d, a) <=> Wanted(t, d, a))
  BY <1>1, Zenon DEF Wanted
<1>8. r.op # "add" /\ x.op = "add"
  OBVIOUS
<1>9. \/ w = <<>> /\ (a \in E => (Wanted(s, d, a) <=> Wanted(t, d, a)))
      \/ w = <<r>> /\ was /\ ~is
      \/ w = <<x>> /\ is /\ ~was
      \/ w = <<r, x>> /\ was /\ is
  <2>1. CASE was /\ is /\ e.old.pool = e.new.pool
    <3>1. w = <<>>
      BY <1>1, <2>1, Zenon DEF HandlerCalls
    <3> QED
      BY <1>1, <1>6, <2>1, <3>1, Zenon
  <2>2. CASE was /\ is /\ e.old.pool # e.new.pool
    <3>1. w = Handle("remove", e.old) \o Handle("add", e.new)
      BY <1>1, <2>2, Zenon DEF HandlerCalls
    <3>2. <<>> \o <<>> = <<>> /\ <<r>> \o <<x>> = <<r, x>>
      BY ConcatOfOnes, Zenon
    <3> QED
      BY <1>2, <1>3, <2>2, <3>1, <3>2, Zenon
  <2>3. CASE was /\ ~is
    <3>1. w = Handle("remove", e.old)
      BY <1>1, <2>3, Zenon DEF HandlerCalls
    <3> QED
      BY <1>2, <2>3, <3>1, Zenon
  <2>4. CASE ~was /\ is
    <3>1. w = Handle("add", e.new)
      BY <1>1, <2>4, Zenon DEF HandlerCalls
    <3> QED
      BY <1>3, <2>4, <3>1, Zenon
  <2>5. CASE ~was /\ ~is
    <3>1. w = <<>>
      BY <1>1, <2>5, Zenon DEF HandlerCalls
    <3> QED
      BY <1>6, <2>5, <3>1, Zenon
  <2> QED
    BY <2>1, <2>2, <2>3, <2>4, <2>5, Zenon
<1> HIDE DEF w, E, r, x
<1>10. CASE w = <<>> /\ (a \in E => (Wanted(s, d, a) <=> Wanted(t, d, a)))
  BY <1>7, <1>10, NoWork, Zenon DEF w
<1>11. CASE w = <<r>> /\ was /\ ~is
  <2>1. /\ LastInWorkIsRight(w, t, d, a) <=> (Treats(r, d, a) => (r.op = "add" <=> Wanted(t, d, a)))
        /\ InWork(w, d, a) <=> Treats(r, d, a)
    BY <1>11, OneWork, Zenon
  <2>2. LastInWorkIsRight(w, t, d, a)
    BY <1>4, <1>6, <1>8, <1>11, <2>1, Zenon
  <2>3. InWork(w, d, a) \/ (Wanted(s, d, a) <=> Wanted(t, d, a))
    BY <1>4, <1>6, <1>7, <1>11, <2>1, Zenon
  <2> QED
    BY <2>2, <2>3 DEF w
<1>12. CASE w = <<x>> /\ is /\ ~was
  <2>1. /\ LastInWorkIsRight(w, t, d, a) <=> (Treats(x, d, a) => (x.op = "add" <=> Wanted(t, d, a)))
        /\ InWork(w, d, a) <=> Treats(x, d, a)
    BY <1>12, OneWork, Zenon
  <2>2. LastInWorkIsRight(w, t, d, a)
    BY <1>5, <1>6, <1>8, <1>12, <2>1, Zenon
  <2>3. InWork(w, d, a) \/ (Wanted(s, d, a) <=> Wanted(t, d, a))
    BY <1>5, <1>6, <1>7, <1>12, <2>1, Zenon
  <2> QED
    BY <2>2, <2>3 DEF w
<1>13. CASE w = <<r, x>> /\ was /\ is
  <2>1. /\ LastInWorkIsRight(w, t, d, a)
             <=> /\ Treats(x, d, a) => (x.op = "add" <=> Wanted(t, d, a))
                 /\ Treats(r, d, a) /\ ~Treats(x, d, a) => (r.op = "add" <=> Wanted(t, d, a))
        /\ InWork(w, d, a) <=> Treats(r, d, a) \/ Treats(x, d, a)
    BY <1>13, TwoWorks, Zenon
  <2>2. LastInWorkIsRight(w, t, d, a)
    BY <1>4, <1>5, <1>6, <1>8, <1>13, <2>1, Zenon
  <2>3. InWork(w, d, a) \/ (Wanted(s, d, a) <=> Wanted(t, d, a))
    BY <1>4, <1>5, <1>6, <1>7, <1>13, <2>1, Zenon
  <2> QED
    BY <2>2, <2>3 DEF w
<1> QED
  BY <1>9, <1>10, <1>11, <1>12, <1>13, Zenon

-----------------------------------------------------------------------------
(* What the handler calls and the client's calls do. *)

\* What is left of handler call h once it has called the client for address ip.
Rest(h, ip) == IF h.ips = {ip} THEN <<>> ELSE <<[h EXCEPT !.ips = @ \ {ip}]>>

LEMMA WorkHasOneOrTwo ==
  ASSUME NEW w \in Seq(Handling), w # <<>>, Len(w) <= 2
  PROVE  /\ Head(w) \in Handling
         /\ \/ w = <<Head(w)>> /\ Tail(w) = <<>>
            \/ \E y \in Handling : w = <<Head(w), y>> /\ Tail(w) = <<y>>
<1>1. Len(w) \in Nat /\ Len(w) # 0 /\ Head(w) = w[1] /\ w \in [1 .. Len(w) -> Handling]
  BY EmptySeq, LenProperties
<1>2. Head(w) \in Handling /\ Tail(w) \in Seq(Handling) /\ Len(Tail(w)) = Len(w) - 1
      /\ \A i \in 1 .. Len(Tail(w)) : Tail(w)[i] = w[i+1]
  BY HeadTailProperties
<1>3. CASE Len(w) = 1
  <2>1. <<w[1]>> \in Seq(Handling) /\ Len(<<w[1]>>) = 1 /\ \A i \in 1 .. 1 : <<w[1]>>[i] = w[i]
    BY <1>1, <1>2
  <2>2. w = <<w[1]>>
    BY <1>3, <2>1, SeqEqual, Zenon
  <2>3. Len(Tail(w)) = 0
    BY <1>2, <1>3
  <2>4. Tail(w) = <<>>
    BY <1>2, <2>3, EmptySeq
  <2> QED
    BY <1>1, <1>2, <2>2, <2>4
<1>4. CASE Len(w) = 2
  <2> DEFINE y == w[2]
  <2>1. y \in Handling /\ w[1] \in Handling
    BY <1>1, <1>4
  <2>2. /\ <<w[1], y>> \in Seq(Handling) /\ Len(<<w[1], y>>) = 2
        /\ \A i \in 1 .. 2 : <<w[1], y>>[i] = w[i]
    BY <2>1
  <2> HIDE DEF y
  <2>3. w = <<w[1], y>>
    BY <1>4, <2>2, SeqEqual, Zenon
  <2>4. Len(Tail(w)) = 1
    BY <1>2, <1>4
  <2>5. 1 .. 1 = {1} /\ 1 + 1 = 2
    OBVIOUS
  <2>6. \A i \in 1 .. 1 : Tail(w)[i] = y
    BY <1>2, <2>4, <2>5, Zenon DEF y
  <2>7. <<y>> \in Seq(Handling) /\ Len(<<y>>) = 1 /\ \A i \in 1 .. 1 : <<y>>[i] = y
    BY <2>1
  <2>8. Tail(w) = <<y>>
    BY <1>2, <2>4, <2>6, <2>7, SeqEqual, Zenon
  <2> QED
    BY <1>1, <1>2, <2>1, <2>3, <2>8
<1> QED
  BY <1>1, <1>3, <1>4

\* A call of the client takes over one address of the first handler call: what is under
\* way, and which treatment of an entry is the last, stays as it was.
LEMMA CallIsRight ==
  ASSUME NEW w \in Seq(Handling), w # <<>>, Len(w) <= 2, NEW ip \in Head(w).ips,
         NEW j, j.call \notin Call, NEW s, NEW failed, NEW d \in DBs, NEW a \in Addrs,
         LastInWorkIsRight(w, s, d, a)
  PROVE  LET k == [op |-> Head(w).op, pool |-> Head(w).pool, ip |-> ip]
             c == [call |-> k, pos |-> 1, failed |-> failed]
             v == Rest(Head(w), ip) \o Tail(w)
         IN  /\ LastInWorkIsRight(v, s, d, a)
             /\ InJob(c, d, a) /\ ~InWork(v, d, a) => (k.op = "add" <=> Wanted(s, d, a))
             /\ InJob(c, d, a) \/ InWork(v, d, a) <=> InJob(j, d, a) \/ InWork(w, d, a)
<1> DEFINE h == Head(w)
           k == [op |-> h.op, pool |-> h.pool, ip |-> ip]
           c == [call |-> k, pos |-> 1, failed |-> failed]
           rest == Rest(h, ip)
           v == rest \o Tail(w)
<1> SUFFICES /\ LastInWorkIsRight(v, s, d, a)
             /\ InJob(c, d, a) /\ ~InWork(v, d, a) => (k.op = "add" <=> Wanted(s, d, a))
             /\ InJob(c, d, a) \/ InWork(v, d, a) <=> InJob(j, d, a) \/ InWork(w, d, a)
  BY Zenon
<1>1. /\ h \in Handling
      /\ \/ w = <<h>> /\ Tail(w) = <<>>
         \/ \E y \in Handling : w = <<h, y>> /\ Tail(w) = <<y>>
  BY WorkHasOneOrTwo
<1>2. k \in Call /\ DatabasesOf[h.pool] \in Seq(DBs)
  BY <1>1, ClusterAssumption DEF Handling, Call
<1>3. InJob(c, d, a) <=> a = ip /\ Treats(h, d, a)
  <2>1. InJob(c, d, a) <=> a = ip /\ \E m \in 1 .. Len(DatabasesOf[h.pool]) : DatabasesOf[h.pool][m] = d
    BY <1>2 DEF InJob
  <2>2. Range(DatabasesOf[h.pool]) = {DatabasesOf[h.pool][m] : m \in 1 .. Len(DatabasesOf[h.pool])}
    BY <1>2 DEF Range
  <2> QED
    BY <2>1, <2>2 DEF Treats
<1>4. ~InJob(j, d, a)
  BY DEF InJob
<1> DEFINE g == [h EXCEPT !.ips = @ \ {ip}]
<1>5. /\ rest = <<>> \/ rest = <<g>>
      /\ rest = <<>> => (Treats(h, d, a) => a = ip)
      /\ Treats(g, d, a) <=> Treats(h, d, a) /\ a # ip
      /\ g.op = h.op /\ k.op = h.op
  BY <1>1 DEF Rest, Treats, Handling
<1> HIDE DEF c, g, k, rest, v, h
<1>7. CASE w = <<h>> /\ Tail(w) = <<>>
  <2>1. (v = <<>> /\ rest = <<>>) \/ v = <<g>>
    BY <1>5, <1>7, ConcatOfOnes, Zenon DEF v
  <2>2. /\ Treats(h, d, a) => (h.op = "add" <=> Wanted(s, d, a))
        /\ InWork(w, d, a) <=> Treats(h, d, a)
    BY <1>7, OneWork, Zenon
  <2>3. CASE v = <<>> /\ rest = <<>>
    <3>1. LastInWorkIsRight(v, s, d, a) /\ ~InWork(v, d, a)
      BY <2>3, NoWork, Zenon
    <3>2. InJob(c, d, a) => (k.op = "add" <=> Wanted(s, d, a))
      BY <1>3, <1>5, <2>2, Zenon
    <3>3. InJob(c, d, a) <=> InWork(w, d, a)
      BY <1>3, <1>5, <2>2, <2>3, Zenon
    <3> QED
      BY <1>4, <3>1, <3>2, <3>3, Zenon
  <2>4. CASE v = <<g>>
    <3>1. /\ LastInWorkIsRight(v, s, d, a)
               <=> (Treats(g, d, a) => (g.op = "add" <=> Wanted(s, d, a)))
          /\ InWork(v, d, a) <=> Treats(g, d, a)
      BY <2>4, OneWork, Zenon
    <3>2. LastInWorkIsRight(v, s, d, a)
      BY <1>5, <2>2, <3>1, Zenon
    <3>3. InJob(c, d, a) => (k.op = "add" <=> Wanted(s, d, a))
      BY <1>3, <1>5, <2>2, Zenon
    <3>4. InJob(c, d, a) \/ InWork(v, d, a) <=> InWork(w, d, a)
      BY <1>3, <1>5, <2>2, <3>1, Zenon
    <3> QED
      BY <1>4, <3>2, <3>3, <3>4, Zenon
  <2> QED
    BY <2>1, <2>3, <2>4
<1>8. ASSUME NEW y \in Handling, w = <<h, y>>, Tail(w) = <<y>>
      PROVE  /\ LastInWorkIsRight(v, s, d, a)
             /\ InJob(c, d, a) /\ ~InWork(v, d, a) => (k.op = "add" <=> Wanted(s, d, a))
             /\ InJob(c, d, a) \/ InWork(v, d, a) <=> InJob(j, d, a) \/ InWork(w, d, a)
  <2>1. (v = <<y>> /\ rest = <<>>) \/ v = <<g, y>>
    BY <1>5, <1>8, ConcatOfOnes, Zenon DEF v
  <2>2. /\ Treats(y, d, a) => (y.op = "add" <=> Wanted(s, d, a))
        /\ Treats(h, d, a) /\ ~Treats(y, d, a) => (h.op = "add" <=> Wanted(s, d, a))
        /\ InWork(w, d, a) <=> Treats(h, d, a) \/ Treats(y, d, a)
    BY <1>8, TwoWorks, Zenon
  <2>3. CASE v = <<y>> /\ rest = <<>>
    <3>1. /\ LastInWorkIsRight(v, s, d, a)
               <=> (Treats(y, d, a) => (y.op = "add" <=> Wanted(s, d, a)))
          /\ InWork(v, d, a) <=> Treats(y, d, a)
      BY <2>3, OneWork, Zenon
    <3> QED
      BY <1>3, <1>4, <1>5, <2>2, <2>3, <3>1, Zenon
  <2>4. CASE v = <<g, y>>
    <3>1. /\ LastInWorkIsRight(v, s, d, a)
               <=> /\ Treats(y, d, a) => (y.op = "add" <=> Wanted(s, d, a))
                   /\ Treats(g, d, a) /\ ~Treats(y, d, a) => (g.op = "add" <=> Wanted(s, d, a))
          /\ InWork(v, d, a) <=> Treats(g, d, a) \/ Treats(y, d, a)
      BY <2>4, TwoWorks, Zenon
    <3> QED
      BY <1>3, <1>4, <1>5, <2>2, <3>1, Zenon
  <2> QED
    BY <2>1, <2>3, <2>4
<1> QED
  BY <1>1, <1>7, <1>8, Zenon

\* A call of the client goes on to the next database of its pool.
LEMMA JobMoves ==
  ASSUME NEW j \in Job, j.call \in Call, j.pos <= Len(DatabasesOf[j.call.pool]),
         NEW c, c.call = j.call, c.pos = j.pos + 1, NEW d, NEW a
  PROVE  InJob(j, d, a) <=> \/ InJob(c, d, a)
                            \/ d = DatabasesOf[j.call.pool][j.pos] /\ a = j.call.ip
<1> DEFINE q == DatabasesOf[j.call.pool]
<1>1. q \in Seq(DBs) /\ Len(q) \in Nat
  BY ClusterAssumption DEF Call
<1>2. j.pos \in Nat \ {0} /\ j.pos <= Len(q)
  BY DEF Job
<1> HIDE DEF q
<1>3. j.pos .. Len(q) = {j.pos} \cup (j.pos + 1 .. Len(q))
  BY <1>1, <1>2
<1>4. (\E m \in j.pos .. Len(q) : q[m] = d)
        <=> q[j.pos] = d \/ \E m \in j.pos + 1 .. Len(q) : q[m] = d
  BY <1>3, Zenon
<1> QED
  BY <1>4, Zenon DEF InJob, q

LEMMA JobEnds ==
  ASSUME NEW j \in Job, ~(j.call \in Call /\ j.pos <= Len(DatabasesOf[j.call.pool])), NEW d, NEW a
  PROVE  ~InJob(j, d, a)
<1>1. ASSUME j.call \in Call, NEW m \in j.pos .. Len(DatabasesOf[j.call.pool]) PROVE FALSE
  <2>1. j.pos \in Nat /\ Len(DatabasesOf[j.call.pool]) \in Nat
    BY <1>1, ClusterAssumption DEF Call, Job
  <2> QED
    BY <1>1, <2>1
<1> QED
  BY <1>1, Zenon DEF InJob

-----------------------------------------------------------------------------
(* The invariant. *)

LEMMA EmptyStore ==
  /\ Empty \in Stores
  /\ \A d, a : ~Wanted(Empty, d, a)
<1>1. Empty \in Stores
  BY DEF Empty, Stores, State
<1>2. \A n \in Nodes : Empty[n] = Gone
  BY DEF Empty
<1> QED
  BY <1>1, <1>2, GoneIsUnwatched, Zenon DEF Wanted, Admits

LEMMA RestInit == Init => \A i \in Informers : AtRest(i)
  BY NoJobIsIdle DEF Init, AtRest, Empty, Client!Init, Client!Busy

\* An informer at rest has handled nothing.
LEMMA RestHandled ==
  ASSUME NEW i \in Informers, AtRest(i), NEW s \in Stores
  PROVE  /\ Leads(s, queue[i], seen[i]) <=> s = Empty
         /\ \A d, a : ~Active(i, d, a)
         /\ LastIsRight(work[i], job[i], s)
<1>1. queue[i] = <<>> /\ work[i] = <<>> /\ seen[i] = Empty /\ job[i].call \notin Call
  BY DEF AtRest, Client!Busy
<1>2. \A d, a : ~InJob(job[i], d, a) /\ ~InWork(work[i], d, a)
  BY <1>1, NoWork DEF InJob
<1>3. LastIsRight(work[i], job[i], s)
  BY <1>1, <1>2, NoWork, Zenon DEF LastIsRight
<1> QED
  BY <1>1, <1>2, <1>3, LeadsNowhere DEF Active

LEMMA WatcherInit == Init => WatcherInv
<1> SUFFICES ASSUME Init PROVE WatcherInv
  OBVIOUS
<1> DEFINE handled == [i \in Informers |-> Empty]
<1>1. TypeOK /\ nodes \in Stores /\ \A i \in Informers : seen[i] \in Stores
  BY TypesInit, EmptyStore DEF Init, Empty
<1>2. handled \in [Informers -> Stores] /\ \A i \in Informers : handled[i] = Empty
  BY EmptyStore
<1> HIDE DEF handled
<1>3. \A i \in Informers : /\ Leads(handled[i], queue[i], seen[i])
                           /\ LastIsRight(work[i], job[i], handled[i])
  BY <1>2, RestInit, RestHandled, EmptyStore
<1>4. \A d \in DBs, a \in Addrs : Explained(d, a, handled)
  <2>1. running = {} /\ inherited = Pairs(allow)
    BY DEF Init
  <2> QED
    BY <2>1 DEF Explained, Pairs
<1> QED
  BY <1>1, <1>2, <1>3, <1>4, RestInit DEF WatcherInv, HandledInv

\* The nodes change: their addresses stay within what they can have.
LEMMA ClusterStep ==
  ASSUME WatcherInv, ChangeCluster
  PROVE  WatcherInv'
<1>1. PICK n \in Nodes : CreateNode(n) \/ RelabelNode(n) \/ ReaddressNode(n) \/ DeleteNode(n)
  BY DEF ChangeCluster
<1>2. nodes[n] = Gone \/ nodes[n].ips \in AddressesOf[n]
  BY DEF WatcherInv, Stores
<1>3. TypeOK /\ TypeOK'
  BY TypesNext DEF WatcherInv, Next
<1>4. \E node : nodes' = [nodes EXCEPT ![n] = node] /\ (node = Gone \/ node.ips \in AddressesOf[n])
  <2>1. CASE CreateNode(n)
    BY <2>1 DEF CreateNode, ChangeNode
  <2>2. CASE RelabelNode(n)
    <3>1. nodes[n] # Gone /\ nodes[n] \in Node
      BY <1>3, <2>2 DEF RelabelNode, TypeOK
    <3> QED
      BY <1>2, <2>2, <3>1 DEF RelabelNode, ChangeNode, Node
  <2>3. CASE ReaddressNode(n)
    <3>1. PICK ips \in AddressesOf[n] : ChangeNode(n, [nodes[n] EXCEPT !.ips = ips])
      BY <2>3 DEF ReaddressNode
    <3>2. nodes[n] \in Node
      BY <1>3, <2>3 DEF ReaddressNode, TypeOK
    <3>3. [nodes[n] EXCEPT !.ips = ips].ips = ips
      BY <3>2 DEF Node
    <3> QED
      BY <3>1, <3>3 DEF ChangeNode
  <2>4. CASE DeleteNode(n)
    BY <2>4 DEF DeleteNode, ChangeNode
  <2> QED
    BY <1>1, <2>1, <2>2, <2>3, <2>4
<1>5. nodes' \in Stores
  BY <1>3, <1>4 DEF WatcherInv, Stores, TypeOK, State
<1>6. UNCHANGED <<running, seen, queue, work, allow, job, reported, inherited>>
  BY ClusterTypes, <1>3 DEF informerVars, clientVars
<1>7. PICK handled \in [Informers -> Stores] : HandledInv(handled)
  BY DEF WatcherInv
<1>8. HandledInv(handled)'
  BY <1>6, <1>7 DEF HandledInv, Explained, Active
<1>9. \A i \in Informers \ running' : AtRest(i)'
  BY <1>6 DEF WatcherInv, AtRest, Client!Busy
<1> QED
  BY <1>3, <1>5, <1>6, <1>8, <1>9 DEF WatcherInv

\* The process starts anew: what is on the lists is inherited.
LEMMA RestartStep ==
  ASSUME WatcherInv, Restart
  PROVE  WatcherInv'
<1>1. TypeOK'
  BY RestartTypes DEF WatcherInv
<1>2. /\ running' = {} /\ nodes' = nodes /\ allow' = allow /\ inherited' = Pairs(allow)
      /\ \A i \in Informers : /\ seen'[i] = Empty /\ queue'[i] = <<>> /\ work'[i] = <<>>
                              /\ job'[i] = Client!NoJob
  BY DEF Restart, Empty, Client!Abandon
<1>3. \A i \in Informers : AtRest(i)'
  BY <1>2, NoJobIsIdle DEF AtRest, Client!Busy
<1> DEFINE handled == [i \in Informers |-> Empty]
<1>4. handled \in [Informers -> Stores] /\ \A i \in Informers : handled[i] = Empty
  BY EmptyStore
<1> HIDE DEF handled
<1>5. ASSUME NEW i \in Informers
      PROVE  Leads(handled[i], queue'[i], seen'[i]) /\ LastIsRight(work'[i], job'[i], handled[i])
  <2>1. Leads(Empty, <<>>, Empty)
    BY EmptyStore, LeadsNowhere
  <2>2. \A d, a : ~InJob(Client!NoJob, d, a) /\ ~InWork(<<>>, d, a)
    BY NoJobIsIdle, NoWork DEF InJob
  <2>3. LastIsRight(<<>>, Client!NoJob, Empty)
    BY <2>2, NoWork, Zenon DEF LastIsRight
  <2> QED
    BY <1>2, <1>4, <2>1, <2>3
<1>6. \A d \in DBs, a \in Addrs : Explained(d, a, handled)'
  BY <1>2 DEF Explained, Pairs
<1>7. HandledInv(handled)'
  BY <1>5, <1>6 DEF HandledInv
<1>8. nodes' \in Stores /\ \A i \in Informers : seen'[i] \in Stores
  BY <1>2, EmptyStore DEF WatcherInv
<1> QED
  BY <1>1, <1>3, <1>4, <1>7, <1>8 DEF WatcherInv

LEMMA StartStep ==
  ASSUME WatcherInv, NEW i \in Informers, StartInformer(i)
  PROVE  WatcherInv'
<1>1. TypeOK'
  BY TypesNext DEF WatcherInv, Next
<1>2. running' = running \cup {i} /\ UNCHANGED <<nodes, seen, queue, work, allow, job, reported, inherited>>
  BY DEF StartInformer, clientVars
<1>3. PICK handled \in [Informers -> Stores] : HandledInv(handled)
  BY DEF WatcherInv
<1>4. handled[i] = Empty
  <2>1. AtRest(i) /\ Leads(handled[i], queue[i], seen[i]) /\ handled[i] \in Stores
    BY <1>3 DEF WatcherInv, HandledInv, StartInformer
  <2> QED
    BY <2>1, RestHandled
<1>5. ASSUME NEW d \in DBs, NEW a \in Addrs PROVE Explained(d, a, handled)'
  <2>1. Explained(d, a, handled) /\ ~Wanted(handled[i], d, a)
    BY <1>3, <1>4, EmptyStore DEF HandledInv
  <2> QED
    BY <1>2, <2>1 DEF Explained, Active
<1>6. HandledInv(handled)'
  BY <1>2, <1>3, <1>5 DEF HandledInv
<1>7. \A j \in Informers \ running' : AtRest(j)'
  BY <1>2 DEF WatcherInv, AtRest, Client!Busy
<1> QED
  BY <1>1, <1>2, <1>6, <1>7 DEF WatcherInv

\* A step that changes none of the variables that the invariant speaks of.
LEMMA SameStep ==
  ASSUME WatcherInv, TypeOK',
         UNCHANGED <<nodes, running, seen, queue, work, allow, job, reported, inherited>>
  PROVE  WatcherInv'
<1>1. PICK handled \in [Informers -> Stores] : HandledInv(handled)
  BY DEF WatcherInv
<1>2. HandledInv(handled)'
  BY <1>1 DEF HandledInv, Explained, Active
<1>3. \A i \in Informers \ running' : AtRest(i)'
  BY DEF WatcherInv, AtRest, Client!Busy
<1> QED
  BY <1>2, <1>3 DEF WatcherInv

\* A gap between two watches changes nothing but what can still be told.
LEMMA RewatchStep ==
  ASSUME WatcherInv, NEW i \in Informers, Rewatch(i)
  PROVE  WatcherInv'
<1>1. TypeOK'
  BY TypesNext DEF WatcherInv, Next
<1> QED
  BY <1>1, SameStep DEF Rewatch, clientVars

\* An informer sees a node: its queue leads one change further.
LEMMA NotifyStep ==
  ASSUME WatcherInv, NEW i \in Informers, NEW n \in Nodes,
         NEW kind \in {"add", "update", "delete", "tombstone"}, Notify(i, n, kind)
  PROVE  WatcherInv'
<1> DEFINE e == [kind |-> kind, old |-> seen[i][n], new |-> nodes[n]]
           u == [seen[i] EXCEPT ![n] = nodes[n]]
<1>1. /\ queue' = [queue EXCEPT ![i] = Append(@, e)] /\ seen' = [seen EXCEPT ![i] = u]
      /\ i \in running /\ UNCHANGED <<nodes, running, work, allow, job, reported, inherited>>
  BY DEF Notify, clientVars
<1>2. TypeOK /\ TypeOK'
  BY NotifyTypes DEF WatcherInv
<1>3. seen[i] \in Stores /\ nodes \in Stores
  BY DEF WatcherInv
<1>4. u \in Stores /\ Change(seen[i], e, u) /\ e \in Notification
  BY <1>3 DEF Stores, Change, Notification, State
<1> HIDE DEF e, u
<1>5. PICK handled \in [Informers -> Stores] : HandledInv(handled)
  BY DEF WatcherInv
<1>6. ASSUME NEW j \in Informers PROVE Leads(handled[j], queue'[j], seen'[j])
  <2>1. CASE j = i
    <3>1. queue'[i] = Append(queue[i], e) /\ seen'[i] = u /\ queue[i] \in Seq(Notification)
      BY <1>1, <1>2 DEF TypeOK
    <3> QED
      BY <1>4, <1>5, <2>1, <3>1, LeadsAppend DEF HandledInv
  <2>2. CASE j # i
    <3>1. queue'[j] = queue[j] /\ seen'[j] = seen[j]
      BY <1>1, <1>2, <2>2 DEF TypeOK
    <3> QED
      BY <1>5, <3>1 DEF HandledInv
  <2> QED
    BY <2>1, <2>2
<1>7. HandledInv(handled)'
  BY <1>1, <1>5, <1>6 DEF HandledInv, Explained, Active
<1>8. \A j \in Informers : seen'[j] \in Stores
  BY <1>1, <1>2, <1>4 DEF WatcherInv, TypeOK
<1>9. \A j \in Informers \ running' : AtRest(j)'
  <2> SUFFICES ASSUME NEW j \in Informers \ running' PROVE AtRest(j)'
    OBVIOUS
  <2>1. AtRest(j) /\ queue'[j] = queue[j] /\ seen'[j] = seen[j]
    BY <1>1, <1>2 DEF WatcherInv, TypeOK
  <2> QED
    BY <1>1, <2>1 DEF AtRest, Client!Busy
<1> QED
  BY <1>1, <1>2, <1>3, <1>7, <1>8, <1>9 DEF WatcherInv

\* The handlers deal with a notification: either they touch an entry, or the change leaves
\* it wanted or not as before.
LEMMA TakeStep ==
  ASSUME StableAddresses, OwnAddresses, WatcherInv, NEW i \in Informers, TakeNotification(i)
  PROVE  WatcherInv'
<1> DEFINE e == Head(queue[i])
<1>1. /\ work[i] = <<>> /\ ~Client!Busy(i) /\ queue[i] # <<>>
      /\ work' = [work EXCEPT ![i] = HandlerCalls(e)] /\ queue' = [queue EXCEPT ![i] = Tail(@)]
      /\ UNCHANGED <<nodes, running, seen, allow, job, reported, inherited>>
  BY DEF TakeNotification, HandlerFree, clientVars
<1>2. TypeOK /\ TypeOK'
  BY TypesNext DEF WatcherInv, Next, RunHandler
<1>3. PICK handled \in [Informers -> Stores] : HandledInv(handled)
  BY DEF WatcherInv
<1>4. i \in running
  BY <1>1 DEF WatcherInv, AtRest
<1>5. PICK u \in Stores : Change(handled[i], e, u) /\ Leads(u, Tail(queue[i]), seen[i])
  <2>1. queue[i] \in Seq(Notification) /\ Leads(handled[i], queue[i], seen[i])
    BY <1>2, <1>3 DEF TypeOK, HandledInv
  <2> QED
    BY <1>1, <2>1, LeadsTake
<1> DEFINE now == [handled EXCEPT ![i] = u]
<1>6. /\ now \in [Informers -> Stores] /\ now[i] = u /\ work'[i] = HandlerCalls(e)
      /\ \A j \in Informers \ {i} : /\ now[j] = handled[j] /\ work'[j] = work[j]
                                    /\ queue'[j] = queue[j]
      /\ queue'[i] = Tail(queue[i])
  BY <1>1, <1>2 DEF TypeOK
<1> HIDE DEF e, now
<1>7. \A d, a : ~InJob(job[i], d, a)
  BY <1>1 DEF InJob, Client!Busy
<1>8. ASSUME NEW d \in DBs, NEW a \in Addrs
      PROVE  /\ LastInWorkIsRight(work'[i], u, d, a)
             /\ InWork(work'[i], d, a) \/ (Wanted(handled[i], d, a) <=> Wanted(u, d, a))
  BY <1>3, <1>5, <1>6, HandlerCallsAreRight
<1>9. ASSUME NEW j \in Informers
      PROVE  Leads(now[j], queue'[j], seen'[j]) /\ LastIsRight(work'[j], job'[j], now[j])
  <2>1. CASE j = i
    <3>1. LastIsRight(work'[i], job[i], u)
      BY <1>7, <1>8, Zenon DEF LastIsRight
    <3> QED
      BY <1>1, <1>5, <1>6, <2>1, <3>1
  <2>2. CASE j # i
    BY <1>1, <1>3, <1>6, <2>2 DEF HandledInv
  <2> QED
    BY <2>1, <2>2
<1>10. ASSUME NEW d \in DBs, NEW a \in Addrs PROVE Explained(d, a, now)'
  <2>1. CASE InWork(work'[i], d, a)
    BY <1>1, <1>4, <2>1 DEF Explained, Active
  <2>2. CASE ~InWork(work'[i], d, a)
    <3>1. \A j \in running : Wanted(now[j], d, a) <=> Wanted(handled[j], d, a)
      BY <1>2, <1>6, <1>8, <2>2 DEF TypeOK
    <3>2. \A j \in running : Active(j, d, a) => Active(j, d, a)'
      <4> SUFFICES ASSUME NEW j \in running, Active(j, d, a) PROVE Active(j, d, a)'
        OBVIOUS
      <4>1. j # i
        BY <1>1, <1>7, NoWork DEF Active
      <4>2. j \in Informers /\ work'[j] = work[j] /\ job'[j] = job[j]
        BY <1>1, <1>2, <1>6, <4>1 DEF TypeOK
      <4> QED
        BY <4>2 DEF Active
    <3>3. Explained(d, a, handled)
      BY <1>3 DEF HandledInv
    <3> QED
      BY <1>1, <3>1, <3>2, <3>3 DEF Explained
  <2> QED
    BY <2>1, <2>2
<1>11. HandledInv(now)'
  BY <1>9, <1>10 DEF HandledInv
<1>12. \A j \in Informers \ running' : AtRest(j)'
  BY <1>1, <1>4, <1>6 DEF WatcherInv, AtRest, Client!Busy
<1> QED
  BY <1>1, <1>2, <1>6, <1>11, <1>12 DEF WatcherInv

\* The handler calls the client: what is under way is the same as before.
LEMMA CallStep ==
  ASSUME WatcherInv, NEW i \in Informers, CallClient(i)
  PROVE  WatcherInv'
<1> DEFINE h == Head(work[i])
           k(ip) == [op |-> h.op, pool |-> h.pool, ip |-> ip]
           c(ip) == [call |-> k(ip), pos |-> 1, failed |-> DatabasesOf[h.pool] = <<>>]
<1>1. TypeOK /\ TypeOK'
  BY TypesNext DEF WatcherInv, Next, RunHandler
<1>2. PICK ip \in h.ips : /\ ~Client!Busy(i) /\ work[i] # <<>>
                          /\ work' = [work EXCEPT ![i] = Rest(h, ip) \o Tail(@)]
                          /\ job' = [job EXCEPT ![i] = c(ip)]
                          /\ UNCHANGED <<nodes, running, seen, queue, allow, reported, inherited>>
  BY DEF CallClient, Rest, Client!Begin
<1>3. /\ work'[i] = Rest(h, ip) \o Tail(work[i]) /\ job'[i] = c(ip)
      /\ \A j \in Informers \ {i} : work'[j] = work[j] /\ job'[j] = job[j]
  BY <1>1, <1>2 DEF TypeOK
<1>4. i \in running
  BY <1>2 DEF WatcherInv, AtRest
<1>5. PICK handled \in [Informers -> Stores] : HandledInv(handled)
  BY DEF WatcherInv
<1>6. /\ work[i] \in Seq(Handling) /\ Len(work[i]) <= 2 /\ work[i] # <<>>
      /\ job[i].call \notin Call
  BY <1>1, <1>2 DEF TypeOK, Client!Busy
<1>7. ASSUME NEW d \in DBs, NEW a \in Addrs
      PROVE  /\ LastInWorkIsRight(work'[i], handled[i], d, a)
             /\ InJob(job'[i], d, a) /\ ~InWork(work'[i], d, a)
                    => (job'[i].call.op = "add" <=> Wanted(handled[i], d, a))
             /\ InJob(job'[i], d, a) \/ InWork(work'[i], d, a) <=> Active(i, d, a)
  <2>1. LastInWorkIsRight(work[i], handled[i], d, a)
    BY <1>5, Zenon DEF HandledInv, LastIsRight
  <2>2. /\ LastInWorkIsRight(work'[i], handled[i], d, a)
        /\ InJob(c(ip), d, a) /\ ~InWork(work'[i], d, a)
               => (k(ip).op = "add" <=> Wanted(handled[i], d, a))
        /\ InJob(c(ip), d, a) \/ InWork(work'[i], d, a) <=> InJob(job[i], d, a) \/ InWork(work[i], d, a)
    <3> DEFINE v == Rest(h, ip) \o Tail(work[i])
    <3>1. /\ LastInWorkIsRight(v, handled[i], d, a)
          /\ InJob(c(ip), d, a) /\ ~InWork(v, d, a)
                 => (k(ip).op = "add" <=> Wanted(handled[i], d, a))
          /\ InJob(c(ip), d, a) \/ InWork(v, d, a) <=> InJob(job[i], d, a) \/ InWork(work[i], d, a)
      BY <1>2, <1>6, <2>1, CallIsRight
    <3> HIDE DEF v, c, k
    <3>2. work'[i] = v
      BY <1>3 DEF v
    <3> QED
      BY <3>1, <3>2
  <2>3. job'[i] = c(ip) /\ c(ip).call = k(ip)
    BY <1>3
  <2> HIDE DEF c, k
  <2> QED
    BY <2>2, <2>3, Zenon DEF Active
<1> HIDE DEF c, k
<1>8. ASSUME NEW j \in Informers PROVE LastIsRight(work'[j], job'[j], handled[j])
  <2>1. CASE j = i
    BY <1>7, <2>1, Zenon DEF LastIsRight
  <2>2. CASE j # i
    BY <1>3, <1>5, <2>2 DEF HandledInv
  <2> QED
    BY <2>1, <2>2
<1>9. ASSUME NEW d \in DBs, NEW a \in Addrs, NEW j \in Informers
      PROVE  Active(j, d, a)' <=> Active(j, d, a)
  <2>1. CASE j = i
    BY <1>7, <2>1, Zenon DEF Active
  <2>2. CASE j # i
    BY <1>3, <2>2 DEF Active
  <2> QED
    BY <2>1, <2>2
<1>10. \A d \in DBs, a \in Addrs : Explained(d, a, handled)'
  <2> SUFFICES ASSUME NEW d \in DBs, NEW a \in Addrs PROVE Explained(d, a, handled)'
    OBVIOUS
  <2>1. Explained(d, a, handled) /\ running \subseteq Informers
    BY <1>1, <1>5 DEF HandledInv, TypeOK
  <2> QED
    BY <1>2, <1>9, <2>1 DEF Explained
<1>11. HandledInv(handled)'
  BY <1>2, <1>5, <1>8, <1>10 DEF HandledInv
<1>12. \A j \in Informers \ running' : AtRest(j)'
  BY <1>2, <1>3, <1>4 DEF WatcherInv, AtRest, Client!Busy
<1> QED
  BY <1>1, <1>2, <1>11, <1>12 DEF WatcherInv

\* The client treats a database, or ends its call: the entry is as the handled nodes want
\* it, is reported as failed, or is to be treated once more.
LEMMA ClientStepStep ==
  ASSUME WatcherInv, NEW i \in Informers, ClientStep(i)
  PROVE  WatcherInv'
<1>1. TypeOK /\ TypeOK'
  BY TypesNext DEF WatcherInv, Next, RunHandler
<1>2. UNCHANGED <<nodes, running, seen, queue, work>>
  BY DEF ClientStep, informerVars
<1>3. PICK handled \in [Informers -> Stores] : HandledInv(handled)
  BY DEF WatcherInv
<1>4. /\ Client!Busy(i) /\ job[i] \in Job /\ i \in running
      /\ \A j \in Informers \ {i} : job'[j] = job[j]
  BY <1>1 DEF ClientStep, Client!Apply, Client!Skip, Client!End, Client!Pending, WatcherInv,
              AtRest, TypeOK
<1> DEFINE db == Client!Pool(i)[job[i].pos]
           ip == job[i].call.ip
<1>5. CASE Client!End(i)
  <2>1. /\ job'[i] = Client!NoJob
        /\ ~(job[i].call \in Call /\ job[i].pos <= Len(DatabasesOf[job[i].call.pool]))
        /\ UNCHANGED <<allow, reported, inherited>>
    BY <1>1, <1>5 DEF ClientStep, Client!End, Client!Apply, Client!Skip, Client!Pending,
                      Client!Busy, Client!Pool, TypeOK
  <2>2. \A d, a : ~InJob(job[i], d, a) /\ ~InJob(job'[i], d, a)
    BY <1>4, <2>1, JobEnds, NoJobIsIdle DEF InJob
  <2>3. ASSUME NEW j \in Informers
        PROVE  /\ LastIsRight(work[j], job'[j], handled[j])
               /\ \A d, a : InJob(job'[j], d, a) <=> InJob(job[j], d, a)
    <3>1. LastIsRight(work[j], job[j], handled[j])
      BY <1>3 DEF HandledInv
    <3>2. CASE j = i
      BY <2>2, <3>1, <3>2 DEF LastIsRight
    <3>3. CASE j # i
      BY <1>4, <3>1, <3>3
    <3> QED
      BY <3>2, <3>3
  <2>4. ASSUME NEW d \in DBs, NEW a \in Addrs PROVE Explained(d, a, handled)'
    <3>1. Explained(d, a, handled) /\ running \subseteq Informers
      BY <1>1, <1>3 DEF HandledInv, TypeOK
    <3>2. \A j \in Informers : Active(j, d, a)' <=> Active(j, d, a)
      BY <1>2, <2>3 DEF Active
    <3> QED
      BY <1>2, <2>1, <3>1, <3>2 DEF Explained
  <2>5. HandledInv(handled)'
    BY <1>2, <1>3, <2>3, <2>4 DEF HandledInv
  <2>6. \A j \in Informers \ running' : AtRest(j)'
    BY <1>2, <1>4 DEF WatcherInv, AtRest, Client!Busy
  <2> QED
    BY <1>1, <1>2, <2>5, <2>6 DEF WatcherInv
<1>6. CASE Client!Apply(i) \/ Client!Skip(i)
  <2>1. /\ job[i].call \in Call /\ job[i].pos <= Len(DatabasesOf[job[i].call.pool])
        /\ job'[i].call = job[i].call /\ job'[i].pos = job[i].pos + 1
    <3>1. job[i].call \in Call /\ job[i].pos <= Len(DatabasesOf[job[i].call.pool])
      BY <1>6 DEF Client!Apply, Client!Skip, Client!Pending, Client!Busy, Client!Pool
    <3>2. CASE Client!Apply(i)
      BY <1>1, <1>4, <3>1, <3>2 DEF Client!Apply, TypeOK, Job
    <3>3. CASE Client!Skip(i)
      BY <1>1, <1>4, <3>1, <3>3 DEF Client!Skip, TypeOK, Job
    <3> QED
      BY <1>6, <3>1, <3>2, <3>3
  <2>2. \A d, a : InJob(job[i], d, a) <=> InJob(job'[i], d, a) \/ (d = db /\ a = ip)
    BY <1>4, <2>1, JobMoves DEF Client!Pool
  <2>3. ASSUME NEW j \in Informers, NEW d, NEW a
        PROVE  Active(j, d, a) <=> Active(j, d, a)' \/ (j = i /\ d = db /\ a = ip)
    <3>1. CASE j = i
      BY <1>2, <2>2, <3>1 DEF Active
    <3>2. CASE j # i
      BY <1>2, <1>4, <3>2 DEF Active
    <3> QED
      BY <3>1, <3>2
  <2>4. ASSUME NEW j \in Informers PROVE LastIsRight(work[j], job'[j], handled[j])
    <3>1. LastIsRight(work[j], job[j], handled[j])
      BY <1>3 DEF HandledInv
    <3>2. CASE j = i
      BY <2>1, <2>2, <3>1, <3>2, Zenon DEF LastIsRight
    <3>3. CASE j # i
      BY <1>4, <3>1, <3>3
    <3> QED
      BY <3>2, <3>3
  <2>5. ASSUME NEW d \in DBs, NEW a \in Addrs PROVE Explained(d, a, handled)'
    <3>1. Explained(d, a, handled) /\ running \subseteq Informers
      BY <1>1, <1>3 DEF HandledInv, TypeOK
    <3>2. CASE d = db /\ a = ip
      <4>1. CASE Client!Skip(i) /\ ~Client!Apply(i)
        <5>1. <<d, a>> \in reported'
          BY <3>2, <4>1 DEF ClientStep, Client!End, Client!Skip, Current
        <5> QED
          BY <5>1 DEF Explained
      <4>2. CASE Client!Apply(i) /\ ~Active(i, d, a)'
        <5>1. job[i].call.op = "add" <=> Wanted(handled[i], d, a)
          <6>1. InJob(job[i], d, a) /\ ~InWork(work[i], d, a)
            BY <1>2, <2>2, <3>2, <4>2 DEF Active
          <6> QED
            BY <1>3, <6>1 DEF HandledInv, LastIsRight
        <5>2. a \in allow'[d] <=> job[i].call.op = "add"
          BY <1>1, <3>2, <4>2 DEF Client!Apply, Client!Changed, Host, TypeOK
        <5> QED
          BY <1>2, <1>4, <5>1, <5>2 DEF Explained
      <4>3. CASE Active(i, d, a)'
        BY <1>2, <1>4, <4>3 DEF Explained
      <4> QED
        BY <1>6, <4>1, <4>2, <4>3
    <3>3. CASE ~(d = db /\ a = ip)
      <4>1. \A j \in Informers : Active(j, d, a)' <=> Active(j, d, a)
        BY <2>3, <3>3
      <4>2. /\ <<d, a>> \in reported' <=> <<d, a>> \in reported
            /\ <<d, a>> \in inherited' <=> <<d, a>> \in inherited
        BY <3>3 DEF ClientStep, Current
      <4>3. a \in allow'[d] <=> a \in allow[d]
        BY <1>1, <1>6, <3>3 DEF Client!Apply, Client!Skip, Client!Changed, Host, TypeOK
      <4> QED
        BY <1>2, <3>1, <4>1, <4>2, <4>3 DEF Explained
    <3> QED
      BY <3>2, <3>3
  <2>6. HandledInv(handled)'
    BY <1>2, <1>3, <2>4, <2>5 DEF HandledInv
  <2>7. \A j \in Informers \ running' : AtRest(j)'
    BY <1>2, <1>4 DEF WatcherInv, AtRest, Client!Busy
  <2> QED
    BY <1>1, <1>2, <2>6, <2>7 DEF WatcherInv
<1> QED
  BY <1>5, <1>6 DEF ClientStep

LEMMA WatcherNext ==
  ASSUME StableAddresses, OwnAddresses
  PROVE  WatcherInv /\ [Next]_vars => WatcherInv'
<1> SUFFICES ASSUME WatcherInv, [Next]_vars PROVE WatcherInv'
  OBVIOUS
<1>1. CASE UNCHANGED vars
  <2>1. TypeOK'
    BY TypesNext DEF WatcherInv
  <2> QED
    BY <1>1, <2>1, SameStep DEF vars, informerVars, clientVars
<1> QED
  BY <1>1, WatcherSteps, ClusterStep, RestartStep, StartStep, RewatchStep, NotifyStep, TakeStep, CallStep,
     ClientStepStep, Zenon

-----------------------------------------------------------------------------
(* The lists agree with the cluster. *)

\* With nothing left to do, every informer has handled what is in its store.
LEMMA SettledIsHandled ==
  ASSUME WatcherInv, Settled
  PROVE  /\ running # {}
         /\ \A d \in DBs, a \in Addrs :
               \/ <<d, a>> \in reported
               \/ \E i \in running : a \in allow[d] <=> Wanted(seen[i], d, a)
               \/ /\ \A i \in running : ~Wanted(seen[i], d, a)
                  /\ a \in allow[d] => <<d, a>> \in inherited
<1>1. PICK handled \in [Informers -> Stores] : HandledInv(handled)
  BY DEF WatcherInv
<1>2. running \subseteq Informers /\ running # {}
  BY DEF WatcherInv, TypeOK, Settled
<1>3. ASSUME NEW i \in running, NEW d, NEW a PROVE handled[i] = seen[i] /\ ~Active(i, d, a)
  <2>1. queue[i] = <<>> /\ work[i] = <<>> /\ seen[i] \in Stores /\ job[i].call \notin Call
    BY <1>2 DEF Settled, HandlerFree, Client!Busy, WatcherInv
  <2>2. handled[i] = seen[i]
    BY <1>1, <1>2, <2>1, LeadsNowhere DEF HandledInv
  <2> QED
    BY <2>1, <2>2, NoWork DEF Active, InJob
<1> QED
  BY <1>1, <1>2, <1>3 DEF HandledInv, Explained

\* What an informer has in its store then is the cluster, and the nodes whose deletion was
\* overlooked.
LEMMA SettledStores ==
  ASSUME StableAddresses, WatcherInv, Settled, NEW i \in running, NEW d \in DBs, NEW a \in Addrs
  PROVE  /\ Wanted(nodes, d, a) => Wanted(seen[i], d, a)
         /\ Wanted(seen[i], d, a) => Wanted(nodes, d, a) \/ <<d, a>> \in Leftover
<1>1. \A n \in Nodes : seen[i][n] = nodes[n] \/ (Overlooked(i, n) /\ nodes[n] = Gone)
  BY DEF Settled, Overlooked
<1>2. \A n \in Nodes : Admits(nodes[n], d) => nodes[n] # Gone
  BY GoneIsUnwatched DEF Admits
<1>3. ASSUME Wanted(seen[i], d, a), ~Wanted(nodes, d, a) PROVE <<d, a>> \in Leftover
  <2>1. PICK n \in Nodes : a \in ExternalIPs(n) /\ Admits(seen[i][n], d)
    BY <1>3 DEF Wanted
  <2>2. Overlooked(i, n)
    BY <1>1, <1>3, <2>1 DEF Wanted
  <2>3. seen[i] \in Stores
    BY DEF WatcherInv, TypeOK
  <2>4. GetExternalIPs(seen[i][n]) = ExternalIPs(n)
    BY <2>1, <2>3, WatchedAddresses DEF Admits
  <2> QED
    BY <2>1, <2>2, <2>4 DEF Leftover, Admits
<1> QED
  BY <1>1, <1>2, <1>3 DEF Wanted

LEMMA DesiredIsWanted ==
  ASSUME StableAddresses, WatcherInv, NEW d \in DBs, NEW a
  PROVE  a \in Desired(d) <=> Wanted(nodes, d, a)
<1>1. \A n \in Nodes : isNodeInWatchedNodepool(nodes[n]) => GetExternalIPs(nodes[n]) = ExternalIPs(n)
  BY WatchedAddresses DEF WatcherInv
<1> QED
  BY <1>1, Zenon DEF Desired, Wanted, Admits

\* However the watch loses events, requests fail and the process is restarted: once nothing
\* is left to do, every address of a node in a watched pool is on the lists of that pool's
\* databases, unless its last change was reported as failed.  This is said of a process
\* with one informer, because only then do entries change atomically
\* (AllowListSoloProofs).  (UpdateFunc and DeleteFunc, handleNodeEvent.)
THEOREM SettledAdmitsAll ==
  ASSUME OneInformer, StableAddresses, OwnAddresses
  PROVE  Spec => []SettledAdmits
<1>1. ASSUME WatcherInv PROVE SettledAdmits
  <2> SUFFICES ASSUME Settled, NEW d \in DBs, NEW a \in Addrs, a \in Desired(d) \ allow[d]
               PROVE  <<d, a>> \in reported
    BY DEF SettledAdmits, NodesAdmitted
  <2>1. Wanted(nodes, d, a)
    BY <1>1, DesiredIsWanted
  <2>2. \A i \in running : Wanted(seen[i], d, a)
    BY <1>1, <2>1, SettledStores
  <2> QED
    BY <1>1, <2>2, SettledIsHandled
<1> QED
  BY WatcherInit, WatcherNext, <1>1, PTL DEF Spec

\* In the same circumstances an address of no such node is on a list only if its removal
\* was reported as failed, if it was there when the process started and nothing has
\* touched it since, or if it is of a node that was deleted in a gap of the watch.
THEOREM SettledRemovesAll ==
  ASSUME OneInformer, StableAddresses, OwnAddresses
  PROVE  Spec => []SettledRemoves
<1>1. ASSUME WatcherInv PROVE SettledRemoves
  <2> SUFFICES ASSUME Settled, NEW d \in DBs, NEW a \in Addrs, a \in allow[d] \ Desired(d)
               PROVE  <<d, a>> \in reported \cup inherited \cup Leftover
    BY DEF SettledRemoves, DepartedRemoved
  <2>1. ~Wanted(nodes, d, a)
    BY <1>1, DesiredIsWanted
  <2>2. \A i \in running : Wanted(seen[i], d, a) => <<d, a>> \in Leftover
    BY <1>1, <2>1, SettledStores
  <2> QED
    BY <1>1, <2>2, SettledIsHandled
<1> QED
  BY WatcherInit, WatcherNext, <1>1, PTL DEF Spec

=============================================================================
