------------------------- MODULE WatchMonitorProofs -------------------------
(***************************************************************************)
(* Proofs about WatchMonitor for any nodes and pools: its types, and what  *)
(* the gauge of a pool shows at rest.                                      *)
(***************************************************************************)
EXTENDS WatchMonitor, FiniteSetTheorems, SequenceTheorems, TLAPS

LEMMA CountType == \A p : Count(p) \in Nat
    <1> SUFFICES ASSUME NEW p PROVE Cardinality({n \in Nodes : cluster[n] = p}) \in Nat
        BY DEF Count
    <1>1. IsFiniteSet({n \in Nodes : cluster[n] = p})
        BY MonitorAssumption, FS_Subset
    <1> QED
        BY <1>1, FS_CardinalityType

-----------------------------------------------------------------------------
(* Types. *)

LEMMA CountInCounts == Cardinality(Nodes) \in Nat /\ \A p : Count(p) \in Counts
    <1> SUFFICES ASSUME NEW p PROVE Count(p) \in Counts /\ Cardinality(Nodes) \in Nat
        OBVIOUS
    <1>1. /\ IsFiniteSet(Nodes) /\ {n \in Nodes : cluster[n] = p} \subseteq Nodes
        BY MonitorAssumption
    <1>2. Count(p) <= Cardinality(Nodes)
        BY <1>1, FS_Subset DEF Count
    <1>3. Cardinality(Nodes) \in Nat
        BY <1>1, FS_CardinalityType
    <1> QED
        BY <1>2, <1>3, CountType DEF Counts

\* A change of place makes no call, one or two.
LEMMA CallsType == \A was, is : HandlerCalls(was, is) \in 0 .. 2
    <1> SUFFICES ASSUME NEW was, NEW is PROVE HandlerCalls(was, is) \in 0 .. 2
        OBVIOUS
    <1>1. IsFiniteSet({was, is}) /\ Cardinality({was, is}) <= 2
        <2>1. IsFiniteSet({was}) /\ Cardinality({was}) = 1
            BY FS_Singleton
        <2>2. {was, is} = {was} \cup {is}
            OBVIOUS
        <2>3. /\ IsFiniteSet({was} \cup {is})
              /\ Cardinality({was} \cup {is}) \in {1, 2}
            BY <2>1, FS_AddElement
        <2> QED
            BY <2>2, <2>3
    <1>2. {was, is} \cap Pools \subseteq {was, is}
        OBVIOUS
    <1>3. /\ IsFiniteSet({was, is} \cap Pools)
          /\ Cardinality({was, is} \cap Pools) <= Cardinality({was, is})
        BY <1>1, <1>2, FS_Subset
    <1>4. Cardinality({was, is} \cap Pools) \in Nat /\ Cardinality({was, is}) \in Nat
        BY <1>1, <1>3, FS_CardinalityType
    <1> QED
        BY <1>1, <1>3, <1>4 DEF HandlerCalls

\* One that enters or leaves a configured pool makes one at least.
LEMMA CallsMade ==
    ASSUME NEW was, NEW is, NEW p \in Pools, ~(was = p <=> is = p)
    PROVE  HandlerCalls(was, is) > 0
    <1>1. was # is /\ p \in {was, is} \cap Pools
        OBVIOUS
    <1>2. IsFiniteSet({was, is}) /\ {was, is} \cap Pools \subseteq {was, is}
        <2>1. IsFiniteSet({was} \cup {is})
            BY FS_Singleton, FS_Union
        <2>2. {was, is} = {was} \cup {is}
            OBVIOUS
        <2> QED
            BY <2>1, <2>2
    <1>3. IsFiniteSet({was, is} \cap Pools)
        BY <1>2, FS_Subset
    <1>4. Cardinality({was, is} \cap Pools) # 0 /\ Cardinality({was, is} \cap Pools) \in Nat
        BY <1>1, <1>3, FS_EmptySet, FS_CardinalityType
    <1> QED
        BY <1>1, <1>4 DEF HandlerCalls

LEMMA NextCheckType ==
    \A phase \in {"initial", "periodic", "done"} : NextCheck(phase) \in Check
    <1>1. 0 \in Counts
        BY CountInCounts DEF Counts
    <1> QED
        BY <1>1 DEF NextCheck, Check

LEMMA TypeInit == Init => TypeOK
    <1> SUFFICES ASSUME Init PROVE TypeOK
        OBVIOUS
    <1>1. 0 \in Counts /\ 0 \in 0 .. MaxUpdates
        BY CountInCounts, MonitorAssumption DEF Counts
    <1>2. ASSUME NEW n \in Nodes PROVE trail[n] \in Seq(Place) /\ Len(trail[n]) <= MaxTrail
        <2>1. trail[n] = <<>> \/ trail[n] = <<cluster[n]>>
            BY DEF Init
        <2>2. cluster[n] \in Place
            BY DEF Init
        <2>3. <<>> \in Seq(Place) /\ Len(<<>>) <= MaxTrail
            BY MonitorAssumption
        <2>4. <<cluster[n]>> \in Seq(Place) /\ Len(<<cluster[n]>>) <= MaxTrail
            BY <2>2, MonitorAssumption
        <2> QED
            BY <2>1, <2>3, <2>4, Zenon
    <1>3. trail \in [Nodes -> Seq(Place)]
        <2>1. trail = [n \in Nodes |-> trail[n]]
            BY DEF Init
        <2> QED
            BY <1>2, <2>1
    <1>4. check \in Check
        BY NextCheckType DEF Init
    <1>8. known \in [Nodes -> Nat] /\ \A n \in Nodes : known[n] <= Len(trail[n])
        BY <1>2 DEF Init
    <1>5. /\ cluster \in [Nodes -> Place] /\ handled \in [Nodes -> Place]
          /\ excused \subseteq Pools /\ over \in BOOLEAN
        BY DEF Init, Place
    <1>6. calls \in 0 .. 2 /\ consecutiveMismatches \in 0 .. 2
        BY DEF Init
    <1>7. /\ listing \in [Pools -> 0 .. MaxUpdates] /\ gauge \in [Pools -> Counts]
          /\ counted \in [Pools -> [Counts -> 0 .. MaxUpdates]]
        BY <1>1 DEF Init
    <1> QED
        BY <1>2, <1>3, <1>4, <1>5, <1>6, <1>7, <1>8 DEF TypeOK

LEMMA TypeNext == TypeOK /\ [Next]_vars => TypeOK'
    <1> SUFFICES ASSUME TypeOK, [Next]_vars PROVE TypeOK'
        OBVIOUS
    <1> USE DEF TypeOK
    <1>1. Counts \subseteq Nat /\ 0 .. MaxUpdates \subseteq Nat /\ MaxTrail \in Nat
        BY MonitorAssumption DEF Counts
    <1>2. ASSUME NEW n \in Nodes, Relist(n) PROVE TypeOK'
        <2> DEFINE told == SubSeq(trail[n], 1, known[n])
        <2>1. /\ trail[n] \in Seq(Place) /\ known[n] \in Nat /\ cluster[n] \in Place
              /\ known[n] + 1 < Len(trail[n]) /\ Len(trail[n]) \in Nat
              /\ Len(trail[n]) <= MaxTrail
              /\ trail' = [trail EXCEPT ![n] = Append(told, cluster[n])]
            BY <1>2 DEF Relist
        <2>2. told \in Seq(Place) /\ Len(told) = known[n]
            BY <2>1
        <2> HIDE DEF told
        <2>3. /\ Append(told, cluster[n]) \in Seq(Place)
              /\ Len(Append(told, cluster[n])) = known[n] + 1
            BY <2>1, <2>2
        <2>4. trail' \in [Nodes -> Seq(Place)]
            BY <2>1, <2>3
        <2>5. UNCHANGED <<cluster, handled, known, calls, listing, counted, gauge, over, check,
                          consecutiveMismatches>> /\ excused' = Pools
            BY <1>2 DEF Relist, checkVars
        <2>6. ASSUME NEW m \in Nodes
              PROVE  known'[m] <= Len(trail'[m]) /\ Len(trail'[m]) <= MaxTrail
            BY <1>1, <2>1, <2>3, <2>5
        <2> QED
            BY <2>4, <2>5, <2>6
    <1>3. ASSUME NEW n \in Nodes, HandleNode(n) PROVE TypeOK'
        <2>1. /\ trail[n] \in Seq(Place) /\ Len(trail[n]) <= MaxTrail
              /\ known[n] \in Nat /\ known[n] > 0 /\ known[n] <= Len(trail[n])
              /\ calls' = HandlerCalls(handled[n], Head(trail[n]))
              /\ handled' = [handled EXCEPT ![n] = Head(trail[n])]
              /\ trail' = [trail EXCEPT ![n] = Tail(trail[n])]
              /\ known' = [known EXCEPT ![n] = known[n] - 1]
            BY <1>3 DEF HandleNode
        <2>2. /\ Head(trail[n]) \in Place /\ Tail(trail[n]) \in Seq(Place)
              /\ Len(Tail(trail[n])) = Len(trail[n]) - 1 /\ Len(trail[n]) \in Nat
            BY <2>1
        <2>3. trail' \in [Nodes -> Seq(Place)] /\ known' \in [Nodes -> Nat]
            BY <2>1, <2>2
        <2>4. ASSUME NEW m \in Nodes
              PROVE  known'[m] <= Len(trail'[m]) /\ Len(trail'[m]) <= MaxTrail
            BY <1>1, <2>1, <2>2
        <2>5. handled' \in [Nodes -> Place] /\ calls' \in 0 .. 2
            BY <2>1, <2>2, CallsType
        <2> QED
            BY <1>3, <2>3, <2>4, <2>5 DEF HandleNode, gaugeVars, checkVars
    <1>4. ASSUME NEW n \in Nodes, NEW place \in Place, ChangeNode(n, place) PROVE TypeOK'
        <2>1. /\ trail[n] \in Seq(Place) /\ Len(trail[n]) < MaxTrail
              /\ trail' = [trail EXCEPT ![n] = Append(trail[n], place)]
              /\ cluster' = [cluster EXCEPT ![n] = place]
              /\ known' = known /\ known[n] \in Nat /\ known[n] <= Len(trail[n])
            BY <1>4 DEF ChangeNode
        <2>2. /\ Append(trail[n], place) \in Seq(Place)
              /\ Len(Append(trail[n], place)) = Len(trail[n]) + 1 /\ Len(trail[n]) \in Nat
            BY <2>1
        <2>3. trail' \in [Nodes -> Seq(Place)] /\ cluster' \in [Nodes -> Place]
            BY <2>1, <2>2
        <2>4. ASSUME NEW m \in Nodes
              PROVE  known'[m] <= Len(trail'[m]) /\ Len(trail'[m]) <= MaxTrail
            BY <1>1, <2>1, <2>2
        <2> QED
            BY <1>4, <2>3, <2>4 DEF ChangeNode, gaugeVars, checkVars
    <1>11. ASSUME NEW n \in Nodes, Observe(n) PROVE TypeOK'
        <2>1. /\ trail[n] \in Seq(Place) /\ known[n] \in Nat /\ known[n] < Len(trail[n])
              /\ known' = [known EXCEPT ![n] = known[n] + 1] /\ trail' = trail
            BY <1>11 DEF Observe
        <2>2. known' \in [Nodes -> Nat] /\ \A m \in Nodes : known'[m] <= Len(trail'[m])
            BY <2>1
        <2> QED
            BY <1>11, <2>2 DEF Observe, gaugeVars, checkVars
    <1>5. CASE EndCall
        <2>1. /\ calls' \in 0 .. 2
              /\ UNCHANGED <<cluster, handled, trail, known, over, check, consecutiveMismatches>>
            BY <1>5 DEF EndCall, checkVars
        <2>2. listing' \in [Pools -> 0 .. MaxUpdates] /\ excused' \subseteq Pools
              /\ UNCHANGED <<counted, gauge>>
            BY <1>5, MonitorAssumption DEF EndCall, updateNodeCountMetrics
        <2> QED
            BY <2>1, <2>2
    <1>6. ASSUME NEW p \in Pools, GetNodesByNodepool(p) PROVE TypeOK'
        <2>1. listing' \in [Pools -> 0 .. MaxUpdates]
            BY <1>6, MonitorAssumption DEF GetNodesByNodepool
        <2>2. counted' \in [Pools -> [Counts -> 0 .. MaxUpdates]] /\ excused' \subseteq Pools
            <3>1. CASE UNCHANGED counted
                BY <1>6, <3>1 DEF GetNodesByNodepool
            <3>2. CASE counted[p][Count(p)] < MaxUpdates
                       /\ counted' = [counted EXCEPT ![p][Count(p)] = @ + 1]
                <4>1. Count(p) \in Counts
                    BY CountInCounts
                <4> DEFINE k == Count(p)
                <4> HIDE DEF k
                <4>2. k \in Counts /\ counted[p] \in [Counts -> 0 .. MaxUpdates]
                      /\ counted[p][k] + 1 \in 0 .. MaxUpdates
                    BY <3>2, <4>1, MonitorAssumption DEF k
                <4>3. counted' = [counted EXCEPT ![p] = [counted[p] EXCEPT ![k] = counted[p][k] + 1]]
                    BY <3>2 DEF k
                <4> QED
                    BY <1>6, <4>2, <4>3 DEF GetNodesByNodepool
            <3> QED
                BY <1>6, <3>1, <3>2 DEF GetNodesByNodepool
        <2> QED
            BY <1>6, <2>1, <2>2 DEF GetNodesByNodepool, clusterVars, checkVars
    <1>7. ASSUME NEW p \in Pools, UpdateNodesWatched(p) PROVE TypeOK'
        <2>1. PICK k \in Counts : /\ counted[p][k] > 0
                                 /\ counted' = [counted EXCEPT ![p][k] = @ - 1]
                                 /\ gauge' = [gauge EXCEPT ![p] = k]
            BY <1>7 DEF UpdateNodesWatched
        <2>2. counted[p] \in [Counts -> 0 .. MaxUpdates] /\ counted[p][k] - 1 \in 0 .. MaxUpdates
            BY <2>1, MonitorAssumption
        <2>3. counted' = [counted EXCEPT ![p] = [counted[p] EXCEPT ![k] = counted[p][k] - 1]]
            BY <2>1
        <2>4. counted' \in [Pools -> [Counts -> 0 .. MaxUpdates]] /\ gauge' \in [Pools -> Counts]
            BY <2>1, <2>2, <2>3
        <2> QED
            BY <1>7, <2>4 DEF UpdateNodesWatched, clusterVars, checkVars
    <1>8. CASE verifyWatchConsistency
        <2>1. UNCHANGED <<clusterVars, gaugeVars, over>>
            BY <1>8 DEF verifyWatchConsistency
        <2>2. ASSUME NEW consistent, Verdict(consistent)
              PROVE  check' \in Check /\ consecutiveMismatches' \in 0 .. 2
            BY <2>2, NextCheckType DEF Verdict
        <2>3. check' \in Check /\ consecutiveMismatches' \in 0 .. 2
            <3>1. CASE BeginCheck
                <4>1. [p \in Pools |-> Count(p)] \in [Pools -> Counts]
                    BY CountInCounts
                <4> QED
                    BY <3>1, <4>1 DEF BeginCheck, Check
            <3>2. CASE FailCheck
                BY <3>2, <2>2 DEF FailCheck
            <3>3. CASE EndCheck
                BY <3>3, <2>2 DEF EndCheck
            <3>4. CASE StopChecks
                BY <3>4, NextCheckType DEF StopChecks
            <3>5. ASSUME NEW p \in Pools, ComparePool(p)
                  PROVE  check' \in Check /\ consecutiveMismatches' \in 0 .. 2
                <4> DEFINE ok == check.consistent /\ check.nodepoolCounts[p] = Count(p)
                <4>1. ok \in BOOLEAN
                    OBVIOUS
                <4>2. \/ check' = [check EXCEPT !.left = @ \ {p}, !.consistent = ok]
                      \/ check' = [check EXCEPT !.left = @ \ {p}, !.consistent = FALSE]
                    BY <3>5 DEF ComparePool
                <4> HIDE DEF ok
                <4> QED
                    BY <3>5, <4>1, <4>2 DEF ComparePool, Check
            <3> QED
                BY <1>8, <3>1, <3>2, <3>3, <3>4, <3>5 DEF verifyWatchConsistency
        <2> QED
            BY <2>1, <2>3 DEF clusterVars, gaugeVars
    <1>9. CASE EndTerm
        BY <1>9 DEF EndTerm, clusterVars, gaugeVars
    <1>10. CASE UNCHANGED vars
        BY <1>10 DEF vars, clusterVars, gaugeVars, checkVars
    <1> QED
        BY <1>2, <1>3, <1>4, <1>5, <1>6, <1>7, <1>8, <1>9, <1>10, <1>11 DEF Next

\* The types of the state, the trails of node states, the gauge and the checks.
THEOREM TypeCorrect == Spec => []TypeOK
    BY TypeInit, TypeNext, PTL DEF Spec

-----------------------------------------------------------------------------
(* What is on its way to a node's handlers: a place and the later ones.       *)

\* The place before the k-th, the last of all, and whether a step of the way enters or
\* leaves pool p.
Before(from, trl, k) == IF k = 1 THEN from ELSE trl[k-1]
Ending(from, trl) == IF trl = <<>> THEN from ELSE trl[Len(trl)]
Crosses(from, trl, p) == \E k \in 1 .. Len(trl) : ~(Before(from, trl, k) = p <=> trl[k] = p)

LEMMA AppendedWay ==
    ASSUME NEW from, NEW trl \in Seq(Place), NEW place \in Place, NEW p
    PROVE  /\ Ending(from, Append(trl, place)) = place
           /\ Crosses(from, trl, p) => Crosses(from, Append(trl, place), p)
           /\ ~(Ending(from, trl) = p <=> place = p) => Crosses(from, Append(trl, place), p)
    <1> DEFINE longer == Append(trl, place)
               n == Len(trl) + 1
    <1>1. /\ Len(trl) \in Nat /\ Len(longer) = n /\ longer[n] = place /\ longer # <<>>
          /\ \A k \in 1 .. Len(trl) : longer[k] = trl[k] /\ k \in 1 .. n
          /\ n \in 1 .. n
        OBVIOUS
    <1> HIDE DEF longer
    <1>2. Ending(from, longer) = place
        BY <1>1 DEF Ending
    <1>3. \A k \in 1 .. Len(trl) : Before(from, longer, k) = Before(from, trl, k)
        <2> TAKE k \in 1 .. Len(trl)
        <2>1. k = 1 \/ k - 1 \in 1 .. Len(trl)
            BY <1>1
        <2> QED
            BY <1>1, <2>1 DEF Before
    <1>4. Crosses(from, trl, p) => Crosses(from, longer, p)
        BY <1>1, <1>3 DEF Crosses
    <1>5. Before(from, longer, n) = Ending(from, trl)
        <2>1. CASE trl = <<>>
            <3>1. Len(trl) = 0
                BY <2>1
            <3> QED
                BY <2>1, <3>1 DEF Before, Ending
        <2>2. CASE trl # <<>>
            <3>1. Len(trl) \in 1 .. Len(trl)
                BY <2>2
            <3>2. n # 1 /\ n - 1 = Len(trl)
                BY <3>1
            <3> HIDE DEF n
            <3> QED
                BY <1>1, <2>2, <3>1, <3>2 DEF Before, Ending
        <2> QED
            BY <2>1, <2>2
    <1>6. ~(Ending(from, trl) = p <=> place = p) => Crosses(from, longer, p)
        <2> HIDE DEF n
        <2> QED
            BY <1>1, <1>5, Zenon DEF Crosses
    <1> QED
        BY <1>2, <1>4, <1>6 DEF longer

LEMMA HandledWay ==
    ASSUME NEW from, NEW trl \in Seq(Place), trl # <<>>, NEW p
    PROVE  /\ Ending(Head(trl), Tail(trl)) = Ending(from, trl)
           /\ Crosses(from, trl, p) => \/ ~(from = p <=> Head(trl) = p)
                                      \/ Crosses(Head(trl), Tail(trl), p)
    <1> DEFINE rest == Tail(trl)
    <1>1. /\ Len(trl) \in Nat /\ Len(trl) >= 1 /\ Len(rest) = Len(trl) - 1
          /\ Head(trl) = trl[1] /\ \A k \in 1 .. Len(rest) : rest[k] = trl[k+1]
          /\ rest \in Seq(Place)
        OBVIOUS
    <1> HIDE DEF rest
    <1>2. rest = <<>> <=> Len(rest) = 0
        BY <1>1
    <1>3. Ending(Head(trl), rest) = Ending(from, trl)
        <2>1. CASE Len(trl) = 1
            BY <1>1, <1>2, <2>1 DEF Ending
        <2>2. CASE Len(trl) # 1
            <3>1. Len(rest) \in 1 .. Len(rest) /\ Len(rest) + 1 = Len(trl) /\ rest # <<>>
                BY <1>1, <1>2, <2>2
            <3> QED
                BY <1>1, <3>1 DEF Ending
        <2> QED
            BY <2>1, <2>2
    <1>4. ASSUME Crosses(from, trl, p), from = p <=> Head(trl) = p
          PROVE  Crosses(Head(trl), rest, p)
        <2>1. PICK k \in 1 .. Len(trl) : ~(Before(from, trl, k) = p <=> trl[k] = p)
            BY <1>4 DEF Crosses
        <2>2. k # 1
            BY <1>1, <1>4, <2>1 DEF Before
        <2>3. k - 1 \in 1 .. Len(rest) /\ (k - 1) + 1 = k
            BY <1>1, <2>2
        <2>4. rest[k-1] = trl[k]
            BY <1>1, <2>3
        <2>5. Before(Head(trl), rest, k - 1) = Before(from, trl, k)
            <3>1. CASE k = 2
                BY <1>1, <3>1 DEF Before
            <3>2. CASE k # 2
                <4>1. k - 2 \in 1 .. Len(rest) /\ (k - 2) + 1 = k - 1 /\ k - 1 # 1 /\ (k - 1) - 1 = k - 2
                    BY <1>1, <2>2, <3>2
                <4> QED
                    BY <1>1, <2>2, <4>1 DEF Before
            <3> QED
                BY <3>1, <3>2
        <2> QED
            BY <2>1, <2>3, <2>4, <2>5, Zenon DEF Crosses
    <1> QED
        BY <1>3, <1>4 DEF rest

-----------------------------------------------------------------------------
(* The gauge. *)

\* A handler is at work that has still to update the gauge, or one will be: a node has
\* entered or left the pool since the handlers last learned where it is.
Coming(p) == calls > 0 \/ \E n \in Nodes : Crosses(handled[n], trail[n], p)

\* Where the one update of p is that may be in progress: it has still to list, it has
\* counted k nodes, or there is none.
Lists(p)      == listing[p] = 1 /\ \A k \in Counts : counted[p][k] = 0
HasCounted(p, k) == listing[p] = 0 /\ \A j \in Counts : counted[p][j] = IF j = k THEN 1 ELSE 0
Rests(p)      == listing[p] = 0 /\ \A k \in Counts : counted[p][k] = 0

\* No count that is out of date is the last: another update is coming.
UpToDate(p) ==
    \/ Lists(p)
    \/ \E k \in Counts : HasCounted(p, k) /\ (Coming(p) \/ k = Count(p))
    \/ Rests(p) /\ (Coming(p) \/ gauge[p] = Count(p))

\* The inductive form of GaugeSettles.
GaugeInv ==
    /\ TypeOK
    /\ \A n \in Nodes : Ending(handled[n], trail[n]) = cluster[n]
    /\ \A p \in Pools \ excused : UpToDate(p)

LEMMA GaugeInit == Init => GaugeInv
    <1> SUFFICES ASSUME Init PROVE GaugeInv
        OBVIOUS
    <1>1. ASSUME NEW n \in Nodes
          PROVE  /\ handled[n] = Unwatched
                 /\ trail[n] = IF cluster[n] = Unwatched THEN <<>> ELSE <<cluster[n]>>
        BY DEF Init
    <1>2. ASSUME NEW n \in Nodes PROVE Ending(handled[n], trail[n]) = cluster[n]
        <2>1. CASE cluster[n] = Unwatched
            BY <1>1, <2>1 DEF Ending
        <2>2. CASE cluster[n] # Unwatched
            <3>1. trail[n] = <<cluster[n]>>
                BY <1>1, <2>2
            <3>2. <<cluster[n]>> # <<>> /\ <<cluster[n]>>[Len(<<cluster[n]>>)] = cluster[n]
                OBVIOUS
            <3> QED
                BY <3>1, <3>2, Zenon DEF Ending
        <2> QED
            BY <2>1, <2>2
    <1>3. ASSUME NEW p \in Pools PROVE UpToDate(p)
        <2>1. Rests(p)
            BY DEF Init, Rests
        <2>2. CASE \E n \in Nodes : cluster[n] = p
            <3>1. PICK n \in Nodes : cluster[n] = p
                BY <2>2
            <3>2. p # Unwatched
                BY MonitorAssumption DEF Unwatched
            <3>3. trail[n] = <<p>> /\ handled[n] # p
                BY <1>1, <3>1, <3>2
            <3>4. Crosses(handled[n], <<p>>, p)
                <4>1. Len(<<p>>) = 1 /\ <<p>>[1] = p /\ 1 \in 1 .. 1
                    OBVIOUS
                <4> QED
                    BY <3>3, <4>1 DEF Crosses, Before
            <3> QED
                BY <2>1, <3>3, <3>4, Zenon DEF UpToDate, Coming
        <2>3. CASE ~ \E n \in Nodes : cluster[n] = p
            <3>1. {n \in Nodes : cluster[n] = p} = {}
                BY <2>3
            <3>2. Count(p) = 0
                BY <3>1, FS_EmptySet DEF Count
            <3>3. gauge[p] = 0
                BY DEF Init
            <3> QED
                BY <2>1, <3>2, <3>3 DEF UpToDate
        <2> QED
            BY <2>2, <2>3
    <1> QED
        BY <1>2, <1>3, TypeInit DEF GaugeInv

\* A step that is not one of p's update keeps its gauge in order, if it keeps what is
\* coming and lets something come where it changes the number of nodes.
LEMMA StaysUpToDate ==
    ASSUME NEW p \in Pools, UpToDate(p),
           listing'[p] = listing[p], counted'[p] = counted[p], gauge'[p] = gauge[p],
           Coming(p) => Coming(p)', Count(p)' = Count(p) \/ Coming(p)'
    PROVE  UpToDate(p)'
    <1> DEFINE now == Coming(p)
               later == Coming(p)'
    <1>1. Lists(p) => Lists(p)'
        BY DEF Lists, Counts
    <1>2. Rests(p) => Rests(p)'
        BY DEF Rests, Counts
    <1>3. \A k : HasCounted(p, k) => HasCounted(p, k)'
        BY DEF HasCounted, Counts
    <1>4. CASE Lists(p)
        BY <1>1, <1>4 DEF UpToDate
    <1>5. CASE Rests(p) /\ (Coming(p) \/ gauge[p] = Count(p))
        <2>1. Coming(p)' \/ gauge'[p] = Count(p)'
            BY <1>5
        <2> QED
            BY <1>2, <1>5, <2>1 DEF UpToDate
    <1>6. CASE \E k \in Counts : HasCounted(p, k) /\ (Coming(p) \/ k = Count(p))
        <2>1. PICK k \in Counts : HasCounted(p, k) /\ (Coming(p) \/ k = Count(p))
            BY <1>6
        <2>2. HasCounted(p, k)' /\ (Coming(p)' \/ k = Count(p)') /\ k \in Counts'
            BY <1>3, <2>1 DEF Counts
        <2> QED
            BY <2>2 DEF UpToDate
    <1> QED
        BY <1>4, <1>5, <1>6 DEF UpToDate

LEMMA GaugeNext == GaugeInv /\ [Next]_vars => GaugeInv'
    <1> SUFFICES ASSUME GaugeInv, [Next]_vars PROVE GaugeInv'
        OBVIOUS
    <1>1. TypeOK /\ TypeOK'
        BY TypeNext DEF GaugeInv
    <1>2. \A n \in Nodes : Ending(handled[n], trail[n]) = cluster[n]
        BY DEF GaugeInv
    <1>3. ASSUME NEW n \in Nodes, Relist(n) PROVE GaugeInv'
        <2> DEFINE told == SubSeq(trail[n], 1, known[n])
                   shorter == Append(told, cluster[n])
        <2>1. /\ trail' = [trail EXCEPT ![n] = shorter] /\ excused' = Pools
              /\ UNCHANGED <<cluster, handled>>
            BY <1>3 DEF Relist
        <2>2. trail \in [Nodes -> Seq(Place)]
            BY <1>1 DEF TypeOK
        <2>3. Ending(handled[n], shorter) = cluster[n]
            <3>1. told \in Seq(Place) /\ cluster[n] \in Place
                BY <1>1, <1>3 DEF TypeOK, Relist
            <3> HIDE DEF told
            <3> QED
                BY <3>1, AppendedWay
        <2> HIDE DEF shorter
        <2>4. ASSUME NEW m \in Nodes PROVE Ending(handled[m], trail[m])' = cluster'[m]
            <3>1. CASE m = n
                <4>1. trail'[m] = shorter
                    BY <2>1, <2>2, <3>1
                <4> QED
                    BY <2>1, <2>3, <3>1, <4>1, Zenon DEF Ending
            <3>2. CASE m # n
                <4>1. trail'[m] = trail[m]
                    BY <2>1, <2>2, <3>2
                <4> QED
                    BY <1>2, <2>1, <4>1 DEF Ending
            <3> QED
                BY <3>1, <3>2
        <2> QED
            BY <1>1, <2>1, <2>4 DEF GaugeInv
    <1>4. ASSUME NEW n \in Nodes, HandleNode(n) PROVE GaugeInv'
        <2>0. known[n] > 0 /\ known[n] <= Len(trail[n]) /\ known[n] \in Nat
            BY <1>1, <1>4 DEF HandleNode, TypeOK
        <2>1. /\ calls = 0 /\ trail[n] # <<>> /\ trail[n] \in Seq(Place)
              /\ calls' = HandlerCalls(handled[n], Head(trail[n]))
              /\ handled' = [handled EXCEPT ![n] = Head(trail[n])]
              /\ trail' = [trail EXCEPT ![n] = Tail(trail[n])]
              /\ UNCHANGED <<cluster, listing, counted, gauge, excused>>
            BY <1>1, <1>4, <2>0 DEF HandleNode, TypeOK, gaugeVars
        <2>2. /\ handled'[n] = Head(trail[n]) /\ trail'[n] = Tail(trail[n])
              /\ \A m \in Nodes : m # n => handled'[m] = handled[m] /\ trail'[m] = trail[m]
            BY <1>1, <2>1 DEF TypeOK
        <2>3. ASSUME NEW m \in Nodes PROVE Ending(handled[m], trail[m])' = cluster'[m]
            <3>1. CASE m = n
                <4>1. Ending(Head(trail[n]), Tail(trail[n])) = cluster[n]
                    BY <1>2, <2>1, HandledWay
                <4> QED
                    BY <2>1, <2>2, <3>1, <4>1 DEF Ending
            <3>2. CASE m # n
                BY <1>2, <2>1, <2>2, <3>2 DEF Ending
            <3> QED
                BY <3>1, <3>2
        <2>4. ASSUME NEW p \in Pools, Coming(p) PROVE Coming(p)'
            <3>1. PICK m \in Nodes : Crosses(handled[m], trail[m], p)
                BY <2>1, <2>4 DEF Coming
            <3>2. CASE m # n
                <4>1. Crosses(handled'[m], trail'[m], p)
                    BY <2>2, <3>1, <3>2
                <4> QED
                    BY <4>1 DEF Coming, Crosses, Before
            <3>3. CASE m = n
                <4>1. CASE ~(handled[n] = p <=> Head(trail[n]) = p)
                    <5>1. calls' > 0
                        BY <2>1, <4>1, CallsMade
                    <5> QED
                        BY <5>1 DEF Coming
                <4>2. CASE handled[n] = p <=> Head(trail[n]) = p
                    <5>1. Crosses(Head(trail[n]), Tail(trail[n]), p)
                        BY <2>1, <3>1, <3>3, <4>2, HandledWay
                    <5>2. Crosses(handled'[n], trail'[n], p)
                        BY <2>2, <5>1
                    <5> QED
                        BY <5>2 DEF Coming, Crosses, Before
                <4> QED
                    BY <4>1, <4>2
            <3> QED
                BY <3>2, <3>3
        <2>5. ASSUME NEW p \in Pools \ excused PROVE UpToDate(p)'
            <3>1. Count(p)' = Count(p)
                BY <2>1 DEF Count
            <3>2. UpToDate(p)
                BY DEF GaugeInv
            <3> QED
                BY <2>1, <2>4, <3>1, <3>2, StaysUpToDate
        <2> QED
            BY <1>1, <2>1, <2>3, <2>5 DEF GaugeInv
    <1>5. ASSUME NEW n \in Nodes, NEW place \in Place, ChangeNode(n, place) PROVE GaugeInv'
        <2>1. /\ trail[n] \in Seq(Place)
              /\ cluster' = [cluster EXCEPT ![n] = place]
              /\ trail' = [trail EXCEPT ![n] = Append(trail[n], place)]
              /\ UNCHANGED <<handled, calls, listing, counted, gauge, excused>>
            BY <1>1, <1>5 DEF ChangeNode, TypeOK, gaugeVars
        <2>2. /\ cluster'[n] = place /\ trail'[n] = Append(trail[n], place)
              /\ \A m \in Nodes : m # n => cluster'[m] = cluster[m] /\ trail'[m] = trail[m]
            BY <1>1, <2>1 DEF TypeOK
        <2>3. ASSUME NEW m \in Nodes PROVE Ending(handled[m], trail[m])' = cluster'[m]
            <3>1. CASE m = n
                <4>1. Ending(handled[n], Append(trail[n], place)) = place
                    BY <2>1, AppendedWay
                <4> QED
                    BY <2>1, <2>2, <3>1, <4>1 DEF Ending
            <3>2. CASE m # n
                BY <1>2, <2>1, <2>2, <3>2 DEF Ending
            <3> QED
                BY <3>1, <3>2
        <2>4. ASSUME NEW p \in Pools, Coming(p) PROVE Coming(p)'
            <3>1. CASE calls > 0
                BY <2>1, <3>1 DEF Coming
            <3>2. CASE \E m \in Nodes : Crosses(handled[m], trail[m], p)
                <4>1. PICK m \in Nodes : Crosses(handled[m], trail[m], p)
                    BY <3>2
                <4>2. CASE m = n
                    <5>1. Crosses(handled[n], Append(trail[n], place), p)
                        BY <2>1, <4>1, <4>2, AppendedWay
                    <5>2. Crosses(handled'[n], trail'[n], p)
                        BY <2>1, <2>2, <5>1
                    <5> QED
                        BY <5>2 DEF Coming, Crosses, Before
                <4>3. CASE m # n
                    <5>1. Crosses(handled'[m], trail'[m], p)
                        BY <2>1, <2>2, <4>1, <4>3
                    <5> QED
                        BY <5>1 DEF Coming, Crosses, Before
                <4> QED
                    BY <4>2, <4>3
            <3> QED
                BY <2>4, <3>1, <3>2 DEF Coming
        <2>5. ASSUME NEW p \in Pools PROVE Count(p)' = Count(p) \/ Coming(p)'
            <3>1. CASE cluster[n] = p <=> place = p
                <4>1. {m \in Nodes : cluster'[m] = p} = {m \in Nodes : cluster[m] = p}
                    BY <2>2, <3>1
                <4> QED
                    BY <4>1 DEF Count
            <3>2. CASE ~(cluster[n] = p <=> place = p)
                <4>1. Ending(handled[n], trail[n]) = cluster[n]
                    BY <1>2
                <4>2. Crosses(handled[n], Append(trail[n], place), p)
                    BY <2>1, <3>2, <4>1, AppendedWay
                <4>3. Crosses(handled'[n], trail'[n], p)
                    BY <2>1, <2>2, <4>2
                <4> QED
                    BY <4>3 DEF Coming, Crosses, Before
            <3> QED
                BY <3>1, <3>2
        <2>6. ASSUME NEW p \in Pools \ excused PROVE UpToDate(p)'
            <3>1. UpToDate(p)
                BY DEF GaugeInv
            <3> QED
                BY <2>1, <2>4, <2>5, <3>1, StaysUpToDate
        <2> QED
            BY <1>1, <2>1, <2>3, <2>6 DEF GaugeInv
    <1>6. CASE EndCall
        <2>1. UNCHANGED <<cluster, handled, trail>>
            BY <1>6 DEF EndCall
        <2>2. \A n \in Nodes : Ending(handled[n], trail[n])' = cluster'[n]
            BY <1>2, <2>1 DEF Ending
        <2>3. CASE excused' = Pools
            BY <1>1, <2>2, <2>3 DEF GaugeInv
        <2>4. CASE updateNodeCountMetrics
            <3>1. ASSUME NEW p \in Pools \ excused' PROVE UpToDate(p)'
                <4>1. ~InFlight(p) /\ listing'[p] = listing[p] + 1 /\ counted' = counted
                    BY <2>4, <3>1 DEF updateNodeCountMetrics
                <4>2. /\ listing[p] \in 0 .. MaxUpdates
                      /\ \A k \in Counts : counted[p][k] \in 0 .. MaxUpdates
                    BY <1>1 DEF TypeOK
                <4>3. listing[p] = 0 /\ \A k \in Counts : counted[p][k] = 0
                    BY <4>1, <4>2, MonitorAssumption DEF InFlight
                <4>4. Lists(p)'
                    BY <4>1, <4>3 DEF Lists, Counts
                <4> QED
                    BY <4>4 DEF UpToDate
            <3> QED
                BY <1>1, <2>2, <3>1 DEF GaugeInv
        <2> QED
            BY <1>6, <2>3, <2>4 DEF EndCall
    <1>7. ASSUME NEW q \in Pools, GetNodesByNodepool(q) PROVE GaugeInv'
        <2>1. UNCHANGED <<cluster, handled, trail, calls, gauge>> /\ excused \subseteq excused'
            BY <1>7 DEF GetNodesByNodepool, clusterVars
        <2>2. \A n \in Nodes : Ending(handled[n], trail[n])' = cluster'[n]
            BY <1>2, <2>1 DEF Ending
        <2>3. ASSUME NEW p \in Pools PROVE (Coming(p)' <=> Coming(p)) /\ Count(p)' = Count(p)
            BY <2>1 DEF Coming, Count, Crosses, Before
        <2>4. ASSUME NEW p \in Pools \ excused', p # q PROVE UpToDate(p)'
            <3>1. listing'[p] = listing[p] /\ counted'[p] = counted[p] /\ gauge'[p] = gauge[p]
                BY <1>1, <1>7, <2>1, <2>4 DEF GetNodesByNodepool, TypeOK
            <3>2. UpToDate(p)
                BY <2>1 DEF GaugeInv
            <3> QED
                BY <2>3, <3>1, <3>2, StaysUpToDate
        <2>5. CASE q \notin excused'
            <3>1. listing[q] > 0 /\ listing' = [listing EXCEPT ![q] = listing[q] - 1]
                  /\ counted' = [counted EXCEPT ![q][Count(q)] = @ + 1]
                BY <1>7, <2>5 DEF GetNodesByNodepool
            <3>2. Lists(q)
                BY <2>1, <2>5, <3>1 DEF GaugeInv, UpToDate, HasCounted, Rests
            <3>0. PICK k \in Counts : k = Count(q)
                BY CountInCounts
            <3>3. k \in Counts /\ Count(q)' = k
                BY <2>3, <3>0
            <3>4. counted' = [counted EXCEPT ![q] = [counted[q] EXCEPT ![k] = counted[q][k] + 1]]
                BY <3>1, <3>0
            <3>5. counted \in [Pools -> [Counts -> 0 .. MaxUpdates]] /\ listing \in [Pools -> 0 .. MaxUpdates]
                BY <1>1 DEF TypeOK
            <3>6. listing'[q] = 0
                BY <3>1, <3>2, <3>5 DEF Lists
            <3>7. \A j \in Counts : counted'[q][j] = IF j = k THEN 1 ELSE 0
                BY <3>2, <3>3, <3>4, <3>5 DEF Lists
            <3>8. HasCounted(q, k)' /\ k \in Counts'
                BY <3>3, <3>6, <3>7 DEF HasCounted, Counts
            <3>9. UpToDate(q)'
                BY <3>3, <3>8 DEF UpToDate
            <3> QED
                BY <1>1, <2>2, <2>4, <3>9 DEF GaugeInv
        <2>6. CASE q \in excused'
            BY <1>1, <2>2, <2>4, <2>6 DEF GaugeInv
        <2> QED
            BY <2>5, <2>6
    <1>8. ASSUME NEW q \in Pools, UpdateNodesWatched(q) PROVE GaugeInv'
        <2>1. UNCHANGED <<cluster, handled, trail, calls, listing, excused>>
            BY <1>8 DEF UpdateNodesWatched, clusterVars
        <2>2. \A n \in Nodes : Ending(handled[n], trail[n])' = cluster'[n]
            BY <1>2, <2>1 DEF Ending
        <2>3. ASSUME NEW p \in Pools PROVE (Coming(p)' <=> Coming(p)) /\ Count(p)' = Count(p)
            BY <2>1 DEF Coming, Count, Crosses, Before
        <2>4. PICK k \in Counts : /\ counted[q][k] > 0
                                 /\ counted' = [counted EXCEPT ![q][k] = @ - 1]
                                 /\ gauge' = [gauge EXCEPT ![q] = k]
            BY <1>8 DEF UpdateNodesWatched
        <2>5. /\ counted \in [Pools -> [Counts -> 0 .. MaxUpdates]]
              /\ gauge \in [Pools -> Counts] /\ listing \in [Pools -> 0 .. MaxUpdates]
            BY <1>1 DEF TypeOK
        <2>6. ASSUME NEW p \in Pools \ excused', p # q PROVE UpToDate(p)'
            <3>1. listing'[p] = listing[p] /\ counted'[p] = counted[p] /\ gauge'[p] = gauge[p]
                BY <2>1, <2>4, <2>5, <2>6
            <3>2. UpToDate(p)
                BY <2>1 DEF GaugeInv
            <3> QED
                BY <2>3, <3>1, <3>2, StaysUpToDate
        <2>7. CASE q \notin excused'
            <3>1. \E j \in Counts : HasCounted(q, j) /\ (Coming(q) \/ j = Count(q))
                BY <2>1, <2>4, <2>7 DEF GaugeInv, UpToDate, Lists, Rests
            <3>2. PICK j \in Counts : HasCounted(q, j) /\ (Coming(q) \/ j = Count(q))
                BY <3>1
            <3>3. j = k
                BY <2>4, <3>2 DEF HasCounted
            <3>4. gauge'[q] = k /\ listing'[q] = 0
                BY <2>1, <2>4, <2>5, <3>2 DEF HasCounted
            <3>5. \A i \in Counts : counted'[q][i] = 0
                <4>1. counted' = [counted EXCEPT ![q] = [counted[q] EXCEPT ![k] = counted[q][k] - 1]]
                    BY <2>4
                <4> QED
                    BY <2>5, <3>2, <3>3, <4>1 DEF HasCounted
            <3>6. Rests(q)'
                BY <3>4, <3>5 DEF Rests, Counts
            <3>7. Coming(q)' \/ gauge'[q] = Count(q)'
                BY <2>3, <3>2, <3>3, <3>4
            <3>8. UpToDate(q)'
                BY <3>6, <3>7 DEF UpToDate
            <3> QED
                BY <1>1, <2>2, <2>6, <3>8 DEF GaugeInv
        <2>8. CASE q \in excused'
            BY <1>1, <2>2, <2>6, <2>8 DEF GaugeInv
        <2> QED
            BY <2>7, <2>8
    <1>9. CASE UNCHANGED <<cluster, handled, trail, calls, gaugeVars>>
        <2>1. UNCHANGED <<cluster, handled, trail, calls, listing, counted, gauge, excused>>
            BY <1>9 DEF gaugeVars
        <2>2. \A n \in Nodes : Ending(handled[n], trail[n])' = cluster'[n]
            BY <1>2, <2>1 DEF Ending
        <2>3. ASSUME NEW p \in Pools \ excused PROVE UpToDate(p)'
            <3>1. (Coming(p)' <=> Coming(p)) /\ Count(p)' = Count(p)
                BY <2>1 DEF Coming, Count, Crosses, Before
            <3>2. UpToDate(p)
                BY DEF GaugeInv
            <3> QED
                BY <2>1, <3>1, <3>2, StaysUpToDate
        <2> QED
            BY <1>1, <2>1, <2>2, <2>3 DEF GaugeInv
    <1> QED
        BY <1>3, <1>4, <1>5, <1>6, <1>7, <1>8, <1>9
           DEF Next, Observe, verifyWatchConsistency, EndTerm, vars, clusterVars

\* At rest the gauge of a pool shows how many nodes it has, unless its last update failed
\* or overlapped another, or the watch lost states: a count that is out of date always
\* has another update behind it (handleNodeEvent, updateNodeCountMetrics).
THEOREM GaugeIsRightAtRest == Spec => []GaugeSettles
    <1>1. ASSUME GaugeInv, Settled, NEW p \in Pools \ excused PROVE gauge[p] = Count(p)
        <2>1. listing[p] \in Nat /\ \A k \in Counts : counted[p][k] \in Nat
            BY <1>1, MonitorAssumption DEF GaugeInv, TypeOK
        <2>2. ~Lists(p) /\ \A k \in Counts : ~HasCounted(p, k)
            BY <1>1, <2>1 DEF Settled, InFlight, Lists, HasCounted
        <2>3. ~Coming(p)
            <3>1. calls = 0 /\ \A n \in Nodes : trail[n] = <<>>
                BY <1>1 DEF Settled
            <3>2. \A n \in Nodes : ~Crosses(handled[n], trail[n], p)
                <4>1. \A from : ~Crosses(from, <<>>, p)
                    BY DEF Crosses
                <4> QED
                    BY <3>1, <4>1, Zenon
            <3> QED
                BY <3>1, <3>2 DEF Coming
        <2>4. UpToDate(p)
            BY <1>1 DEF GaugeInv
        <2> QED
            BY <2>2, <2>3, <2>4, Zenon DEF UpToDate
    <1>2. GaugeInv => GaugeSettles
        BY <1>1 DEF GaugeSettles
    <1> QED
        BY GaugeInit, GaugeNext, <1>2, PTL DEF Spec
=============================================================================
