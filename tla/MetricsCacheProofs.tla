------------------------- MODULE MetricsCacheProofs -------------------------
(***************************************************************************)
(* Theorems about MetricsCache, for any pods and nodes and any number of   *)
(* changes and stalls: whatever the three threads write back, the index    *)
(* and the windows stay sound.                                             *)
(***************************************************************************)
EXTENDS MetricsCache, FiniteSetTheorems, TLAPS

CacheTypeOK ==
  /\ podsByName \in [Pod -> PodEntry \cup {NoEntry}]
  /\ podsByNode \in [Node -> SUBSET Pod]
  /\ nodesByName \in [Node -> Allocation \cup {NoEntry}]
  /\ podWindows \subseteq Pod

ThreadsTypeOK ==
  /\ podHandler \in PodHandler
  /\ nodeHandler \in NodeHandler
  /\ collector \in Collector

CacheInv == TypeOK /\ IndexIsSound /\ WindowsBelongToPods

LEMMA InitInv == Init => CacheInv
<1> SUFFICES ASSUME Init PROVE CacheInv
  OBVIOUS
<1>1. Cached = {}
  BY DEF Init, Cached
<1>2. TypeOK
  BY CacheAssumption DEF Init, TypeOK, Idle, PodHandler, NodeHandler, Collector, Binding
<1>3. QED
  BY <1>1, <1>2 DEF Init, CacheInv, IndexIsSound, WindowsBelongToPods

(* How many pods are indexed on a node is never more than there are.       *)
LEMMA CountIsAllocation ==
  ASSUME CacheTypeOK, NEW n \in Node
  PROVE  Cardinality(podsByNode[n]) \in Allocation
<1>1. podsByNode[n] \subseteq Pod
  BY DEF CacheTypeOK
<1>2. QED
  BY <1>1, CacheAssumption, FS_Subset, FS_CardinalityType DEF Allocation

(* SetPod moves the pod to the node of its new entry.                      *)
LEMMA SetPodIsSound ==
  ASSUME CacheTypeOK, IndexIsSound, NEW p \in Pod, NEW entry \in PodEntry,
         SetPod(p, entry), UNCHANGED nodesByName
  PROVE  /\ CacheTypeOK' /\ IndexIsSound'
         /\ Cached' = Cached \cup {p}
         /\ podWindows' = podWindows \cup {p}
<1>1. entry # NoEntry
  BY CacheAssumption
<1>2. /\ podsByName' = [podsByName EXCEPT ![p] = entry]
      /\ podWindows' = podWindows \cup {p}
  BY DEF SetPod
<1>3. Cached' = Cached \cup {p}
  BY <1>1, <1>2 DEF Cached, CacheTypeOK
<1>4. podsByNode' \in [Node -> SUBSET Pod]
  BY DEF SetPod, CacheTypeOK
<1>5. ASSUME NEW n \in Node, NEW q \in podsByNode'[n]
      PROVE  q \in Cached' /\ podsByName'[q].node = n
  <2>1. CASE q = p
    <3>1. entry.node = n
      <4> SUFFICES ASSUME entry.node # n PROVE FALSE
        OBVIOUS
      <4>1. p \in podsByNode[n]
        BY <1>5, <2>1 DEF SetPod, CacheTypeOK, PodEntry, Binding
      <4>2. podsByName[p] # NoEntry /\ podsByName[p].node = n /\ n # Unbound
        BY <4>1, CacheAssumption DEF IndexIsSound, Cached
      <4>3. p \notin [podsByNode EXCEPT ![n] = @ \ {p}][n]
        BY DEF CacheTypeOK
      <4>4. QED
        BY <1>5, <2>1, <4>2, <4>3 DEF SetPod, CacheTypeOK, PodEntry, Binding
    <3>2. QED
      BY <3>1, <2>1, <1>2, <1>3 DEF CacheTypeOK
  <2>2. CASE q # p
    <3>1. q \in podsByNode[n]
      BY <1>5, <2>2 DEF SetPod, CacheTypeOK
    <3>2. q \in Cached /\ podsByName[q].node = n
      BY <3>1 DEF IndexIsSound
    <3>3. QED
      BY <3>2, <2>2, <1>2, <1>3 DEF CacheTypeOK, Cached
  <2>3. QED
    BY <2>1, <2>2
<1>6. QED
  BY <1>2, <1>3, <1>4, <1>5 DEF CacheTypeOK, IndexIsSound

(* A removed pod leaves the index, and its window goes with it.            *)
LEMMA RemovePodsIsSound ==
  ASSUME CacheTypeOK, IndexIsSound, NEW gone \in SUBSET Pod,
         RemovePods(gone), UNCHANGED nodesByName
  PROVE  /\ CacheTypeOK' /\ IndexIsSound'
         /\ Cached' = Cached \ gone
         /\ podWindows' = podWindows \ (gone \cap Cached)
<1>1. Cached' = Cached \ gone
  BY DEF RemovePods, Cached, CacheTypeOK
<1>2. CacheTypeOK'
  BY DEF RemovePods, CacheTypeOK
<1>3. ASSUME NEW n \in Node, NEW q \in podsByNode'[n]
      PROVE  q \in Cached' /\ podsByName'[q].node = n
  <2>1. q \in podsByNode[n] /\ q \notin {r \in gone \cap Cached : podsByName[r].node = n}
    BY <1>3 DEF RemovePods, CacheTypeOK
  <2>2. q \in Cached /\ podsByName[q].node = n
    BY <2>1 DEF IndexIsSound
  <2>3. q \notin gone
    BY <2>1, <2>2
  <2>4. QED
    BY <1>1, <2>2, <2>3 DEF RemovePods, Cached
<1>4. QED
  BY <1>1, <1>2, <1>3 DEF RemovePods, IndexIsSound

(* The methods on nodes.                                                   *)
LEMMA NodesAreSound ==
  ASSUME CacheTypeOK, IndexIsSound, NEW n \in Node, UNCHANGED <<podsByName, podWindows>>,
         \/ (\E a \in Allocation \cup {NoEntry} : SetNode(n, a)) /\ UNCHANGED podsByNode
         \/ DeleteNode(n)
         \/ RecalculateNodeHeadroom(n) /\ UNCHANGED podsByNode
  PROVE  CacheTypeOK' /\ IndexIsSound' /\ Cached' = Cached
<1>1. Cached' = Cached
  BY DEF Cached
<1>2. CASE (\E a \in Allocation \cup {NoEntry} : SetNode(n, a)) /\ UNCHANGED podsByNode
  BY <1>1, <1>2 DEF SetNode, CacheTypeOK, IndexIsSound
<1>3. CASE DeleteNode(n)
  <2>1. CacheTypeOK'
    BY <1>3 DEF DeleteNode, CacheTypeOK
  <2>2. \A m \in Node : podsByNode'[m] \subseteq podsByNode[m]
    BY <1>3 DEF DeleteNode, CacheTypeOK
  <2>3. QED
    BY <1>1, <2>1, <2>2 DEF IndexIsSound
<1>4. CASE RecalculateNodeHeadroom(n) /\ UNCHANGED podsByNode
  <2>1. Cardinality(podsByNode[n]) \in Allocation
    BY CountIsAllocation
  <2>2. nodesByName' \in [Node -> Allocation \cup {NoEntry}]
    BY <1>4, <2>1 DEF RecalculateNodeHeadroom, CacheTypeOK
  <2>3. QED
    BY <1>1, <1>4, <2>2 DEF CacheTypeOK, IndexIsSound
<1>5. QED
  BY <1>2, <1>3, <1>4

(* The cluster and what is heard of it.                                    *)
ClusterTypeOK ==
  /\ apiPods \in [Pod -> Binding \cup {Absent}]
  /\ heardPods \in [Pod -> Binding \cup {Absent}]
  /\ apiNodes \subseteq Node /\ heardNodes \subseteq Node
  /\ changes \in 0 .. MaxChanges /\ stalls \in 0 .. MaxStalls

LEMMA TypeParts == TypeOK <=> ClusterTypeOK /\ CacheTypeOK /\ ThreadsTypeOK
BY DEF TypeOK, ClusterTypeOK, CacheTypeOK, ThreadsTypeOK

LEMMA EnvironmentKeepsInv ==
  ASSUME CacheInv,
         \/ \E p \in Pod, binding \in Binding \cup {Absent} : ChangePod(p, binding)
         \/ \E n \in Node : ChangeNode(n)
         \/ Stall
  PROVE  CacheInv'
<1> USE CacheAssumption DEF CacheInv
<1>1. ASSUME NEW p \in Pod, NEW binding \in Binding \cup {Absent}, ChangePod(p, binding)
      PROVE  CacheInv'
  <2>1. Cached' = Cached
    BY <1>1 DEF ChangePod, cacheVars, Cached
  <2>2. QED
    BY <1>1, <2>1 DEF ChangePod, cacheVars, TypeOK, IndexIsSound, WindowsBelongToPods
<1>2. ASSUME NEW n \in Node, ChangeNode(n)
      PROVE  CacheInv'
  <2>1. Cached' = Cached
    BY <1>2 DEF ChangeNode, cacheVars, Cached
  <2>2. QED
    BY <1>2, <2>1 DEF ChangeNode, cacheVars, TypeOK, IndexIsSound, WindowsBelongToPods
<1>3. CASE Stall
  <2>1. \A p \in Pod : p \in Cached =>
          /\ podsByName[p] \in PodEntry
          /\ podsByName'[p] = [podsByName[p] EXCEPT !.stale = TRUE]
    BY <1>3 DEF Stall, TypeOK, Cached
  <2>2. \A p \in Pod : p \in Cached =>
          podsByName'[p] \in PodEntry /\ podsByName'[p].node = podsByName[p].node
    BY <2>1 DEF PodEntry
  <2>3. \A p \in Pod : p \notin Cached => podsByName'[p] = NoEntry
    BY <1>3 DEF Stall
  <2>4. podsByName' \in [Pod -> PodEntry \cup {NoEntry}]
    <3>1. podsByName' = [p \in Pod |-> podsByName'[p]]
      BY <1>3 DEF Stall
    <3>2. QED
      BY <2>2, <2>3, <3>1
  <2>5. Cached' = Cached
    BY <2>2, <2>3 DEF Cached
  <2>6. TypeOK'
    BY <1>3, <2>4 DEF Stall, TypeOK
  <2>7. IndexIsSound'
    BY <1>3, <2>2, <2>5 DEF Stall, IndexIsSound, TypeOK
  <2>8. WindowsBelongToPods'
    BY <1>3, <2>5 DEF Stall, WindowsBelongToPods
  <2>9. QED
    BY <2>6, <2>7, <2>8
<1>4. QED
  BY <1>1, <1>2, <1>3

LEMMA PodHandlerKeepsInv ==
  ASSUME CacheInv, PodHandlerStep \/ \E p \in Pod : ReceivePod(p) \/ ReceivePodDelete(p)
  PROVE  CacheInv'
<1> USE CacheAssumption DEF CacheInv
<1>1. CacheTypeOK
  BY TypeParts
<1>2. ASSUME NEW p \in Pod, ReceivePod(p)
      PROVE  CacheInv'
  <2>1. Cached' = Cached
    BY <1>2 DEF ReceivePod, cacheVars, Cached
  <2>2. podHandler' \in PodHandler
    <3>1. apiPods[p] \in Binding
      BY <1>2 DEF ReceivePod, TypeOK
    <3>2. (p \in Cached /\ podsByName[p].scraped) \in BOOLEAN
      BY DEF TypeOK, PodEntry, Cached
    <3>3. QED
      BY <1>2, <3>1, <3>2 DEF ReceivePod, PodHandler
  <2>3. TypeOK'
    BY <1>2, <2>2 DEF ReceivePod, cacheVars, TypeOK
  <2>4. QED
    BY <1>2, <2>1, <2>3 DEF ReceivePod, cacheVars, IndexIsSound, WindowsBelongToPods
<1>3. ASSUME NEW p \in Pod, ReceivePodDelete(p)
      PROVE  CacheInv'
  <2>1. /\ CacheTypeOK' /\ IndexIsSound'
        /\ Cached' = Cached \ {p}
        /\ podWindows' = podWindows \ ({p} \cap Cached)
    <3>1. RemovePods({p}) /\ UNCHANGED nodesByName
      BY <1>3 DEF ReceivePodDelete
    <3>2. QED
      BY <1>1, <3>1, RemovePodsIsSound
  <2>2. ThreadsTypeOK'
    BY <1>3 DEF ReceivePodDelete, TypeOK, ThreadsTypeOK, PodHandler
  <2>3. ClusterTypeOK'
    BY <1>3 DEF ReceivePodDelete, TypeOK, ClusterTypeOK
  <2>4. TypeOK'
    BY <2>1, <2>2, <2>3 DEF TypeOK, ClusterTypeOK, CacheTypeOK, ThreadsTypeOK
  <2>5. WindowsBelongToPods'
    BY <1>3, <2>1 DEF ReceivePodDelete, WindowsBelongToPods
  <2>6. QED
    BY <2>1, <2>4, <2>5
<1>4. CASE SyncPod
  <2> DEFINE p == podHandler.pod
             entry == [node |-> podHandler.node, scraped |-> podHandler.scraped, stale |-> FALSE]
  <2>1. p \in Pod /\ entry \in PodEntry
    BY <1>4 DEF SyncPod, TypeOK, PodHandler, PodEntry
  <2>2. SetPod(p, entry) /\ UNCHANGED nodesByName
    BY <1>4 DEF SyncPod
  <2> HIDE DEF p, entry
  <2>3. /\ CacheTypeOK' /\ IndexIsSound'
        /\ Cached' = Cached \cup {p}
        /\ podWindows' = podWindows \cup {p}
    BY <1>1, <2>1, <2>2, SetPodIsSound
  <2>4. ThreadsTypeOK'
    BY <1>4 DEF SyncPod, TypeOK, ThreadsTypeOK, PodHandler
  <2>5. TypeOK'
    BY <1>4, <2>3, <2>4 DEF SyncPod, clusterVars, TypeOK, CacheTypeOK, ThreadsTypeOK
  <2>6. WindowsBelongToPods'
    BY <1>4, <2>3 DEF SyncPod, WindowsBelongToPods
  <2>7. QED
    BY <2>3, <2>5, <2>6
<1>5. CASE PodRecalculate
  <2>1. CacheTypeOK' /\ IndexIsSound' /\ Cached' = Cached
    <3>1. CASE podHandler.node \in Node
      BY <1>1, <1>5, <3>1, NodesAreSound DEF PodRecalculate
    <3>2. CASE podHandler.node \notin Node
      BY <1>1, <1>5, <3>2
         DEF PodRecalculate, RecalculateNodeHeadroom, CacheTypeOK, IndexIsSound, Cached
    <3>3. QED
      BY <3>1, <3>2
  <2>2. ThreadsTypeOK'
    BY <1>5 DEF PodRecalculate, TypeOK, ThreadsTypeOK, PodHandler, Idle
  <2>3. TypeOK'
    BY <1>5, <2>1, <2>2 DEF PodRecalculate, clusterVars, TypeOK, CacheTypeOK, ThreadsTypeOK
  <2>4. QED
    BY <1>5, <2>1, <2>3 DEF PodRecalculate, WindowsBelongToPods
<1>6. QED
  BY <1>2, <1>3, <1>4, <1>5 DEF PodHandlerStep

LEMMA NodeHandlerKeepsInv ==
  ASSUME CacheInv, NodeHandlerStep \/ \E n \in Node : ReceiveNode(n) \/ ReceiveNodeDelete(n)
  PROVE  CacheInv'
<1> USE CacheAssumption DEF CacheInv
<1>1. CacheTypeOK
  BY TypeParts
<1>2. ASSUME NEW n \in Node, ReceiveNode(n)
      PROVE  CacheInv'
  <2>1. Cached' = Cached
    BY <1>2 DEF ReceiveNode, cacheVars, Cached
  <2>2. TypeOK'
    BY <1>2 DEF ReceiveNode, cacheVars, TypeOK, NodeHandler
  <2>3. QED
    BY <1>2, <2>1, <2>2 DEF ReceiveNode, cacheVars, IndexIsSound, WindowsBelongToPods
<1>3. ASSUME NEW n \in Node, ReceiveNodeDelete(n)
      PROVE  CacheInv'
  <2>1. CacheTypeOK' /\ IndexIsSound' /\ Cached' = Cached
    BY <1>1, <1>3, NodesAreSound DEF ReceiveNodeDelete
  <2>2. TypeOK'
    BY <1>3, <2>1 DEF ReceiveNodeDelete, TypeOK, CacheTypeOK
  <2>3. QED
    BY <1>3, <2>1, <2>2 DEF ReceiveNodeDelete, WindowsBelongToPods
<1>4. CASE SyncNode
  <2>1. CacheTypeOK' /\ IndexIsSound' /\ Cached' = Cached
    <3>1. nodeHandler.node \in Node
      BY <1>4 DEF SyncNode, TypeOK, NodeHandler
    <3>2. 0 \in Allocation
      BY FS_CardinalityType DEF Allocation
    <3>3. QED
      BY <1>1, <1>4, <3>1, <3>2, NodesAreSound DEF SyncNode
  <2>2. TypeOK'
    BY <1>4, <2>1 DEF SyncNode, clusterVars, TypeOK, CacheTypeOK, NodeHandler
  <2>3. QED
    BY <1>4, <2>1, <2>2 DEF SyncNode, WindowsBelongToPods
<1>5. CASE NodeRecalculate
  <2>1. CacheTypeOK' /\ IndexIsSound' /\ Cached' = Cached
    <3>1. nodeHandler.node \in Node
      BY <1>5 DEF NodeRecalculate, TypeOK, NodeHandler
    <3>2. QED
      BY <1>1, <1>5, <3>1, NodesAreSound DEF NodeRecalculate
  <2>2. TypeOK'
    BY <1>5, <2>1 DEF NodeRecalculate, clusterVars, TypeOK, CacheTypeOK, NodeHandler, Idle
  <2>3. QED
    BY <1>5, <2>1, <2>2 DEF NodeRecalculate, WindowsBelongToPods
<1>6. QED
  BY <1>2, <1>3, <1>4, <1>5 DEF NodeHandlerStep

(* What the collector has left of its clones is a function of fewer pods.  *)
LEMMA RestOfView ==
  ASSUME NEW view \in PodView, NEW p
  PROVE  [q \in DOMAIN view \ {p} |-> view[q]] \in PodView
<1>1. PICK S \in SUBSET Pod : view \in [S -> PodEntry]
  BY DEF PodView
<1>2. [q \in S \ {p} |-> view[q]] \in [S \ {p} -> PodEntry]
  BY <1>1
<1>3. S \ {p} \in SUBSET Pod /\ DOMAIN view = S
  BY <1>1
<1>4. QED
  BY <1>2, <1>3 DEF PodView

LEMMA RestOfNodes ==
  ASSUME NEW view \in NodeView, NEW n
  PROVE  [m \in DOMAIN view \ {n} |-> view[m]] \in NodeView
<1>1. PICK S \in SUBSET Node : view \in [S -> Allocation]
  BY DEF NodeView
<1>2. [m \in S \ {n} |-> view[m]] \in [S \ {n} -> Allocation]
  BY <1>1
<1>3. S \ {n} \in SUBSET Node /\ DOMAIN view = S
  BY <1>1
<1>4. QED
  BY <1>2, <1>3 DEF NodeView

LEMMA CollectorKeepsPods ==
  ASSUME CacheInv, BeginCycle \/ WritePod \/ PruneStale \/ \E p \in Pod : RecordSample(p)
  PROVE  CacheInv'
<1> USE CacheAssumption DEF CacheInv
<1>1. CacheTypeOK
  BY TypeParts
<1>2. CASE BeginCycle
  <2>1. Cached' = Cached
    BY <1>2 DEF BeginCycle, cacheVars, Cached
  <2>2. [p \in Cached |-> podsByName[p]] \in PodView
    <3>1. \A p \in Cached : podsByName[p] \in PodEntry
      BY DEF TypeOK, Cached
    <3>2. Cached \in SUBSET Pod
      BY DEF Cached
    <3>3. QED
      BY <3>1, <3>2 DEF PodView
  <2>3. collector' \in Collector
    BY <1>2, <2>2 DEF BeginCycle, EndOfPods, Collector
  <2>4. TypeOK'
    BY <1>2, <2>3 DEF BeginCycle, clusterVars, cacheVars, TypeOK
  <2>5. collector.at # "write"
    BY <1>2 DEF BeginCycle, Idle
  <2>6. QED
    BY <1>2, <2>1, <2>4, <2>5
       DEF BeginCycle, cacheVars, IndexIsSound, WindowsBelongToPods
<1>3. ASSUME NEW p \in Pod, RecordSample(p)
      PROVE  CacheInv'
  <2>1. Cached' = Cached
    BY <1>3 DEF RecordSample, Cached
  <2>2. collector' \in Collector
    BY <1>3 DEF RecordSample, TypeOK, Collector
  <2>3. TypeOK'
    BY <1>3, <2>2 DEF RecordSample, clusterVars, TypeOK
  <2>4. WindowsBelongToPods'
    BY <1>3, <2>1 DEF RecordSample, WindowsBelongToPods
  <2>5. QED
    BY <1>3, <2>1, <2>3, <2>4 DEF RecordSample, IndexIsSound
<1>4. CASE WritePod
  <2> DEFINE p == collector.pod
             entry == [node |-> collector.view[p].node, scraped |-> TRUE, stale |-> FALSE]
  <2>1. collector.view \in PodView /\ p \in DOMAIN collector.view /\ p \in Pod
    BY <1>4 DEF WritePod, TypeOK, Collector
  <2>2. entry \in PodEntry
    BY <2>1 DEF PodView, PodEntry
  <2>3. SetPod(p, entry) /\ UNCHANGED nodesByName
    BY <1>4 DEF WritePod
  <2>4. collector' \in Collector
    <3>1. [q \in DOMAIN collector.view \ {p} |-> collector.view[q]] \in PodView
      BY <2>1, RestOfView
    <3>2. QED
      BY <1>4, <3>1 DEF WritePod, EndOfPods, Collector
  <2>5. /\ CacheTypeOK' /\ IndexIsSound'
        /\ Cached' = Cached \cup {p}
        /\ podWindows' = podWindows \cup {p}
    <3> HIDE DEF entry
    <3>1. QED
      BY <1>1, <2>1, <2>2, <2>3, SetPodIsSound
  <2>6. TypeOK'
    BY <1>4, <2>4, <2>5 DEF WritePod, clusterVars, TypeOK, CacheTypeOK
  <2>7. WindowsBelongToPods'
    BY <2>5 DEF WindowsBelongToPods
  <2>8. QED
    BY <2>5, <2>6, <2>7
<1>5. CASE PruneStale
  <2> DEFINE gone == {p \in Cached : podsByName[p].stale}
  <2>1. gone \in SUBSET Pod
    BY DEF Cached
  <2>2. RemovePods(gone) /\ UNCHANGED nodesByName
    BY <1>5 DEF PruneStale
  <2> HIDE DEF gone
  <2>3. /\ CacheTypeOK' /\ IndexIsSound'
        /\ Cached' = Cached \ gone
        /\ podWindows' = podWindows \ (gone \cap Cached)
    BY <1>1, <2>1, <2>2, RemovePodsIsSound
  <2>4. TypeOK'
    BY <1>5, <2>3 DEF PruneStale, clusterVars, TypeOK, CacheTypeOK, Collector, Idle
  <2>5. WindowsBelongToPods'
    BY <1>5, <2>3 DEF PruneStale, WindowsBelongToPods
  <2>6. QED
    BY <2>3, <2>4, <2>5
<1>6. QED
  BY <1>2, <1>3, <1>4, <1>5

LEMMA CollectorKeepsNodes ==
  ASSUME CacheInv, CloneNodes \/ CollectorRecalculate \/ \E n \in Node : WriteNode(n)
  PROVE  CacheInv'
<1> USE CacheAssumption DEF CacheInv
<1>1. CacheTypeOK
  BY TypeParts
<1>2. CASE CloneNodes
  <2> DEFINE all == {n \in Node : nodesByName[n] # NoEntry}
  <2>1. Cached' = Cached
    BY <1>2 DEF CloneNodes, cacheVars, Cached
  <2>2. [n \in all |-> nodesByName[n]] \in NodeView
    <3>1. [n \in all |-> nodesByName[n]] \in [all -> Allocation]
      BY <1>1 DEF CacheTypeOK
    <3>2. all \in SUBSET Node
      OBVIOUS
    <3> HIDE DEF all
    <3>3. QED
      BY <3>1, <3>2 DEF NodeView
  <2>3. collector' \in Collector
    BY <1>2, <2>2 DEF CloneNodes, Collector
  <2>4. TypeOK'
    BY <1>2, <2>3 DEF CloneNodes, clusterVars, cacheVars, TypeOK
  <2>5. QED
    BY <1>2, <2>1, <2>4
       DEF CloneNodes, EndOfPods, cacheVars, IndexIsSound, WindowsBelongToPods
<1>3. ASSUME NEW n \in Node, WriteNode(n)
      PROVE  CacheInv'
  <2>1. collector.view \in NodeView
    BY <1>3 DEF WriteNode, TypeOK, Collector
  <2>2. collector.view[n] \in Allocation
    BY <1>3, <2>1 DEF WriteNode, NodeView
  <2>3. CacheTypeOK' /\ IndexIsSound' /\ Cached' = Cached
    BY <1>1, <1>3, <2>2, NodesAreSound DEF WriteNode
  <2>4. collector' \in Collector
    BY <1>3, <2>1, RestOfNodes DEF WriteNode, Collector
  <2>5. TypeOK'
    BY <1>3, <2>3, <2>4 DEF WriteNode, clusterVars, TypeOK, CacheTypeOK
  <2>6. QED
    BY <1>3, <2>3, <2>5 DEF WriteNode, WindowsBelongToPods
<1>4. CASE CollectorRecalculate
  <2>1. collector.node \in Node /\ collector.view \in NodeView
    BY <1>4 DEF CollectorRecalculate, TypeOK, Collector
  <2>2. CacheTypeOK' /\ IndexIsSound' /\ Cached' = Cached
    BY <1>1, <1>4, <2>1, NodesAreSound DEF CollectorRecalculate
  <2>3. TypeOK'
    BY <1>4, <2>1, <2>2 DEF CollectorRecalculate, clusterVars, TypeOK, CacheTypeOK, Collector
  <2>4. QED
    BY <1>4, <2>2, <2>3 DEF CollectorRecalculate, WindowsBelongToPods
<1>5. QED
  BY <1>2, <1>3, <1>4

LEMMA NextKeepsInv == CacheInv /\ [Next]_vars => CacheInv'
<1> SUFFICES ASSUME CacheInv, [Next]_vars PROVE CacheInv'
  OBVIOUS
<1>1. CASE UNCHANGED vars
  BY <1>1 DEF vars, clusterVars, cacheVars, CacheInv, TypeOK, IndexIsSound,
     WindowsBelongToPods, Cached
<1>2. CASE Next
  BY <1>2, EnvironmentKeepsInv, PodHandlerKeepsInv, NodeHandlerKeepsInv,
     CollectorKeepsPods, CollectorKeepsNodes DEF Next, CollectorStep
<1>3. QED
  BY <1>1, <1>2

----------------------------------------------------------------------------
(* The cache and what each thread has in hand keep their types.            *)
THEOREM CacheTypeCorrect == Spec => []TypeOK
<1>1. CacheInv => TypeOK
  BY DEF CacheInv
<1>2. QED
  BY <1>1, InitInv, NextKeepsInv, PTL DEF Spec

(* The index holds only cached pods, each under the node of its entry,     *)
(* although collector and informers write back what they read before.      *)
THEOREM IndexStaysSound == Spec => []IndexIsSound
<1>1. CacheInv => IndexIsSound
  BY DEF CacheInv
<1>2. QED
  BY <1>1, InitInv, NextKeepsInv, PTL DEF Spec

(* Every cached pod has a window, and a window outlives its pod only until *)
(* the collector has written that pod back.                                *)
THEOREM WindowsStayWithPods == Spec => []WindowsBelongToPods
<1>1. CacheInv => WindowsBelongToPods
  BY DEF CacheInv
<1>2. QED
  BY <1>1, InitInv, NextKeepsInv, PTL DEF Spec
=============================================================================
