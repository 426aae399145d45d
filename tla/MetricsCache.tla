---------------------------- MODULE MetricsCache ----------------------------
(***************************************************************************)
(* cache.go of pkg/metrics and the three threads that write it: the pod    *)
(* handler and the node handler of k8s_informer.go and the collector of    *)
(* collector.go.  Every method of the cache takes its lock, so a method is *)
(* one step; what a thread does with what it read before is not protected. *)
(*                                                                         *)
(* Of a pod's entry the binding stands for what the informers own, scraped *)
(* for what the collector owns; of a node's entry there is the allocation  *)
(* counted from the index, in pods.                                        *)
(***************************************************************************)
EXTENDS Naturals, FiniteSets

CONSTANTS
  Pod, Node,
  Absent, Unbound,    \* a pod that does not exist; one without a node
  NoEntry,
  MaxChanges,         \* bound: changes of pods and nodes in the cluster
  MaxStalls           \* bound: times nothing runs for the age of PruneStale

Binding == Node \cup {Unbound}
PodEntry == [node : Binding, scraped : BOOLEAN, stale : BOOLEAN]
Allocation == 0 .. Cardinality(Pod)

ASSUME CacheAssumption ==
  /\ {Absent, Unbound} \cap Node = {} /\ Absent # Unbound
  /\ NoEntry \notin PodEntry /\ NoEntry \notin Nat
  /\ IsFiniteSet(Pod)
  /\ MaxChanges \in Nat /\ MaxStalls \in Nat

VARIABLES
  apiPods, apiNodes,        \* the cluster: [Pod -> binding], set of nodes
  heardPods, heardNodes,    \* what the handlers were told
  changes, stalls,
  podsByName, podsByNode, podWindows,
  nodesByName,              \* [Node -> allocation or NoEntry]
  podHandler, nodeHandler, collector

clusterVars == <<apiPods, apiNodes, heardPods, heardNodes, changes, stalls>>
cacheVars == <<podsByName, podsByNode, nodesByName, podWindows>>
vars == <<clusterVars, cacheVars, podHandler, nodeHandler, collector>>

Cached == {p \in Pod : podsByName[p] # NoEntry}

Idle == [at |-> "idle"]

Init ==
  /\ apiNodes \in SUBSET Node /\ heardNodes = {}
  /\ apiPods = [p \in Pod |-> Absent] /\ heardPods = apiPods
  /\ changes = 0 /\ stalls = 0
  /\ podsByName = [p \in Pod |-> NoEntry]
  /\ podsByNode = [n \in Node |-> {}]
  /\ nodesByName = [n \in Node |-> NoEntry]
  /\ podWindows = {}
  /\ podHandler = Idle /\ nodeHandler = Idle /\ collector = Idle

----------------------------------------------------------------------------
(* The methods of the cache.                                               *)

(* Mutation of SetPod: the index keeps the pod under its old node too.     *)
SetPodKeepsOldNode(p, entry) ==
  /\ podsByName' = [podsByName EXCEPT ![p] = entry]
  /\ podsByNode' = IF entry.node = Unbound THEN podsByNode
                   ELSE [podsByNode EXCEPT ![entry.node] = @ \cup {p}]
  /\ podWindows' = podWindows \cup {p}

SetPod(p, entry) ==
  LET old == podsByName[p]
      cleaned == IF old # NoEntry /\ old.node # entry.node /\ old.node # Unbound
                   THEN [podsByNode EXCEPT ![old.node] = @ \ {p}] ELSE podsByNode
  IN  /\ podsByName' = [podsByName EXCEPT ![p] = entry]
      /\ podsByNode' = IF entry.node = Unbound THEN cleaned
                       ELSE [cleaned EXCEPT ![entry.node] = @ \cup {p}]
      /\ podWindows' = podWindows \cup {p}

(* Mutation of RemovePods: the window is left behind.                      *)
RemovePodsKeepsWindows(gone) ==
  /\ podsByName' = [p \in Pod |-> IF p \in gone THEN NoEntry ELSE podsByName[p]]
  /\ podsByNode' = [n \in Node |-> podsByNode[n] \ gone]
  /\ podWindows' = podWindows

(* Also the removal of PruneStale.                                         *)
RemovePods(gone) ==
  /\ podsByName' = [p \in Pod |-> IF p \in gone THEN NoEntry ELSE podsByName[p]]
  /\ podsByNode' = [n \in Node |->
       podsByNode[n] \ {p \in gone \cap Cached : podsByName[p].node = n}]
  /\ podWindows' = podWindows \ (gone \cap Cached)

SetNode(n, entry) == nodesByName' = [nodesByName EXCEPT ![n] = entry]

DeleteNode(n) ==
  /\ nodesByName' = [nodesByName EXCEPT ![n] = NoEntry]
  /\ podsByNode' = [podsByNode EXCEPT ![n] = {}]

(* Mutation of RecalculateNodeHeadroom: counts pods without a node.        *)
RecalculateCountsUnbound(n) ==
  nodesByName' =
    IF n \notin Node \/ nodesByName[n] = NoEntry THEN nodesByName
    ELSE [nodesByName EXCEPT ![n] =
            Cardinality(podsByNode[n] \cup {p \in Cached : podsByName[p].node = Unbound})]

RecalculateNodeHeadroom(n) ==
  nodesByName' =
    IF n \notin Node \/ nodesByName[n] = NoEntry THEN nodesByName
    ELSE [nodesByName EXCEPT ![n] = Cardinality(podsByNode[n])]

----------------------------------------------------------------------------
(* The cluster.  The next change of an object comes after the handler was  *)
(* told of the last one: nothing else reads it.                            *)

ChangePod(p, binding) ==
  /\ changes < MaxChanges
  /\ heardPods[p] = apiPods[p]
  /\ \/ apiPods[p] = Absent /\ binding = Unbound
     \/ apiPods[p] = Unbound /\ binding \in apiNodes
     \/ apiPods[p] # Absent /\ binding = Absent
  /\ apiPods' = [apiPods EXCEPT ![p] = binding]
  /\ changes' = changes + 1
  /\ UNCHANGED <<apiNodes, heardPods, heardNodes, stalls, cacheVars, podHandler, nodeHandler,
                 collector>>

ChangeNode(n) ==
  /\ changes < MaxChanges
  /\ n \in heardNodes <=> n \in apiNodes
  /\ apiNodes' = IF n \in apiNodes THEN apiNodes \ {n} ELSE apiNodes \cup {n}
  /\ changes' = changes + 1
  /\ UNCHANGED <<apiPods, heardPods, heardNodes, stalls, cacheVars, podHandler, nodeHandler,
                 collector>>

Stall ==
  /\ stalls < MaxStalls
  /\ stalls' = stalls + 1
  /\ podsByName' = [p \in Pod |-> IF p \in Cached THEN [podsByName[p] EXCEPT !.stale = TRUE]
                                  ELSE NoEntry]
  /\ UNCHANGED <<apiPods, apiNodes, heardPods, heardNodes, changes, podsByNode, nodesByName,
                 podWindows, podHandler, nodeHandler, collector>>

----------------------------------------------------------------------------
(* The pod handler: an event, or an update with nothing new at a resync.   *)

(* Mutation of ReceivePod: an update with nothing new is skipped.          *)
ReceivePodUnlessKnown(p) ==
  /\ podHandler = Idle
  /\ apiPods[p] # Absent /\ heardPods[p] # apiPods[p]
  /\ heardPods' = [heardPods EXCEPT ![p] = apiPods[p]]
  /\ podHandler' = [at |-> "set", pod |-> p, node |-> apiPods[p],
                    scraped |-> p \in Cached /\ podsByName[p].scraped]
  /\ UNCHANGED <<apiPods, apiNodes, heardNodes, changes, stalls, cacheVars, nodeHandler,
                 collector>>

ReceivePod(p) ==
  /\ podHandler = Idle
  /\ apiPods[p] # Absent
  /\ heardPods' = [heardPods EXCEPT ![p] = apiPods[p]]
  /\ podHandler' = [at |-> "set", pod |-> p, node |-> apiPods[p],
                    scraped |-> p \in Cached /\ podsByName[p].scraped]
  /\ UNCHANGED <<apiPods, apiNodes, heardNodes, changes, stalls, cacheVars, nodeHandler,
                 collector>>

SyncPod ==
  /\ podHandler.at = "set"
  /\ SetPod(podHandler.pod,
            [node |-> podHandler.node, scraped |-> podHandler.scraped, stale |-> FALSE])
  /\ podHandler' = [at |-> "recalculate", node |-> podHandler.node]
  /\ UNCHANGED <<clusterVars, nodesByName, nodeHandler, collector>>

ReceivePodDelete(p) ==
  /\ podHandler = Idle
  /\ apiPods[p] = Absent /\ heardPods[p] # Absent
  /\ heardPods' = [heardPods EXCEPT ![p] = Absent]
  /\ RemovePods({p})
  /\ podHandler' = [at |-> "recalculate", node |-> heardPods[p]]
  /\ UNCHANGED <<apiPods, apiNodes, heardNodes, changes, stalls, nodesByName, nodeHandler,
                 collector>>

PodRecalculate ==
  /\ podHandler.at = "recalculate"
  /\ RecalculateNodeHeadroom(podHandler.node)
  /\ podHandler' = Idle
  /\ UNCHANGED <<clusterVars, podsByName, podsByNode, podWindows, nodeHandler, collector>>

----------------------------------------------------------------------------
(* The node handler.  A synced node has no allocation until it is counted. *)

ReceiveNode(n) ==
  /\ nodeHandler = Idle
  /\ n \in apiNodes
  /\ heardNodes' = heardNodes \cup {n}
  /\ nodeHandler' = [at |-> "set", node |-> n]
  /\ UNCHANGED <<apiPods, apiNodes, heardPods, changes, stalls, cacheVars, podHandler,
                 collector>>

SyncNode ==
  /\ nodeHandler.at = "set"
  /\ SetNode(nodeHandler.node, 0)
  /\ nodeHandler' = [at |-> "recalculate", node |-> nodeHandler.node]
  /\ UNCHANGED <<clusterVars, podsByName, podsByNode, podWindows, podHandler, collector>>

ReceiveNodeDelete(n) ==
  /\ nodeHandler = Idle
  /\ n \in heardNodes \ apiNodes
  /\ heardNodes' = heardNodes \ {n}
  /\ DeleteNode(n)
  /\ UNCHANGED <<apiPods, apiNodes, heardPods, changes, stalls, podsByName, podWindows,
                 podHandler, nodeHandler, collector>>

NodeRecalculate ==
  /\ nodeHandler.at = "recalculate"
  /\ RecalculateNodeHeadroom(nodeHandler.node)
  /\ nodeHandler' = Idle
  /\ UNCHANGED <<clusterVars, podsByName, podsByNode, podWindows, podHandler, collector>>

----------------------------------------------------------------------------
(* The collector: clones of all pods, written back one by one with a       *)
(* sample each, then the same with the nodes.                              *)

EndOfPods == [at |-> "nodes"]

BeginCycle ==
  /\ collector = Idle
  /\ collector' = IF Cached = {} THEN EndOfPods
                  ELSE [at |-> "pods", view |-> [p \in Cached |-> podsByName[p]]]
  /\ UNCHANGED <<clusterVars, cacheVars, podHandler, nodeHandler>>

RecordSample(p) ==
  /\ collector.at = "pods"
  /\ p \in DOMAIN collector.view
  /\ podWindows' = podWindows \cup {p}
  /\ collector' = [at |-> "write", view |-> collector.view, pod |-> p]
  /\ UNCHANGED <<clusterVars, podsByName, podsByNode, nodesByName, podHandler, nodeHandler>>

WritePod ==
  /\ collector.at = "write"
  /\ LET p == collector.pod
         rest == DOMAIN collector.view \ {p}
     IN  /\ SetPod(p, [node |-> collector.view[p].node, scraped |-> TRUE, stale |-> FALSE])
         /\ collector' = IF rest = {} THEN EndOfPods
                         ELSE [at |-> "pods", view |-> [q \in rest |-> collector.view[q]]]
  /\ UNCHANGED <<clusterVars, nodesByName, podHandler, nodeHandler>>

CloneNodes ==
  /\ collector = EndOfPods
  /\ LET all == {n \in Node : nodesByName[n] # NoEntry}
     IN  collector' = [at |-> "node", view |-> [n \in all |-> nodesByName[n]]]
  /\ UNCHANGED <<clusterVars, cacheVars, podHandler, nodeHandler>>

WriteNode(n) ==
  /\ collector.at = "node"
  /\ n \in DOMAIN collector.view
  /\ SetNode(n, collector.view[n])
  /\ collector' = [at   |-> "recalculate", node |-> n,
                   view |-> [m \in DOMAIN collector.view \ {n} |-> collector.view[m]]]
  /\ UNCHANGED <<clusterVars, podsByName, podsByNode, podWindows, podHandler, nodeHandler>>

CollectorRecalculate ==
  /\ collector.at = "recalculate"
  /\ RecalculateNodeHeadroom(collector.node)
  /\ collector' = [at |-> "node", view |-> collector.view]
  /\ UNCHANGED <<clusterVars, podsByName, podsByNode, podWindows, podHandler, nodeHandler>>

PruneStale ==
  /\ collector.at = "node"
  /\ DOMAIN collector.view = {}
  /\ RemovePods({p \in Cached : podsByName[p].stale})
  /\ collector' = Idle
  /\ UNCHANGED <<clusterVars, nodesByName, podHandler, nodeHandler>>

----------------------------------------------------------------------------
PodHandlerStep == SyncPod \/ PodRecalculate
NodeHandlerStep == SyncNode \/ NodeRecalculate
CollectorStep ==
  \/ BeginCycle \/ WritePod \/ CloneNodes \/ CollectorRecalculate \/ PruneStale
  \/ \E p \in Pod : RecordSample(p)
  \/ \E n \in Node : WriteNode(n)

Next ==
  \/ \E p \in Pod :
       \/ ReceivePod(p) \/ ReceivePodDelete(p)
       \/ \E binding \in Binding \cup {Absent} : ChangePod(p, binding)
  \/ \E n \in Node : ReceiveNode(n) \/ ReceiveNodeDelete(n) \/ ChangeNode(n)
  \/ PodHandlerStep \/ NodeHandlerStep \/ CollectorStep \/ Stall

(* The handlers and the collector run, and a resync, every 30 seconds,     *)
(* brings every object there is to its handler again.                      *)
Fairness ==
  /\ WF_podHandler(PodHandlerStep)
  /\ WF_nodeHandler(NodeHandlerStep)
  /\ WF_collector(CollectorStep)
  /\ \A p \in Pod : SF_podHandler(ReceivePod(p) \/ ReceivePodDelete(p))
  /\ \A n \in Node : SF_<<nodeHandler, heardNodes>>(ReceiveNode(n) \/ ReceiveNodeDelete(n))

Spec == Init /\ [][Next]_vars
FairSpec == Spec /\ Fairness

----------------------------------------------------------------------------
PodHandler ==
  [at : {"idle"}] \cup [at : {"set"}, pod : Pod, node : Binding, scraped : BOOLEAN]
    \cup [at : {"recalculate"}, node : Binding]
NodeHandler == [at : {"idle"}] \cup [at : {"set", "recalculate"}, node : Node]
PodView == UNION {[S -> PodEntry] : S \in SUBSET Pod}
NodeView == UNION {[S -> Allocation] : S \in SUBSET Node}
Collector ==
  [at : {"idle", "nodes"}] \cup [at : {"pods"}, view : PodView]
    \cup {c \in [at : {"write"}, view : PodView, pod : Pod] : c.pod \in DOMAIN c.view}
    \cup [at : {"node"}, view : NodeView]
    \cup [at : {"recalculate"}, node : Node, view : NodeView]

(* Type correctness, with what each thread has in hand.                    *)
TypeOK ==
  /\ apiPods \in [Pod -> Binding \cup {Absent}]
  /\ heardPods \in [Pod -> Binding \cup {Absent}]
  /\ apiNodes \subseteq Node /\ heardNodes \subseteq Node
  /\ changes \in 0 .. MaxChanges /\ stalls \in 0 .. MaxStalls
  /\ podsByName \in [Pod -> PodEntry \cup {NoEntry}]
  /\ podsByNode \in [Node -> SUBSET Pod]
  /\ nodesByName \in [Node -> Allocation \cup {NoEntry}]
  /\ podWindows \subseteq Pod
  /\ podHandler \in PodHandler
  /\ nodeHandler \in NodeHandler
  /\ collector \in Collector

(* The index holds only cached pods, under the node of their entry: no     *)
(* pod is counted on two nodes, whichever thread moved or removed it.      *)
IndexIsSound ==
  \A n \in Node : \A p \in podsByNode[n] : p \in Cached /\ podsByName[p].node = n

(* Every cached pod has its window, and no window outlives its pod but the *)
(* one of the pod the collector is writing back.                           *)
WindowsBelongToPods ==
  /\ Cached \subseteq podWindows
  /\ podWindows \ Cached \subseteq {p \in Pod : collector.at = "write" /\ collector.pod = p}

Agrees(p) ==
  apiPods[p] # Absent =>
    /\ p \in Cached
    /\ podsByName[p].node = apiPods[p]
    /\ apiPods[p] \in apiNodes => p \in podsByNode[apiPods[p]]

(* When the cluster has come to rest, the entry of every pod there is      *)
(* agrees with it again and again, and has its telemetry again and again,  *)
(* although either thread may write back what it read before the other's   *)
(* change and a cycle may prune a pod that lives.  (It need not stay so:   *)
(* a collector may undo in every cycle what a resync has set right.)       *)
CacheCatchesUp ==
  \A p \in Pod :
    /\ []<>Agrees(p)
    /\ []<>(apiPods[p] # Absent => p \in Cached /\ podsByName[p].scraped)

(* And every node there is shows the allocation of what is indexed on it.  *)
HeadroomCatchesUp ==
  \A n \in Node :
    []<>(n \in apiNodes =>
           nodesByName[n] = Cardinality(podsByNode[n]))
=============================================================================
