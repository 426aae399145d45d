--------------------------- MODULE DependencyGraph ---------------------------
(***************************************************************************)
(* pkg/dependency: the graph of workloads and the order in which the       *)
(* dormant ones are restored.  A workload description carries its key, the *)
(* keys it depends on and whether it is ready; a graph maps each key to    *)
(* the keys it depends on (node.Children) and names the ready ones.        *)
(***************************************************************************)
EXTENDS Integers, Sequences, FiniteSets

CONSTANT Workload

WorkloadInfo == [key : Workload, deps : SUBSET Workload, ready : BOOLEAN]
Graph == [children : [Workload -> SUBSET Workload], ready : SUBSET Workload]

(* The first description of k in the list.                                 *)
FirstInfo(list, k) ==
  list[CHOOSE i \in DOMAIN list :
         /\ list[i].key = k
         /\ \A j \in DOMAIN list : list[j].key = k => i <= j]

(* Later descriptions of a key only add readiness: the dependencies are    *)
(* those of the first.  A key that is only depended upon is not ready and  *)
(* depends on nothing.                                                     *)
BuildGraph(list) ==
  LET listed == {list[i].key : i \in DOMAIN list} IN
  [children |-> [k \in Workload |->
                   IF k \in listed THEN FirstInfo(list, k).deps ELSE {}],
   ready    |-> {list[i].key : i \in {j \in DOMAIN list : list[j].ready}}]

(* collectUnready visits everything below w, through ready workloads too.  *)
IsClosed(g, S) == \A v \in S : g.children[v] \subseteq S
Subtree(g, w) ==
  {v \in Workload : \A S \in SUBSET Workload :
                      w \in S /\ IsClosed(g, S) => v \in S}

UnreadySubGraph(g, w) == (Subtree(g, w) \ g.ready) \cup {w}

(* Of the workloads still to restore, those that wait for none of them;    *)
(* if each one waits, all of them at once.                                 *)
Free(g, todo) == {k \in todo : g.children[k] \cap todo = {}}
NextStage(g, todo) == IF Free(g, todo) = {} THEN todo ELSE Free(g, todo)
=============================================================================
