-------------------------- MODULE RestorationStages --------------------------
(***************************************************************************)
(* DependencyGraph.ResolveRestorationStages: Kahn's algorithm on the       *)
(* unready workloads below a target, one layer per iteration.  Its maps    *)
(* and counters are the variables; an iteration of the loop is a step.     *)
(***************************************************************************)
EXTENDS DependencyGraph

CONSTANT Target   \* the workload to restore

ASSUME StagesAssumption == IsFiniteSet(Workload) /\ Target \in Workload

VARIABLES
  graph,            \* the receiver; never changed
  unready,          \* unreadySubGraph
  count,            \* unreadyChildrenCount: a map over the keys still to place
  remainingCount,
  stages,
  pc                \* "Collect", "Layer" (head of the loop) or "Done"

vars == <<graph, unready, count, remainingCount, stages, pc>>

TypeOK ==
  /\ graph \in Graph
  /\ unready \in SUBSET Workload
  /\ DOMAIN count \subseteq unready
  /\ count \in [DOMAIN count -> Nat]
  /\ remainingCount \in Nat
  /\ stages \in Seq(SUBSET Workload)
  /\ pc \in {"Collect", "Layer", "Done"}

Init ==
  /\ graph \in Graph
  /\ unready = {}
  /\ count = <<>>
  /\ remainingCount = 0
  /\ stages = <<>>
  /\ pc = "Collect"

----------------------------------------------------------------------------
TargetIsReady ==
  /\ pc = "Collect"
  /\ Target \in graph.ready
  /\ pc' = "Done"
  /\ UNCHANGED <<graph, unready, count, remainingCount, stages>>

(* Mutation of Collect: counts every dependency, the ready ones included.  *)
CollectCountsReady ==
  LET sub == UnreadySubGraph(graph, Target) IN
  /\ pc = "Collect"
  /\ Target \notin graph.ready
  /\ unready' = sub
  /\ count' = [k \in sub |-> Cardinality(graph.children[k])]
  /\ remainingCount' = Cardinality(sub)
  /\ pc' = "Layer"
  /\ UNCHANGED <<graph, stages>>

Collect ==
  LET sub == UnreadySubGraph(graph, Target) IN
  /\ pc = "Collect"
  /\ Target \notin graph.ready
  /\ unready' = sub
  /\ count' = [k \in sub |-> Cardinality(graph.children[k] \cap sub)]
  /\ remainingCount' = Cardinality(sub)
  /\ pc' = "Layer"
  /\ UNCHANGED <<graph, stages>>

(* The keys no unplaced child holds back.                                  *)
CurrentStage == {k \in DOMAIN count : count[k] = 0}

(* Mutation of PlaceStage: a parent is let go by its first child.          *)
PlaceStageReleasesParents ==
  /\ pc = "Layer" /\ remainingCount > 0
  /\ CurrentStage # {}
  /\ stages' = Append(stages, CurrentStage)
  /\ remainingCount' = remainingCount - Cardinality(CurrentStage)
  /\ count' = [k \in DOMAIN count \ CurrentStage |->
                 IF graph.children[k] \cap CurrentStage # {} THEN 0 ELSE count[k]]
  /\ UNCHANGED <<graph, unready, pc>>

(* Mutation of PlaceStage: placed keys stay in the map.                    *)
PlaceStageKeepsPlaced ==
  /\ pc = "Layer" /\ remainingCount > 0
  /\ CurrentStage # {}
  /\ stages' = Append(stages, CurrentStage)
  /\ remainingCount' = remainingCount - Cardinality(CurrentStage)
  /\ count' = [k \in DOMAIN count |->
                 count[k] - Cardinality(graph.children[k] \cap CurrentStage)]
  /\ UNCHANGED <<graph, unready, pc>>

(* One layer: every key with count 0 leaves the map, and each parent still *)
(* in the map counts one less for each of its children that left.          *)
PlaceStage ==
  /\ pc = "Layer" /\ remainingCount > 0
  /\ CurrentStage # {}
  /\ stages' = Append(stages, CurrentStage)
  /\ remainingCount' = remainingCount - Cardinality(CurrentStage)
  /\ count' = [k \in DOMAIN count \ CurrentStage |->
                 count[k] - Cardinality(graph.children[k] \cap CurrentStage)]
  /\ UNCHANGED <<graph, unready, pc>>

(* Mutation of PlaceCycle: goes round the loop again.                      *)
PlaceCycleRetries ==
  /\ pc = "Layer" /\ remainingCount > 0
  /\ CurrentStage = {}
  /\ UNCHANGED vars

(* A cycle: whatever is left becomes one stage, and the loop breaks.       *)
PlaceCycle ==
  /\ pc = "Layer" /\ remainingCount > 0
  /\ CurrentStage = {}
  /\ stages' = Append(stages, DOMAIN count)
  /\ pc' = "Done"
  /\ UNCHANGED <<graph, unready, count, remainingCount>>

Finish ==
  /\ pc = "Layer" /\ remainingCount <= 0
  /\ pc' = "Done"
  /\ UNCHANGED <<graph, unready, count, remainingCount, stages>>

Next == TargetIsReady \/ Collect \/ PlaceStage \/ PlaceCycle \/ Finish

Spec == Init /\ [][Next]_vars
(* The resolver is one sequential call: it keeps running.                  *)
FairSpec == Spec /\ WF_vars(Next)
----------------------------------------------------------------------------
(* The keys that no stage holds yet.                                       *)
Unplaced == IF pc = "Layer" THEN DOMAIN count ELSE {}

Placed == UNION {stages[i] : i \in DOMAIN stages}

(* k starts an endless chain of unready dependencies: it lies on a cycle   *)
(* or waits, over some steps, for one.                                     *)
WaitsForCycle(k) ==
  \E C \in SUBSET unready :
    k \in C /\ \A v \in C : graph.children[v] \cap C # {}

(* Every unready workload below the target is restored in exactly one      *)
(* stage: none is left out when the resolver returns, none restored twice. *)
EachWorkloadOnce ==
  /\ Placed \cup Unplaced = unready
  /\ Placed \cap Unplaced = {}
  /\ \A i, j \in DOMAIN stages : i # j => stages[i] \cap stages[j] = {}

(* A workload is restored after each unready workload it depends on,       *)
(* unless a cycle makes that impossible.                                   *)
DependenciesFirst ==
  \A i \in DOMAIN stages : \A k \in stages[i] :
    \/ WaitsForCycle(k)
    \/ \A d \in graph.children[k] \cap unready :
         \E j \in 1 .. i - 1 : d \in stages[j]

(* Only what a cycle makes impossible to order shares the last stage with  *)
(* its dependencies; nothing else is put off to it.                        *)
OnlyCyclesAreGrouped ==
  \A i \in DOMAIN stages :
    (\E k \in stages[i] : WaitsForCycle(k)) =>
      /\ i = Len(stages)
      /\ \A k \in stages[i] : WaitsForCycle(k)

(* The counters find the stage that a look at the whole graph would find.  *)
CountersFindNextStage ==
  [][stages' # stages =>
       stages' = Append(stages, NextStage(graph, Unplaced))]_vars

(* The resolver returns, whatever cycles the declarations contain.         *)
ResolverReturns == <>(pc = "Done")

(* What the counters stand for; the other properties rest on it.           *)
CountsAreExact ==
  pc = "Layer" =>
    /\ remainingCount = Cardinality(DOMAIN count)
    /\ \A k \in DOMAIN count :
         count[k] = Cardinality(graph.children[k] \cap DOMAIN count)
=============================================================================
