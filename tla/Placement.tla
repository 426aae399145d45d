------------------------------ MODULE Placement ------------------------------
(***************************************************************************)
(* filter.go and score.go of pkg/scheduler: which nodes can take a pod and *)
(* how good each of them is.  Amounts are whole units of a resource.  The  *)
(* code computes ratios and scores in floating point: here they are in     *)
(* thousandths, rounded down.                                              *)
(***************************************************************************)
EXTENDS Integers, FiniteSetsExt, SequencesExt

CONSTANTS
  HeadroomSafetyBuffer,       \* per cent
  TargetUtilizationCeiling,   \* thousandths
  WeightCPU, WeightMemory,    \* per cent
  ReclaimedNodeBonus          \* points

Resource == {"cpu", "mem"}
Amount == [Resource -> Nat]

ASSUME PlacementAssumption ==
  /\ HeadroomSafetyBuffer \in Nat /\ TargetUtilizationCeiling \in Int
  /\ WeightCPU \in Nat /\ WeightMemory \in Nat /\ ReclaimedNodeBonus \in Nat

(* What the containers of a pod ask for together.                          *)
ContainerRequests(containers) ==
  [r \in Resource |-> SumFunction([i \in DOMAIN containers |-> containers[i][r]])]

(* A pod needs that, and no less than the largest of its init containers.  *)
PodRequests(containers, inits) ==
  [r \in Resource |->
     Max({ContainerRequests(containers)[r]} \cup {inits[i][r] : i \in DOMAIN inits})]

RealFree(node) ==
  [r \in Resource |-> Max({0, node.allocatable[r] - node.used[r]})]

(* Mutation of Filter: what the pods of the node ask for is not counted.   *)
FilterByUsage(requests, selector, node) ==
  /\ node.ready /\ node.pressure = {}
  /\ selector \subseteq node.labels
  /\ \A r \in Resource :
       RealFree(node)[r] * 100 >= requests[r] * Max({100, HeadroomSafetyBuffer})

Filter(requests, selector, node) ==
  /\ node.ready /\ node.pressure = {}
  /\ selector \subseteq node.labels
  /\ \A r \in Resource :
       /\ node.requested[r] + requests[r] <= node.allocatable[r]
       /\ RealFree(node)[r] * 100 >= requests[r] * Max({100, HeadroomSafetyBuffer})

(* 20 points for an empty node, 100 at the ceiling, 50 for a full one.     *)
UtilizationScore(util) ==
  LET ceiling == IF TargetUtilizationCeiling \in 1 .. 1000
                   THEN TargetUtilizationCeiling ELSE 850
  IN  IF util <= ceiling
        THEN 20000 + (util * 80000) \div ceiling
        ELSE 100000 - ((util - ceiling) * 50000) \div (1000 - ceiling)

Score(requests, node, reclaimed) ==
  IF \E r \in Resource : node.allocatable[r] = 0
    THEN 0
    ELSE LET util == [r \in Resource |->
                        Min({1000, ((node.used[r] + requests[r]) * 1000)
                                     \div node.allocatable[r]})]
             packed == UtilizationScore(util["cpu"]) * WeightCPU
                         + UtilizationScore(util["mem"]) * WeightMemory
             apart == Max(Range(util)) - Min(Range(util))
             bonus == IF reclaimed THEN ReclaimedNodeBonus * 1000 ELSE 0
         IN  Min({100000, (packed * 70) \div 10000 + (1000 - apart) * 20 + bonus})
=============================================================================
