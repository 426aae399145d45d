----------------------- MODULE RestorationStagesProofs -----------------------
(***************************************************************************)
(* Theorems about RestorationStages, for every finite set of workloads.    *)
(***************************************************************************)
EXTENDS RestorationStages, FiniteSetTheorems, TLAPS

(* While stages are placed, no cycle has been met.                         *)
NoCycleSoFar == pc = "Layer" => \A k \in Placed : ~WaitsForCycle(k)

NothingBeforeCollect == pc = "Collect" => unready = {} /\ stages = <<>>

IInv ==
  /\ TypeOK
  /\ CountsAreExact
  /\ EachWorkloadOnce
  /\ DependenciesFirst
  /\ OnlyCyclesAreGrouped
  /\ NoCycleSoFar
  /\ NothingBeforeCollect
----------------------------------------------------------------------------
(* Any set of workloads is finite.                                         *)
LEMMA FiniteWorkloads ==
  ASSUME NEW S \in SUBSET Workload
  PROVE  IsFiniteSet(S) /\ Cardinality(S) \in Nat
BY StagesAssumption, FS_Subset, FS_CardinalityType

(* Taking T away from S.                                                   *)
LEMMA CountWithout ==
  ASSUME NEW S \in SUBSET Workload, NEW T \in SUBSET Workload
  PROVE  Cardinality(S \ T) = Cardinality(S) - Cardinality(S \cap T)
<1>1. IsFiniteSet(S) /\ IsFiniteSet(T)
  BY FiniteWorkloads
<1>2. QED
  BY <1>1, FS_Difference

(* A stage at the end of the list.                                         *)
LEMMA AppendStage ==
  ASSUME NEW s \in Seq(SUBSET Workload), NEW S \in SUBSET Workload
  PROVE  /\ Append(s, S) \in Seq(SUBSET Workload)
         /\ Len(s) \in Nat
         /\ DOMAIN s = 1 .. Len(s)
         /\ DOMAIN Append(s, S) = 1 .. Len(s) + 1
         /\ Len(Append(s, S)) = Len(s) + 1
         /\ Append(s, S)[Len(s) + 1] = S
         /\ \A i \in 1 .. Len(s) : Append(s, S)[i] = s[i]
OBVIOUS

(* With exact counts, the current stage is what is free in the graph.      *)
LEMMA CurrentIsFree ==
  ASSUME TypeOK, CountsAreExact, pc = "Layer"
  PROVE  CurrentStage = Free(graph, DOMAIN count)
<1>1. ASSUME NEW k \in DOMAIN count
      PROVE  count[k] = 0 <=> graph.children[k] \cap DOMAIN count = {}
  <2>1. graph.children[k] \cap DOMAIN count \in SUBSET Workload
    BY <1>1 DEF TypeOK, Graph
  <2>2. QED
    BY <1>1, <2>1, FiniteWorkloads, FS_EmptySet DEF CountsAreExact
<1>2. QED
  BY <1>1 DEF CurrentStage, Free
----------------------------------------------------------------------------
LEMMA InitIInv == Init => IInv
<1> SUFFICES ASSUME Init PROVE IInv
  OBVIOUS
<1>1. DOMAIN count = {}
  BY DEF Init
<1>2. TypeOK
  BY <1>1 DEF Init, TypeOK
<1>3. DOMAIN stages = {}
  BY DEF Init
<1>4. QED
  BY <1>2, <1>3 DEF Init, IInv, CountsAreExact, EachWorkloadOnce, DependenciesFirst,
     OnlyCyclesAreGrouped, NoCycleSoFar, NothingBeforeCollect, Placed, Unplaced

(* Collect: the map holds all unready workloads, no stage any.             *)
LEMMA CollectKeepsIInv == IInv /\ Collect => IInv'
<1> SUFFICES ASSUME IInv, Collect PROVE IInv'
  OBVIOUS
<1> DEFINE sub == UnreadySubGraph(graph, Target)
<1>1. sub \in SUBSET Workload
  BY StagesAssumption DEF UnreadySubGraph, Subtree
<1>2. unready' = sub /\ DOMAIN count' = sub /\ graph' = graph
      /\ stages' = <<>> /\ DOMAIN stages' = {} /\ pc' = "Layer"
  BY DEF Collect, IInv, NothingBeforeCollect
<1>3. \A k \in sub : graph.children[k] \cap sub \in SUBSET Workload
  BY <1>1 DEF IInv, TypeOK, Graph
<1>4. TypeOK'
  <2>1. count' \in [sub -> Nat] /\ remainingCount' \in Nat
    BY <1>1, <1>3, FiniteWorkloads DEF Collect
  <2>2. QED
    BY <1>1, <1>2, <2>1 DEF IInv, TypeOK
<1>5. CountsAreExact'
  BY <1>2 DEF Collect, CountsAreExact
<1>6. Placed' = {} /\ Unplaced' = sub
  BY <1>2 DEF Placed, Unplaced
<1>7. QED
  BY <1>2, <1>4, <1>5, <1>6 DEF IInv, EachWorkloadOnce, DependenciesFirst,
     OnlyCyclesAreGrouped, NoCycleSoFar, NothingBeforeCollect

(* What stays to place after a layer, and its counts.                      *)
LEMMA PlaceKeepsCounts ==
  ASSUME IInv, PlaceStage
  PROVE  TypeOK' /\ CountsAreExact'
<1> DEFINE S == CurrentStage
           rest == DOMAIN count \ S
<1>1. S \in SUBSET Workload /\ S \subseteq DOMAIN count /\ DOMAIN count \in SUBSET Workload
  BY DEF CurrentStage, IInv, TypeOK
<1>2. DOMAIN count' = rest /\ graph' = graph /\ unready' = unready /\ pc' = pc
  BY DEF PlaceStage
<1>3. ASSUME NEW k \in rest
      PROVE  count'[k] = Cardinality(graph.children[k] \cap rest)
  <2>1. k \in Workload /\ graph.children[k] \in SUBSET Workload
    BY <1>1 DEF IInv, TypeOK, Graph
  <2> DEFINE cs == graph.children[k] \cap DOMAIN count
  <2>2. cs \in SUBSET Workload /\ cs \ S = graph.children[k] \cap rest
        /\ cs \cap S = graph.children[k] \cap S
    BY <1>1, <2>1
  <2>3. count[k] = Cardinality(cs)
    BY <1>3 DEF IInv, CountsAreExact, PlaceStage
  <2>4. Cardinality(cs \ S) = Cardinality(cs) - Cardinality(cs \cap S)
    BY <1>1, <2>2, CountWithout
  <2>5. count'[k] = count[k] - Cardinality(graph.children[k] \cap S)
    BY <1>3 DEF PlaceStage
  <2>6. QED
    BY <2>2, <2>3, <2>4, <2>5
<1>4. remainingCount' = Cardinality(rest)
  <2>1. DOMAIN count \cap S = S
    BY <1>1
  <2>2. Cardinality(rest) = Cardinality(DOMAIN count) - Cardinality(S)
    BY <1>1, <2>1, CountWithout
  <2>3. QED
    BY <2>2 DEF PlaceStage, IInv, CountsAreExact
<1>5. \A k \in rest : graph.children[k] \cap rest \in SUBSET Workload
  BY <1>1 DEF IInv, TypeOK, Graph
<1>6. count' \in [rest -> Nat]
  <2>1. \A k \in rest : count'[k] \in Nat
    BY <1>3, <1>5, FiniteWorkloads
  <2>2. count' = [k \in rest |-> count'[k]]
    BY DEF PlaceStage
  <2>3. QED
    BY <2>1, <2>2
<1>7. remainingCount' \in Nat
  BY <1>1, <1>4, FiniteWorkloads
<1>8. stages' \in Seq(SUBSET Workload)
  BY <1>1, AppendStage DEF PlaceStage, IInv, TypeOK
<1>9. TypeOK'
  BY <1>1, <1>2, <1>6, <1>7, <1>8 DEF IInv, TypeOK
<1>10. QED
  BY <1>2, <1>3, <1>4, <1>9 DEF CountsAreExact

(* A stage S moves from the unplaced to the placed.                        *)
LEMMA PlacedGrows ==
  ASSUME IInv, pc = "Layer", NEW S \in SUBSET Workload, S \subseteq DOMAIN count,
         stages' = Append(stages, S), unready' = unready, graph' = graph
  PROVE  /\ Placed' = Placed \cup S
         /\ \A i, j \in DOMAIN stages' : i # j => stages'[i] \cap stages'[j] = {}
<1>1. /\ DOMAIN stages = 1 .. Len(stages) /\ Len(stages) \in Nat
      /\ DOMAIN stages' = 1 .. Len(stages) + 1
      /\ stages'[Len(stages) + 1] = S
      /\ \A i \in 1 .. Len(stages) : stages'[i] = stages[i]
  BY AppendStage DEF IInv, TypeOK
<1>2. \A i \in DOMAIN stages : stages[i] \cap S = {}
  BY DEF IInv, EachWorkloadOnce, Placed, Unplaced
<1>3. Placed' = Placed \cup S
  <2>1. DOMAIN stages' = DOMAIN stages \cup {Len(stages) + 1}
    BY <1>1
  <2>2. QED
    BY <1>1, <2>1 DEF Placed
<1>4. ASSUME NEW i \in DOMAIN stages', NEW j \in DOMAIN stages', i # j
      PROVE  stages'[i] \cap stages'[j] = {}
  <2>1. CASE i \in DOMAIN stages /\ j \in DOMAIN stages
    BY <1>1, <1>4, <2>1 DEF IInv, EachWorkloadOnce
  <2>2. CASE i = Len(stages) + 1 /\ j \in DOMAIN stages
    BY <1>1, <1>2, <2>2
  <2>3. CASE j = Len(stages) + 1 /\ i \in DOMAIN stages
    BY <1>1, <1>2, <2>3
  <2>4. QED
    BY <1>1, <1>4, <2>1, <2>2, <2>3
<1>5. QED
  BY <1>3, <1>4

(* What the current stage holds waits for no cycle: what it depends on is  *)
(* placed already, and nothing placed waits for one.                       *)
LEMMA CurrentWaitsForNoCycle ==
  ASSUME IInv, pc = "Layer", NEW k \in CurrentStage
  PROVE  /\ graph.children[k] \cap unready \subseteq Placed
         /\ ~WaitsForCycle(k)
<1>1. k \in DOMAIN count /\ graph.children[k] \cap DOMAIN count = {}
  BY CurrentIsFree DEF IInv, Free, CurrentStage
<1>2. graph.children[k] \cap unready \subseteq Placed
  BY <1>1 DEF IInv, EachWorkloadOnce, Unplaced
<1>3. ASSUME NEW C \in SUBSET unready, k \in C,
             \A v \in C : graph.children[v] \cap C # {}
      PROVE  FALSE
  <2>1. PICK d \in graph.children[k] \cap C : TRUE
    BY <1>3
  <2>2. d \in Placed
    BY <1>2, <1>3, <2>1
  <2>3. WaitsForCycle(d)
    BY <1>3, <2>1 DEF WaitsForCycle
  <2>4. QED
    BY <2>2, <2>3 DEF IInv, NoCycleSoFar
<1>4. QED
  BY <1>2, <1>3 DEF WaitsForCycle

(* WaitsForCycle only looks at the graph and at the unready workloads.     *)
LEMMA SameCycles ==
  ASSUME graph' = graph, unready' = unready
  PROVE  \A k : WaitsForCycle(k)' <=> WaitsForCycle(k)
BY DEF WaitsForCycle

LEMMA PlaceStageKeepsIInv == IInv /\ PlaceStage => IInv'
<1> SUFFICES ASSUME IInv, PlaceStage PROVE IInv'
  OBVIOUS
<1> DEFINE S == CurrentStage
           n == Len(stages) + 1
<1>1. TypeOK' /\ CountsAreExact'
  BY PlaceKeepsCounts
<1>2. /\ pc = "Layer" /\ pc' = "Layer" /\ graph' = graph /\ unready' = unready
      /\ stages' = Append(stages, S) /\ DOMAIN count' = DOMAIN count \ S
      /\ S \subseteq DOMAIN count /\ S \in SUBSET Workload
  BY DEF PlaceStage, CurrentStage, IInv, TypeOK
<1>3. /\ Placed' = Placed \cup S
      /\ \A i, j \in DOMAIN stages' : i # j => stages'[i] \cap stages'[j] = {}
  BY <1>2, PlacedGrows
<1>4. EachWorkloadOnce'
  <2>1. Placed \cup DOMAIN count = unready /\ Placed \cap DOMAIN count = {}
    BY <1>2 DEF IInv, EachWorkloadOnce, Unplaced
  <2>2. Unplaced' = DOMAIN count \ S
    BY <1>2 DEF Unplaced
  <2>3. QED
    BY <1>2, <1>3, <2>1, <2>2 DEF EachWorkloadOnce
<1>5. \A k \in S : ~WaitsForCycle(k) /\ graph.children[k] \cap unready \subseteq Placed
  BY <1>2, CurrentWaitsForNoCycle
<1>6. \A k \in Placed' : ~WaitsForCycle(k)'
  BY <1>2, <1>3, <1>5, SameCycles DEF IInv, NoCycleSoFar
<1>7. NoCycleSoFar'
  BY <1>6 DEF NoCycleSoFar
<1>8. /\ DOMAIN stages = 1 .. Len(stages) /\ Len(stages) \in Nat
      /\ DOMAIN stages' = 1 .. n /\ stages'[n] = S
      /\ \A i \in 1 .. Len(stages) : stages'[i] = stages[i]
  BY <1>2, AppendStage DEF IInv, TypeOK
<1>9. DependenciesFirst'
  <2> SUFFICES ASSUME NEW i \in DOMAIN stages', NEW k \in stages'[i],
                      NEW d \in graph.children[k] \cap unready
               PROVE  \E j \in 1 .. i - 1 : d \in stages'[j]
    BY <1>2 DEF DependenciesFirst
  <2>1. CASE i \in DOMAIN stages
    <3>1. k \in stages[i] /\ ~WaitsForCycle(k)
      BY <1>2, <1>8, <2>1 DEF IInv, NoCycleSoFar, Placed
    <3>2. PICK j \in 1 .. i - 1 : d \in stages[j]
      BY <2>1, <3>1 DEF IInv, DependenciesFirst
    <3>3. QED
      BY <1>8, <2>1, <3>2
  <2>2. CASE i = n
    <3>1. d \in Placed
      BY <1>5, <1>8, <2>2
    <3>2. PICK j \in DOMAIN stages : d \in stages[j]
      BY <3>1 DEF Placed
    <3>3. QED
      BY <1>8, <2>2, <3>2
  <2>3. QED
    BY <1>8, <2>1, <2>2
<1>10. OnlyCyclesAreGrouped'
  <2>1. \A i \in DOMAIN stages' : \A k \in stages'[i] : k \in Placed'
    BY DEF Placed
  <2>2. QED
    BY <1>6, <2>1 DEF OnlyCyclesAreGrouped
<1>11. QED
  BY <1>1, <1>2, <1>4, <1>7, <1>9, <1>10 DEF IInv, NothingBeforeCollect

(* With no current stage, each workload left depends on another one left:  *)
(* what is left is itself the set that WaitsForCycle asks for.             *)
LEMMA LeftoversWaitForCycle ==
  ASSUME IInv, pc = "Layer", CurrentStage = {}, NEW k \in DOMAIN count
  PROVE  WaitsForCycle(k)
<1>1. DOMAIN count \in SUBSET unready
  BY DEF IInv, TypeOK
<1>2. \A v \in DOMAIN count : graph.children[v] \cap DOMAIN count # {}
  BY CurrentIsFree DEF IInv, Free
<1>3. QED
  BY <1>1, <1>2 DEF WaitsForCycle

LEMMA PlaceCycleKeepsIInv == IInv /\ PlaceCycle => IInv'
<1> SUFFICES ASSUME IInv, PlaceCycle PROVE IInv'
  OBVIOUS
<1> DEFINE S == DOMAIN count
           n == Len(stages) + 1
<1>1. /\ pc = "Layer" /\ pc' = "Done" /\ graph' = graph /\ unready' = unready
      /\ stages' = Append(stages, S) /\ count' = count
      /\ remainingCount' = remainingCount /\ S \in SUBSET Workload
  BY DEF PlaceCycle, IInv, TypeOK
<1>2. /\ DOMAIN stages = 1 .. Len(stages) /\ Len(stages) \in Nat
      /\ DOMAIN stages' = 1 .. n /\ stages'[n] = S /\ Len(stages') = n
      /\ stages' \in Seq(SUBSET Workload)
      /\ \A i \in 1 .. Len(stages) : stages'[i] = stages[i]
  BY <1>1, AppendStage DEF IInv, TypeOK
<1>3. TypeOK' /\ CountsAreExact'
  BY <1>1, <1>2 DEF IInv, TypeOK, CountsAreExact
<1>4. EachWorkloadOnce'
  <2>1. /\ Placed' = Placed \cup S
        /\ \A i, j \in DOMAIN stages' : i # j => stages'[i] \cap stages'[j] = {}
    BY <1>1, PlacedGrows
  <2>2. Placed \cup S = unready
    BY <1>1 DEF IInv, EachWorkloadOnce, Unplaced
  <2>3. Unplaced' = {}
    BY <1>1 DEF Unplaced
  <2>4. QED
    BY <1>1, <2>1, <2>2, <2>3 DEF EachWorkloadOnce
<1>5. \A k \in S : WaitsForCycle(k)
  BY <1>1, LeftoversWaitForCycle DEF PlaceCycle
<1>6. \A k : WaitsForCycle(k)' <=> WaitsForCycle(k)
  BY <1>1, SameCycles
<1>7. \A i \in DOMAIN stages : \A k \in stages[i] : ~WaitsForCycle(k)
  BY <1>1 DEF IInv, NoCycleSoFar, Placed
<1>8. DependenciesFirst'
  <2> SUFFICES ASSUME NEW i \in DOMAIN stages', NEW k \in stages'[i],
                      ~WaitsForCycle(k), NEW d \in graph.children[k] \cap unready
               PROVE  \E j \in 1 .. i - 1 : d \in stages'[j]
    BY <1>1, <1>6 DEF DependenciesFirst
  <2>1. i \in DOMAIN stages /\ k \in stages[i]
    BY <1>2, <1>5
  <2>2. PICK j \in 1 .. i - 1 : d \in stages[j]
    BY <2>1 DEF IInv, DependenciesFirst
  <2>3. QED
    BY <1>2, <2>1, <2>2
<1>9. OnlyCyclesAreGrouped'
  BY <1>2, <1>5, <1>6, <1>7 DEF OnlyCyclesAreGrouped
<1>10. QED
  BY <1>1, <1>3, <1>4, <1>8, <1>9 DEF IInv, NoCycleSoFar, NothingBeforeCollect

(* Returning changes nothing; an exact count of zero leaves nothing over.  *)
LEMMA ReturnKeepsIInv == IInv /\ (Finish \/ TargetIsReady) => IInv'
<1> SUFFICES ASSUME IInv, Finish \/ TargetIsReady PROVE IInv'
  OBVIOUS
<1>1. /\ pc' = "Done" /\ graph' = graph /\ unready' = unready /\ count' = count
      /\ remainingCount' = remainingCount /\ stages' = stages
  BY DEF Finish, TargetIsReady
<1>2. Unplaced = {}
  <2>1. CASE Finish
    <3>1. DOMAIN count \in SUBSET Workload /\ Cardinality(DOMAIN count) <= 0
      BY <2>1 DEF Finish, IInv, TypeOK, CountsAreExact
    <3>2. DOMAIN count = {}
      BY <3>1, FiniteWorkloads, FS_EmptySet
    <3>3. QED
      BY <3>2 DEF Unplaced
  <2>2. CASE TargetIsReady
    BY <2>2 DEF TargetIsReady, Unplaced
  <2>3. QED
    BY <2>1, <2>2
<1>3. \A k : WaitsForCycle(k)' <=> WaitsForCycle(k)
  BY <1>1, SameCycles
<1>4. TypeOK' /\ CountsAreExact' /\ NoCycleSoFar' /\ NothingBeforeCollect'
  BY <1>1 DEF IInv, TypeOK, CountsAreExact, NoCycleSoFar, NothingBeforeCollect
<1>5. EachWorkloadOnce'
  BY <1>1, <1>2 DEF IInv, EachWorkloadOnce, Placed, Unplaced
<1>6. DependenciesFirst' /\ OnlyCyclesAreGrouped'
  BY <1>1, <1>3 DEF IInv, DependenciesFirst, OnlyCyclesAreGrouped
<1>7. QED
  BY <1>4, <1>5, <1>6 DEF IInv

LEMMA NextKeepsIInv == IInv /\ [Next]_vars => IInv'
<1> SUFFICES ASSUME IInv, [Next]_vars PROVE IInv'
  OBVIOUS
<1>1. CASE TargetIsReady \/ Finish
  BY <1>1, ReturnKeepsIInv
<1>2. CASE Collect
  BY <1>2, CollectKeepsIInv
<1>3. CASE PlaceStage
  BY <1>3, PlaceStageKeepsIInv
<1>4. CASE PlaceCycle
  BY <1>4, PlaceCycleKeepsIInv
<1>5. CASE UNCHANGED vars
  <2>1. /\ pc' = pc /\ graph' = graph /\ unready' = unready /\ count' = count
        /\ remainingCount' = remainingCount /\ stages' = stages
    BY <1>5 DEF vars
  <2>2. \A k : WaitsForCycle(k)' <=> WaitsForCycle(k)
    BY <2>1, SameCycles
  <2>3. Placed' = Placed /\ Unplaced' = Unplaced
    BY <2>1 DEF Placed, Unplaced
  <2>4. TypeOK' /\ CountsAreExact' /\ EachWorkloadOnce' /\ NothingBeforeCollect'
    BY <2>1, <2>3 DEF IInv, TypeOK, CountsAreExact, EachWorkloadOnce,
       NothingBeforeCollect
  <2>5. DependenciesFirst' /\ OnlyCyclesAreGrouped' /\ NoCycleSoFar'
    BY <2>1, <2>2, <2>3 DEF IInv, DependenciesFirst, OnlyCyclesAreGrouped,
       NoCycleSoFar
  <2>6. QED
    BY <2>4, <2>5 DEF IInv
<1>6. QED
  BY <1>1, <1>2, <1>3, <1>4, <1>5 DEF Next

(* IInv is an invariant of ResolveRestorationStages on every graph.        *)
THEOREM StagesInvariance == Spec => []IInv
<1>1. QED
  BY InitIInv, NextKeepsIInv, PTL DEF Spec

(* The stages of the resolver put every unready workload below the target  *)
(* in exactly one stage.                                                   *)
THEOREM StagesAreComplete == Spec => []EachWorkloadOnce
<1>1. IInv => EachWorkloadOnce
  BY DEF IInv
<1>2. QED
  BY <1>1, StagesInvariance, PTL

(* A workload comes after the unready workloads it depends on, unless a    *)
(* cycle holds it back.                                                    *)
THEOREM StagesAreOrdered == Spec => []DependenciesFirst
<1>1. IInv => DependenciesFirst
  BY DEF IInv
<1>2. QED
  BY <1>1, StagesInvariance, PTL

(* Only workloads that a cycle holds back share a stage with what they     *)
(* wait for.                                                               *)
THEOREM CyclesAreLast == Spec => []OnlyCyclesAreGrouped
<1>1. IInv => OnlyCyclesAreGrouped
  BY DEF IInv
<1>2. QED
  BY <1>1, StagesInvariance, PTL

(* Each stage the counters yield is the one the graph prescribes.          *)
THEOREM CountersAreRight == Spec => CountersFindNextStage
<1> DEFINE Found == stages' # stages =>
                      stages' = Append(stages, NextStage(graph, Unplaced))
<1>1. IInv /\ [Next]_vars => [Found]_vars
  <2> SUFFICES ASSUME IInv, Next PROVE Found
    OBVIOUS
  <2>1. CASE PlaceStage
    BY <2>1, CurrentIsFree DEF PlaceStage, IInv, NextStage, Unplaced
  <2>2. CASE PlaceCycle
    BY <2>2, CurrentIsFree DEF PlaceCycle, IInv, NextStage, Unplaced
  <2>3. CASE TargetIsReady \/ Collect \/ Finish
    BY <2>3 DEF TargetIsReady, Collect, Finish
  <2>4. QED
    BY <2>1, <2>2, <2>3 DEF Next
<1>2. QED
  BY <1>1, StagesInvariance, PTL DEF Spec, CountersFindNextStage

(* An iteration ends the loop or leaves fewer workloads to place.          *)
LoopShrinks ==
  [][pc = "Layer" =>
       \/ pc' = "Done"
       \/ pc' = "Layer" /\ remainingCount' \in Nat /\ remainingCount' < remainingCount]_vars

(* Why ResolveRestorationStages returns, cycle or no cycle: its counter is *)
(* a natural number that every iteration but the last makes smaller.       *)
THEOREM ResolverShrinks == Spec => LoopShrinks
<1> DEFINE Shrinks ==
      pc = "Layer" =>
        \/ pc' = "Done"
        \/ pc' = "Layer" /\ remainingCount' \in Nat /\ remainingCount' < remainingCount
<1>1. IInv /\ [Next]_vars => [Shrinks]_vars
  <2> SUFFICES ASSUME IInv, Next PROVE Shrinks
    OBVIOUS
  <2>1. CASE PlaceStage
    <3>1. /\ CurrentStage \in SUBSET Workload /\ CurrentStage # {}
          /\ remainingCount' = remainingCount - Cardinality(CurrentStage)
          /\ pc = "Layer" /\ pc' = "Layer"
      BY <2>1 DEF PlaceStage, CurrentStage, IInv, TypeOK
    <3>2. Cardinality(CurrentStage) \in Nat /\ Cardinality(CurrentStage) # 0
      BY <3>1, FiniteWorkloads, FS_EmptySet
    <3>3. remainingCount \in Nat /\ remainingCount' \in Nat
      BY <2>1, PlaceKeepsCounts DEF IInv, TypeOK
    <3>4. QED
      BY <3>1, <3>2, <3>3
  <2>2. CASE TargetIsReady \/ Collect \/ PlaceCycle \/ Finish
    BY <2>2 DEF TargetIsReady, Collect, PlaceCycle, Finish
  <2>3. QED
    BY <2>1, <2>2 DEF Next
<1>2. QED
  BY <1>1, StagesInvariance, PTL DEF Spec, LoopShrinks
=============================================================================
