--------------------- MODULE CheckpointLifecycleProofs ---------------------
(***************************************************************************)
(* The invariants of CheckpointLifecycle and its implementation of         *)
(* RecordPhase, for every value of the constants.                          *)
(***************************************************************************)
EXTENDS CheckpointLifecycle, CheckpointRecordsProofs, FiniteSetTheorems

(* The inductive invariant without the fault and crash budgets.            *)
Core ==
  /\ StoreInv
  /\ ClusterTypeOK
  /\ ReclaimTypeOK
  /\ RestoreTypeOK
  /\ WatchdogTypeOK
  /\ ReclaimerHolds
  /\ \A t \in Restorer : RestorerHolds(t)
  /\ WatchdogHolds
  /\ PodNamesAreUsedOnce
  /\ FreshClaimIsLast
  /\ ReleasedWorkloadHasCheckpoint
  /\ RestoredRecordNamesItsPod

Budgets == faults \in 0 .. MaxFaults /\ crashes \in 0 .. MaxCrashes

LEMMA IInvIsCore == IInv <=> Core /\ Budgets
BY DEF IInv, Core, Budgets, TypeOK, StoreTypeOK, StoreInv

LEMMA IInvIsCoreNext == IInv' <=> Core' /\ Budgets'
BY DEF IInv, Core, Budgets, TypeOK, StoreTypeOK, StoreInv

LEMMA ClientKinds ==
  /\ Reclaimer \in Client /\ Watchdog \in Client /\ Restorer \subseteq Client
  /\ Reclaimer # Watchdog /\ Reclaimer \notin Restorer /\ Watchdog \notin Restorer
BY ClientAssumption DEF Client

LEMMA InitCore == Init => Core
<1>. SUFFICES ASSUME Init PROVE Core
  OBVIOUS
<1>. USE ClientAssumption, BoundAssumption, SentinelAssumption
<1>1. StoreInv /\ ClusterTypeOK
  BY ClientKinds DEF Init, StoreInit, StoreInv, RecordsTypeOK, ClusterTypeOK, FreshCopiesAgree,
         CopiesAreStored, StoredPhase, NoCopy
<1>2. ReclaimTypeOK /\ RestoreTypeOK /\ WatchdogTypeOK
  BY DEF Init, ReclaimInit, RestoreInit, WatchdogInit, ReclaimTypeOK,
         RestoreTypeOK, WatchdogTypeOK, RestoreIdle, WatchdogIdle, RestoreStep
<1>3. ReclaimerHolds /\ WatchdogHolds /\ \A t \in Restorer : RestorerHolds(t)
  BY DEF Init, ReclaimInit, RestoreInit, WatchdogInit, ReclaimIdle, RestoreIdle,
         WatchdogIdle, ReclaimerHolds, RestorerHolds, WatchdogHolds, Claimed,
         ReclaimStep
<1>4. PodNamesAreUsedOnce
  BY DEF Init, StoreInit, PodNamesAreUsedOnce
<1>5. FreshClaimIsLast /\ ReleasedWorkloadHasCheckpoint /\ RestoredRecordNamesItsPod
  BY DEF Init, StoreInit, RestoreInit, RestoreIdle, FreshClaimIsLast,
         ReleasedWorkloadHasCheckpoint, RestoredRecordNamesItsPod, Claimed
<1>. QED
  BY <1>1, <1>2, <1>3, <1>4, <1>5 DEF Core

----------------------------------------------------------------------------
(* What a step of one thread leaves standing of the others.                *)

(* Pods are created and change state; none is forgotten.                   *)
PodStep ==
  \A p \in PodName :
    pods[p].state # "absent" =>
      pods'[p].state # "absent" /\ pods'[p].from = pods[p].from

LEMMA RestorerKept ==
  ASSUME Core, NEW c \in Client, StoreStep(c), PodStep,
         NEW t \in Restorer, t # c, restore'[t] = restore[t]
  PROVE  RestorerHolds(t)'
<1>1. copy'[t] = copy[t] /\ RestorerHolds(t)
  BY ClientKinds DEF Core, StoreStep
<1>. QED
  BY <1>1 DEF RestorerHolds, Claimed, PodStep

LEMMA ReclaimerKept ==
  ASSUME Core, NEW c \in Client, StoreStep(c), c # Reclaimer, reclaim' = reclaim
  PROVE  ReclaimerHolds'
<1>1. copy'[Reclaimer] = copy[Reclaimer] /\ ReclaimerHolds
  BY ClientKinds DEF Core, StoreStep
<1>2. \A r \in RecordName :
        record[r].phase \notin {"Absent", "Unset"} => record'[r].phase # "Unset"
  BY DEF StoreStep
<1>3. copy[Reclaimer].name # NoRecord =>
        /\ copy[Reclaimer].name \in RecordName
        /\ record[copy[Reclaimer].name].phase # "Absent"
  BY ClientKinds DEF Core, StoreInv, RecordsTypeOK, CopiesAreStored
<1>. QED
  BY <1>1, <1>2, <1>3 DEF ReclaimerHolds, ReclaimStep

LEMMA WatchdogKept ==
  ASSUME Core, PodStep, now' \in Nat, now' >= now, watchdog' = watchdog
  PROVE  WatchdogHolds'
<1>1. now \in Nat /\ \A p \in PodName : Second(p) \in Nat
  BY BoundAssumption DEF Core, ClusterTypeOK, PodName, Second
<1>. QED
  BY <1>1 DEF Core, WatchdogHolds, WatchdogTypeOK, PodStep

(* A released workload keeps its checkpoint.                               *)
LEMMA CheckpointKept ==
  ASSUME Core, NEW c \in Client, StoreStep(c),
         \A w \in Workload : size'[w] = 0 =>
           \/ size[w] = 0
           \/ \E r \in RecordName : /\ Source(r) = w
                                    /\ record[r].phase \notin {"Absent", "Unset"}
  PROVE  ReleasedWorkloadHasCheckpoint'
<1>1. \A r \in RecordName : record[r].phase \notin {"Absent", "Unset"} =>
        record'[r].phase \notin {"Absent", "Unset"}
  BY DEF StoreStep
<1>. QED
  BY <1>1 DEF Core, ReleasedWorkloadHasCheckpoint, RecordsOf

(* A Restored record keeps its pod.                                        *)
LEMMA RestoredKept ==
  ASSUME Core, PodStep,
         \A r \in RecordName : record'[r].phase = "Restored" => record'[r] = record[r]
  PROVE  RestoredRecordNamesItsPod'
BY DEF Core, RestoredRecordNamesItsPod, PodStep

(* A claim stays the last write of its record while its copy is current:  *)
(* c keeps its own, or has just written one.                               *)
LEMMA ClaimsKept ==
  ASSUME Core, NEW c \in Client, StoreInv', StoreStep(c),
         \A t \in Restorer : RestorerHolds(t)',
         \A t \in Restorer \ {c} : restore'[t] = restore[t],
         c \in Restorer /\ Claimed(c)' /\ c \in fresh' =>
           \/ /\ Claimed(c) /\ c \in fresh
              /\ copy'[c].name = copy[c].name /\ record' = record
           \/ record'[copy'[c].name].by = c
  PROVE  FreshClaimIsLast'
<1>1. ASSUME NEW t \in Restorer, Claimed(t)', t \in fresh'
      PROVE  record'[copy'[t].name].phase = "Restoring"
  BY <1>1, ClientKinds DEF StoreInv, FreshCopiesAgree, RestorerHolds
<1>2. ASSUME NEW t \in Restorer, Claimed(t)', t \in fresh'
      PROVE  record'[copy'[t].name].by = t
  <2>1. CASE t = c
    BY <1>2, <2>1 DEF Core, FreshClaimIsLast
  <2>2. CASE t # c
    <3>1. /\ copy'[t] = copy[t]
          /\ t \in fresh
          /\ Claimed(t)
      BY <1>2, <2>2, ClientKinds DEF StoreStep, Claimed
    <3>2. copy[t].name \in RecordName /\ record[copy[t].name].by = t
      BY <3>1 DEF Core, StoreInv, RecordsTypeOK, FreshCopiesAgree, FreshClaimIsLast
    <3>. QED
      BY <1>2, <2>2, <3>1, <3>2 DEF StoreStep
  <2>. QED
    BY <2>1, <2>2
<1>. QED
  BY <1>1, <1>2 DEF FreshClaimIsLast

----------------------------------------------------------------------------
(* The reclamation loop.  Each action owes what it does to the store, its  *)
(* own next state, and that it takes a workload down only with a record.   *)
LEMMA ReclaimerStep ==
  ASSUME Core, UNCHANGED <<pods, now, restore, watchdog>>,
         StoreInv', StoreStep(Reclaimer), ReclaimTypeOK', ReclaimerHolds',
         size' \in [Workload -> 0 .. MaxReplicas],
         \A w \in Workload : size'[w] = 0 =>
           \/ size[w] = 0
           \/ \E r \in RecordName : /\ Source(r) = w
                                    /\ record[r].phase \notin {"Absent", "Unset"},
         \A r \in RecordName : record'[r].phase = "Restored" => record'[r] = record[r]
  PROVE  Core'
<1>. USE ClientKinds
<1>1. PodStep
  BY DEF PodStep
<1>2. ClusterTypeOK' /\ RestoreTypeOK' /\ WatchdogTypeOK' /\ PodNamesAreUsedOnce'
  BY DEF Core, ClusterTypeOK, RestoreTypeOK, WatchdogTypeOK, PodNamesAreUsedOnce
<1>3. \A t \in Restorer : RestorerHolds(t)'
  BY <1>1, RestorerKept
<1>4. WatchdogHolds'
  BY DEF Core, WatchdogHolds
<1>5. FreshClaimIsLast'
  BY <1>3, ClaimsKept
<1>6. ReleasedWorkloadHasCheckpoint'
  BY CheckpointKept
<1>7. RestoredRecordNamesItsPod'
  BY <1>1, RestoredKept
<1>. QED
  BY <1>2, <1>3, <1>4, <1>5, <1>6, <1>7 DEF Core

LEMMA ReturnToLoopKeeps ==
  ASSUME Core, ReturnToLoop
  PROVE  /\ StoreInv' /\ StoreStep(Reclaimer)
         /\ ReclaimTypeOK' /\ ReclaimerHolds'
         /\ record' = record
BY ClientKinds, DropStore
   DEF Core, ReturnToLoop, DropUnwritten, ReclaimTypeOK, ReclaimerHolds,
       ReclaimIdle, ReclaimStep

LEMMA ReclaimKeepsCore ==
  ASSUME Core, ReclaimNext, UNCHANGED <<now, restore, watchdog>>
  PROVE  Core'
<1>. USE ClientKinds
<1>0. /\ size \in [Workload -> 0 .. MaxReplicas]
      /\ now \in 0 .. MaxTime
      /\ reclaim.at # "idle" => reclaim \in [at : ReclaimStep, pod : Workload, graceful : BOOLEAN]
  BY DEF Core, ClusterTypeOK, ReclaimTypeOK, ReclaimIdle
<1>1. ASSUME NEW w \in Workload, StartReclaim(w) PROVE Core'
  <2>1. StoreInv' /\ StoreStep(Reclaimer)
    BY <1>1, SameStore DEF Core, StartReclaim
  <2>2. ReclaimTypeOK' /\ ReclaimerHolds'
    BY <1>1 DEF StartReclaim, ReclaimTypeOK, ReclaimerHolds, ReclaimStep
  <2>. QED
    BY <1>0, <1>1, <2>1, <2>2, ReclaimerStep DEF StartReclaim, storeVars, clusterVars
<1>2. ASSUME CreateRecord PROVE Core'
  <2>. DEFINE r == <<reclaim.pod, now>>
  <2>0. r \in RecordName /\ Source(r) = reclaim.pod
    BY <1>0, <1>2, MadeName DEF CreateRecord
  <2>1. StoreInv' /\ StoreStep(Reclaimer) /\ record'[r].phase = "Unset"
    BY <1>2, <2>0, CreateStore DEF Core, CreateRecord
  <2>2. ReclaimTypeOK' /\ ReclaimerHolds'
    BY <1>0, <1>2, <2>0, SentinelAssumption
       DEF Core, CreateRecord, Hold, StoreInv, RecordsTypeOK, ReclaimTypeOK,
           ReclaimerHolds, ReclaimStep
  <2>3. \A q \in RecordName : record'[q].phase = "Restored" => record'[q] = record[q]
    BY <1>2, <2>0 DEF Core, StoreInv, RecordsTypeOK, CreateRecord, CreateObject
  <2>. QED
    BY <1>0, <1>2, <2>1, <2>2, <2>3, ReclaimerStep DEF CreateRecord, clusterVars
<1>3. ASSUME RecordExists \/ MarkReadyConflict PROVE Core'
  BY <1>0, <1>3, ReturnToLoopKeeps, ReclaimerStep
     DEF RecordExists, MarkReadyConflict, clusterVars
<1>4. ASSUME MarkReady PROVE Core'
  <2>. DEFINE r == copy[Reclaimer].name
  <2>1. /\ StoreInv' /\ StoreStep(Reclaimer) /\ r \in RecordName
        /\ record' = [record EXCEPT ![r] = [phase |-> "Ready", pod |-> NoPod, by |-> Reclaimer]]
    BY <1>4, WriteStore DEF Core, MarkReady, Phase
  <2>2. ReclaimTypeOK' /\ ReclaimerHolds'
    BY <1>0, <1>4, <2>1
       DEF Core, MarkReady, StoreInv, RecordsTypeOK, ReclaimTypeOK,
           ReclaimerHolds, ReclaimStep
  <2>3. \A q \in RecordName : record'[q].phase = "Restored" => record'[q] = record[q]
    BY <2>1 DEF Core, StoreInv, RecordsTypeOK
  <2>. QED
    BY <1>0, <1>4, <2>1, <2>2, <2>3, ReclaimerStep DEF MarkReady, clusterVars
<1>5. ASSUME Release \/ ScaleToZero PROVE Core'
  <2>1. ReturnToLoop /\ UNCHANGED pods
    BY <1>5 DEF Release, ScaleToZero
  <2>2. /\ size' \in [Workload -> 0 .. MaxReplicas]
        /\ \A w \in Workload : size'[w] = 0 => size[w] = 0 \/ w = reclaim.pod
    BY <1>0, <1>5, BoundAssumption DEF Release, ScaleToZero
  <2>3. \E r \in RecordName : /\ Source(r) = reclaim.pod
                              /\ record[r].phase \notin {"Absent", "Unset"}
    BY <1>5 DEF Release, ScaleToZero, Core, ReclaimerHolds, ReclaimStep, StoreInv,
                RecordsTypeOK, CopiesAreStored
  <2>. QED
    BY <2>1, <2>2, <2>3, ReturnToLoopKeeps, ReclaimerStep
<1>6. ASSUME InspectDeployment PROVE Core'
  <2>1. CASE ReturnToLoop
    BY <1>0, <1>6, <2>1, ReturnToLoopKeeps, ReclaimerStep
       DEF InspectDeployment, clusterVars
  <2>2. CASE reclaim' = [reclaim EXCEPT !.at = "scale"] /\ UNCHANGED storeVars
    <3>1. StoreInv' /\ StoreStep(Reclaimer)
      BY <2>2, SameStore DEF Core
    <3>2. ReclaimTypeOK' /\ ReclaimerHolds'
      BY <1>0, <1>6, <2>2
         DEF Core, InspectDeployment, ReclaimTypeOK, ReclaimerHolds, ReclaimStep,
             storeVars
    <3>. QED
      BY <1>0, <1>6, <2>2, <3>1, <3>2, ReclaimerStep
         DEF InspectDeployment, storeVars, clusterVars
  <2>. QED
    BY <1>6, <2>1, <2>2 DEF InspectDeployment
<1>. QED
  BY <1>1, <1>2, <1>3, <1>4, <1>5, <1>6 DEF ReclaimNext

LEMMA ReclaimFaultKeepsCore ==
  ASSUME Core, ReclaimFault, UNCHANGED <<now, restore, watchdog>>
  PROVE  Core'
<1>. USE ClientKinds
<1>0. /\ size \in [Workload -> 0 .. MaxReplicas]
      /\ now \in 0 .. MaxTime
      /\ reclaim.at # "idle" => reclaim \in [at : ReclaimStep, pod : Workload, graceful : BOOLEAN]
  BY DEF Core, ClusterTypeOK, ReclaimTypeOK, ReclaimIdle
<1>1. CASE ReclaimCallFails
  BY <1>0, <1>1, ReturnToLoopKeeps, ReclaimerStep DEF ReclaimCallFails, clusterVars
<1>2. CASE ReclaimAnswerLost
  <2>1. ReclaimTypeOK' /\ ReclaimerHolds'
    BY <1>2 DEF ReclaimAnswerLost, ReclaimTypeOK, ReclaimerHolds, ReclaimIdle, ReclaimStep
  <2>2. CASE /\ reclaim.at = "create"
             /\ CreateObject(<<reclaim.pod, now>>)
             /\ UNCHANGED <<copy, fresh>>
    <3>1. <<reclaim.pod, now>> \in RecordName
      BY <1>0, <2>2, MadeName
    <3>2. StoreInv' /\ StoreStep(Reclaimer)
      BY <2>2, <3>1, CreateStore DEF Core
    <3>3. \A q \in RecordName : record'[q].phase = "Restored" => record'[q] = record[q]
      BY <2>2, <3>1 DEF Core, StoreInv, RecordsTypeOK, CreateObject
    <3>. QED
      BY <1>0, <1>2, <2>1, <3>2, <3>3, ReclaimerStep DEF ReclaimAnswerLost, clusterVars
  <2>3. CASE /\ reclaim.at = "ready"
             /\ UpdateStatus(Reclaimer, "Ready", NoPod)
             /\ DropWritten(Reclaimer)
    <3>1. /\ StoreInv' /\ StoreStep(Reclaimer) /\ copy[Reclaimer].name \in RecordName
          /\ record' = [record EXCEPT ![copy[Reclaimer].name] =
                       [phase |-> "Ready", pod |-> NoPod, by |-> Reclaimer]]
      BY <2>3, WriteStore DEF Core, Phase
    <3>2. \A q \in RecordName : record'[q].phase = "Restored" => record'[q] = record[q]
      BY <3>1 DEF Core, StoreInv, RecordsTypeOK
    <3>. QED
      BY <1>0, <1>2, <2>1, <3>1, <3>2, ReclaimerStep DEF ReclaimAnswerLost, clusterVars
  <2>. QED
    BY <1>2, <2>2, <2>3 DEF ReclaimAnswerLost
<1>. QED
  BY <1>1, <1>2 DEF ReclaimFault

----------------------------------------------------------------------------
(* The restorers.                                                          *)
LEMMA RestorerStep ==
  ASSUME Core, NEW t \in Restorer, UNCHANGED <<now, reclaim, watchdog>>,
         RestoreTypeOK', \A u \in Restorer \ {t} : restore'[u] = restore[u],
         StoreInv', StoreStep(t), RestorerHolds(t)',
         ClusterTypeOK', PodStep, PodNamesAreUsedOnce',
         \A w \in Workload : size'[w] = 0 => size[w] = 0,
         Claimed(t)' /\ t \in fresh' =>
           \/ /\ Claimed(t) /\ t \in fresh
              /\ copy'[t].name = copy[t].name /\ record' = record
           \/ record'[copy'[t].name].by = t,
         RestoredRecordNamesItsPod'
  PROVE  Core'
<1>. USE ClientKinds
<1>1. ReclaimTypeOK' /\ WatchdogTypeOK'
  BY DEF Core, ReclaimTypeOK, WatchdogTypeOK
<1>2. \A u \in Restorer : RestorerHolds(u)'
  BY RestorerKept
<1>3. ReclaimerHolds'
  BY ReclaimerKept
<1>4. now \in Nat /\ now' = now
  BY BoundAssumption DEF Core, ClusterTypeOK
<1>5. WatchdogHolds'
  BY <1>4, WatchdogKept
<1>6. FreshClaimIsLast'
  BY <1>2, ClaimsKept
<1>7. ReleasedWorkloadHasCheckpoint'
  BY CheckpointKept
<1>. QED
  BY <1>1, <1>2, <1>3, <1>5, <1>6, <1>7 DEF Core

(* A step that changes neither pods nor Deployments.                       *)
LEMMA RestorerQuietStep ==
  ASSUME Core, NEW t \in Restorer, UNCHANGED <<now, reclaim, watchdog, clusterVars>>,
         RestoreTypeOK', \A u \in Restorer \ {t} : restore'[u] = restore[u],
         StoreInv', StoreStep(t), RestorerHolds(t)',
         Claimed(t)' /\ t \in fresh' =>
           \/ /\ Claimed(t) /\ t \in fresh
              /\ copy'[t].name = copy[t].name /\ record' = record
           \/ record'[copy'[t].name].by = t,
         RestoredRecordNamesItsPod'
  PROVE  Core'
<1>1. ClusterTypeOK' /\ PodStep /\ PodNamesAreUsedOnce'
  BY DEF Core, ClusterTypeOK, PodStep, PodNamesAreUsedOnce, clusterVars
<1>2. \A w \in Workload : size'[w] = 0 => size[w] = 0
  BY DEF clusterVars
<1>. QED
  BY <1>1, <1>2, RestorerStep

LEMMA ReturnUnwrittenKeeps ==
  ASSUME Core, NEW t \in Restorer, ReturnUnwritten(t),
         UNCHANGED <<now, reclaim, watchdog, clusterVars>>
  PROVE  Core'
<1>. USE ClientKinds
<1>1. /\ restore' = [restore EXCEPT ![t] = RestoreIdle]
      /\ DropUnwritten(t)
      /\ record' = record
  BY DEF ReturnUnwritten, DropUnwritten
<1>2. StoreInv' /\ StoreStep(t)
  BY <1>1, DropStore DEF Core
<1>3. RestoreTypeOK' /\ RestorerHolds(t)' /\ ~Claimed(t)'
  BY <1>1 DEF Core, RestoreTypeOK, RestoreStep, RestoreIdle, RestorerHolds, Claimed
<1>4. \A u \in Restorer \ {t} : restore'[u] = restore[u]
  BY <1>1 DEF Core, RestoreTypeOK
<1>5. RestoredRecordNamesItsPod'
  BY <1>1, RestoredKept DEF PodStep, clusterVars
<1>. QED
  BY <1>2, <1>3, <1>4, <1>5, RestorerQuietStep

(* Going from one call to the next without touching anything shared.       *)
LEMMA GotoKeeps ==
  ASSUME Core, NEW t \in Restorer, NEW step \in {"claim", "fail"}, Goto(t, step),
         step = "fail" => restore[t].at = "launch",
         UNCHANGED <<now, reclaim, watchdog, storeVars, clusterVars>>
  PROVE  Core'
<1>. USE ClientKinds
<1>1. StoreInv' /\ StoreStep(t)
  BY SameStore DEF Core
<1>2. RestoreTypeOK' /\ \A u \in Restorer \ {t} : restore'[u] = restore[u]
  BY DEF Core, RestoreTypeOK, RestoreStep, Goto
<1>3. RestorerHolds(t)' /\ (Claimed(t)' => Claimed(t))
  BY DEF Core, RestoreTypeOK, RestorerHolds, Claimed, Goto, storeVars
<1>4. RestoredRecordNamesItsPod'
  BY RestoredKept DEF PodStep, storeVars, clusterVars
<1>. QED
  BY <1>1, <1>2, <1>3, <1>4, RestorerQuietStep DEF storeVars

(* The write that ends a restore.                                          *)
LEMMA ReturnWrittenKeeps ==
  ASSUME Core, NEW t \in Restorer, NEW ph \in {"Restoring", "Restored", "Failed"},
         NEW pod \in PodName \cup {NoPod},
         UpdateStatus(t, ph, pod), ReturnWritten(t),
         ph = "Restored" => restore[t].at = "finish" /\ pod = restore[t].pod,
         UNCHANGED <<now, reclaim, watchdog, clusterVars>>
  PROVE  Core'
<1>. USE ClientKinds
<1>1. restore' = [restore EXCEPT ![t] = RestoreIdle] /\ DropWritten(t)
  BY DEF ReturnWritten
<1>2. /\ StoreInv' /\ StoreStep(t)
      /\ copy[t].name \in RecordName
      /\ record' = [record EXCEPT ![copy[t].name] = [phase |-> ph, pod |-> pod, by |-> t]]
  BY <1>1, WriteStore DEF Core, Phase
<1>3. RestoreTypeOK' /\ RestorerHolds(t)' /\ ~Claimed(t)'
  BY <1>1 DEF Core, RestoreTypeOK, RestoreStep, RestoreIdle, RestorerHolds, Claimed
<1>4. \A u \in Restorer \ {t} : restore'[u] = restore[u]
  BY <1>1 DEF Core, RestoreTypeOK
<1>5. RestoredRecordNamesItsPod'
  BY <1>2 DEF Core, StoreInv, RecordsTypeOK, RestoredRecordNamesItsPod, RestorerHolds,
              clusterVars
<1>. QED
  BY <1>2, <1>3, <1>4, <1>5, RestorerQuietStep

(* The launch: a Deployment is scaled to one, or a pod is created.         *)
LEMMA LaunchKeeps ==
  ASSUME Core, NEW t \in Restorer, ScaleToOne(t) \/ CreatePod(t),
         \/ restore' = [restore EXCEPT ![t] = [at |-> "finish", pod |-> Launched(t)]]
         \/ Goto(t, "fail"),
         UNCHANGED <<now, reclaim, watchdog, storeVars>>
  PROVE  Core'
<1>. USE ClientKinds
<1>1. /\ restore[t].at = "launch"
      /\ copy[t].name \in RecordName
      /\ copy[t].phase = "Restoring"
  BY DEF ScaleToOne, CreatePod, Core, RestorerHolds, Claimed, StoreInv, RecordsTypeOK
<1>. DEFINE w == Source(copy[t].name)
            p == <<w, now>>
<1>2. /\ w \in Workload
      /\ p \in PodName /\ Source(p) = w /\ Second(p) = now
  BY <1>1, NameParts, MadeName DEF Core, ClusterTypeOK
<1>3. StoreInv' /\ StoreStep(t)
  BY SameStore DEF Core
<1>4. /\ RestoreTypeOK'
      /\ \A u \in Restorer \ {t} : restore'[u] = restore[u]
      /\ Claimed(t)' /\ Claimed(t)
  BY <1>1, <1>2 DEF Core, RestoreTypeOK, RestoreStep, Goto, Launched, Claimed
<1>5. /\ copy'[t] = copy[t]
      /\ restore'[t].at = "finish" => restore'[t].pod = Launched(t)
  BY DEF Core, RestoreTypeOK, Goto, storeVars
<1>6. CASE ScaleToOne(t)
  <2>0. /\ size' = [size EXCEPT ![w] = 1]
        /\ UNCHANGED pods
        /\ OwnerKind[w] = "Deployment"
    BY <1>6 DEF ScaleToOne
  <2>1. ClusterTypeOK' /\ PodStep /\ PodNamesAreUsedOnce'
    <3>1. size' \in [Workload -> 0 .. MaxReplicas]
      BY <1>2, <2>0, BoundAssumption DEF Core, ClusterTypeOK
    <3>2. ClusterTypeOK'
      BY <2>0, <3>1 DEF Core, ClusterTypeOK
    <3>3. PodStep
      BY <2>0, <3>1 DEF PodStep
    <3>4. PodNamesAreUsedOnce'
      BY <2>0, <3>1 DEF Core, PodNamesAreUsedOnce
    <3>. QED BY <3>1, <3>2, <3>3, <3>4
  <2>2. \A v \in Workload : size'[v] = 0 => size[v] = 0
    BY <1>6 DEF Core, ClusterTypeOK, ScaleToOne
  <2>3. RestorerHolds(t)'
    BY <1>1, <1>5, <2>0, SentinelAssumption DEF Launched, RestorerHolds
  <2>4. RestoredRecordNamesItsPod'
    BY <2>1, RestoredKept DEF storeVars
  <2>. QED
    BY <1>3, <1>4, <2>1, <2>2, <2>3, <2>4, RestorerStep DEF storeVars
<1>7. CASE CreatePod(t)
  <2>0. /\ ~Live(p)
        /\ pods' = [pods EXCEPT ![p] = [state |-> "pending", from |-> copy[t].name]]
        /\ UNCHANGED size
        /\ OwnerKind[w] # "Deployment"
    BY <1>2, <1>7 DEF CreatePod
  <2>1. pods[p].state = "absent"
    BY <1>2, <2>0, BoundAssumption
       DEF Core, ClusterTypeOK, PodNamesAreUsedOnce, Live
  <2>2. ClusterTypeOK' /\ PodStep
    BY <1>1, <1>2, <2>0, <2>1 DEF Core, ClusterTypeOK, PodStep
  <2>3. PodNamesAreUsedOnce'
    BY <1>1, <1>2, <2>0, SentinelAssumption DEF Core, ClusterTypeOK, PodNamesAreUsedOnce
  <2>4. RestorerHolds(t)'
    BY <1>1, <1>2, <1>5, <2>0, SentinelAssumption
       DEF Core, ClusterTypeOK, Launched, RestorerHolds
  <2>5. RestoredRecordNamesItsPod'
    BY <2>2, RestoredKept DEF storeVars
  <2>. QED
    BY <1>3, <1>4, <2>0, <2>2, <2>3, <2>4, <2>5, RestorerStep DEF storeVars
<1>. QED
  BY <1>6, <1>7

(* A read by t: the copy it now holds is claimed by nobody.                *)
LEMMA ReadKeeps ==
  ASSUME Core, NEW t \in Restorer, restore[t].at = "idle",
         NEW r \in RecordName, Get(t, r),
         NEW step \in {"check", "claim"}, Goto(t, step),
         UNCHANGED <<now, reclaim, watchdog, clusterVars>>
  PROVE  Core'
<1>. USE ClientKinds
<1>1. StoreInv' /\ StoreStep(t) /\ record' = record
  BY ReadStore DEF Core, Get
<1>2. RestoreTypeOK' /\ \A u \in Restorer \ {t} : restore'[u] = restore[u]
  BY DEF Core, RestoreTypeOK, RestoreStep, Goto
<1>3. RestorerHolds(t)' /\ ~Claimed(t)'
  BY DEF Core, RestoreTypeOK, RestorerHolds, Claimed, Goto
<1>4. RestoredRecordNamesItsPod'
  BY <1>1, RestoredKept DEF PodStep, clusterVars
<1>. QED
  BY <1>1, <1>2, <1>3, <1>4, RestorerQuietStep

LEMMA ClaimKeeps ==
  ASSUME Core, NEW t \in Restorer, Claim(t), UNCHANGED <<now, reclaim, watchdog>>
  PROVE  Core'
<1>. USE ClientKinds
<1>1. CASE ReturnUnwritten(t)
  BY <1>1, ReturnUnwrittenKeeps DEF Claim
<1>2. CASE /\ UpdateStatus(t, "Restoring", NoPod)
           /\ Hold(t, copy[t].name, "Restoring")
           /\ Goto(t, "launch")
  <2>1. /\ StoreInv' /\ StoreStep(t)
        /\ copy[t].name \in RecordName
        /\ record' = [record EXCEPT ![copy[t].name] =
                     [phase |-> "Restoring", pod |-> NoPod, by |-> t]]
    BY <1>2, WriteStore DEF Core, Phase
  <2>2. copy'[t] = [name |-> copy[t].name, phase |-> "Restoring"]
    BY <1>2 DEF Core, StoreInv, RecordsTypeOK, Hold
  <2>3. RestoreTypeOK' /\ \A u \in Restorer \ {t} : restore'[u] = restore[u]
    BY <1>2 DEF Core, RestoreTypeOK, RestoreStep, Goto
  <2>4. RestorerHolds(t)'
    BY <1>2, <2>1, <2>2, SentinelAssumption DEF Core, RestoreTypeOK, RestorerHolds, Goto
  <2>5. RestoredRecordNamesItsPod'
    BY <2>1, RestoredKept DEF Core, StoreInv, RecordsTypeOK, PodStep, Claim, clusterVars
  <2>6. record'[copy'[t].name].by = t
    BY <2>1, <2>2 DEF Core, StoreInv, RecordsTypeOK
  <2>. QED
    BY <2>1, <2>3, <2>4, <2>5, <2>6, RestorerQuietStep DEF Claim
<1>. QED
  BY <1>1, <1>2 DEF Claim

LEMMA RestoreKeepsCore ==
  ASSUME Core, NEW t \in Restorer, RestoreNext(t), UNCHANGED <<now, reclaim, watchdog>>
  PROVE  Core'
<1>. USE ClientKinds
<1>1. CASE MatchingRestoreRecord(t)
  <2>1. PICK w \in Demand : \E r \in ListReady(w) : Get(t, r)
    BY <1>1 DEF MatchingRestoreRecord
  <2>2. PICK r \in RecordName : Get(t, r)
    BY <2>1 DEF ListReady, RecordsOf
  <2>. QED
    BY <1>1, <2>2, ReadKeeps DEF MatchingRestoreRecord
<1>2. CASE ReadRecord(t)
  BY <1>2, ReadKeeps DEF ReadRecord
<1>3. CASE HasRestoredWorkload(t)
  BY <1>3, ReturnUnwrittenKeeps, GotoKeeps DEF HasRestoredWorkload
<1>4. CASE RejectPhase(t) \/ RequestCancelled(t)
  BY <1>4, ReturnUnwrittenKeeps DEF RejectPhase, RequestCancelled
<1>5. CASE Claim(t)
  BY <1>5, ClaimKeeps
<1>6. CASE Launch(t)
  BY <1>6, LaunchKeeps DEF Launch
<1>7. CASE PodExists(t)
  BY <1>7, GotoKeeps DEF PodExists
<1>8. CASE Finish(t)
  <2>1. CASE ReturnUnwritten(t)
    BY <1>8, <2>1, ReturnUnwrittenKeeps DEF Finish
  <2>2. CASE UpdateStatus(t, "Restored", restore[t].pod) /\ ReturnWritten(t)
    <3>1. restore[t].at = "finish" /\ restore[t].pod \in PodName \cup {NoPod}
      BY <1>8 DEF Finish, Core, RestorerHolds
    <3>. QED
      BY <1>8, <2>2, <3>1, ReturnWrittenKeeps DEF Finish
  <2>. QED
    BY <1>8, <2>1, <2>2 DEF Finish
<1>9. CASE MarkFailed(t)
  BY <1>9, ReturnUnwrittenKeeps, ReturnWrittenKeeps DEF MarkFailed
<1>10. CASE ScaleFallback(t)
  <2>1. /\ restore' = [restore EXCEPT ![t] = RestoreIdle]
        /\ DropUnwritten(t) /\ record' = record
        /\ UNCHANGED pods
        /\ size' = size \/ size' = [size EXCEPT ![restore[t].pod] = 1]
    BY <1>10 DEF ScaleFallback, ReturnUnwritten, DropUnwritten
  <2>2. StoreInv' /\ StoreStep(t)
    BY <2>1, DropStore DEF Core
  <2>3. RestoreTypeOK' /\ RestorerHolds(t)' /\ ~Claimed(t)'
    BY <2>1 DEF Core, RestoreTypeOK, RestoreStep, RestoreIdle, RestorerHolds, Claimed
  <2>4. \A u \in Restorer \ {t} : restore'[u] = restore[u]
    BY <2>1 DEF Core, RestoreTypeOK
  <2>5. /\ size' \in [Workload -> 0 .. MaxReplicas]
        /\ \A w \in Workload : size'[w] = 0 => size[w] = 0
    BY <2>1, BoundAssumption DEF Core, ClusterTypeOK
  <2>6. ClusterTypeOK' /\ PodStep /\ PodNamesAreUsedOnce'
    BY <2>1, <2>5 DEF Core, ClusterTypeOK, PodStep, PodNamesAreUsedOnce
  <2>7. RestoredRecordNamesItsPod'
    BY <2>1, <2>6, RestoredKept
  <2>. QED
    BY <2>2, <2>3, <2>4, <2>5, <2>6, <2>7, RestorerStep
<1>11. ASSUME NEW w \in Workload, NoMatchingRecord(t, w) PROVE Core'
  <2>1. /\ restore' = [restore EXCEPT ![t] = [at |-> "fallback", pod |-> w]]
        /\ UNCHANGED <<storeVars, clusterVars>>
    BY <1>11 DEF NoMatchingRecord
  <2>2. StoreInv' /\ StoreStep(t)
    BY <2>1, SameStore DEF Core
  <2>3. RestoreTypeOK' /\ RestorerHolds(t)' /\ ~Claimed(t)'
    BY <2>1 DEF Core, RestoreTypeOK, RestoreStep, RestorerHolds, Claimed
  <2>4. \A u \in Restorer \ {t} : restore'[u] = restore[u]
    BY <2>1 DEF Core, RestoreTypeOK
  <2>5. RestoredRecordNamesItsPod'
    BY <2>1, RestoredKept DEF PodStep, storeVars, clusterVars
  <2>. QED
    BY <2>1, <2>2, <2>3, <2>4, <2>5, RestorerQuietStep
<1>. QED
  BY <1>1, <1>2, <1>3, <1>4, <1>5, <1>6, <1>7, <1>8, <1>9, <1>10, <1>11
     DEF RestoreNext, RestoreProgress

LEMMA RestoreFaultKeepsCore ==
  ASSUME Core, NEW t \in Restorer, RestoreFault(t), UNCHANGED <<now, reclaim, watchdog>>
  PROVE  Core'
<1>1. CASE RestoreCallFails(t)
  <2>1. CASE restore[t].at = "check"
    BY <1>1, <2>1, GotoKeeps DEF RestoreCallFails
  <2>2. CASE restore[t].at = "launch"
    BY <1>1, <2>2, GotoKeeps DEF RestoreCallFails
  <2>3. CASE restore[t].at \notin {"check", "launch"}
    BY <1>1, <2>3, ReturnUnwrittenKeeps DEF RestoreCallFails
  <2>. QED
    BY <2>1, <2>2, <2>3
<1>2. CASE /\ UpdateStatus(t, "Restoring", NoPod)
           /\ ReturnWritten(t)
           /\ UNCHANGED clusterVars
  BY <1>2, ReturnWrittenKeeps
<1>3. CASE (ScaleToOne(t) \/ CreatePod(t)) /\ Goto(t, "fail") /\ UNCHANGED storeVars
  BY <1>3, LaunchKeeps
<1>. QED
  BY <1>1, <1>2, <1>3 DEF RestoreFault, RestoreAnswerLost

----------------------------------------------------------------------------
(* The watchdog.                                                           *)
LEMMA WatchdogStep ==
  ASSUME Core, UNCHANGED <<size, now, reclaim, restore>>,
         WatchdogTypeOK', WatchdogHolds',
         StoreInv', StoreStep(Watchdog),
         ClusterTypeOK', PodStep, PodNamesAreUsedOnce',
         \A r \in RecordName : record'[r].phase = "Restored" => record'[r] = record[r]
  PROVE  Core'
<1>. USE ClientKinds
<1>1. ReclaimTypeOK' /\ RestoreTypeOK'
  BY DEF Core, ReclaimTypeOK, RestoreTypeOK
<1>2. \A t \in Restorer : RestorerHolds(t)'
  BY RestorerKept
<1>3. ReclaimerHolds'
  BY ReclaimerKept
<1>4. FreshClaimIsLast'
  BY <1>2, ClaimsKept
<1>5. ReleasedWorkloadHasCheckpoint'
  BY CheckpointKept
<1>6. RestoredRecordNamesItsPod'
  BY RestoredKept
<1>. QED
  BY <1>1, <1>2, <1>3, <1>4, <1>5, <1>6 DEF Core

(* Going on with pods that were listed.                                    *)
LEMMA NextPodKeeps ==
  ASSUME Core, NEW stuck \in SUBSET watchdog.stuck, NextPod(stuck), now' = now
  PROVE  WatchdogTypeOK' /\ WatchdogHolds'
BY DEF Core, NextPod, WatchdogIdle, WatchdogTypeOK, WatchdogHolds

(* A pod changes its state and nothing else.                               *)
LEMMA PodChanges ==
  ASSUME ClusterTypeOK, NEW p \in PodName, NEW state,
         pods' = [pods EXCEPT ![p].state = state]
  PROVE  pods' = [pods EXCEPT ![p] = [state |-> state, from |-> pods[p].from]]
<1>1. pods[p] = [state |-> pods[p].state, from |-> pods[p].from]
  BY DEF ClusterTypeOK
<1>2. [pods[p] EXCEPT !.state = state] = [state |-> state, from |-> pods[p].from]
  BY <1>1
<1>3. [pods EXCEPT ![p].state = state] = [pods EXCEPT ![p] = [pods[p] EXCEPT !.state = state]]
  BY DEF ClusterTypeOK
<1>. QED
  BY <1>2, <1>3

(* Deleting a listed pod.                                                  *)
LEMMA DeletedPodKeeps ==
  ASSUME Core, NEW p \in watchdog.stuck, Live(p),
         pods' = [pods EXCEPT ![p].state = "deleted"], UNCHANGED <<size, now>>
  PROVE  ClusterTypeOK' /\ PodStep /\ PodNamesAreUsedOnce'
<1>1. p \in PodName /\ Second(p) < now /\ pods[p].state # "absent"
  BY DEF Core, WatchdogTypeOK, WatchdogHolds, Live
<1>2. pods' = [pods EXCEPT ![p] = [state |-> "deleted", from |-> pods[p].from]]
  BY <1>1, PodChanges DEF Core
<1>3. ClusterTypeOK'
  BY <1>1, <1>2 DEF Core, ClusterTypeOK
<1>4. PodStep
  BY <1>1, <1>2 DEF Core, ClusterTypeOK, PodStep
<1>5. PodNamesAreUsedOnce'
  BY <1>1, <1>2 DEF Core, ClusterTypeOK, PodNamesAreUsedOnce
<1>. QED
  BY <1>3, <1>4, <1>5

LEMMA SamePods ==
  ASSUME Core, UNCHANGED <<clusterVars, now>>
  PROVE  ClusterTypeOK' /\ PodStep /\ PodNamesAreUsedOnce'
BY DEF Core, ClusterTypeOK, PodStep, PodNamesAreUsedOnce, clusterVars

LEMMA WatchdogKeepsCore ==
  ASSUME Core, WatchdogNext \/ WatchdogFault, UNCHANGED <<now, reclaim, restore>>
  PROVE  Core'
<1>. USE ClientKinds
<1>1. CASE ListStuckPods
  <2>1. StoreInv' /\ StoreStep(Watchdog)
    BY <1>1, SameStore DEF Core, ListStuckPods
  <2>2. StuckPods \in SUBSET PodName /\ \A p \in StuckPods : Second(p) < now
    BY WatchdogAssumption, BoundAssumption
       DEF StuckPods, Core, ClusterTypeOK, PodName, Second
  <2>3. WatchdogTypeOK' /\ WatchdogHolds'
    BY <1>1, <2>2
       DEF ListStuckPods, NextPod, WatchdogIdle, WatchdogTypeOK, WatchdogHolds
  <2>. QED
    BY <1>1, <2>1, <2>3, SamePods, WatchdogStep DEF ListStuckPods, storeVars, clusterVars
<1>2. ASSUME NEW p \in PodName, DeletePod(p) PROVE Core'
  <2>1. StoreInv' /\ StoreStep(Watchdog) /\ record' = record /\ p \in watchdog.stuck
    BY <1>2, SameStore DEF Core, DeletePod, storeVars
  <2>2. CASE Live(p)
    <3>1. /\ pods' = [pods EXCEPT ![p].state = "deleted"]
          /\ watchdog' = [at |-> "get", stuck |-> watchdog.stuck \ {p}, pod |-> p]
          /\ UNCHANGED size
      BY <1>2, <2>2 DEF DeletePod
    <3>2. ClusterTypeOK' /\ PodStep /\ PodNamesAreUsedOnce'
      BY <2>1, <2>2, <3>1, DeletedPodKeeps
    <3>3. WatchdogTypeOK' /\ WatchdogHolds'
      BY <2>2, <3>1, <3>2 DEF Core, Live, PodStep, WatchdogTypeOK, WatchdogHolds
    <3>. QED
      BY <2>1, <3>1, <3>2, <3>3, WatchdogStep
  <2>3. CASE ~Live(p)
    <3>1. NextPod(watchdog.stuck \ {p}) /\ UNCHANGED clusterVars
      BY <1>2, <2>3 DEF DeletePod, clusterVars
    <3>2. WatchdogTypeOK' /\ WatchdogHolds'
      BY <3>1, NextPodKeeps
    <3>. QED
      BY <2>1, <3>1, <3>2, SamePods, WatchdogStep DEF clusterVars
  <2>. QED
    BY <2>2, <2>3
<1>3. CASE GetRecord
  <2>1. pods[watchdog.pod].from \in RecordName
    BY <1>3 DEF GetRecord, Core, WatchdogHolds, ClusterTypeOK, PodNamesAreUsedOnce
  <2>2. StoreInv' /\ StoreStep(Watchdog) /\ record' = record
    BY <1>3, <2>1, ReadStore DEF Core, GetRecord, Get
  <2>3. WatchdogTypeOK' /\ WatchdogHolds'
    BY <1>3 DEF Core, GetRecord, WatchdogTypeOK, WatchdogHolds
  <2>. QED
    BY <1>3, <2>2, <2>3, SamePods, WatchdogStep DEF GetRecord, clusterVars
<1>4. CASE RollBack
  <2>1. WatchdogTypeOK' /\ WatchdogHolds'
    BY <1>4, NextPodKeeps DEF RollBack
  <2>2. CASE DropUnwritten(Watchdog)
    <3>1. StoreInv' /\ StoreStep(Watchdog) /\ record' = record
      BY <2>2, DropStore DEF Core, DropUnwritten
    <3>. QED
      BY <1>4, <2>1, <3>1, SamePods, WatchdogStep DEF RollBack, clusterVars
  <2>3. CASE UpdateStatus(Watchdog, "Ready", NoPod) /\ DropWritten(Watchdog)
    <3>1. /\ StoreInv' /\ StoreStep(Watchdog) /\ copy[Watchdog].name \in RecordName
          /\ record' = [record EXCEPT ![copy[Watchdog].name] =
                       [phase |-> "Ready", pod |-> NoPod, by |-> Watchdog]]
      BY <2>3, WriteStore DEF Core, Phase
    <3>2. \A r \in RecordName : record'[r].phase = "Restored" => record'[r] = record[r]
      BY <3>1 DEF Core, StoreInv, RecordsTypeOK
    <3>. QED
      BY <1>4, <2>1, <3>1, <3>2, SamePods, WatchdogStep DEF RollBack, clusterVars
  <2>. QED
    BY <1>4, <2>2, <2>3 DEF RollBack
<1>5. CASE WatchdogCallFails
  <2>1. StoreInv' /\ StoreStep(Watchdog) /\ record' = record
    BY <1>5, DropStore DEF Core, WatchdogCallFails, DropUnwritten
  <2>2. PICK stuck \in SUBSET watchdog.stuck : NextPod(stuck)
    BY <1>5 DEF WatchdogCallFails
  <2>3. WatchdogTypeOK' /\ WatchdogHolds'
    BY <2>2, NextPodKeeps
  <2>. QED
    BY <1>5, <2>1, <2>3, SamePods, WatchdogStep DEF WatchdogCallFails, clusterVars
<1>6. CASE WatchdogAnswerLost
  <2>1. PICK p \in watchdog.stuck : /\ Live(p)
                                    /\ pods' = [pods EXCEPT ![p].state = "deleted"]
                                    /\ NextPod(watchdog.stuck \ {p})
    BY <1>6 DEF WatchdogAnswerLost
  <2>2. StoreInv' /\ StoreStep(Watchdog) /\ record' = record /\ UNCHANGED size
    BY <1>6, SameStore DEF Core, WatchdogAnswerLost, storeVars
  <2>3. ClusterTypeOK' /\ PodStep /\ PodNamesAreUsedOnce'
    BY <2>1, <2>2, DeletedPodKeeps
  <2>4. WatchdogTypeOK' /\ WatchdogHolds'
    BY <2>1, NextPodKeeps
  <2>. QED
    BY <2>2, <2>3, <2>4, WatchdogStep
<1>. QED
  BY <1>1, <1>2, <1>3, <1>4, <1>5, <1>6 DEF WatchdogNext, WatchdogFault

----------------------------------------------------------------------------
(* The environment.                                                        *)
LEMMA CrashKeepsCore ==
  ASSUME Core, Crash
  PROVE  Core'
<1>. USE DEF Crash
<1>1. StoreInv' /\ ClusterTypeOK'
  BY DEF Core, StoreInv, RecordsTypeOK, FreshCopiesAgree, CopiesAreStored,
         ClusterTypeOK, clusterVars, NoCopy, StoredPhase
<1>2. ReclaimTypeOK' /\ RestoreTypeOK' /\ WatchdogTypeOK'
  BY DEF ReclaimTypeOK, RestoreTypeOK, WatchdogTypeOK, RestoreIdle, WatchdogIdle,
         RestoreStep
<1>3. ReclaimerHolds' /\ WatchdogHolds' /\ \A t \in Restorer : RestorerHolds(t)'
  BY DEF ReclaimIdle, RestoreIdle, WatchdogIdle, ReclaimerHolds, RestorerHolds,
         WatchdogHolds, Claimed, ReclaimStep
<1>4. PodNamesAreUsedOnce' /\ FreshClaimIsLast'
  BY DEF Core, PodNamesAreUsedOnce, FreshClaimIsLast, clusterVars
<1>5. ReleasedWorkloadHasCheckpoint' /\ RestoredRecordNamesItsPod'
  BY DEF Core, ReleasedWorkloadHasCheckpoint, RestoredRecordNamesItsPod, RecordsOf,
         clusterVars
<1>. QED
  BY <1>1, <1>2, <1>3, <1>4, <1>5 DEF Core

(* Threads and records are unchanged; pods keep their origin, time passes. *)
LEMMA IdleStep ==
  ASSUME Core, UNCHANGED <<storeVars, size, threadVars>>,
         ClusterTypeOK', now' >= now, PodStep, PodNamesAreUsedOnce'
  PROVE  Core'
<1>. USE ClientKinds
<1>1. StoreInv' /\ StoreStep(Watchdog)
  BY SameStore DEF Core
<1>2. ReclaimTypeOK' /\ RestoreTypeOK' /\ WatchdogTypeOK'
  BY DEF Core, ReclaimTypeOK, RestoreTypeOK, WatchdogTypeOK, threadVars
<1>3. \A t \in Restorer : RestorerHolds(t)'
  BY <1>1, RestorerKept DEF threadVars
<1>4. ReclaimerHolds'
  BY <1>1, ReclaimerKept DEF threadVars
<1>5. now' \in Nat
  BY BoundAssumption DEF ClusterTypeOK
<1>6. WatchdogHolds'
  BY <1>5, WatchdogKept DEF threadVars
<1>7. FreshClaimIsLast'
  BY <1>1, <1>3, ClaimsKept DEF threadVars
<1>8. ReleasedWorkloadHasCheckpoint'
  BY <1>1, CheckpointKept
<1>9. RestoredRecordNamesItsPod'
  BY RestoredKept DEF storeVars
<1>. QED
  BY <1>1, <1>2, <1>3, <1>4, <1>6, <1>7, <1>8, <1>9 DEF Core

LEMMA BindKeepsCore ==
  ASSUME Core, NEW p \in PodName, Bind(p)
  PROVE  Core'
<1>1. /\ pods[p].state = "pending"
      /\ pods' = [pods EXCEPT ![p] = [state |-> "bound", from |-> pods[p].from]]
      /\ UNCHANGED <<storeVars, size, now, threadVars>>
  BY PodChanges DEF Bind, Core
<1>2. ClusterTypeOK' /\ now' >= now
  BY <1>1, BoundAssumption DEF Core, ClusterTypeOK
<1>3. PodStep
  BY <1>1 DEF Core, ClusterTypeOK, PodStep
<1>4. PodNamesAreUsedOnce'
  BY <1>1 DEF Core, ClusterTypeOK, PodNamesAreUsedOnce
<1>. QED
  BY <1>1, <1>2, <1>3, <1>4, IdleStep

LEMMA TickKeepsCore ==
  ASSUME Core, Tick
  PROVE  Core'
<1>1. now \in Nat /\ \A p \in PodName : Second(p) \in Nat
  BY BoundAssumption DEF Core, ClusterTypeOK, PodName, Second
<1>2. now' = now + 1 /\ UNCHANGED <<storeVars, clusterVars, threadVars>>
  BY DEF Tick
<1>3. ClusterTypeOK' /\ now' >= now
  BY <1>1, <1>2, BoundAssumption DEF Tick, Core, ClusterTypeOK, clusterVars
<1>4. PodStep /\ PodNamesAreUsedOnce'
  BY <1>1, <1>2 DEF Core, PodStep, PodNamesAreUsedOnce, clusterVars
<1>. QED
  BY <1>2, <1>3, <1>4, IdleStep DEF clusterVars

----------------------------------------------------------------------------
LEMMA NextKeepsIInv == IInv /\ [Next]_vars => IInv'
<1>. SUFFICES ASSUME IInv, [Next]_vars PROVE IInv'
  OBVIOUS
<1>. USE IInvIsCore, IInvIsCoreNext
<1>1. CASE ReclaimSteps
  BY <1>1, ReclaimKeepsCore DEF ReclaimSteps, Budgets, budgetVars
<1>2. ASSUME NEW t \in Restorer, RestoreSteps(t) PROVE IInv'
  BY <1>2, RestoreKeepsCore DEF RestoreSteps, Budgets, budgetVars
<1>3. CASE WatchdogSteps
  BY <1>3, WatchdogKeepsCore DEF WatchdogSteps, Budgets, budgetVars
<1>4. CASE Fault
  <2>1. Budgets'
    BY <1>4, EnvironmentAssumption DEF Fault, Budgets
  <2>2. Core'
    BY <1>4, ReclaimFaultKeepsCore, RestoreFaultKeepsCore, WatchdogKeepsCore DEF Fault
  <2>. QED
    BY <2>1, <2>2
<1>5. CASE Crash
  <2>1. Budgets'
    BY <1>5, EnvironmentAssumption DEF Crash, Budgets
  <2>. QED
    BY <1>5, <2>1, CrashKeepsCore
<1>6. ASSUME NEW p \in PodName, Bind(p) PROVE IInv'
  BY <1>6, BindKeepsCore DEF Bind, Budgets, budgetVars
<1>7. CASE Tick
  BY <1>7, TickKeepsCore DEF Tick, Budgets, budgetVars
<1>8. CASE UNCHANGED vars
  <2>1. UNCHANGED <<storeVars, clusterVars, now, threadVars, budgetVars>>
    BY <1>8 DEF vars
  <2>2. now' >= now
    BY <2>1, BoundAssumption DEF Core, ClusterTypeOK
  <2>3. Core'
    BY <2>1, <2>2, SamePods, IdleStep DEF clusterVars
  <2>. QED
    BY <2>1, <2>3 DEF Budgets, budgetVars
<1>. QED
  BY <1>1, <1>2, <1>3, <1>4, <1>5, <1>6, <1>7, <1>8 DEF Next

(* The inductive invariant holds throughout.                               *)
THEOREM Invariance == Spec => []IInv
<1>1. Init => IInv
  <2>1. Init => Budgets
    BY EnvironmentAssumption DEF Init, Budgets
  <2>. QED
    BY <2>1, InitCore, IInvIsCore
<1>. QED
  BY <1>1, NextKeepsIInv, PTL DEF Spec

(* Type correctness of the records, the cluster, every thread and budget.  *)
THEOREM TypeCorrect == Spec => []TypeOK
<1>1. IInv => TypeOK
  BY DEF IInv
<1>. QED
  BY <1>1, Invariance, PTL

LEMMA OthersKeepTheirPlace ==
  ASSUME IInv, NEW u \in Restorer, RestoreNext(u) \/ RestoreFault(u)
  PROVE  \A t \in Restorer \ {u} : restore'[t] = restore[t]
<1>1. DOMAIN restore = Restorer
  BY DEF IInv, TypeOK, RestoreTypeOK
<1>. QED
  BY <1>1
     DEF RestoreNext, RestoreProgress, RestoreFault, MatchingRestoreRecord,
         HasRestoredWorkload, ReadRecord, NoMatchingRecord, ScaleFallback,
         RejectPhase, Claim, Launch, PodExists, Finish, MarkFailed,
         RestoreCallFails, RestoreAnswerLost, RequestCancelled,
         ReturnWritten, ReturnUnwritten, Goto

(* At its last call a restorer writes only under the version of its claim. *)
LEMMA EndsAreUnderClaim ==
  ASSUME NEW t \in Restorer, RestoreNext(t) \/ RestoreFault(t),
         restore[t].at \in {"finish", "fail"}, record' # record
  PROVE  t \in fresh
BY DEF RestoreNext, RestoreProgress, RestoreFault, MatchingRestoreRecord,
       HasRestoredWorkload, ReadRecord, NoMatchingRecord, ScaleFallback,
       RejectPhase, Claim, Launch, PodExists, Finish, MarkFailed,
       RestoreCallFails, RestoreAnswerLost, RequestCancelled, ScaleToOne,
       CreatePod, ReturnUnwritten, DropUnwritten, UpdateStatus, CanUpdate, storeVars

(* Of any number of restorers that claimed one record only the last one    *)
(* writes how the record ends, whatever it was rolled back to or ended as  *)
(* in between.                                                             *)
THEOREM LastClaimsDecide == Spec => LastClaimDecides
<1>1. ASSUME IInv, [Next]_vars, NEW t \in Restorer,
             restore[t].at \in {"finish", "fail"}, restore'[t] # restore[t],
             record' # record
      PROVE  /\ record[copy[t].name].phase = "Restoring"
             /\ record[copy[t].name].by = t
  <2>1. PICK u \in Restorer : RestoreNext(u) \/ RestoreFault(u)
    BY <1>1
       DEF Next, ReclaimSteps, RestoreSteps, WatchdogSteps, Fault, Crash, Bind, Tick,
           vars, storeVars, threadVars
  <2>2. u = t
    BY <1>1, <2>1, OthersKeepTheirPlace
  <2>3. t \in fresh /\ Claimed(t)
    BY <1>1, <2>1, <2>2, EndsAreUnderClaim DEF Claimed
  <2>. QED
    BY <1>1, <2>3 DEF IInv, FreshClaimIsLast
<1>2. IInv /\ [Next]_vars =>
        [\A t \in Restorer :
           restore[t].at \in {"finish", "fail"} /\ restore'[t] # restore[t]
             /\ record' # record
           => /\ record[copy[t].name].phase = "Restoring"
              /\ record[copy[t].name].by = t]_vars
  BY <1>1
<1>. QED
  BY <1>2, Invariance, PTL DEF Spec, LastClaimDecides

(* A workload is taken down only after the phase of a checkpoint of it was *)
(* persisted, whatever calls fail and whenever the process crashes.        *)
THEOREM CheckpointBeforeRelease == Spec => []ReleasedWorkloadHasCheckpoint
<1>1. IInv => ReleasedWorkloadHasCheckpoint
  BY DEF IInv
<1>. QED
  BY <1>1, Invariance, PTL

(* A Restored record names a pod that was created from that record.        *)
THEOREM RestoredNamesItsPod == Spec => []RestoredRecordNamesItsPod
<1>1. IInv => RestoredRecordNamesItsPod
  BY DEF IInv
<1>. QED
  BY <1>1, Invariance, PTL

----------------------------------------------------------------------------
(* The demand loop alone.                                                  *)

LEMMA AtMostOneElement ==
  ASSUME NEW S, \A x, y \in S : x = y
  PROVE  Cardinality(S) <= 1
<1>1. CASE S = {}
  BY <1>1, FS_EmptySet
<1>2. CASE S # {}
  <2>1. PICK x : S = {x}
    BY <1>2
  <2>. QED
    BY <2>1, FS_Singleton
<1>. QED
  BY <1>1, <1>2

(* AtMostOneReplacement pod by pod, and why it lasts: between its look for *)
(* a replacement and its launch, the only step that creates a pod, t has   *)
(* no rival that could create one.                                         *)
OnePodEach ==
  \A p, q \in PodName : Live(p) /\ Live(q) /\ Source(p) = Source(q) => p = q
NoRivalOf(t) ==
  restore[t].at \in {"claim", "launch"} =>
    \A p \in PodName : Live(p) => Source(p) # Source(copy[t].name)
Alone(t) == faults = 0 => OnePodEach /\ NoRivalOf(t)

(* No pod comes to life and the restorer stays where it was or goes on to  *)
(* where it launches nothing.                                              *)
LEMMA NoPodComes ==
  ASSUME NEW t, Alone(t), faults' = faults,
         \A p \in PodName : Live(p)' => Live(p),
         \/ restore'[t].at \notin {"claim", "launch"}
         \/ /\ restore[t].at \in {"claim", "launch"}
            /\ copy'[t].name = copy[t].name
  PROVE  Alone(t)'
BY DEF Alone, OnePodEach, NoRivalOf

LEMMA SamePodsLive == UNCHANGED pods => \A p \in PodName : Live(p)' => Live(p)
BY DEF Live

LEMMA OthersKeepAlone ==
  ASSUME Core, NEW t \in Restorer, Alone(t),
         ReclaimSteps \/ WatchdogSteps
  PROVE  Alone(t)'
<1>. USE ClientKinds
<1>1. faults' = faults /\ restore' = restore
  BY DEF ReclaimSteps, WatchdogSteps, budgetVars
<1>2. copy \in [Client -> [name : RecordName \cup {NoRecord}, phase : StoredPhase]]
  BY DEF Core, StoreInv, RecordsTypeOK
<1>3. CASE ReclaimSteps
  <2>1. UNCHANGED pods
    BY <1>3 DEF ReclaimSteps, ReclaimNext, StartReclaim, CreateRecord, RecordExists, MarkReady,
       MarkReadyConflict, Release, InspectDeployment, ScaleToZero, clusterVars
  <2>2. copy'[t] = copy[t]
    BY <1>2, <1>3 DEF ReclaimSteps, ReclaimNext, StartReclaim, CreateRecord, RecordExists,
       MarkReady, MarkReadyConflict, Release, InspectDeployment, ScaleToZero, ReturnToLoop,
       DropUnwritten, Hold, storeVars
  <2>. QED
    BY <1>1, <2>1, <2>2, SamePodsLive, NoPodComes
<1>4. CASE WatchdogSteps
  <2>1. \A p \in PodName : Live(p)' => Live(p)
    <3>1. CASE UNCHANGED pods
      BY <3>1, SamePodsLive
    <3>2. ASSUME NEW p \in PodName, pods' = [pods EXCEPT ![p].state = "deleted"]
          PROVE  \A q \in PodName : Live(q)' => Live(q)
      BY <3>2 DEF Core, ClusterTypeOK, Live
    <3>. QED
      BY <1>4, <3>1, <3>2
         DEF WatchdogSteps, WatchdogNext, ListStuckPods, DeletePod, GetRecord, RollBack,
             clusterVars
  <2>2. copy'[t] = copy[t]
    BY <1>2, <1>4 DEF WatchdogSteps, WatchdogNext, ListStuckPods, DeletePod, GetRecord, RollBack,
       Get, DropWritten, DropUnwritten, storeVars
  <2>. QED
    BY <1>1, <2>1, <2>2, NoPodComes
<1>. QED
  BY <1>3, <1>4

LEMMA LoopKeepsAlone ==
  ASSUME Core, NEW t \in Restorer, t \in DemandLoop, Alone(t), RestoreSteps(t)
  PROVE  Alone(t)'
<1>. USE ClientKinds
<1>1. faults' = faults
  BY DEF RestoreSteps, budgetVars
<1>2. restore[t] \in [at : RestoreStep, pod : PodName \cup Workload \cup {NoPod}]
      /\ DOMAIN restore = Restorer /\ DOMAIN copy = Client
  BY DEF Core, RestoreTypeOK, StoreInv, RecordsTypeOK
<1>3. CASE MatchingRestoreRecord(t) \/ RejectPhase(t) \/ PodExists(t) \/ Finish(t)
             \/ MarkFailed(t) \/ ScaleFallback(t)
  <2>1. UNCHANGED pods
    BY <1>3 DEF MatchingRestoreRecord, RejectPhase, PodExists, Finish, MarkFailed,
       ScaleFallback, clusterVars
  <2>2. restore'[t].at \notin {"claim", "launch"}
    BY <1>2, <1>3 DEF MatchingRestoreRecord, RejectPhase, PodExists, Finish, MarkFailed,
       ScaleFallback, ReturnWritten, ReturnUnwritten, RestoreIdle, Goto
  <2>. QED
    BY <1>1, <2>1, <2>2, SamePodsLive, NoPodComes
<1>4. CASE HasRestoredWorkload(t)
  <2>1. UNCHANGED pods
    BY <1>4 DEF HasRestoredWorkload, clusterVars
  <2>2. CASE ReplacementsOf(Source(copy[t].name)) # {}
    <3>1. restore'[t].at = "idle"
      BY <1>2, <1>4, <2>2 DEF HasRestoredWorkload, ReturnUnwritten, RestoreIdle
    <3>. QED
      BY <1>1, <2>1, <3>1, SamePodsLive, NoPodComes
  <2>3. CASE ReplacementsOf(Source(copy[t].name)) = {}
    <3>1. copy' = copy
      BY <1>4, <2>3 DEF HasRestoredWorkload, storeVars
    <3>2. \A p \in PodName : Live(p) => Source(p) # Source(copy[t].name)
      BY <2>3 DEF ReplacementsOf
    <3>. QED
      BY <1>1, <2>1, <3>1, <3>2 DEF Alone, OnePodEach, NoRivalOf, Live
  <2>. QED
    BY <2>2, <2>3
<1>5. CASE Claim(t)
  <2>1. UNCHANGED pods /\ restore[t].at = "claim"
    BY <1>5 DEF Claim, clusterVars
  <2>2. copy'[t].name = copy[t].name \/ restore'[t].at = "idle"
    BY <1>2, <1>5 DEF Claim, Hold, ReturnUnwritten, RestoreIdle
  <2>. QED
    BY <1>1, <2>1, <2>2, SamePodsLive, NoPodComes
<1>6. CASE Launch(t)
  <2>1. restore'[t].at = "finish"
    BY <1>2, <1>6 DEF Launch
  <2>2. CASE ScaleToOne(t)
    <3>1. UNCHANGED pods
      BY <2>2 DEF ScaleToOne
    <3>. QED
      BY <1>1, <2>1, <3>1, SamePodsLive, NoPodComes
  <2>3. CASE CreatePod(t)
    <3>. DEFINE p == <<Source(copy[t].name), now>>
    <3>1. /\ restore[t].at = "launch"
          /\ pods' = [pods EXCEPT ![p] = [state |-> "pending", from |-> copy[t].name]]
      BY <2>3 DEF CreatePod
    <3>2. Source(p) = Source(copy[t].name)
      BY DEF Source
    <3>. HIDE DEF p
    <3>3. \A q \in PodName : Live(q)' => Live(q) \/ q = p
      BY <3>1 DEF Core, ClusterTypeOK, Live
    <3>4. faults = 0 => \A q \in PodName : Live(q) => Source(q) # Source(p)
      BY <3>1, <3>2 DEF Alone, NoRivalOf
    <3>. QED
      BY <1>1, <2>1, <3>3, <3>4 DEF Alone, OnePodEach, NoRivalOf
  <2>. QED
    BY <1>6, <2>2, <2>3 DEF Launch
<1>. QED
  BY <1>3, <1>4, <1>5, <1>6, <1>2
     DEF RestoreSteps, RestoreNext, RestoreProgress, ReadRecord, NoMatchingRecord,
         RequestCancelled

LEMMA EnvironmentKeepsAlone ==
  ASSUME IInv, NEW t \in Restorer, Alone(t),
         \/ Fault \/ Crash \/ Tick \/ UNCHANGED vars
         \/ \E p \in PodName : Bind(p)
  PROVE  Alone(t)'
<1>1. CASE Fault
  <2>1. faults' # 0
    BY <1>1, EnvironmentAssumption DEF IInv, TypeOK, Fault
  <2>. QED
    BY <2>1 DEF Alone
<1>2. CASE Crash
  <2>1. restore'[t].at = "idle" /\ faults' = faults /\ UNCHANGED pods
    BY <1>2 DEF Crash, RestoreIdle, clusterVars
  <2>. QED
    BY <2>1, SamePodsLive, NoPodComes
<1>3. ASSUME NEW p \in PodName, Bind(p) PROVE Alone(t)'
  <2>1. \A q \in PodName : Live(q)' => Live(q)
    BY <1>3 DEF IInv, TypeOK, StoreTypeOK, ClusterTypeOK, Bind, Live
  <2>2. UNCHANGED <<copy, restore, faults>>
    BY <1>3 DEF Bind, storeVars, threadVars, budgetVars
  <2>. QED
    BY <2>1, <2>2, NoPodComes
<1>4. CASE Tick \/ UNCHANGED vars
  <2>1. UNCHANGED <<pods, copy, restore, faults>>
    BY <1>4 DEF Tick, vars, storeVars, clusterVars, threadVars, budgetVars
  <2>. QED
    BY <2>1, SamePodsLive, NoPodComes
<1>. QED
  BY <1>1, <1>2, <1>3, <1>4

(* Until a call fails, the demand loop as the only restorer never makes a  *)
(* second replacement of a workload, whatever crashes and whenever the     *)
(* watchdog deletes: it launches only what it saw missing.                 *)
THEOREM LoopRestoresOnce ==
  ASSUME NEW loop, Restorer = {loop}, DemandLoop = {loop}
  PROVE  Spec => []AtMostOneReplacement
<1>1. Init => Alone(loop)
  BY DEF Init, StoreInit, RestoreInit, RestoreIdle, Alone, OnePodEach, NoRivalOf, Live
<1>2. ASSUME IInv, Alone(loop), [Next]_vars PROVE Alone(loop)'
  <2>1. Core
    BY <1>2, IInvIsCore
  <2>. QED
    BY <1>2, <2>1, OthersKeepAlone, LoopKeepsAlone, EnvironmentKeepsAlone DEF Next
<1>3. Alone(loop) => AtMostOneReplacement
  <2>. SUFFICES ASSUME OnePodEach, NEW w \in Workload
                PROVE  Cardinality(ReplacementsOf(w)) <= 1
    BY DEF Alone, AtMostOneReplacement
  <2>1. \A p, q \in ReplacementsOf(w) : p = q
    BY DEF OnePodEach, ReplacementsOf
  <2>. QED
    BY <2>1, AtMostOneElement
<1>. QED
  BY <1>1, <1>2, <1>3, Invariance, PTL DEF Spec

----------------------------------------------------------------------------
(* The refinement of RecordPhase: what is seen of a record is its phase.   *)
Seen == [r \in RecordName |-> record[r].phase]

LEMMA SeenMove ==
  ASSUME Core, NEW r \in RecordName, NEW ph \in StoredPhase,
         NEW pod \in PodName \cup {NoPod}, NEW by \in Client,
         record' = [record EXCEPT ![r] = [phase |-> ph, pod |-> pod, by |-> by]]
  PROVE  /\ Seen[r] = record[r].phase
         /\ Seen' = [Seen EXCEPT ![r] = ph]
BY DEF Core, StoreInv, RecordsTypeOK, Seen

(* A status update moves its record from the phase of the writer's copy.   *)
LEMMA SeenWrite ==
  ASSUME Core, NEW c \in Client,
         NEW ph \in Phase \ {"Unset"}, NEW pod \in PodName \cup {NoPod},
         UpdateStatus(c, ph, pod)
  PROVE  \E r \in RecordName : Seen[r] = copy[c].phase /\ Seen' = [Seen EXCEPT ![r] = ph]
<1>1. /\ copy[c].name \in RecordName
      /\ record[copy[c].name].phase = copy[c].phase
      /\ record' = [record EXCEPT ![copy[c].name] = [phase |-> ph, pod |-> pod, by |-> c]]
  BY DEF Core, StoreInv, UpdateStatus, CanUpdate, Stored, RecordsTypeOK, FreshCopiesAgree
<1>. QED
  BY <1>1, SeenMove DEF StoredPhase

LEMMA SeenCreate ==
  ASSUME Core, reclaim.at = "create", CreateObject(<<reclaim.pod, now>>)
  PROVE  Phases!Next
<1>. DEFINE r == <<reclaim.pod, now>>
<1>1. r \in RecordName
  BY MadeName DEF Core, ReclaimTypeOK, ReclaimIdle, ClusterTypeOK
<1>2. record[r].phase = "Absent"
      /\ record' = [record EXCEPT ![r] =
                     [phase |-> "Unset", pod |-> NoPod, by |-> Reclaimer]]
  BY DEF CreateObject
<1>3. Seen[r] = "Absent" /\ Seen' = [Seen EXCEPT ![r] = "Unset"]
  BY <1>1, <1>2, ClientKinds, SeenMove DEF StoredPhase, Phase
<1>. QED
  BY <1>1, <1>3 DEF Phases!Next, Phases!Create, Phases!Move, Seen

LEMMA SeenMarkReady ==
  ASSUME Core, reclaim.at = "ready", UpdateStatus(Reclaimer, "Ready", NoPod)
  PROVE  Phases!Next
<1>1. PICK r \in RecordName : /\ Seen[r] = copy[Reclaimer].phase
                              /\ Seen' = [Seen EXCEPT ![r] = "Ready"]
  BY ClientKinds, SeenWrite DEF Phase
<1>2. copy[Reclaimer].phase = "Unset"
  BY DEF Core, ReclaimerHolds
<1>. QED
  BY <1>1, <1>2 DEF Phases!Next, Phases!MarkReady, Phases!Move, Seen

LEMMA SeenClaim ==
  ASSUME Core, NEW t \in Restorer, copy[t].phase \in Restorable,
         UpdateStatus(t, "Restoring", NoPod)
  PROVE  Phases!Next
<1>1. PICK r \in RecordName : /\ Seen[r] = copy[t].phase
                              /\ Seen' = [Seen EXCEPT ![r] = "Restoring"]
  BY ClientKinds, SeenWrite DEF Phase
<1>. QED
  BY <1>1 DEF Restorable, Phases!Next, Phases!Claim, Phases!Move, Seen

LEMMA SeenEnd ==
  ASSUME Core, NEW t \in Restorer, Claimed(t), NEW ph \in {"Restored", "Failed"},
         NEW pod \in PodName \cup {NoPod}, UpdateStatus(t, ph, pod)
  PROVE  Phases!Next
<1>1. PICK r \in RecordName : /\ Seen[r] = copy[t].phase
                              /\ Seen' = [Seen EXCEPT ![r] = ph]
  BY ClientKinds, SeenWrite DEF Phase
<1>2. copy[t].phase = "Restoring"
  BY DEF Core, RestorerHolds
<1>. QED
  BY <1>1, <1>2 DEF Phases!Next, Phases!Complete, Phases!Fail, Phases!Move, Seen

LEMMA SeenRollBack ==
  ASSUME Core, copy[Watchdog].phase \in {"Restored", "Restoring"},
         UpdateStatus(Watchdog, "Ready", NoPod)
  PROVE  Phases!Next
<1>1. PICK r \in RecordName : /\ Seen[r] = copy[Watchdog].phase
                              /\ Seen' = [Seen EXCEPT ![r] = "Ready"]
  BY ClientKinds, SeenWrite DEF Phase
<1>. QED
  BY <1>1 DEF Phases!Next, Phases!RollBack, Phases!Move, Seen

LEMMA StepImplements == IInv /\ [Next]_vars => [Phases!Next]_Seen
<1>. SUFFICES ASSUME Core, [Next]_vars PROVE Phases!Next \/ UNCHANGED record
  BY IInvIsCore DEF Seen
<1>1. CASE ReclaimSteps
  BY <1>1, SeenCreate, SeenMarkReady
     DEF ReclaimSteps, ReclaimNext, StartReclaim, CreateRecord, RecordExists, MarkReady,
         MarkReadyConflict, Release, InspectDeployment, ScaleToZero, ReturnToLoop,
         DropUnwritten, storeVars
<1>2. ASSUME NEW t \in Restorer, RestoreSteps(t)
      PROVE  Phases!Next \/ UNCHANGED record
  <2>1. CASE Claim(t)
    BY <2>1, SeenClaim DEF Claim, ReturnUnwritten, DropUnwritten
  <2>2. CASE Finish(t)
    <3>1. Claimed(t) /\ restore[t].pod \in PodName \cup {NoPod}
      BY <2>2 DEF Finish, Claimed, Core, RestorerHolds
    <3>. QED
      BY <2>2, <3>1, SeenEnd DEF Finish, ReturnUnwritten, DropUnwritten
  <2>3. CASE MarkFailed(t)
    BY <2>3, SeenEnd DEF MarkFailed, Claimed, ReturnUnwritten, DropUnwritten
  <2>4. CASE \/ MatchingRestoreRecord(t) \/ HasRestoredWorkload(t) \/ RejectPhase(t)
             \/ Launch(t) \/ PodExists(t) \/ ScaleFallback(t) \/ ReadRecord(t)
             \/ RequestCancelled(t) \/ \E w \in Workload : NoMatchingRecord(t, w)
    BY <2>4
       DEF MatchingRestoreRecord, HasRestoredWorkload, RejectPhase, Launch, PodExists,
           ScaleFallback, ReadRecord, RequestCancelled, NoMatchingRecord, Get,
           ReturnUnwritten, DropUnwritten, storeVars
  <2>. QED
    BY <1>2, <2>1, <2>2, <2>3, <2>4 DEF RestoreSteps, RestoreNext, RestoreProgress
<1>3. CASE WatchdogSteps
  BY <1>3, SeenRollBack
     DEF WatchdogSteps, WatchdogNext, ListStuckPods, DeletePod, GetRecord, Get, RollBack,
         DropUnwritten, storeVars
<1>4. CASE Fault
  <2>1. CASE ReclaimFault
    BY <2>1, SeenCreate, SeenMarkReady
       DEF ReclaimFault, ReclaimCallFails, ReclaimAnswerLost, ReturnToLoop, DropUnwritten
  <2>2. ASSUME NEW t \in Restorer, RestoreFault(t)
        PROVE  Phases!Next \/ UNCHANGED record
    <3>1. CASE RestoreCallFails(t)
      BY <3>1 DEF RestoreCallFails, ReturnUnwritten, DropUnwritten, storeVars
    <3>2. CASE RestoreAnswerLost(t)
      BY <3>2, SeenClaim DEF RestoreAnswerLost, storeVars
    <3>. QED
      BY <2>2, <3>1, <3>2 DEF RestoreFault
  <2>3. CASE WatchdogFault
    BY <2>3
       DEF WatchdogFault, WatchdogCallFails, WatchdogAnswerLost, DropUnwritten, storeVars
  <2>. QED
    BY <1>4, <2>1, <2>2, <2>3 DEF Fault
<1>5. CASE Crash \/ Tick \/ (\E p \in PodName : Bind(p)) \/ UNCHANGED vars
  BY <1>5 DEF Crash, Tick, Bind, vars, storeVars
<1>. QED
  BY <1>1, <1>2, <1>3, <1>4, <1>5 DEF Next

(* Every record's phase lives as RecordPhase says: whoever writes, a record *)
(* is restored only through Restoring, a Failed one is never taken up and a *)
(* Restored one only goes back to Ready.                                    *)
THEOREM ImplementsRecordPhase == Spec => PhasesImplemented
<1>1. Init => Phases!Init
  BY DEF Init, StoreInit, Phases!Init
<1>. QED
  BY <1>1, StepImplements, Invariance, PTL DEF Spec, PhasesImplemented, Phases!Spec, Seen
=============================================================================
