------------------------ MODULE CheckpointLifecycle ------------------------
(***************************************************************************)
(* The scheduler process: the reclamation loop, the restorers and the      *)
(* restore watchdog run concurrently against the same records, pods and    *)
(* Deployments; calls fail, answers are lost, the process crashes and      *)
(* restarts, and time passes.                                              *)
(***************************************************************************)
EXTENDS FullReclaim, PodRestore, RestoreWatchdog

CONSTANTS
  MaxFaults,    \* bound on failed calls and lost answers
  MaxCrashes    \* bound on crashes of the process

ASSUME EnvironmentAssumption ==
  /\ MaxFaults \in Nat
  /\ MaxCrashes \in Nat

VARIABLES faults, crashes

threadVars == <<reclaim, restore, watchdog>>
budgetVars == <<faults, crashes>>
vars == <<storeVars, clusterVars, now, threadVars, budgetVars>>

TypeOK ==
  /\ StoreTypeOK
  /\ ReclaimTypeOK
  /\ RestoreTypeOK
  /\ WatchdogTypeOK
  /\ faults \in 0 .. MaxFaults
  /\ crashes \in 0 .. MaxCrashes

Init ==
  /\ StoreInit
  /\ ReclaimInit
  /\ RestoreInit
  /\ WatchdogInit
  /\ faults = 0
  /\ crashes = 0

----------------------------------------------------------------------------
ReclaimSteps ==
  ReclaimNext /\ UNCHANGED <<now, restore, watchdog, budgetVars>>
RestoreSteps(t) ==
  RestoreNext(t) /\ UNCHANGED <<now, reclaim, watchdog, budgetVars>>
WatchdogSteps ==
  WatchdogNext /\ UNCHANGED <<now, reclaim, restore, budgetVars>>

Fault ==
  /\ faults < MaxFaults
  /\ faults' = faults + 1
  /\ \/ ReclaimFault /\ UNCHANGED <<restore, watchdog>>
     \/ \E t \in Restorer : RestoreFault(t) /\ UNCHANGED <<reclaim, watchdog>>
     \/ WatchdogFault /\ UNCHANGED <<reclaim, restore>>
  /\ UNCHANGED <<now, crashes>>

(* All goroutines end; what the API server stores stays.                   *)
Crash ==
  /\ crashes < MaxCrashes
  /\ crashes' = crashes + 1
  /\ reclaim' = ReclaimIdle
  /\ restore' = [t \in Restorer |-> RestoreIdle]
  /\ watchdog' = WatchdogIdle
  /\ copy' = [c \in Client |-> NoCopy]
  /\ fresh' = {}
  /\ UNCHANGED <<record, clusterVars, now, faults>>

(* A scheduler binds a pending restored pod.                               *)
Bind(p) ==
  /\ pods[p].state = "pending"
  /\ pods' = [pods EXCEPT ![p].state = "bound"]
  /\ UNCHANGED <<storeVars, size, now, threadVars, budgetVars>>

Tick ==
  /\ now < MaxTime
  /\ now' = now + 1
  /\ UNCHANGED <<storeVars, clusterVars, threadVars, budgetVars>>

Next ==
  \/ ReclaimSteps
  \/ \E t \in Restorer : RestoreSteps(t)
  \/ WatchdogSteps
  \/ Fault
  \/ Crash
  \/ \E p \in PodName : Bind(p)
  \/ Tick

Spec == Init /\ [][Next]_vars

(* The demand loops and the watchdog poll on tickers and every call they   *)
(* make returns.  Reclaims, requests, binding and time need not happen.    *)
Fairness ==
  /\ \A t \in Restorer :
       WF_vars(/\ RestoreProgress(t)
               /\ UNCHANGED <<now, reclaim, watchdog, budgetVars>>)
  /\ WF_vars(WatchdogSteps)
FairSpec == Spec /\ Fairness

----------------------------------------------------------------------------
Claimed(t) == restore[t].at \in {"launch", "finish", "fail"}

(* Action property.  Two restores of one record can both claim it and both *)
(* create pods, but only the last claimant decides whether the record ends *)
(* Restored or Failed: a restorer never writes the end of its restore over *)
(* another restorer's claim, over what another made of it, or over the     *)
(* watchdog's roll-back (restore.go 115-123, 171-198;                      *)
(* checkpointrecord_writer.go 148-166).                                    *)
LastClaimDecides ==
  [][\A t \in Restorer :
       restore[t].at \in {"finish", "fail"} /\ restore'[t] # restore[t]
         /\ record' # record
       => /\ record[copy[t].name].phase = "Restoring"
          /\ record[copy[t].name].by = t]_vars

(* Safety.  A workload the reclaimer has taken down has a checkpoint whose *)
(* phase was persisted before: neither a failed status update nor a crash  *)
(* between the two calls of Create lets the release happen (manager.go     *)
(* 262-310, graceful_reclaim.go 66-81).                                    *)
ReleasedWorkloadHasCheckpoint ==
  \A w \in Workload :
    size[w] = 0 => \E r \in RecordsOf(w) : record[r].phase # "Unset"

(* Safety.  A record that reads Restored names a pod that was really       *)
(* created from it (restore.go 162-182: create first, status second, and   *)
(* only under the version of the claim).                                   *)
RestoredRecordNamesItsPod ==
  \A r \in RecordName :
    record[r].phase = "Restored" /\ OwnerKind[Source(r)] # "Deployment" =>
      /\ record[r].pod \in PodName
      /\ Source(record[r].pod) = Source(r)
      /\ pods[record[r].pod].state # "absent"
      /\ pods[record[r].pod].from = r

(* Refinement.  Whatever the interleaving, every record's phase moves as   *)
(* RecordPhase allows: no stale writer revives a Failed record or restores *)
(* a Restored one again without a roll-back.                               *)
PhasesImplemented == Phases!Spec

(* Safety.  With the demand loop as the only restorer a workload never has *)
(* two replacements, across crashes at any point of a restore: the loop    *)
(* resumes a Restoring record only when no replacement exists.  That holds *)
(* until a call fails: the loop takes a list it could not get for an empty *)
(* one (main.go 364-372, 465-470).                                         *)
AtMostOneReplacement ==
  faults = 0 => \A w \in Workload : Cardinality(ReplacementsOf(w)) <= 1

(* Safety, the inductive invariant.  The results above do not follow from  *)
(* one another: what makes them last is the copy each thread holds between *)
(* two of its calls, and that a pod name is used once.                     *)
(* The record of a release is past Unset before the release.               *)
ReclaimerHolds ==
  /\ reclaim.at \in ReclaimStep \ {"create"} =>
       copy[Reclaimer].name # NoRecord
         /\ Source(copy[Reclaimer].name) = reclaim.pod
  /\ reclaim.at = "ready" => copy[Reclaimer].phase = "Unset"
  /\ reclaim.at \in {"release", "inspect", "scale"} =>
       record[copy[Reclaimer].name].phase # "Unset"

(* A claimed copy reads Restoring, and the pod a restorer is about to name *)
(* in its record was created from that record.                             *)
RestorerHolds(t) ==
  /\ Claimed(t) => copy[t].name # NoRecord /\ copy[t].phase = "Restoring"
  /\ restore[t].at = "finish" =>
       IF OwnerKind[Source(copy[t].name)] = "Deployment"
         THEN restore[t].pod = NoPod
         ELSE /\ restore[t].pod \in PodName
              /\ Source(restore[t].pod) = Source(copy[t].name)
              /\ pods[restore[t].pod].state # "absent"
              /\ pods[restore[t].pod].from = copy[t].name

(* A claimed copy that is still current is the restorer's own claim.       *)
FreshClaimIsLast ==
  \A t \in Restorer :
    Claimed(t) /\ t \in fresh =>
      /\ record[copy[t].name].phase = "Restoring"
      /\ record[copy[t].name].by = t

(* The watchdog only deletes pods older than the current second, ...       *)
WatchdogHolds ==
  /\ \A p \in watchdog.stuck : Second(p) < now
  /\ watchdog.at = "get" =>
       watchdog.pod \in PodName /\ pods[watchdog.pod].state # "absent"

(* ... so a name is never given to a second pod.                           *)
PodNamesAreUsedOnce ==
  \A p \in PodName :
    /\ pods[p].state # "absent" => pods[p].from # NoRecord
    /\ pods[p].state = "deleted" => Second(p) < now

IInv ==
  /\ TypeOK
  /\ FreshCopiesAgree
  /\ CopiesAreStored
  /\ ReclaimerHolds
  /\ \A t \in Restorer : RestorerHolds(t)
  /\ WatchdogHolds
  /\ PodNamesAreUsedOnce
  /\ FreshClaimIsLast
  /\ ReleasedWorkloadHasCheckpoint
  /\ RestoredRecordNamesItsPod

(* What the next restore will pick up.                                     *)
OnOffer(w) == {r \in RecordsOf(w) : record[r].phase \in {"Ready", "Restoring"}}

(* Liveness.  A pending pod's demand for a checkpointed workload is met:   *)
(* while a record is on offer the loop goes on until a replacement exists  *)
(* or no record is on offer any more; a restore cut short by a crash is    *)
(* resumed, because ListReady returns Restoring records too (main.go       *)
(* 163-176, checkpointrecord_writer.go 97).                                *)
DemandIsMet ==
  \A w \in Demand :
    OnOffer(w) # {} ~> (ReplacementsOf(w) # {} \/ OnOffer(w) = {})

=============================================================================
