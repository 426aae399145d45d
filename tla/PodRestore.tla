----------------------------- MODULE PodRestore -----------------------------
(***************************************************************************)
(* RestoreEngine.RestorePod and its callers: the pending-demand loop of    *)
(* main.go, which lists records and looks for a replacement first, and the *)
(* direct callers (the REST endpoint, the activator, the queue-demand      *)
(* branch), which do not.  Each call to the API server is one step.        *)
(*                                                                         *)
(* The workloads here declare no reclaim.io/depends-on, so the demand      *)
(* loop's cascade over dependencies is empty.                              *)
(***************************************************************************)
EXTENDS CheckpointRecords

CONSTANTS
  DemandLoop,   \* restorers that run restoreForPendingDemand, one a process
  Demand        \* workloads a Pending pod names in restore-source-pod

ASSUME RestoreAssumption == DemandLoop \subseteq Restorer /\ Demand \subseteq Workload

VARIABLE restore   \* per restorer: the next call, the pod it has created

RestoreStep ==
  {"idle", "check", "claim", "launch", "finish", "fail", "fallback"}
RestoreIdle == [at |-> "idle", pod |-> NoPod]

(* pod is the restored pod for "finish", the Deployment for "fallback".    *)
RestoreTypeOK ==
  restore \in [Restorer -> [at : RestoreStep,
                            pod : PodName \cup Workload \cup {NoPod}]]
RestoreInit == restore = [t \in Restorer |-> RestoreIdle]

Goto(t, step) == restore' = [restore EXCEPT ![t].at = step]

(* t returns to its caller, after writing its record or without.           *)
ReturnWritten(t) ==
  restore' = [restore EXCEPT ![t] = RestoreIdle] /\ DropWritten(t)
ReturnUnwritten(t) ==
  restore' = [restore EXCEPT ![t] = RestoreIdle] /\ DropUnwritten(t)

----------------------------------------------------------------------------
(* The demand loop: list the pending pod's records, take a match.  The     *)
(* list carries no order the loop relies on.                               *)
MatchingRestoreRecord(t) ==
  /\ t \in DemandLoop
  /\ restore[t].at = "idle"
  /\ \E w \in Demand : \E r \in ListReady(w) : Get(t, r)
  /\ Goto(t, "check")
  /\ UNCHANGED clusterVars

(* Mutation of HasRestoredWorkload: the replacement is not looked for.     *)
NeverSkips(t) ==
  /\ restore[t].at = "check"
  /\ Goto(t, "claim")
  /\ UNCHANGED <<storeVars, clusterVars>>

(* hasRestoredWorkload lists pods by label; the loop skips a match whose   *)
(* replacement it sees.                                                    *)
HasRestoredWorkload(t) ==
  /\ restore[t].at = "check"
  /\ IF ReplacementsOf(Source(copy[t].name)) # {}
       THEN ReturnUnwritten(t)
       ELSE Goto(t, "claim") /\ UNCHANGED storeVars
  /\ UNCHANGED clusterVars

(* REST reads any record by name; the activator and the queue-demand       *)
(* branch take one from ListReady, the activator falls back to a name.     *)
ReadRecord(t) ==
  /\ t \notin DemandLoop
  /\ restore[t].at = "idle"
  /\ \E r \in RecordName : Get(t, r)
  /\ Goto(t, "claim")
  /\ UNCHANGED clusterVars

(* The activator without any record: a Deployment at zero is scaled up by  *)
(* a read-modify-write that the Deployment's version makes atomic.         *)
NoMatchingRecord(t, w) ==
  /\ t \notin DemandLoop
  /\ restore[t].at = "idle"
  /\ OwnerKind[w] = "Deployment"
  /\ ListReady(w) = {}
  /\ restore' = [restore EXCEPT ![t] = [at |-> "fallback", pod |-> w]]
  /\ UNCHANGED <<storeVars, clusterVars>>

ScaleFallback(t) ==
  /\ restore[t].at = "fallback"
  /\ size' = IF size[restore[t].pod] = 0
               THEN [size EXCEPT ![restore[t].pod] = 1]
               ELSE size
  /\ ReturnUnwritten(t)
  /\ UNCHANGED pods

----------------------------------------------------------------------------
(* RestorePod.                                                             *)
Restorable == {"Unset", "Ready", "Restoring"}

RejectPhase(t) ==
  /\ restore[t].at = "claim"
  /\ copy[t].phase \notin Restorable
  /\ ReturnUnwritten(t)
  /\ UNCHANGED clusterVars

Claim(t) ==
  /\ restore[t].at = "claim"
  /\ copy[t].phase \in Restorable
  /\ IF CanUpdate(t)
       THEN /\ UpdateStatus(t, "Restoring", NoPod)
            /\ Hold(t, copy[t].name, "Restoring")
            /\ Goto(t, "launch")
       ELSE ReturnUnwritten(t)
  /\ UNCHANGED clusterVars

(* The workload's Deployment is scaled to one replica ...                  *)
ScaleToOne(t) ==
  LET w == Source(copy[t].name) IN
  /\ restore[t].at = "launch"
  /\ OwnerKind[w] = "Deployment"
  /\ size' = [size EXCEPT ![w] = 1]
  /\ UNCHANGED pods

(* ... or a pod named after the source and the current second is created.  *)
CreatePod(t) ==
  LET p == <<Source(copy[t].name), now>> IN
  /\ restore[t].at = "launch"
  /\ OwnerKind[Source(p)] # "Deployment"
  /\ ~Live(p)
  /\ pods' = [pods EXCEPT ![p] = [state |-> "pending", from |-> copy[t].name]]
  /\ UNCHANGED size

Launched(t) ==
  IF OwnerKind[Source(copy[t].name)] = "Deployment"
    THEN NoPod
    ELSE <<Source(copy[t].name), now>>

Launch(t) ==
  /\ ScaleToOne(t) \/ CreatePod(t)
  /\ restore' = [restore EXCEPT ![t] = [at |-> "finish", pod |-> Launched(t)]]
  /\ UNCHANGED storeVars

PodExists(t) ==
  LET p == <<Source(copy[t].name), now>> IN
  /\ restore[t].at = "launch"
  /\ OwnerKind[Source(p)] # "Deployment"
  /\ Live(p)
  /\ Goto(t, "fail")
  /\ UNCHANGED <<storeVars, clusterVars>>

(* Mutation of Finish: a conflict is answered by reading the record again  *)
(* and writing the result over it.                                         *)
FinishRetries(t) ==
  /\ restore[t].at = "finish"
  /\ Stored(t, "Restored", restore[t].pod)
  /\ ReturnWritten(t)
  /\ UNCHANGED clusterVars

Finish(t) ==
  /\ restore[t].at = "finish"
  /\ IF CanUpdate(t)
       THEN UpdateStatus(t, "Restored", restore[t].pod) /\ ReturnWritten(t)
       ELSE ReturnUnwritten(t)
  /\ UNCHANGED clusterVars

MarkFailed(t) ==
  /\ restore[t].at = "fail"
  /\ IF CanUpdate(t)
       THEN UpdateStatus(t, "Failed", NoPod) /\ ReturnWritten(t)
       ELSE ReturnUnwritten(t)
  /\ UNCHANGED clusterVars

----------------------------------------------------------------------------
(* Mutation of RestoreCallFails: a failed launch counts as done.           *)
RestoreIgnoresFailure(t) ==
  /\ restore[t].at # "idle"
  /\ CASE restore[t].at = "check"  -> Goto(t, "claim") /\ UNCHANGED storeVars
       [] restore[t].at = "launch" -> Goto(t, "finish") /\ UNCHANGED storeVars
       [] OTHER                    -> ReturnUnwritten(t)
  /\ UNCHANGED clusterVars

(* A call that fails without effect.  A failed pod list counts as "no      *)
(* replacement"; a failed launch marks the record Failed; any other ends   *)
(* the restore.                                                            *)
RestoreCallFails(t) ==
  /\ restore[t].at # "idle"
  /\ CASE restore[t].at = "check"  -> Goto(t, "claim") /\ UNCHANGED storeVars
       [] restore[t].at = "launch" -> Goto(t, "fail") /\ UNCHANGED storeVars
       [] OTHER                    -> ReturnUnwritten(t)
  /\ UNCHANGED clusterVars

(* A call that takes effect but whose answer is lost.                      *)
RestoreAnswerLost(t) ==
  \/ /\ restore[t].at = "claim"
     /\ copy[t].phase \in Restorable
     /\ UpdateStatus(t, "Restoring", NoPod)
     /\ ReturnWritten(t)
     /\ UNCHANGED clusterVars
  \/ /\ ScaleToOne(t) \/ CreatePod(t)
     /\ Goto(t, "fail")
     /\ UNCHANGED storeVars

(* A direct caller works under its request's context: when the client goes *)
(* away every further call fails, the Failed update of markFailed as well. *)
RequestCancelled(t) ==
  /\ t \notin DemandLoop
  /\ restore[t].at # "idle"
  /\ ReturnUnwritten(t)
  /\ UNCHANGED clusterVars

RestoreProgress(t) ==
  \/ MatchingRestoreRecord(t)
  \/ HasRestoredWorkload(t)
  \/ RejectPhase(t)
  \/ Claim(t)
  \/ Launch(t)
  \/ PodExists(t)
  \/ Finish(t)
  \/ MarkFailed(t)
  \/ ScaleFallback(t)

RestoreNext(t) ==
  \/ RestoreProgress(t)
  \/ ReadRecord(t)
  \/ \E w \in Workload : NoMatchingRecord(t, w)
  \/ RequestCancelled(t)

RestoreFault(t) == RestoreCallFails(t) \/ RestoreAnswerLost(t)
=============================================================================
