---------------------------- MODULE FullReclaim ----------------------------
(***************************************************************************)
(* ActionManager.Execute for a full reclaim and its fallback, the          *)
(* GracefulReclaimer.  The reclamation loop is one goroutine and takes one *)
(* pod at a time; every call to the API server is a step of its own, so    *)
(* restorers and the watchdog may run between any two.                     *)
(***************************************************************************)
EXTENDS CheckpointRecords

CONSTANTS
  OptIn,        \* workloads that opt into reclamation of their last replica
  Graceful,     \* of these, the ones annotated reclaim.io/graceful-redeploy
  MinReplicas   \* Policy.MinReplicasRequired

ASSUME ReclaimAssumption ==
  /\ OptIn \subseteq Workload
  /\ Graceful \subseteq OptIn
  /\ MinReplicas \in Nat

VARIABLE reclaim   \* the pod being reclaimed and the next call to make

ReclaimStep == {"create", "ready", "release", "inspect", "scale"}
ReclaimIdle == [at |-> "idle", pod |-> NoPod, graceful |-> FALSE]

ReclaimTypeOK ==
  \/ reclaim = ReclaimIdle
  \/ reclaim \in [at : ReclaimStep, pod : Workload, graceful : BOOLEAN]
ReclaimInit == reclaim = ReclaimIdle

(* Execute returns; the local record goes out of scope.                    *)
ReturnToLoop ==
  /\ reclaim' = ReclaimIdle
  /\ DropUnwritten(Reclaimer)

----------------------------------------------------------------------------
(* checkReplicaAvailability: a pod without a resolved owner always passes. *)
ReplicasAllow(w) ==
  \/ OwnerKind[w] = "None"
  \/ w \in OptIn
  \/ size[w] >= MinReplicas + 1

(* Execute up to the kubelet's checkpoint and the archive's validation,    *)
(* which change no shared state.  When the checkpoint fails, an annotated  *)
(* workload goes on with the graceful path if a Deployment owns it.  The   *)
(* pod comes from the metrics cache and may be gone already, in which case *)
(* the checkpoint fails.                                                   *)
StartReclaim(w) ==
  /\ reclaim.at = "idle"
  /\ ReplicasAllow(w)
  /\ \E graceful \in BOOLEAN :
       /\ graceful => w \in Graceful /\ OwnerKind[w] = "Deployment"
       /\ ~graceful => size[w] > 0
       /\ reclaim' = [at |-> "create", pod |-> w, graceful |-> graceful]
  /\ UNCHANGED <<storeVars, clusterVars>>

(* Mutation of CreateRecord: Create without the second, status call.       *)
CreateRecordOnly ==
  LET r == <<reclaim.pod, now>> IN
  /\ reclaim.at = "create"
  /\ CreateObject(r)
  /\ Hold(Reclaimer, r, "Unset")
  /\ reclaim' = [reclaim EXCEPT
                   !.at = IF reclaim.graceful THEN "inspect" ELSE "release"]
  /\ UNCHANGED clusterVars

(* recordWriter.Create, first call; AlreadyExists aborts the reclaim.      *)
CreateRecord ==
  LET r == <<reclaim.pod, now>> IN
  /\ reclaim.at = "create"
  /\ CreateObject(r)
  /\ Hold(Reclaimer, r, "Unset")
  /\ reclaim' = [reclaim EXCEPT !.at = "ready"]
  /\ UNCHANGED clusterVars

RecordExists ==
  /\ reclaim.at = "create"
  /\ record[<<reclaim.pod, now>>].phase # "Absent"
  /\ ReturnToLoop
  /\ UNCHANGED clusterVars

(* recordWriter.Create, second call: the status.  The caller ignores the   *)
(* returned object: it keeps the name of the record, not its version.      *)
MarkReady ==
  /\ reclaim.at = "ready"
  /\ UpdateStatus(Reclaimer, "Ready", NoPod)
  /\ fresh' = OthersStillFresh(Reclaimer)
  /\ UNCHANGED copy
  /\ reclaim' = [reclaim EXCEPT
                   !.at = IF reclaim.graceful THEN "inspect" ELSE "release"]
  /\ UNCHANGED clusterVars

MarkReadyConflict ==
  /\ reclaim.at = "ready"
  /\ ~CanUpdate(Reclaimer)
  /\ ReturnToLoop
  /\ UNCHANGED clusterVars

(* The instances the full reclaim takes down: all replicas of a            *)
(* Deployment, the pod itself when it has no owner (NotFound is success),  *)
(* none of any other owner ("lifecycle release deferred").                 *)
Release ==
  /\ reclaim.at = "release"
  /\ size' = IF OwnerKind[reclaim.pod] = "StatefulSet"
               THEN size
               ELSE [size EXCEPT ![reclaim.pod] = 0]
  /\ ReturnToLoop
  /\ UNCHANGED pods

(* GracefulReclaimer: the Deployment is read after the record is Ready.    *)
InspectDeployment ==
  /\ reclaim.at = "inspect"
  /\ IF size[reclaim.pod] > 1
       THEN ReturnToLoop
       ELSE reclaim' = [reclaim EXCEPT !.at = "scale"] /\ UNCHANGED storeVars
  /\ UNCHANGED clusterVars

ScaleToZero ==
  /\ reclaim.at = "scale"
  /\ size' = [size EXCEPT ![reclaim.pod] = 0]
  /\ ReturnToLoop
  /\ UNCHANGED pods

----------------------------------------------------------------------------
(* Mutation of ReclaimCallFails: Create ignores a failed status call.      *)
ReclaimIgnoresFailure ==
  /\ reclaim.at # "idle"
  /\ IF reclaim.at = "ready"
       THEN reclaim' = [reclaim EXCEPT !.at = "release"] /\ UNCHANGED storeVars
       ELSE ReturnToLoop
  /\ UNCHANGED clusterVars

(* A call that fails without effect: the reclaim is abandoned there.       *)
ReclaimCallFails ==
  /\ reclaim.at # "idle"
  /\ ReturnToLoop
  /\ UNCHANGED clusterVars

(* A record write that takes effect but whose answer is lost.  (For the    *)
(* two steps that change size, losing the answer leaves the same state as  *)
(* receiving it.)                                                          *)
ReclaimAnswerLost ==
  /\ \/ /\ reclaim.at = "create"
        /\ CreateObject(<<reclaim.pod, now>>)
        /\ UNCHANGED <<copy, fresh>>
     \/ /\ reclaim.at = "ready"
        /\ UpdateStatus(Reclaimer, "Ready", NoPod)
        /\ DropWritten(Reclaimer)
  /\ reclaim' = ReclaimIdle
  /\ UNCHANGED clusterVars

ReclaimNext ==
  \/ \E w \in Workload : StartReclaim(w)
  \/ CreateRecord
  \/ RecordExists
  \/ MarkReady
  \/ MarkReadyConflict
  \/ Release
  \/ InspectDeployment
  \/ ScaleToZero

ReclaimFault == ReclaimCallFails \/ ReclaimAnswerLost
=============================================================================
