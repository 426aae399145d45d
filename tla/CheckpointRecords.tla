------------------------- MODULE CheckpointRecords -------------------------
(***************************************************************************)
(* The cluster objects the scheduler shares with itself through the API    *)
(* server: CheckpointRecords, workload instances (pods or replicas of a    *)
(* Deployment) and restored pods, and the reads and writes of a record     *)
(* that checkpointrecord_writer.go performs.  The components that use them *)
(* (FullReclaim, PodRestore, RestoreWatchdog) extend this module.          *)
(*                                                                         *)
(* A resourceVersion is an opaque token that the API server only compares  *)
(* with the current one.  Instead of the token, `fresh' keeps the clients  *)
(* whose copy of a record still carries the current one.                   *)
(***************************************************************************)
EXTENDS Naturals, FiniteSets

CONSTANTS
  Workload,      \* source pods (a Deployment's pods count as one workload)
  OwnerKind,     \* [Workload -> {"None", "Deployment", "StatefulSet"}]
  MaxReplicas,   \* bound on spec.replicas of a Deployment
  Restorer,      \* threads that may be inside RestorePod
  Reclaimer,     \* the reclamation loop
  Watchdog,      \* the restore watchdog
  NoRecord, NoPod,
  MaxTime        \* bound on the clock (unix seconds, coarsened)

Client == Restorer \cup {Reclaimer, Watchdog}

(* Names carry the unix second of their creation: ckpt-<pod>-<second> and  *)
(* <pod>-restored-<second>.  Two creations in one second collide.          *)
RecordName == Workload \X (0 .. MaxTime)
PodName    == Workload \X (0 .. MaxTime)
Source(n)  == n[1]
Second(n)  == n[2]

(* "Unset" is the empty phase: Create drops the status of an object whose  *)
(* CRD has the status subresource, and the phase is set by a second call.  *)
Phase == {"Unset", "Ready", "Restoring", "Restored", "Failed"}

(* "Absent" stands for a record that is not stored.                        *)
StoredPhase == Phase \cup {"Absent"}

ASSUME ClientAssumption ==
  /\ Reclaimer \notin Restorer
  /\ Watchdog \notin Restorer
  /\ Reclaimer # Watchdog
ASSUME OwnerAssumption ==
  OwnerKind \in [Workload -> {"None", "Deployment", "StatefulSet"}]
ASSUME BoundAssumption == MaxReplicas \in Nat \ {0} /\ MaxTime \in Nat
ASSUME SentinelAssumption == NoRecord \notin RecordName /\ NoPod \notin PodName

VARIABLES
  record,   \* the stored CheckpointRecords, and whose write each one carries
  copy,     \* each client's local copy of the record it works on
  fresh,    \* clients whose copy carries the current resourceVersion
  size,     \* running instances of a workload (spec.replicas of a Deployment)
  pods,     \* restored pods
  now       \* the clock

storeVars   == <<record, copy, fresh>>
clusterVars == <<size, pods>>

NoCopy == [name |-> NoRecord, phase |-> "Absent"]

RecordsTypeOK ==
  /\ record \in [RecordName -> [phase : StoredPhase, pod : PodName \cup {NoPod},
                               by : Client]]
  /\ copy \in [Client -> [name : RecordName \cup {NoRecord}, phase : StoredPhase]]
  /\ fresh \in SUBSET Client
ClusterTypeOK ==
  /\ size \in [Workload -> 0 .. MaxReplicas]
  /\ pods \in [PodName -> [state : {"absent", "pending", "bound", "deleted"},
                           from : RecordName \cup {NoRecord}]]
  /\ now \in 0 .. MaxTime
StoreTypeOK == RecordsTypeOK /\ ClusterTypeOK

StoreInit ==
  /\ record = [r \in RecordName |->
                 [phase |-> "Absent", pod |-> NoPod, by |-> Reclaimer]]
  /\ copy = [c \in Client |-> NoCopy]
  /\ fresh = {}
  /\ size \in [Workload -> 1 .. MaxReplicas]
  /\ \A w \in Workload : OwnerKind[w] # "Deployment" => size[w] = 1
  /\ pods = [p \in PodName |-> [state |-> "absent", from |-> NoRecord]]
  /\ now = 0

Live(p) == pods[p].state \in {"pending", "bound"}
ReplacementsOf(w) == {p \in PodName : Source(p) = w /\ Live(p)}
RecordsOf(w) == {r \in RecordName : Source(r) = w /\ record[r].phase # "Absent"}

----------------------------------------------------------------------------
(* Reads.                                                                  *)

(* Get: c now holds the record as stored.                                  *)
Get(c, r) ==
  /\ record[r].phase # "Absent"
  /\ copy' = [copy EXCEPT ![c] = [name |-> r, phase |-> record[r].phase]]
  /\ fresh' = fresh \cup {c}
  /\ UNCHANGED record

(* Mutation of ListReady: records of interrupted restores are left out.    *)
ListReadyOnlyReady(w) == {r \in RecordsOf(w) : record[r].phase = "Ready"}

(* The records of w that ListReady returns.                                *)
ListReady(w) ==
  {r \in RecordsOf(w) : record[r].phase \in {"Ready", "Restoring"}}

----------------------------------------------------------------------------
(* Writes.  A write makes every other copy of the record stale.            *)

OthersStillFresh(c) == {d \in fresh \ {c} : copy[d].name # copy[c].name}

(* The first call of Create: the object is stored with an empty status.    *)
CreateObject(r) ==
  /\ record[r].phase = "Absent"
  /\ record' = [record EXCEPT ![r] =
                   [phase |-> "Unset", pod |-> NoPod, by |-> Reclaimer]]

(* Mutation of Hold: the copy is named after the source pod.               *)
HoldBySourcePod(c, r, phase) ==
  /\ copy' = [copy EXCEPT ![c] = [name |-> Source(r), phase |-> phase]]
  /\ fresh' = OthersStillFresh(c) \cup {c}

Hold(c, r, phase) ==
  /\ copy' = [copy EXCEPT ![c] = [name |-> r, phase |-> phase]]
  /\ fresh' = OthersStillFresh(c) \cup {c}

(* Mutation of CanUpdate: a status update without a resourceVersion.       *)
CanAlwaysUpdate(c) == copy[c].name # NoRecord

(* updateStatus succeeds only on the current resourceVersion.              *)
CanUpdate(c) == c \in fresh
Stored(c, phase, pod) ==
  record' = [record EXCEPT ![copy[c].name] =
               [phase |-> phase, pod |-> pod, by |-> c]]
UpdateStatus(c, phase, pod) == CanUpdate(c) /\ Stored(c, phase, pod)

(* The client returns: after a write of its record, or without one.        *)
DropWritten(c) ==
  /\ copy' = [copy EXCEPT ![c] = NoCopy]
  /\ fresh' = OthersStillFresh(c)
DropUnwritten(c) ==
  /\ copy' = [copy EXCEPT ![c] = NoCopy]
  /\ fresh' = fresh \ {c}
  /\ UNCHANGED record

----------------------------------------------------------------------------
(* What a copy is worth: a fresh copy is what is stored, and the record   *)
(* of any copy exists.                                                     *)
FreshCopiesAgree ==
  \A c \in fresh :
    /\ copy[c].name # NoRecord
    /\ copy[c].phase = record[copy[c].name].phase
CopiesAreStored ==
  \A c \in Client :
    copy[c].name # NoRecord => record[copy[c].name].phase # "Absent"

----------------------------------------------------------------------------
(* The abstract life of a record's phase, which the components implement.  *)
Phases == INSTANCE RecordPhase WITH
            Record <- RecordName,
            phase <- [r \in RecordName |-> record[r].phase]
=============================================================================
