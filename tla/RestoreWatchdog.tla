-------------------------- MODULE RestoreWatchdog --------------------------
(***************************************************************************)
(* RestoreWatchdog.reconcile: list the restored pods that stayed Pending   *)
(* and unscheduled too long, then delete each and roll its record back.    *)
(***************************************************************************)
EXTENDS CheckpointRecords

CONSTANT PendingTimeout   \* UnschedulablePendingTimeout in clock units

ASSUME WatchdogAssumption == PendingTimeout \in Nat \ {0}

VARIABLE watchdog   \* the listed pods still to recycle, the next call

WatchdogIdle == [at |-> "idle", stuck |-> {}, pod |-> NoPod]

WatchdogTypeOK ==
  watchdog \in [at : {"idle", "delete", "get", "rollback"},
                stuck : SUBSET PodName,
                pod : PodName \cup {NoPod}]
WatchdogInit == watchdog = WatchdogIdle

StuckPods ==
  {p \in PodName : /\ pods[p].state = "pending"
                   /\ now - Second(p) >= PendingTimeout}

(* The next pod of the list, or the end of this reconcile.                 *)
NextPod(stuck) ==
  watchdog' = IF stuck = {}
                THEN WatchdogIdle
                ELSE [at |-> "delete", stuck |-> stuck, pod |-> NoPod]

ListStuckPods ==
  /\ watchdog.at = "idle"
  /\ StuckPods # {}
  /\ NextPod(StuckPods)
  /\ UNCHANGED <<storeVars, clusterVars>>

(* The delete has no precondition: a pod that was bound since the list is  *)
(* deleted as well.  A pod that is gone makes the call fail.               *)
DeletePod(p) ==
  /\ watchdog.at = "delete"
  /\ p \in watchdog.stuck
  /\ IF Live(p)
       THEN /\ pods' = [pods EXCEPT ![p].state = "deleted"]
            /\ watchdog' = [at |-> "get", stuck |-> watchdog.stuck \ {p}, pod |-> p]
       ELSE NextPod(watchdog.stuck \ {p}) /\ UNCHANGED pods
  /\ UNCHANGED <<storeVars, size>>

GetRecord ==
  /\ watchdog.at = "get"
  /\ Get(Watchdog, pods[watchdog.pod].from)
  /\ watchdog' = [watchdog EXCEPT !.at = "rollback"]
  /\ UNCHANGED clusterVars

RollBack ==
  /\ watchdog.at = "rollback"
  /\ IF copy[Watchdog].phase \in {"Restored", "Restoring"} /\ CanUpdate(Watchdog)
       THEN UpdateStatus(Watchdog, "Ready", NoPod) /\ DropWritten(Watchdog)
       ELSE DropUnwritten(Watchdog)
  /\ NextPod(watchdog.stuck)
  /\ UNCHANGED clusterVars

----------------------------------------------------------------------------
(* A failed call is logged; reconcile goes on with the next pod.           *)
WatchdogCallFails ==
  /\ \/ /\ watchdog.at = "delete"
        /\ \E p \in watchdog.stuck : NextPod(watchdog.stuck \ {p})
     \/ /\ watchdog.at \in {"get", "rollback"}
        /\ NextPod(watchdog.stuck)
  /\ DropUnwritten(Watchdog)
  /\ UNCHANGED clusterVars

(* The delete took effect, its answer was lost: the record is not read.    *)
WatchdogAnswerLost ==
  /\ watchdog.at = "delete"
  /\ \E p \in watchdog.stuck :
       /\ Live(p)
       /\ pods' = [pods EXCEPT ![p].state = "deleted"]
       /\ NextPod(watchdog.stuck \ {p})
  /\ UNCHANGED <<storeVars, size>>

WatchdogNext ==
  \/ ListStuckPods
  \/ \E p \in PodName : DeletePod(p)
  \/ GetRecord
  \/ RollBack

WatchdogFault == WatchdogCallFails \/ WatchdogAnswerLost
=============================================================================
