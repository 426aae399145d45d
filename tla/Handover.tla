------------------------------ MODULE Handover ------------------------------
(***************************************************************************)
(* handover.go of pkg/scheduler: a pod that no node can take is given to   *)
(* the default scheduler.  The pod of a Deployment or of a ReplicaSet is   *)
(* deleted after its owner's template was patched; any other pod is        *)
(* deleted and created again.  Every call names the pod and nothing else:  *)
(* the scheduler works on a copy that may be old.                          *)
(***************************************************************************)
EXTENDS Naturals, FiniteSets

CONSTANTS
  Name,        \* names of pods
  Node,
  Owner,       \* the ReplicaSet or Deployment of a pod, or NoOwner
  NoOwner,
  Deployment,  \* the owners that are Deployments
  NoNode, NoPod,
  MaxArrivals, \* bound on pods the users create
  MaxFaults    \* bound on failed calls and restarts

Controller == {Owner[x] : x \in Name} \ {NoOwner}

ASSUME HandoverAssumption ==
  /\ Owner \in [Name -> Controller \cup {NoOwner}]
  /\ Deployment \subseteq Controller
  /\ NoNode \notin Node /\ NoPod \notin Name
  /\ MaxArrivals \in Nat /\ MaxFaults \in Nat

VARIABLES
  phase,      \* what the API server knows of each name
  scheduler,  \* spec.schedulerName of each pod
  place,      \* spec.nodeName of each pod
  template,   \* schedulerName in the template of each owner
  mixed,      \* owners with a ReplicaSet of another template left
  wanted,     \* standalone pods that a user created and did not remove
  worker,     \* the one goroutine that schedules
  arrivals, faults

clusterVars == <<phase, scheduler, place>>
ownerVars == <<template, mixed>>
userVars == <<wanted, arrivals>>
handoverVars == <<clusterVars, ownerVars, userVars, worker, faults>>

Phase == {"absent", "pending", "bound"}
Scheduler == {"adaptive", "default"}
Idle == [at |-> "idle", pod |-> NoPod, target |-> NoNode, counted |-> {}]
HandoverStep == {"parent", "patch Deployment", "patch ReplicaSet", "delete replica",
                 "delete", "create"}
Worker == [at : {"idle", "bind"} \cup HandoverStep, pod : Name \cup {NoPod},
           target : Node \cup {NoNode}, counted : SUBSET Name]

HandoverTypeOK ==
  /\ phase \in [Name -> Phase]
  /\ scheduler \in [Name -> Scheduler]
  /\ place \in [Name -> Node \cup {NoNode}]
  /\ template \in [Controller -> Scheduler]
  /\ mixed \subseteq Controller
  /\ wanted \subseteq Name
  /\ worker \in Worker
  /\ arrivals \in 0 .. MaxArrivals /\ faults \in 0 .. MaxFaults

HandoverInit ==
  /\ phase = [x \in Name |-> "absent"]
  /\ scheduler = [x \in Name |-> "adaptive"]
  /\ place = [x \in Name |-> NoNode]
  /\ template = [c \in Controller |-> "adaptive"]
  /\ mixed = {}
  /\ wanted = {}
  /\ worker = Idle
  /\ arrivals = 0 /\ faults = 0

Exists(x) == phase[x] # "absent"
Waiting(x) == phase[x] = "pending" /\ scheduler[x] = "adaptive"
At(step) == worker.at = step
GoTo(step) == worker' = [worker EXCEPT !.at = step]
Fault == faults < MaxFaults /\ faults' = faults + 1

----------------------------------------------------------------------------
(* The API server.                                                         *)
AddPod(x, s) ==
  /\ phase' = [phase EXCEPT ![x] = "pending"]
  /\ scheduler' = [scheduler EXCEPT ![x] = s]
  /\ place' = [place EXCEPT ![x] = NoNode]

RemovePod(x) ==
  /\ phase' = [phase EXCEPT ![x] = "absent"]
  /\ place' = [place EXCEPT ![x] = NoNode]
  /\ UNCHANGED scheduler

BindPod(x, n) ==
  /\ phase[x] = "pending"
  /\ phase' = [phase EXCEPT ![x] = "bound"]
  /\ place' = [place EXCEPT ![x] = n]
  /\ UNCHANGED scheduler

(* HandoverPod: the owner named by the copy decides.                       *)
FirstStep(x) == IF Owner[x] = NoOwner THEN "delete" ELSE "parent"

FindParent ==
  /\ At("parent")
  /\ \/ /\ GoTo(IF Owner[worker.pod] \in Deployment
                  THEN "patch Deployment" ELSE "patch ReplicaSet")
        /\ UNCHANGED faults
     \/ Fault /\ GoTo("patch ReplicaSet")
  /\ UNCHANGED <<clusterVars, ownerVars, userVars>>

(* The patch always changes the template, for it says when it was made: it *)
(* starts another ReplicaSet whatever scheduler the template had, and the  *)
(* old ones are still there.                                               *)
PatchDeployment ==
  LET c == Owner[worker.pod]
  IN  /\ At("patch Deployment")
      /\ \/ /\ template' = [template EXCEPT ![c] = "default"]
            /\ mixed' = mixed \cup {c}
            /\ GoTo("delete replica")
            /\ UNCHANGED faults
         \/ Fault /\ worker' = Idle /\ UNCHANGED ownerVars
      /\ UNCHANGED <<clusterVars, userVars>>

(* The ReplicaSet of a Deployment is patched behind the Deployment's back: *)
(* this happens when it could not be read.                                 *)
PatchReplicaSet ==
  LET c == Owner[worker.pod]
  IN  /\ At("patch ReplicaSet")
      /\ \/ /\ template' = [template EXCEPT ![c] = IF c \in Deployment THEN @ ELSE "default"]
            /\ mixed' = IF c \in Deployment THEN mixed \cup {c} ELSE mixed
            /\ GoTo("delete replica")
            /\ UNCHANGED faults
         \/ Fault /\ worker' = Idle /\ UNCHANGED ownerVars
      /\ UNCHANGED <<clusterVars, userVars>>

(* The error of this Delete is dropped.                                    *)
DeleteReplica ==
  /\ At("delete replica")
  /\ \/ RemovePod(worker.pod) /\ UNCHANGED faults
     \/ Fault /\ UNCHANGED clusterVars
  /\ worker' = Idle
  /\ UNCHANGED <<ownerVars, userVars>>

(* An error of this Delete is logged, "continuing recreation".             *)
DeletePod ==
  /\ At("delete")
  /\ \/ RemovePod(worker.pod) /\ UNCHANGED faults
     \/ Fault /\ UNCHANGED clusterVars
  /\ GoTo("create")
  /\ UNCHANGED <<ownerVars, userVars>>

(* Mutation of Recreate: the name is still taken by the pod that was       *)
(* deleted, and the error is not reported.                                 *)
RecreateTooEarly ==
  /\ At("create")
  /\ worker' = Idle
  /\ UNCHANGED <<clusterVars, ownerVars, userVars, faults>>

Recreate ==
  /\ At("create")
  /\ \/ ~Exists(worker.pod) /\ AddPod(worker.pod, "default") /\ UNCHANGED faults
     \/ Exists(worker.pod) /\ UNCHANGED <<clusterVars, faults>>
     \/ ~Exists(worker.pod) /\ Fault /\ UNCHANGED clusterVars
  /\ worker' = Idle
  /\ UNCHANGED <<ownerVars, userVars>>

HandoverPod ==
  FindParent \/ PatchDeployment \/ PatchReplicaSet \/ DeleteReplica \/ DeletePod \/ Recreate

----------------------------------------------------------------------------
(* Users and controllers.                                                  *)
Arrive(x) ==
  /\ arrivals < MaxArrivals
  /\ arrivals' = arrivals + 1
  /\ wanted' = wanted \cup {x}
  /\ Owner[x] = NoOwner /\ ~Exists(x)
  /\ AddPod(x, "adaptive")
  /\ UNCHANGED <<ownerVars, worker, faults>>

(* An owner wants one replica; in a rollout there is one of the new and    *)
(* one of an old ReplicaSet, which creates it again under its own template *)
(* when it was deleted.                                                    *)
AddReplica(x) ==
  LET c == Owner[x]
      others == {y \in Name : Owner[y] = c /\ Exists(y)}
  IN  /\ c # NoOwner /\ ~Exists(x)
      /\ Cardinality(others) <= IF c \in mixed THEN 1 ELSE 0
      /\ \E s \in {template[c]} \cup (IF c \in mixed THEN Scheduler ELSE {}) : AddPod(x, s)
      /\ UNCHANGED <<ownerVars, userVars, worker, faults>>

(* The old ReplicaSets stay until the replica of the new one has a node:   *)
(* a rollout need not end.                                                 *)
RolloutEnds(c) ==
  /\ c \in mixed
  /\ \E x \in Name :
       /\ Owner[x] = c /\ phase[x] = "bound" /\ scheduler[x] = template[c]
       /\ \A y \in Name \ {x} : Owner[y] = c => ~Exists(y)
  /\ mixed' = mixed \ {c}
  /\ UNCHANGED <<clusterVars, template, userVars, worker, faults>>

DefaultBind(x) ==
  /\ scheduler[x] = "default"
  /\ \E n \in Node : BindPod(x, n)
  /\ UNCHANGED <<ownerVars, userVars, worker, faults>>

Leave(x) ==
  /\ Exists(x)
  /\ RemovePod(x)
  /\ wanted' = wanted \ {x}
  /\ UNCHANGED <<ownerVars, worker, arrivals, faults>>

Environment ==
  \/ \E x \in Name : Arrive(x) \/ DefaultBind(x) \/ Leave(x)
  \/ \E c \in Controller : RolloutEnds(c)
=============================================================================
