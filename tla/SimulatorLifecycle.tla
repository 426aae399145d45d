------------------------- MODULE SimulatorLifecycle -------------------------
(***************************************************************************)
(* lifecycle.go, criu.go and cluster_handlers.go of the simulator: HTTP    *)
(* requests checkpoint and restore workloads, a poll of the dashboard      *)
(* records what it finds in the cluster, and all of them, with the writes  *)
(* a restore leaves behind for two seconds later, change the state store.  *)
(* A call of the API server or of the store is a step.  Key holds what     *)
(* requests name: the entries of other pods touch nothing else.            *)
(***************************************************************************)
EXTENDS StateStore, Naturals, FiniteSets, Sequences

CONSTANTS
  Pod,             \* names a pod may have
  Deployment,
  Owner,           \* the Deployment of a pod, or NoOwner
  RestoredName,    \* the name <pod>-restored of what a restore may name
  Checkpointed,    \* what a request to checkpoint may name
  Candidates,      \* pods that may look idle to the pipeline
  DependsOn,       \* annotation of a pod: a sequence of keys
  Protected,
  RecordTargets,   \* what a Ready CheckpointRecord may name
  Request, NoOwner, NoKey,
  MaxRequests, MaxFaults    \* bounds

Restorable == DOMAIN RestoredName

ASSUME LifecycleAssumption ==
  /\ Key \subseteq Pod \cup Deployment /\ Pod \cap Deployment = {}
  /\ Owner \in [Pod -> Deployment \cup {NoOwner}]
  /\ NoOwner \notin Deployment /\ NoKey \notin Key
  /\ Restorable \subseteq Key /\ RestoredName \in [Restorable -> Pod]
  /\ Checkpointed \subseteq Key /\ Candidates \subseteq Pod
  /\ DependsOn \in [Pod -> Seq(Restorable)]
  /\ Protected \subseteq Pod /\ RecordTargets \subseteq Key
  /\ MaxRequests \in Nat /\ MaxFaults \in Nat

VARIABLES
  phase,         \* of each pod, as the API server has it
  placeholders,  \* pods that run a stand-in instead of their own containers
  replicas,      \* of each Deployment: 0 or 1
  request,       \* the handlers
  late,          \* goroutines that will write RUNNING: how many for each key
  poll,          \* the handler of /api/workloads
  requests, faults

clusterVars == <<phase, placeholders, replicas>>
vars == <<states, clusterVars, request, late, poll, requests, faults>>

(* todo: what is left to restore, the last one is what was asked for;      *)
(* snapshot: of key, when it was read; fresh: the Deployment was not       *)
(* written since it was read; known: the store had an entry.               *)
Idle == [at |-> "idle", key |-> NoKey, todo |-> <<>>, snapshot |-> FALSE,
         fresh |-> FALSE, known |-> FALSE]
NoPoll == [at |-> "idle", seen |-> {}, todo |-> {}]

Init ==
  /\ StoreInit
  /\ replicas \in [Deployment -> {0, 1}]
  /\ phase \in {f \in [Pod -> {"absent", "running"}] :
                  \A x \in Pod : f[x] = "running" =>
                    /\ x \notin {RestoredName[k] : k \in Restorable}
                    /\ Owner[x] # NoOwner => replicas[Owner[x]] = 1}
  /\ placeholders = {}
  /\ request = [r \in Request |-> Idle]
  /\ late = [k \in Key |-> 0]
  /\ poll = NoPoll
  /\ requests = 0 /\ faults = 0

At(r, step) == request[r].at = step
Step(r, step) == [request EXCEPT ![r].at = step]
GoTo(r, step) == request' = Step(r, step)
Fault == faults < MaxFaults /\ faults' = faults + 1
Untouched == UNCHANGED <<late, poll, requests>>

(* A write of a Deployment makes every copy read before it stale.          *)
Scale(r, d, n, step) ==
  /\ replicas' = [replicas EXCEPT ![d] = n]
  /\ request' = [q \in Request |->
       IF q = r THEN [request[q] EXCEPT !.at = step]
       ELSE [request[q] EXCEPT !.fresh = FALSE]]
  /\ UNCHANGED <<phase, placeholders>>

Remove(x) ==
  /\ phase' = [phase EXCEPT ![x] = "absent"]
  /\ placeholders' = placeholders \ {x}
  /\ UNCHANGED replicas

----------------------------------------------------------------------------
(* HandleCheckpoint: ExecuteReclamation.                                   *)

(* A handler takes the place of one that is over: which one is the same.   *)
Arrive(r, q) ==
  /\ At(r, "idle") /\ r = CHOOSE o \in Request : At(o, "idle")
  /\ requests < MaxRequests
  /\ requests' = requests + 1
  /\ request' = [request EXCEPT ![r] = q]
  /\ UNCHANGED <<states, clusterVars, late, poll>>

(* A pod that terminates still reports the phase Running.                  *)
Reclaimable(k) ==
  k \in Pod /\ phase[k] \in {"running", "terminating"} /\ k \notin Protected

HandleCheckpoint(r, k) ==
  \/ /\ Arrive(r, [Idle EXCEPT !.at = IF Reclaimable(k) THEN "save" ELSE "fail", !.key = k])
     /\ UNCHANGED faults
  \/ Arrive(r, [Idle EXCEPT !.at = "fail", !.key = k]) /\ Fault

Save(r) ==
  /\ At(r, "save")
  /\ SaveSnapshot(request[r].key)
  /\ request' = [request EXCEPT ![r].at = "checkpointing",
                                ![r].known = states[request[r].key] # NoEntry]
  /\ Untouched /\ UNCHANGED <<clusterVars, faults>>

(* Where SetState is all a step does, and the step after it.               *)
Write(r, step, s, next) ==
  /\ At(r, step)
  /\ SetState(request[r].key, s)
  /\ request' = next
  /\ Untouched /\ UNCHANGED <<clusterVars, faults>>

(* CRIUManager.Checkpoint succeeds, or the owner is scaled down or the pod *)
(* deleted without one.                                                    *)
Checkpointing(r) ==
  /\ At(r, "checkpointing")
  /\ \E step \in {"checkpointed", IF Owner[request[r].key] = NoOwner
                                     THEN "delete gracefully" ELSE "get owner"} :
       Write(r, "checkpointing", "CHECKPOINTING", Step(r, step))

Archived(r) == Write(r, "checkpointed", "CHECKPOINTED", Step(r, "delete"))

(* An error of this Delete is dropped, in both places.                     *)
Delete(r) ==
  /\ request[r].at \in {"delete", "delete gracefully"}
  /\ \/ Remove(request[r].key) /\ UNCHANGED faults
     \/ Fault /\ UNCHANGED clusterVars
  /\ GoTo(r, IF At(r, "delete") THEN "reclaimed" ELSE "reclaimed gracefully")
  /\ Untouched /\ UNCHANGED states

GetOwner(r) ==
  /\ At(r, "get owner")
  /\ \/ /\ request' = [request EXCEPT ![r].at = "scale to zero", ![r].fresh = TRUE]
        /\ UNCHANGED faults
     \/ Fault /\ \E step \in {"delete gracefully", "reclaimed gracefully"} : GoTo(r, step)
  /\ Untouched /\ UNCHANGED <<states, clusterVars>>

(* So is an error of this Update.                                          *)
ScaleToZero(r) ==
  /\ At(r, "scale to zero")
  /\ \/ /\ request[r].fresh
        /\ Scale(r, Owner[request[r].key], 0, "reclaimed gracefully")
        /\ UNCHANGED faults
     \/ ~request[r].fresh /\ GoTo(r, "reclaimed gracefully") /\ UNCHANGED <<clusterVars, faults>>
     \/ Fault /\ GoTo(r, "reclaimed gracefully") /\ UNCHANGED clusterVars
  /\ Untouched /\ UNCHANGED states

Done(r) == [request EXCEPT ![r] = Idle]

Reclaimed(r) ==
  \/ Write(r, "reclaimed", "RECLAIMED", Done(r))
  \/ Write(r, "reclaimed gracefully", "RECLAIMED", Step(r, "decide"))

DecideReclaimed(r) ==
  /\ At(r, "decide")
  /\ RecordDecision(request[r].key, FALSE)
  /\ request' = Done(r)
  /\ Untouched /\ UNCHANGED <<clusterVars, faults>>

Failed(r) == Write(r, "fail", "RECLAMATION_FAILED", Done(r))

ExecuteReclamation(r) ==
  \/ Save(r) \/ Checkpointing(r) \/ Archived(r)
  \/ Delete(r) \/ GetOwner(r) \/ ScaleToZero(r) \/ Reclaimed(r) \/ DecideReclaimed(r)
  \/ Failed(r)

----------------------------------------------------------------------------
(* HandleRestore: ExecuteDependencyAwareRestore and ExecuteRestore.        *)

HandleRestore(r, k, resolveDependencies) ==
  /\ Arrive(r, [Idle EXCEPT
       !.at = "next",
       !.todo = Append(IF resolveDependencies /\ k \in Pod /\ Get(k).snapshot
                         THEN DependsOn[k] ELSE <<>>, k)])
  /\ UNCHANGED faults

(* A dependency is restored if it is down; the errors of its restore are   *)
(* logged.  The snapshot is read before the state is written.              *)
NextRestore(r) ==
  LET todo == request[r].todo
      k == Head(todo)
      skip == Len(todo) > 1 /\ Get(k).state \notin {"RECLAIMED", "CHECKPOINTED"}
  IN  /\ At(r, "next")
      /\ request' = [request EXCEPT
           ![r].todo = Tail(todo),
           ![r].key = k,
           ![r].snapshot = Get(k).snapshot,
           ![r].at = IF skip THEN "next" ELSE "restoring"]
      /\ Untouched /\ UNCHANGED <<states, clusterVars, faults>>

Restoring(r) == Write(r, "restoring", "RESTORING", Step(r, "find owner"))

(* Without a snapshot the name itself is taken for a Deployment's.         *)
OwnerName(r) ==
  LET k == request[r].key
  IN  IF k \in Pod /\ request[r].snapshot /\ Owner[k] # NoOwner THEN Owner[k] ELSE k

FindOwner(r) ==
  LET d == OwnerName(r)
      asleep == d \in Deployment /\ replicas[d] = 0
  IN  /\ At(r, "find owner")
      /\ \/ /\ request' = [request EXCEPT
                 ![r].at = IF asleep THEN "scale up" ELSE "delete old copy", ![r].fresh = TRUE]
            /\ UNCHANGED faults
         \/ Fault /\ GoTo(r, "delete old copy")
      /\ Untouched /\ UNCHANGED <<states, clusterVars>>

ScaleUp(r) ==
  /\ At(r, "scale up")
  /\ \/ /\ request[r].fresh
        /\ Scale(r, OwnerName(r), 1, "restored")
        /\ UNCHANGED faults
     \/ ~request[r].fresh /\ GoTo(r, "delete old copy") /\ UNCHANGED <<clusterVars, faults>>
     \/ Fault /\ GoTo(r, "delete old copy") /\ UNCHANGED clusterVars
  /\ Untouched /\ UNCHANGED states

(* CRIUManager.Restore: the spec of the snapshot, or of the pod if there   *)
(* is one.  The old copy has its time to terminate.                        *)
DeleteOldCopy(r) ==
  LET k == request[r].key
      x == RestoredName[k]
      ownSpec == request[r].snapshot \/ (k \in Pod /\ phase[k] # "absent")
  IN  /\ At(r, "delete old copy")
      /\ \/ /\ phase' = [phase EXCEPT ![x] = IF @ = "absent" THEN @ ELSE "terminating"]
            /\ UNCHANGED <<placeholders, replicas, faults>>
         \/ Fault /\ UNCHANGED clusterVars
      /\ request' = [request EXCEPT ![r].at = "create copy", ![r].snapshot = ownSpec]
      /\ Untouched /\ UNCHANGED states

(* Mutation of CreateCopy: an error is taken for a copy.                    *)
CreateCopyDespiteError(r) ==
  LET x == RestoredName[request[r].key]
  IN  /\ At(r, "create copy")
      /\ \/ phase' = [phase EXCEPT ![x] = "pending"] /\ UNCHANGED faults
         \/ Fault /\ UNCHANGED phase
      /\ placeholders' = IF request[r].snapshot THEN placeholders ELSE placeholders \cup {x}
      /\ GoTo(r, "restored")
      /\ Untouched /\ UNCHANGED <<states, replicas>>

CreateCopy(r) ==
  LET x == RestoredName[request[r].key]
  IN  /\ At(r, "create copy")
      /\ \/ /\ phase[x] = "absent"
            /\ phase' = [phase EXCEPT ![x] = "pending"]
            /\ placeholders' = IF request[r].snapshot THEN placeholders ELSE placeholders \cup {x}
            /\ UNCHANGED <<replicas, faults>>
            /\ GoTo(r, "restored")
         \/ phase[x] # "absent" /\ GoTo(r, "restore fails") /\ UNCHANGED <<clusterVars, faults>>
         \/ Fault /\ GoTo(r, "restore fails") /\ UNCHANGED clusterVars
      /\ Untouched /\ UNCHANGED states

Return(r) ==
  IF request[r].todo = <<>> THEN Done(r)
  ELSE [request EXCEPT ![r] = [Idle EXCEPT !.at = "next", !.todo = request[r].todo]]

RestoreFails(r) == Write(r, "restore fails", "RECLAMATION_FAILED", Return(r))

(* Mutation of Restored: nothing is written later.                         *)
RestoredForGood(r) == Write(r, "restored", "RESTORED", Return(r))

Restored(r) ==
  /\ At(r, "restored")
  /\ SetState(request[r].key, "RESTORED")
  /\ late' = [late EXCEPT ![request[r].key] = @ + 1]
  /\ request' = Return(r)
  /\ UNCHANGED <<clusterVars, poll, requests, faults>>

ExecuteRestore(r) ==
  \/ NextRestore(r) \/ Restoring(r) \/ FindOwner(r) \/ ScaleUp(r) \/ DeleteOldCopy(r)
  \/ CreateCopy(r) \/ RestoreFails(r) \/ Restored(r)

(* Two seconds later, whatever happened since.                             *)
LateRunning(k) ==
  /\ late[k] > 0
  /\ late' = [late EXCEPT ![k] = @ - 1]
  /\ SetState(k, "RUNNING")
  /\ UNCHANGED <<clusterVars, request, poll, requests, faults>>

----------------------------------------------------------------------------
(* HandleWorkloads.                                                        *)

PollGoes(p) ==
  poll' = p /\ UNCHANGED <<clusterVars, request, late, requests, faults>>

ListPods ==
  LET all == {x \in Pod \cap Key : phase[x] # "absent"}
  IN  /\ poll.at = "idle"
      /\ PollGoes([at |-> "pods", seen |-> all \cap RecordTargets, todo |-> all])
      /\ UNCHANGED states

(* A list comes in one order, that of the names.                           *)
FirstOf(list) == CHOOSE k \in list : TRUE

(* The pipeline runs on the pod.                                           *)
DecidePod ==
  LET x == FirstOf(poll.todo)
  IN  /\ poll.at = "pods" /\ poll.todo # {}
      /\ \E keep \in {TRUE} \cup {x \notin Candidates} : RecordDecision(x, keep)
      /\ PollGoes([poll EXCEPT !.todo = @ \ {x}])

ListDeployments ==
  /\ poll.at = "pods" /\ poll.todo = {}
  /\ PollGoes([poll EXCEPT !.at = "deployments",
                           !.todo = {d \in Deployment \cap Key : replicas[d] = 0}])
  /\ UNCHANGED states

ListRecords ==
  /\ poll.at = "deployments" /\ poll.todo = {}
  /\ \E targets \in SUBSET (RecordTargets \ poll.seen) :
       PollGoes(IF targets = {} THEN NoPoll
                ELSE [poll EXCEPT !.at = "records", !.todo = targets])
  /\ UNCHANGED states

(* The state is read in one step and written in another.                   *)
FindReclaimed ==
  LET k == FirstOf(poll.todo)
  IN  /\ poll.at \in {"deployments", "records"} /\ poll.todo # {}
      /\ IF Get(k).state = "RECLAIMED" THEN PollGoes([poll EXCEPT !.todo = @ \ {k}])
         ELSE PollGoes([poll EXCEPT
                !.at = IF @ = "records" THEN "set record" ELSE "set deployment"])
      /\ UNCHANGED states

SetReclaimed ==
  /\ poll.at \in {"set deployment", "set record"}
  /\ SetState(FirstOf(poll.todo), "RECLAIMED")
  /\ PollGoes([poll EXCEPT
       !.at = IF @ = "set record" THEN "decide record" ELSE "decide deployment"])

RecordReclaimed ==
  /\ poll.at \in {"decide deployment", "decide record"}
  /\ RecordDecision(FirstOf(poll.todo), FALSE)
  /\ PollGoes([poll EXCEPT
       !.at = IF @ = "decide record" THEN "records" ELSE "deployments",
       !.todo = @ \ {FirstOf(@)}])

EndPoll ==
  /\ poll.at = "records" /\ poll.todo = {}
  /\ PollGoes(NoPoll)
  /\ UNCHANGED states

HandleWorkloads ==
  \/ ListPods \/ DecidePod \/ ListDeployments \/ ListRecords \/ FindReclaimed
  \/ SetReclaimed \/ RecordReclaimed \/ EndPoll

----------------------------------------------------------------------------
(* The cluster.  A replica gets a name of which the store knows nothing.   *)

StartPod(x) ==
  /\ phase[x] = "pending"
  /\ phase' = [phase EXCEPT ![x] = "running"]
  /\ UNCHANGED <<states, placeholders, replicas, request, late, poll, requests, faults>>

EndPod(x) ==
  /\ \/ phase[x] = "terminating"
     \/ phase[x] # "absent" /\ Owner[x] # NoOwner /\ replicas[Owner[x]] = 0
  /\ Remove(x)
  /\ UNCHANGED <<states, request, late, poll, requests, faults>>

NewReplica(x) ==
  /\ Owner[x] # NoOwner /\ replicas[Owner[x]] = 1
  /\ x \in Key => states[x] = NoEntry
  /\ \A y \in Pod : Owner[y] = Owner[x] => phase[y] = "absent"
  /\ phase' = [phase EXCEPT ![x] = "pending"]
  /\ UNCHANGED <<states, placeholders, replicas, request, late, poll, requests, faults>>

RequestStep(r) == ExecuteReclamation(r) \/ ExecuteRestore(r)

Next ==
  \/ \E r \in Request :
       \/ RequestStep(r)
       \/ \E k \in Checkpointed : HandleCheckpoint(r, k)
       \/ \E k \in Restorable, resolveDependencies \in BOOLEAN :
            HandleRestore(r, k, resolveDependencies)
  \/ HandleWorkloads
  \/ \E k \in Key : LateRunning(k)
  \/ \E x \in Pod : StartPod(x) \/ EndPod(x) \/ NewReplica(x)

Spec == Init /\ [][Next]_vars

----------------------------------------------------------------------------
RequestAt ==
  {"idle", "save", "checkpointing", "checkpointed", "delete",
   "delete gracefully", "get owner", "scale to zero", "reclaimed", "reclaimed gracefully",
   "decide", "fail", "next", "restoring", "find owner", "scale up", "delete old copy",
   "create copy", "restore fails", "restored"}

PollAt ==
  {"idle", "pods", "deployments", "records", "set deployment", "set record",
   "decide deployment", "decide record"}

(* Type correctness.                                                       *)
TypeOK ==
  /\ StoreTypeOK
  /\ phase \in [Pod -> {"absent", "pending", "running", "terminating"}]
  /\ placeholders \subseteq {x \in Pod : phase[x] # "absent"}
  /\ replicas \in [Deployment -> {0, 1}]
  /\ request \in [Request -> [at : RequestAt, key : Key \cup {NoKey}, todo : Seq(Restorable),
                              snapshot : BOOLEAN, fresh : BOOLEAN, known : BOOLEAN]]
  /\ late \in [Key -> Nat]
  /\ poll \in [at : PollAt, seen : SUBSET Pod, todo : SUBSET Key]
  /\ requests \in 0 .. MaxRequests /\ faults \in 0 .. MaxFaults

(* A workload the store knew when its reclamation began can be restored    *)
(* with its own containers, whatever other requests and polls wrote since: *)
(* "SaveSnapshot saves the original pod spec for restoration".  (One the   *)
(* store did not know is restored as a stand-in.)                          *)
SnapshotsAreKept ==
  \A r \in Request : request[r].known => states[request[r].key].snapshot

(* What has been reclaimed stays so until a request names it or a restore  *)
(* of it that is over writes what it left for later: no poll, however old  *)
(* the list it works through, and no request for another workload.         *)
ReclaimedUntilRestored ==
  [][\A k \in Key :
       Get(k).state = "RECLAIMED" /\ Get(k)'.state # "RECLAIMED" =>
         \/ late'[k] < late[k]
         \/ \E r \in Request : request[r].key = k /\ request'[r] # request[r]]_vars

Transitional == {"CHECKPOINTING", "CHECKPOINTED", "RESTORING", "RESTORED"}

(* A workload shown in a state it only passes through has a request under  *)
(* way for it, or the write that a restore left for later, which ends that *)
(* state: overlapping requests, failing calls and polls leave none behind. *)
TransitionalStatesEnd ==
  \A k \in Key : Get(k).state \in Transitional =>
    late[k] > 0 \/ \E r \in Request : request[r].key = k
=============================================================================
