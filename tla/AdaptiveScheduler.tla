-------------------------- MODULE AdaptiveScheduler --------------------------
(***************************************************************************)
(* scheduler.go of pkg/scheduler: pods that ask for this scheduler wait in *)
(* a bounded queue; one worker takes them in turn, picks a node on a       *)
(* snapshot of the metrics cache and binds the pod, or tries it again      *)
(* later, or hands it over.  A pod enters the queue at every informer      *)
(* event: the queue may hold several copies of it, and copies outlive it.  *)
(***************************************************************************)
EXTENDS Placement, Handover

CONSTANTS
  Containers, InitContainers,   \* of each pod: sequences of amounts
  Selector, Labels,             \* nodeSelector of a pod, labels of a node
  Allocatable,                  \* of each node
  Telemetry,                    \* what the cache may show of a node
  QueueCapacity,
  EnableDefaultSchedulerHandover,
  HandoverMaxRetries,
  MaxTimers                     \* bound on the retries that wait for their timer

ASSUME SchedulerAssumption ==
  /\ IsFiniteSet(Name)
  /\ Containers \in [Name -> Seq(Amount)] /\ InitContainers \in [Name -> Seq(Amount)]
  /\ Allocatable \in [Node -> Amount]
  /\ QueueCapacity \in Nat \ {0} /\ HandoverMaxRetries \in Nat \ {0}
  /\ EnableDefaultSchedulerHandover \in BOOLEAN
  /\ MaxTimers \in Nat

VARIABLES
  podQueue,      \* channel of copies
  timers,        \* copies that wait for the backoff interval
  retryTracker,  \* failed attempts of each name
  view           \* spec.nodeName of each pod in the metrics cache

schedulerVars == <<podQueue, timers, retryTracker, view>>
vars == <<handoverVars, schedulerVars>>

TypeOK ==
  /\ HandoverTypeOK
  /\ podQueue \in Seq(Name) /\ Len(podQueue) <= QueueCapacity
  /\ timers \in Seq(Name) /\ Len(timers) <= MaxTimers
  /\ retryTracker \in [Name -> 0 .. HandoverMaxRetries]
  /\ view \in [Name -> Node \cup {NoNode}]

Init ==
  /\ HandoverInit
  /\ podQueue = <<>> /\ timers = <<>>
  /\ retryTracker = [x \in Name |-> 0]
  /\ view = [x \in Name |-> NoNode]

Requests == [x \in Name |-> PodRequests(Containers[x], InitContainers[x])]

(* What the cache counts of the pods on a node: their containers, and not  *)
(* their init containers.                                                  *)
Counted == [x \in Name |-> ContainerRequests(Containers[x])]
Total == [S \in SUBSET Name |->
            [r \in Resource |-> SumFunction([x \in S |-> Counted[x][r]])]]

BoundTo(n) == {x \in Name : place[x] = n}
SeenOn(n) == {x \in Name : view[x] = n}

----------------------------------------------------------------------------
(* Mutation of Enqueue: the queue has no end.                              *)
EnqueueUnbounded(x) == podQueue' = Append(podQueue, x)

(* A full queue drops the copy.                                            *)
Enqueue(x) ==
  podQueue' = IF Len(podQueue) < QueueCapacity THEN Append(podQueue, x) ELSE podQueue

(* An informer event: the pod was added or changed, or the resync period   *)
(* came round.                                                             *)
PodEvent(x) ==
  /\ Waiting(x)
  /\ Enqueue(x)
  /\ UNCHANGED <<handoverVars, timers, retryTracker, view>>

(* The copy a timer holds passes the test of enqueueIfTargeted whatever    *)
(* became of the pod.                                                      *)
BackoffEnds ==
  /\ \E i \in DOMAIN timers : Enqueue(timers[i]) /\ timers' = RemoveAt(timers, i)
  /\ UNCHANGED <<handoverVars, retryTracker, view>>

NodeMetrics(n, t, pods) ==
  [ready |-> t.ready, pressure |-> t.pressure, labels |-> Labels[n],
   allocatable |-> Allocatable[n], requested |-> Total[pods], used |-> t.used]

(* The nodes with the highest score; the loop ranges over a map, so that   *)
(* any of them may come first.                                             *)
Best(x, nodes, reclaimed) ==
  LET eligible == {n \in Node : Filter(Requests[x], Selector[x], nodes[n])}
      score == [n \in eligible |-> Score(Requests[x], nodes[n], n \in reclaimed)]
  IN  {n \in eligible : \A m \in eligible : score[n] >= score[m]}

(* What SchedulePod may return for a pod, NoNode for an error, when the    *)
(* cache counts the given pods on each node.  Telemetry and the nodes      *)
(* reclaimed in the last 15 minutes are any.                               *)
SchedulePod ==
  [x \in Name |-> [counted \in [Node -> SUBSET Name] |->
     {n \in Node \cup {NoNode} :
        \E t \in [Node -> Telemetry], reclaimed \in SUBSET Node :
          LET best == Best(x, [m \in Node |-> NodeMetrics(m, t[m], counted[m])], reclaimed)
          IN  IF best = {} THEN n = NoNode ELSE n \in best}]]

Outcomes(x) == SchedulePod[x][[n \in Node |-> SeenOn(n)]]
TakeCopy == At("idle") /\ podQueue # <<>> /\ podQueue' = Tail(podQueue)

SelectNode ==
  LET x == Head(podQueue)
  IN  /\ TakeCopy
      /\ \E n \in Outcomes(x) \ {NoNode} :
           worker' = [at |-> "bind", pod |-> x, target |-> n, counted |-> SeenOn(n)]
      /\ retryTracker' = [retryTracker EXCEPT ![x] = 0]
      /\ UNCHANGED <<clusterVars, ownerVars, userVars, faults, timers, view>>

(* There are pods to reclaim somewhere: the copy waits for its next try.   *)
RetryLater ==
  LET x == Head(podQueue)
  IN  /\ TakeCopy /\ NoNode \in Outcomes(x)
      /\ EnableDefaultSchedulerHandover
      /\ retryTracker[x] + 1 < HandoverMaxRetries
      /\ Len(timers) < MaxTimers
      /\ retryTracker' = [retryTracker EXCEPT ![x] = @ + 1]
      /\ timers' = Append(timers, x)
      /\ UNCHANGED <<handoverVars, view>>

(* Mutation of GiveUp: the pod is dropped, and never tried again.          *)
GiveUpWithoutHandover ==
  LET x == Head(podQueue)
  IN  /\ TakeCopy /\ NoNode \in Outcomes(x)
      /\ retryTracker' = [retryTracker EXCEPT ![x] = 0]
      /\ UNCHANGED <<handoverVars, timers, view>>

(* A scheduler that hands nothing over keeps no count either.              *)
GiveUp ==
  LET x == Head(podQueue)
  IN  /\ TakeCopy /\ NoNode \in Outcomes(x)
      /\ retryTracker' = [retryTracker EXCEPT ![x] = 0]
      /\ worker' = IF EnableDefaultSchedulerHandover
                     THEN [Idle EXCEPT !.at = FirstStep(x), !.pod = x] ELSE Idle
      /\ UNCHANGED <<clusterVars, ownerVars, userVars, faults, timers, view>>

(* Bind names the pod: it binds whatever pod of that name is unbound.  An  *)
(* error is logged and the copy dropped.                                   *)
Bind ==
  /\ At("bind")
  /\ \/ BindPod(worker.pod, worker.target) /\ UNCHANGED faults
     \/ phase[worker.pod] # "pending" /\ UNCHANGED <<clusterVars, faults>>
     \/ Fault /\ UNCHANGED clusterVars
  /\ worker' = Idle
  /\ UNCHANGED <<ownerVars, userVars, schedulerVars>>

(* The metrics cache hears of the pod.                                     *)
SyncPod(x) ==
  /\ view' = [view EXCEPT ![x] = place[x]]
  /\ UNCHANGED <<handoverVars, podQueue, timers, retryTracker>>

(* The process starts again: what it held in memory is gone, the cache is  *)
(* filled before the worker runs.                                          *)
Restart ==
  /\ Fault
  /\ worker' = Idle /\ podQueue' = <<>> /\ timers' = <<>>
  /\ retryTracker' = [x \in Name |-> 0]
  /\ view' = place
  /\ UNCHANGED <<clusterVars, ownerVars, userVars>>

(* A replica gets a name that nobody has heard of: one of which no copy    *)
(* and no memory is left stands for it.                                    *)
NewReplica(x) ==
  /\ x \notin Range(podQueue) \cup Range(timers) \cup {worker.pod}
  /\ AddReplica(x)
  /\ retryTracker' = [retryTracker EXCEPT ![x] = 0]
  /\ view' = [view EXCEPT ![x] = NoNode]
  /\ UNCHANGED <<podQueue, timers>>

ScheduleOne == SelectNode \/ RetryLater \/ GiveUp \/ Bind
Next ==
  \/ ScheduleOne \/ BackoffEnds \/ Restart
  \/ HandoverPod /\ UNCHANGED schedulerVars
  \/ Environment /\ UNCHANGED schedulerVars
  \/ \E x \in Name : PodEvent(x) \/ SyncPod(x) \/ NewReplica(x)

Spec == Init /\ [][Next]_vars

(* The worker, the timers and the API server keep going, and a resync that *)
(* finds room in the queue comes for every waiting pod: resyncs are 30 s   *)
(* apart and the worker empties the queue in between.                      *)
Fairness ==
  /\ WF_podQueue(TakeCopy)
  /\ WF_vars(Bind)
  /\ WF_vars(HandoverPod /\ UNCHANGED schedulerVars)
  /\ WF_vars(BackoffEnds)
  /\ \A x \in Name : SF_vars(Len(podQueue) < QueueCapacity /\ PodEvent(x))

FairSpec == Spec /\ Fairness

----------------------------------------------------------------------------
(* What the worker holds between two calls: a pod of some name, which has  *)
(* an owner where HandoverPod looks for one; and a node that had room for  *)
(* the pod next to the pods the snapshot counted on it.                    *)
WorkerHasPod ==
  /\ ~At("idle") => worker.pod \in Name
  /\ worker.at \in {"parent", "patch Deployment", "patch ReplicaSet", "delete replica"} =>
       Owner[worker.pod] # NoOwner

TargetHasRoom ==
  At("bind") => /\ worker.target \in Node
                /\ \A r \in Resource :
                     Total[worker.counted][r] + Requests[worker.pod][r]
                       <= Allocatable[worker.target][r]

(* A standalone pod that is gone although its user did not remove it, and  *)
(* that is not about to be created again.                                  *)
Lost == {x \in wanted : ~Exists(x) /\ ~(At("create") /\ worker.pod = x)}

(* HandoverPod deletes a standalone pod before it creates its replacement: *)
(* each pod that a hand-over loses costs a failed Create or a restart      *)
(* between the two, and no stale copy, retry or old view loses another.    *)
LossNeedsAFailure == Cardinality(Lost) <= faults

(* The pods whose users the model follows have no owner.                   *)
WantedAreStandalone == \A x \in wanted : Owner[x] = NoOwner

IInv == TypeOK /\ WorkerHasPod /\ TargetHasRoom /\ WantedAreStandalone

(* When the snapshot showed every pod the node has, the pod - with its     *)
(* init containers - fits next to what the containers of those pods ask    *)
(* for: scheduler.go keeps no reservations and relies on its single worker *)
(* and on the cache to have heard of earlier bindings.                     *)
FreshViewFits ==
  [][\A n \in Node :
       At("bind") /\ worker' = Idle /\ place'[worker.pod] = n /\ place[worker.pod] # n
         /\ BoundTo(n) \subseteq worker.counted
       => \A r \in Resource : Total[BoundTo(n)][r] + Requests[worker.pod][r]
                                <= Allocatable[n][r]]_vars

(* No pod that asks for this scheduler is forgotten, though a full queue   *)
(* drops it: it is bound, or handed over, or somebody removes it.          *)
PendingIsServed == \A x \in Name : Waiting(x) ~> ~Waiting(x)

(* "HandoverPod transfers an unschedulable pod to the default-scheduler":  *)
(* it never removes one that has its node.                                 *)
HandoverSparesPlacedPods ==
  [][worker.at \in {"delete", "delete replica"} /\ worker' # worker
       => \A x \in Name : phase[x] = "bound" => phase'[x] = "bound"]_vars
=============================================================================
