# Verification of the adaptive scheduler

TLA+ models, TLC runs and machine-checked proofs for the Kubernetes scheduler in
`src/adaptive-k8s-scheduler` and its simulator (`src/simulator`). The models are
translated from the Go source; `PROJECT.json` maps each definition to its lines.

1. [The system](#the-system) - parts, state, interaction, what is hard
2. [Modules](#modules) - what models what, and how
3. [Runs](#runs) - what each run asks and shows, bounds, fairness
4. [Proofs](#proofs)
5. [Where the code and its documents disagree](#where-the-code-and-its-documents-disagree)
6. [Plan](#plan) and [what is not modelled](#what-is-not-modelled)

## The system

One process (`cmd/scheduler/main.go`) starts a handful of goroutines that share a
metrics cache, a cooldown map and, through the API server, the cluster's pods,
Deployments and `CheckpointRecord` objects. Only the pod-scheduling loop is under
leader election; everything else runs in every replica of the process.

| component | state | operations | interacts with | what is hard |
|---|---|---|---|---|
| checkpoint records (`pkg/action/checkpointrecord_writer.go`, `api/v1alpha1`) | the stored objects, their phase and resourceVersion | Create (object, then status), Get, ListReady, UpdateStatus | every restorer, the reclaimer, the watchdog | optimistic concurrency, creation in two calls |
| full reclaim (`manager.go`, `graceful_reclaim.go`, `evictor.go`) | the pod in hand | checkpoint, record, scale to zero or evict | records, Deployments, pods, kubelet | calls that fail half-way; release after record |
| restore (`restore.go`, `main.go` 352-414 and 762-795, activator) | a local copy of a record | claim, launch, finish, fail | records, pods, Deployments | several callers at once, no mutual exclusion but the version |
| restore watchdog (`restore_watchdog.go`) | the list of one reconcile | delete pod, roll record back | pods, records | two calls, stale list, crash in between |
| reclaim cooldown (`main.go` 252-273, 437-447) | map of times by pod and by service | check, expire, record | reclaim loop, activator | two keys for one workload, end times read as start times |
| demand activator (`pkg/activator`) | in-flight restores, buffered requests | restore once per service, wait, replay | restore, dependency order, cooldown | shared flights, cancellation, timeouts |
| dependency order (`pkg/dependency`) | none | build graph, stages | activator, demand loop | cycles, ready nodes in between |
| scheduling (`pkg/scheduler`) | queue of 256, retry counters, reclaimed nodes | enqueue, filter, score, bind, hand over | informers, API server | full queue, delayed retries, old copies, delete then create, rollouts |
| metrics cache (`pkg/metrics`) | pods, nodes, sample windows | informer handlers, collector cycle, pruning | reclaim loop, REST | read-modify-write races, resurrected pods |
| decision (`pkg/decision`, `pkg/detector`, `pkg/analyzer`) | history ring | classify, gate, score, select | reclaim loop | thresholds, unknown data |
| soft reclaim (`soft_reclaim.go`) | none | right-size, resize in place | kubelet through the API server | integer arithmetic |
| simulator backend (`src/simulator/backend`) | workload states, traffic run | reclaim, restore, traffic start/stop/burst | HTTP handlers | delayed writes over newer state |

What makes each correct:

- **records**: a record is restored only through Restoring; a Failed one is never
  taken up again; concurrent claims do not both decide its end.
- **full reclaim**: nothing is taken down without a persisted checkpoint; the minimum
  of replicas remains.
- **restore**: demand is met; a workload does not get two replacements; a Restored
  record names its pod.
- **watchdog**: what it recycles can be restored again; it never loses a workload.
- **cooldown**: a workload just restored is left alone for the warm-up.
- **activator**: one restore per service at a time, each request answered.
- **dependency order**: a workload comes after what it depends on.
- **scheduling**: no pod is dropped for ever, put where there is no room for it, or lost in a
  hand-over unless a call fails.
- **metrics**: no lost update, no entry for a pod that is gone.

The hazards, each at its line, are in `PROJECT.json`.

## Modules

| module | stands for |
|---|---|
| `CheckpointRecords` | the API server's objects and `checkpointrecord_writer.go` |
| `RecordPhase` | abstract: how the phase of a record may move |
| `FullReclaim` | `ActionManager.Execute` for a full reclaim, `GracefulReclaimer.Reclaim` |
| `PodRestore` | `RestoreEngine.RestorePod` and its callers |
| `RestoreWatchdog` | `RestoreWatchdog.reconcile`, `recyclePod` |
| `CheckpointLifecycle` | these threads together: crash, faults, time; properties |
| `DependencyGraph` | `BuildGraph`, the unready sub-graph and the next stage as operators |
| `RestorationStages` | `ResolveRestorationStages`: maps, counters and loop |
| `SingleFlight` | `SingleFlightGroup` (`buffer.go`) |
| `Activator` | `ServeHTTP` and the restoration a flight runs; uses `SingleFlight` and `DependencyGraph` |
| `RollingWindow` | `MetricWindow` (`window.go`): the ring buffer, and the sequence it promises to be |
| `IdleDetection` | `pkg/analyzer` and `pkg/detector` as operators: profile and class |
| `DecisionEngine` | `pkg/decision` as operators: gates, factors, score, action |
| `ReclaimLoop` | informer, collector, reclamation loop, cooldown map and right-sizing; uses the three above |
| `MetricsCache` | `cache.go` under the two informer handlers and the collector |
| `Placement` | `filter.go` and `score.go` as operators |
| `Handover` | `handover.go`, with the pods and owners of the API server |
| `AdaptiveScheduler` | `scheduler.go`: queue, worker, retries, binding; uses the two above |
| `StateStore` | `state_store.go` of the simulator |
| `SimulatorLifecycle` | `lifecycle.go`, `criu.go`, `cluster_handlers.go` of the simulator; uses `StateStore` |
| `MC...` | the instances for TLC |
| `...Proofs` | theorems about the module in the name |

There are seven separate specifications: the checkpoint lifecycle, the order of a restoration, the
activator that runs such a restoration for buffered requests, the reclamation loop with what feeds it,
the cache underneath it, the scheduling of pods, and the simulator, a program of its own.

### Checkpoint lifecycle

**State.** `record` holds the stored records by name; a name is a workload and the
second of creation, as in `ckpt-<pod>-<unix>`. `copy` is the `*CheckpointRecord` a
thread holds between two calls, and `fresh` the threads whose copy still has the
current resourceVersion - a version is only ever compared with the current one, so
the token itself is not needed. `size` is the number of running instances of a
workload (a Deployment's `spec.replicas`), `pods` the restored pods by name, `now` the
clock. Each thread has a record with the next call it will make (`reclaim`, `restore[t]`,
`watchdog`).

**Steps.** One action per API call, so any other thread may run between two calls.
Code between two calls (checks, early returns, building objects) belongs to the
action of the next or the previous call. For each call there is a way to fail
without effect (`...CallFails`) and, where the outcome differs, a way to take effect
with the answer lost (`...AnswerLost`); `MaxFaults` bounds both together. A
conflicting update, an AlreadyExists and a cancelled request are ordinary steps.
`Crash` ends every thread and keeps what the API server stores; `Tick` may let
time pass between any two calls.

**Abstractions.** `Ready` and `Checkpointed` are treated alike wherever the code reads
them and the code only ever writes `Ready`, so one value stands for both; `Pending` and
`Expired` are never written. A full checkpoint and a graceful record of one pod share
the name space (the code prefixes them differently; the reclaim loop never makes
both in one second). The clock unit is the second for names and a multiple of it for
the watchdog's two minutes; since `Tick` may happen at any time, only the order of
times matters. Restored pods are not reclaimed again, a reclaimed bare pod is not
created again by hand, and the demand pod declares no dependencies. A pod the metrics
cache still lists after it is gone can be picked for reclaim: its checkpoint fails.

`RecordPhase` is the abstract specification. `CheckpointLifecycle` implements it under
`phase <- [r |-> record[r].phase]`.

### Order of a restoration

`DependencyGraph` describes a graph by what each workload depends on and which are
ready. `NextStage(g, todo)` says on the graph itself what the next stage is; the variables of
`RestorationStages` are the maps and counters the code computes it with (`unready` is
`unreadySubGraph`, `count` is `unreadyChildrenCount`, whose keys are removed as they are
placed, `stages` the result). One iteration of the loop is a step. `WaitsForCycle(k)`, on which
the properties rest, is defined without reference to either: k is in a set of unready
workloads each of which depends on a member of the set. `Init` takes every graph; sorting
inside a stage is layout and left out.

### Activator

`SingleFlight` has `calls`, the map under the mutex, and for each request a `worker`, the
goroutine `DoWithTimeout` starts. A flight is named after the request that leads it. `Activator`
adds `handler` (how far `ServeHTTP` got; `Cancelled` follows from it, since net/http cancels a
request's context when the handler returns or the client leaves), `restoration` (graph, what is
left, current stage of a flight) and `body` (the goroutine of each workload of a stage). The
services are seen through `instance` (Dormant, Starting, Ready) and `records` (who has a Ready
record). The flight runs under its leader's context, so every call in it fails once the leader
is gone; the worker itself runs on, and the others still wait for it.

Steps: `Arrive` is the readiness check and the start of the worker; `Lead`/`Join` is the critical
section of `Do`; `EndFlight` and `Wake` are its end; `Expire` and `GiveUp` are apart because the
select may find both the timer and the answer. In a flight `Plan` reads pods and records and
resolves the stages, `Restore(q, s)` is one step of a goroutine, `EndStage` is `wg.Wait` and what
follows. `Plan` applies `NextStage` where the code runs the resolver: `CountersAreRight` is the
proof that they agree.

Abstractions: `RestorePod` is one step, or breaks after its claim (`PodRestore` has its calls): it scales
the Deployment of a record whose owner is one (`Deployed`), and creates a pod for any other;
the two lists of the discovery are read in one step; a service has one workload of the same name
and one record, in one namespace; readiness of the pod and of the endpoints are one; the ten
attempts of the forwarding are one step that counts with the last answer. A request whose body cannot
be read is not taken in and left out. `Plan` drops a graph's implicit nodes only in the sense
that every service is a node, known or not: an unknown one is unready and depends on nothing.

### Reclamation loop

**State.** The API server has, of each name, whether a pod is there (`running`), what it really does (`load`),
its `traits` (annotations, owner, disruption budget, replicas) and `requests`; `waking` are those whose
service the activator waits for. `deleted` are deletions the informer has still to report. `metrics` is the entry
of the cache with its copy of traits and requests, `window` the ring buffer of its samples, `scrape` the clone
of an entry the collector has in hand. `podEntry` and `svcEntry` are the map `reclaimCooldown` under its two kinds of
key, as ages in scrapes: the activator's `RecordCooldown` stores the end of the warm-up where the loop
expects the time of a reclaim, an age below zero. `loop` is the snapshot the loop works through (`todo`,
`view`), the samples it read of the pod in hand (`looked`), whether the window it holds is still the cache's
(`held`) and the decision under way. `recent`, `sinceReclaim` and, in `MCBusyPods`, `busyFor` only record what
happened, for the properties.

**Steps.** `BeginScrape(queries)` clones every entry and fills it in, with the set of Prometheus queries that
were answered: `Measured` has the code's rule for what is missing, and of a pod that is gone Prometheus may still have
the latest series. `RecordSample` adds the sample to the window there is by then and `StoreEntry` writes the
clone back, also where the entry was deleted meanwhile. `Sync` is `syncPod`, `HearDelete` the
handler of a deletion, which drops entry and window. `BeginCycle` is `GetAllPods`. `LookAt` is the cooldown and
the analyzer's first look at the window; `EvaluatePod` its second look, under a lock of its own, then detector
and engine, on metrics and traits of the snapshot. `Execute` or `ExecuteFails` is what `ActionManager.Execute`
comes to. Between them pods change their load and traits, leave, come back (`Wake`: under the same name for a
StatefulSet) and the activator records its cooldown.

**Abstractions.** Time is counted in scrapes; ages stop at the largest number something is compared
with. Usage is in whole millicores, MiB, bytes and requests; ratios are in thousandths and scores
in millionths, rounded down where the code computes in floating point: the weights and thresholds of
the instance are the defaults of `weights.go`. Factors without a weight, the history, trends and
peaks do not take part in a decision. A pod is the only one of its service. An execution is one step here;
`FullReclaim` has its calls. A new pod of a Deployment has a new name; the model lets it take the place of the old
one when no map, deletion or snapshot knows the old name any more. `PruneStale` is in `MetricsCache` only: here no cycle of
the collector is held up for the minutes it takes to prune the window of a pod that lives.

### Metrics cache

**State.** `podsByName`, `podsByNode`, `nodesByName` and `podWindows` are the maps of `cache.go`; of a pod's entry
there is the binding (owned by the informer), whether it has telemetry (owned by the collector) and
whether it is older than the limit of `PruneStale`; of a node's the allocation counted from the index.
`heardPods` and `heardNodes` are what the informers told their handlers; `podHandler`, `nodeHandler` and
`collector` what each thread holds between two methods.

**Steps.** One method of the cache, under its lock, is one step. `ReceivePod` reads the old entry to carry
its telemetry over, `SyncPod` stores the new one, `PodRecalculate` counts the node: between them the
collector may write back a clone it took before, and the other way round. The informer delivers the latest
state (`ReceivePod` also stands for a resync, an update with nothing new). `Stall` makes every entry as old as
`PruneStale`'s limit, so that a cycle held up that long prunes pods that live.

**Abstractions.** Two changes of one object between two deliveries are one. Disruption budgets and
replicas, read by `syncPod` and stored in the same entry, share the binding's fate.

### Scheduling

**State.** `Handover` has the API server's pods (`phase`, `scheduler`, `place`), the owners' templates, the owners
with a ReplicaSet of an older template left (`mixed`), the standalone pods their users created and did not remove
(`wanted`) and the one `worker`. `AdaptiveScheduler` adds the channel `podQueue` of copies, the `timers` of the
backoff, `retryTracker` and `view`, what the cache knows of each pod's node.

**Steps.** `PodEvent` is an informer event or a resync that enqueues a copy of a pod, dropped when the queue
is full; `BackoffEnds` one of the goroutines that wait to enqueue a copy again. `SelectNode`, `RetryLater` and
`GiveUp` are the outcomes of `SchedulePod` for the copy the worker takes, which applies `Filter` and `Score` to
the cached view. As in the code, the pod to be placed counts with its init containers (`Requests`, `filter.go` 26-58),
the pods a node has without them (`Counted`, `k8s_informer.go` 209-224). `Bind` and the steps of `HandoverPod` are API
calls, each of which may fail. Every patch of a template is another rollout, since it writes when it was made
(`handover.go` 131-136); the old ReplicaSets keep making pods of their template until a pod of the new one
has a node (`AddReplica`, `RolloutEnds`), which need never be. `SyncPod` brings
the cache up to date for one pod, whenever it likes; `Restart` empties what the process holds and re-fills the cache.

**Abstractions.** Amounts are whole units, scores thousandths rounded down. What telemetry shows of a node is
any of a few values at each decision. `HasReclaimableCandidates` may answer either way, so a copy may
be tried again or handed over before its retries are used up. `EnableDefaultSchedulerHandover` is a constant, TRUE in
the runs and either in the proofs; without it the copy is dropped and the next event brings another. An owner wants
one replica and, while a rollout lasts, may have one more. A new replica has a
name of which nothing is left in queue or memory. A pod deleted with no grace period is gone at once.

### Simulator

**State.** `states` is the state store: an entry has a state and whether a snapshot of the pod's spec was saved.
`phase`, `placeholders` (copies that run a stand-in for want of a snapshot) and `replicas` are the cluster, `request` the HTTP
handlers with what each holds, `late` the goroutines that will write RUNNING two seconds after a restore, `poll` the
handler of `/api/workloads`.

**Steps.** One call of the API server or of the store is a step. `HandleCheckpoint` looks the pod up and lets
`ExecuteReclamation` save, checkpoint, delete or scale down and write the states in between; `HandleRestore` works
through the dependencies of the snapshot and then the workload; `HandleWorkloads` writes a decision for each pod it
listed and RECLAIMED for each Deployment at zero and each Ready record. A dropped error is a step that goes on.

**Abstractions.** `Key` holds what requests name. `fresh` stands for the resourceVersion of the Deployment a handler
read. What the pipeline says of a pod is any decision the pod's traits allow. The Get of a restored workload's
snapshot may fail at any time, which is not counted against `MaxFaults`: the stand-in that the handler then runs is a
possible outcome of every restore. Scores, reasons and times in the
store are left out.

### Mutations

Definitions introduced by "Mutation of X" are faulty variants of X. They are used
by no specification: putting one in place of X makes a property fail, which shows
that the property depends on X. `PROJECT.json` lists the pairs.

## Runs

`tlc -config <cfg> <module>`.

| run | module, cfg | instance | shows |
|---|---|---|---|
| `races` | `MCLifecycle`, `Lifecycle_races` | a bare pod; demand loop and a direct caller; 1 fault; 2 seconds | types, the last claim decides, record before release, Restored names its pod, refinement of `RecordPhase` |
| `owners` | `MCLifecycle`, `Lifecycle_owners` | a graceful Deployment and a StatefulSet, up to 2 replicas; both restorers; 1 fault | record before release on the other owners, with the scale-up fallback |
| `loop` | `MCLifecycle`, `Lifecycle_loop` | a bare pod; demand loop alone; 1 fault, 2 crashes; 3 seconds; fair threads | no second replacement before a call fails; demand is met |
| `stages` | `MCStages`, `Stages` | every graph of three workloads with any of them ready | each workload once, dependencies first, only cycles grouped, the counters find the stage defined on the graph, and the resolver returns |
| `activator_flights` | `MCActivator`, `Activator_flights` | one service, two requests; 1 failed call, 1 reclaim and any cluster state at first, or a calm environment; fair threads | one flight per service, no stale flight, shared outcome; every request is answered, every flight ends, and in calm every request is served |
| `activator_stages` | `MCActivator`, `Activator_stages` | a bare service and the Deployment it depends on, a request for each; 1 failed call, 1 reclaim | a failure stops the restoration, stages wait, the cooldown follows a complete restoration |
| `scheduler_queue` | `MCScheduler`, `Scheduler_queue` | a standalone pod and a Deployment of one replica, two nodes; queue of 1, 2 tries, 1 timer; 1 arrival, 1 fault or restart; fair threads | types and what the worker holds between two calls (`IInv`), a binding decided on a complete view fits, hand-overs lose no more pods than calls fail, a waiting pod is served although the queue drops it |
| `scheduler_stale` | `MCScheduler`, `Scheduler_stale` | the same with a second replica in a rollout | violation: a hand-over deletes a pod that has its node |
| `reclaim_loop` | `MCReclaim`, `Reclaim_loop` | one name, of a Deployment or a StatefulSet, idle or computing without traffic; window of 2, idle after 2 scrapes, cooldown 2, warm-up 1; 1 outage, change of traits, departure or request; fair threads | the window is right, decisions are earned, rest on samples that are all idle and keep the cooldown; a pod that stays idle is reclaimed |
| `reclaim_blind` | `MCBusyPods`, `Reclaim_blind` | the same with 2 such events, and outages of one query | violation: a busy pod is reclaimed |
| `cache_races` | `MCCache`, `Cache_races` | two pods, a node; 3 changes of the cluster, 1 stall; fair threads | the index and the windows are sound at every step; entries and allocations come to agree with the cluster |
| `simulator_requests` | `MCSimulator`, `Simulator_requests` | a single pod that depends on a Deployment, its pod; two requests at a time, 2 in all; 1 fault; the poll | types, snapshots are kept, no state of passage is left behind, RECLAIMED stays until a restore |

### Bounds

*Checkpoint lifecycle.* Two restorers are enough for every race over one record: a third one can only
repeat what the second does, and the theorems hold for any number. Two seconds
give two records and two pods of a workload, and let the watchdog act (its timeout is one
unit). Two crashes let a restore that resumes another cut-short restore be cut short in
its turn. One fault can hit any call of any thread; the theorems hold for any number
of faults and crashes.

*Stages, activator.* Three workloads are enough for a free workload, a cycle (of one or of two) and a
target that waits for both or only for one. Two requests are a leader and a follower, or one that comes when
the other's flight ends. Two services give two stages, or two concurrent flights of which one restores the
other's target. The theorems hold for any finite number.

*Scheduling.* A queue of one is full whenever anything waits in it; two tries give one retry and a
hand-over, and its one timer can outlive the pod. Nodes offer 4 of either resource. The standalone pod needs the
node with the label and 3 of memory while its init container runs, 2 afterwards; the replica needs 2 in two containers.
So the standalone pod does not fit beside a replica, but a replica fits beside it: the case in which
counting bound pods without their init containers shows. Restarts and failed calls share one budget. The second replica,
which a rollout may add, is in `scheduler_stale` only (155 146 states without it).

*Reclamation.* The window wraps at the third scrape, and the cooldown and the idle time end at
scrapes a warm-up shifts against each other, so that every boundary is met on either side. The three traits differ in what a
full reclaim does, whether it is allowed, and whether a name returns. The one event is enough for a departure between
snapshot and decision, for a change of traits there, for a warm-up and for a scrape without answers; the reclaims
themselves, which delete pods as well, are not counted (308 329 states). `reclaim_blind` needs two events, because the
idle time is counted at two scrapes.

*Cache.* Three changes create, bind and delete a pod, with one of another object in between if there is one
to spare; the second pod is another entry of the collector's cycle. The one stall is enough to prune.

*Simulator.* Two overlapping requests meet in every order, on one workload or on one and its dependency; a third
one after them is beyond the run. The theorems hold for any number.

`CHECK_DEADLOCK` is off where the system may rest: once every budget is spent and nothing waits, a run ends in
a state that waits for pods, requests or changes the instance does not contain.

### Fairness

`loop`: weak fairness of the restore steps of each thread and of
the watchdog. The demand loop and the watchdog poll on tickers for the life of the
process (`main.go` 163-177, `restore_watchdog.go` 62-82) and client-go calls
return. Nothing is assumed of reclaims, requests, binding or the clock, and a failed
call is never fair. The crash and fault budgets stand for the assumption that calls
do not fail for ever.

`activator_flights` assumes that goroutines run on (`Serve`, `Flight`) and timers fire (`Expire`), as the
Go runtime guarantees, and nothing about clients and failing calls. A service may never become
ready, and requests are still answered, because the leader's timeout cancels the flight. The variable
`calm`, chosen at the start, stands for an environment in which everything sleeps with its record
and nothing fails, leaves, expires or is reclaimed; only there is a started service sure to become
ready, and only there `EveryRequestIsServed` speaks. `stages` assumes a sequential call keeps running.

`scheduler_queue`: the worker takes copies, binds and hands over, and timers fire (weak
fairness). A resync that finds room in the queue comes again and again for every waiting pod (strong fairness):
resyncs are 30 seconds apart, the worker needs a few calls for each copy, so the queue cannot be full at each of them. If it
were, the code would drop the pod each time. Nothing is assumed of rollouts.

`reclaim_loop`: the loop's ticker and the collector's two steps for each pod (weak fairness), and, of the
environment, that Prometheus answers everything from time to time, that a resync comes while the collector waits, and that an
execution which is tried again and again succeeds once (strong fairness of `BeginScrape(Queries)`, of `Sync` while nothing
of the pod is to be stored, of `Execute`). The collector's ticker leaves it ten seconds (`config.go` 36) for a handful of queries,
so that resyncs meet it waiting. Loads, traits, departures and the activator are free.

`cache_races`: the handlers and the collector keep running (weak fairness) and the informers' resync brings every object
again and again (strong fairness; `k8s_informer.go` starts the factory with 30 seconds). No fairness of changes and stalls.
`simulator_requests` has no liveness and no fairness.

## Proofs

`tlapm <module>.tla` on each of the eight proof modules; no step is left open. The theorems hold for every
value of the constants under the named assumptions of the modules (null values are not names, bounds are naturals, owner
kinds are one of three, the watchdog's timeout is at least one second, the window has at least one slot, ...).
The invariants the runs check are seldom inductive; each proof names what it adds.

- `CheckpointLifecycleProofs`. `Invariance`: `IInv` adds what the threads know between two calls: a fresh copy is what
  is stored (`FreshCopiesAgree`), the record of a copy exists (`CopiesAreStored`), a claimed copy
  reads Restoring (`RestorerHolds`), the reclaimer's record is past Unset when it
  releases (`ReclaimerHolds`), and a pod name is used once, because the watchdog only
  deletes pods older than the current second (`WatchdogHolds`, `PodNamesAreUsedOnce`).
  `TypeCorrect`, `LastClaimsDecide`, `CheckpointBeforeRelease`, `RestoredNamesItsPod` are its consequences, and
  `ImplementsRecordPhase` is `Spec => Phases!Spec` by `StepImplements`: a successful status
  update moves its record from the phase of the writer's copy, and `IInv` says which phase that is.
  `LoopRestoresOnce` is about a process whose only restorer is the demand loop (`Restorer = {loop}`, as in the run
  `loop`; with a direct caller it is false, see below). Until a call fails, there is at most one live pod of a workload
  (`OnePodEach`), and while the loop is between its look and its Create there is none (`NoRivalOf`), since nobody
  else makes one; crashes, the watchdog's deletions and reclaims keep both.
- `CheckpointRecordsProofs` proves what each read and write does to the store once
  (`ReadStore`, `WriteStore`, ...). `StoreStep(c)` is all that other threads see of a step of
  client c; from it follows in one lemma each that the others keep what they hold
  (`RestorerKept`, `ReclaimerKept`, `CheckpointKept`, ...). The proof of a step
  then only deals with the thread that takes it.
- `RestorationStagesProofs`, for any finite set of workloads and every graph: exact counters (`CountsAreExact`) give that
  the current stage is what is free in the graph (`CurrentIsFree`), and no workload placed before a cycle is met waits
  for one (`NoCycleSoFar`): a free workload's dependencies are placed, and a set of workloads that
  wait for each other would have to contain one of them. When nothing is free, what is left is such
  a set. `StagesAreComplete`, `StagesAreOrdered`, `CyclesAreLast` and `CountersAreRight` follow. `ResolverShrinks` is
  the measure behind `ResolverReturns`: every iteration but the last leaves fewer workloads to place.
- `ActivatorProofs` first proves the group's properties together (`FlightInvariance`); what must be added
  is that a leading request is the one registered under its key and that requests which have not
  entered `Do` have no flight (`FlightsAreNamed`). Every step of the activator is a step of the group or leaves it
  alone (`ActivatorUsesGroup`), so that `FlightsAreSingle`, `FlightsAreCurrent` and `FlightsAreShared`
  holds in the activator. `RestorationInv` then splits the plan of each flight in what is behind the current stage
  (done, and closed under dependencies), the stage (the one `NextStage` gives) and what is ahead (untouched), which yields
  `FailuresStopRestorations` and `StagesWait`; that a finished flight stays as it is (`FinishedStays`) yields
  `CooldownFollowsRestoration`.
  `FlightsMakeProgress` is the measure behind `FlightsEnd`: what is left of a plan shrinks with each stage. `DiscoveryFollowsPods`
  says what graph the discovery yields, in whatever order the lists come: the first description of a running pod's
  service is the pod's, so it alone gives dependencies and readiness. From it follows that the graph is well-typed, the
  one step of `ActivatorTypeCorrect` that is not immediate. It needs the services to be finitely many.
- `MetricsCacheProofs`: `CacheInv` is the conjunction of type correctness, `IndexIsSound` and `WindowsBelongToPods`, which is
  inductive because the types say what each thread holds. `SetPod` and `RemovePods` are treated once, whoever calls them.
- `ReclaimLoopProofs`: the ring buffer is described by the position of the i-th oldest sample (`Holds`), for any capacity.
  `LoopInv` adds what ties cache and loop together. No deletion is outstanding for a running pod, unless names return
  (`NamesAreFresh`); so the window the loop read of it is still the cache's, and has only grown since (`WindowStays`): the second
  look sees every sample there is by then, which is `ReclaimsFollowIdleness`, about pods that are there under a name of their
  own. A pod looked at came out of the cooldown (`LookHolds`), a decision also passed the gates (`DecisionHolds`), and the time
  since the last success is known from the map as long as its entry stands (`ReclaimsAreKnown`).
  `LoopIsTyped` needs that the average of a window is a natural number; the sum is a recursive function, and
  an index where that fails first cannot exist (`LeastNumber`). `ScoresAreFractions` is the promise of `scoring.go` 185: with the weights
  `Validate` accepts, a score is at most their sum.
  `ReclaimsAreEarned` is weaker than the run's `ReclaimIsEarned` for a soft reclaim: its score is above one of the
  two thresholds. Nothing in the code checks that the soft one is the lower (`converter.go` 36-39, `weights.go` 112-116); with
  both swapped, a pod that must not be checkpointed is soft-reclaimed below the soft threshold. With the two in order, as in
  `DefaultPolicy` and the shipped weights, `ReclaimsAreEarnedInOrder` proves `ReclaimIsEarned` itself.
- `AdaptiveSchedulerProofs`: `IInv` adds to the types that a worker about to call the API server has a pod in hand (`WorkerHasPod`),
  that its target has room for that pod, init containers included, beside the containers of the pods its snapshot showed there
  (`TargetHasRoom`), and that the pods whose users are followed have no owner (`WantedAreStandalone`). `FreshViewsFit` then
  compares what was counted with what is bound, which are sums over sets of pods: `TotalGrows` and the lemmas
  it rests on show that a sum over fewer pods is not larger, by a smallest set on which that fails. It speaks of a
  snapshot that shows every pod bound to the node; on an older one the code may overcommit. `LossesNeedFailures` is inductive beside
  `IInv`: a deleted pod is not lost while the worker stands before its creation, and only a failure or a restart takes the worker
  from there without it; a pod that a stale copy deletes is created again in the same way.
- `SimulatorLifecycleProofs`: `LifecycleInv` adds what a request has in hand at each of its steps (`StepsOK`), that the snapshot of a
  request that found an entry is in the store (`SnapshotsHold`), and that a state of passage has a writer to come
  (`WritersRemain`): a request that will write once more, or a delayed RUNNING. From it follow `SnapshotsSurvive`, `TransitionsEnd`
  and, step by step, `ReclaimedStaysReclaimed`.

Every invariant and every action property that a run checks is a consequence of one of these theorems, with two that have a hypothesis of their
own: `AtMostOneReplacement` with one restorer and `ReclaimIsEarned` with the thresholds in order, which are the instances the runs check.
The two properties that are violated (`HandoverSparesPlacedPods`, `BusyPodIsLeftAlone`) have none.

Model-checked only: every liveness property (`DemandIsMet`, `ResolverReturns`, `EveryRequestIsAnswered`, `EveryRequestIsServed`, `FlightsEnd`,
`PendingIsServed`, `SteadyIdleIsReclaimed`, `CacheCatchesUp`, `HeadroomCatchesUp`), because liveness under fairness
is beyond the prover.

## Where the code and its documents disagree

1. `scheduler_stale`: a pod enters the queue at every informer event and after each backoff, as a copy that is not looked up
   again when its turn comes. A copy from before the pod was bound fails to be placed - the pod itself may fill the
   node - and is handed over: the running pod is deleted by its name, with no grace period. `handover.go` 70 speaks of
   an unschedulable pod.
2. `reclaim_blind`: a Prometheus query that fails is no error and leaves its map empty. A container found in another map
   is then measured with 0 CPU, and a worker that computes without traffic becomes idle and is reclaimed;
   `METRICS_COLLECTOR_AND_POD_RESTORATION.md` 138 asks for all three signals below their thresholds, and `collector.go` 99 for
   a fall-back to the last known usage.

### Seen while modelling

Plain from the code, or found by a run that is not kept.

Checkpoint lifecycle:

- The watchdog deletes the stuck pod and rolls its record back in a later call. A
  stop of the process in between leaves the record Restored for a pod that is gone; nothing looks at it again.
- Two restores of one record in one second: the second gets AlreadyExists and marks
  the record Failed, while the first one's pod is pending. When the watchdog deletes that
  pod it leaves the Failed record alone, and the evicted workload has neither pod nor record.
- A graceful reclaim that is refused because the Deployment has several replicas
  has already written its Ready record; restoring it sets replicas to 1. Each refused try adds a record.
- The replica gate counts one pod; a full reclaim scales the Deployment to zero.
- `AtMostOneReplacement` needs the demand loop to be the only restorer. Its look for a replacement and the restore are separate calls, direct callers do not
  look at all, and a list that fails counts as "no replacement": two replacements are possible,
  although the README says a request is skipped when one is present.
- `CheckpointRecordWriter.Delete`, documented as the clean-up after a failed UpdateScale, is never called.

Activator and dependency order:

- When the leader's client disconnects, the wait for readiness is given up and
  the flight ends without an error; the other requests are forwarded to a service that is not ready.
- The snapshot in a record is a PodSpec but read as a Pod: a dormant service
  never has dependencies and is woken before them.
- What waits for a cycle is restored together with the cycle; the strongly connected components the plan
  document speaks of are not computed.
- An unready prerequisite behind a ready workload is not ordered before the target, because only
  edges between unready workloads count.
- A request whose flight starts while its service is already coming up is refused, for there is
  neither a record nor a Deployment at zero.
- Dependencies restored with a target get no cooldown (`activator.go` 371). A record is matched by a prefix of its pod's name
  (393): that of `api-gateway` may be taken for the service `api`. A buffered request is sent again after an answer of 500
  or more (225), although the service may have acted on it.

Reclamation:

- The warm-up is lost when an expired pod entry shadows the service's: both are deleted (`main.go` 268). It lasts the cooldown longer than
  documented otherwise, since its end is stored as a start.
- A pod reclaimed softly uses about 83 % of its new request and is ACTIVE from then on, unless it uses so little that the floor of 10
  millicores decides; then it is resized again and again and nothing is freed. A soft reclaim may raise a
  request, which README.md 53 does not say.
- When every query fails, idle time is still counted, on the values of the last scrape.
- A full reclaim of a StatefulSet's or ReplicaSet's pod succeeds without releasing it (`manager.go` 293) and is repeated
  after every cooldown. The fall-back from soft to full can never be taken, because what blocks a soft reclaim
  blocks a full one. Two pods of one owner can be reclaimed in one
  cycle, each allowed on the same count of replicas.
- README.md 31 gives 0.50 and 0.75 as thresholds where the code has 0.3361 and 0.5927; `Validate` sums nine weights, `ComputeScore`
  uses six.

- Entries and windows outlive their pods: until the informer reports the deletion, and again when the collector writes its
  clone back. The loop decides on such a pod as on any other. A plain one cannot be checkpointed, and the reclaim fails, but
  the Deployment of one with the graceful annotation is scaled to zero, by the owner's name, even if it was woken meanwhile and its
  new pod serves requests. (In the model a new name waits until the old one is forgotten, so it
  does not show that last case.) A StatefulSet's next pod is judged on the samples of the one before it.
- The loop goes by the annotations, disruption budgets and replica counts of its snapshot. While executions take minutes they
  may change: a pod that was marked as protected since is reclaimed.

Metrics cache:

- A pod, or a node, that is deleted between `GetAllPods` and the write of its clone is written back and, being renewed in every
  cycle, never pruned. A StatefulSet's next pod of that name takes over its idle time.
- Collector and handler may undo each other in every cycle: an entry need not stay right for ever, it is only right
  again and again, which is what `CacheCatchesUp` says.
- The owner of a pod is unknown when the ReplicaSet lister misses (`k8s_informer.go` 346), and the replica gate lets it pass until
  the next resync.

Scheduling:

- A bound pod is counted without its init containers (`k8s_informer.go` 209-224), a pod to be placed with them (`filter.go` 26-58). A
  node can so be given more than Kubernetes' own accounting allows: 3 for the standalone pod of the run while its init container
  is what counts, and 2 for a replica beside it, on a node of 4.
- `handover.go` 160 has the ReplicaSet spawn the deleted replica at once under the default scheduler. The one that does is that of the old
  template, still under this scheduler; the new one comes with the rollout, and each hand-over starts
  another (131-136). While no node has room for the new pod, and the rollout may not take the old one away first, this repeats
  without end.
- Retries are counted per copy that fails, not per backoff (`scheduler.go` 220): the copies of one pod share its counter.
- A stale copy of a standalone pod that was deleted meanwhile creates it again (`handover.go` 244-252).
- Pods of StatefulSets and Jobs are taken for standalone ones: deleted and created again without regard to their owner.

Simulator:

- `lifecycle.go` 42 says a failure is never reported as success, but when CRIU fails the owner is scaled down or
  the pod deleted, and RECLAIMED written even if that call failed as well.
- The first `SaveSnapshot` of a workload the store does not know does nothing; it is restored as a stand-in. A checkpointed pod of a Deployment
  is deleted alone and replaced by its owner.
- The delayed RUNNING overwrites a newer RECLAIMED (187-190, 210-213).
- A second restore deletes the earlier copy gracefully and fails on its name. Of two concurrent restores of a Deployment the one with the
  stale copy creates a pod of its own; so does a restore that names a running Deployment.
- `criu.go` 225 writes into the annotations of the snapshot itself; `traffic_handlers.go` 106 reads the target address without the
  lock.

## Plan

What is left, in this order:

1. Lemmas about `Filter` and `Score` of `Placement`; safety facts the liveness results rest on, as `ResolverShrinks` is one.
2. In `Activator`, services whose records match by a prefix of the name; the demand loop's cascade over dependencies in
   `PodRestore`.
3. The simulator's traffic run (start, stop, burst) and several pods of one service in `ReclaimLoop`, which today
   shows the two keys of the cooldown for single pods only.

## What is not modelled

Kubelet checkpoints, archives and storage are I/O whose outcome is a choice in
`StartReclaim`. Parsing of Prometheus answers, HTTP and JSON layout, logging, configuration files, the decision history
and generated deep-copy code have no state the properties speak of. Leader election guards only the scheduling loop and
is taken as one worker. Of the simulator, the scenario presets are data, and the traffic generator, the discoverer, the metrics
bridge and the dashboard are left out. The example workloads, the demonstration commands, front ends, Python training
code and scripts of the repository are not part of the scheduler.
