----------------------------- MODULE ReclaimLoop -----------------------------
(***************************************************************************)
(* The reclamation loop of cmd/scheduler/main.go with what feeds it and    *)
(* what it does: the informer keeps the entries of the cache, the          *)
(* collector samples every pod that has one and counts its idle time, the  *)
(* loop takes a snapshot, classifies and scores each pod of it and         *)
(* executes the decision, and a map of cooldowns, shared with the demand   *)
(* activator, keeps it from acting again too soon.                         *)
(*                                                                         *)
(* Time is counted in scrapes; Cooldown, WarmUp and MinIdleDuration are    *)
(* numbers of scrapes.  Ages and idle times stop counting where no         *)
(* comparison tells them apart.  MetricsCache has the binding of a pod and *)
(* the pruning after a collector was held up for minutes, which is left    *)
(* out here; FullReclaim has the calls of a full reclaim.                  *)
(***************************************************************************)
EXTENDS DecisionEngine

Requests == [cpu : Nat, mem : Nat]

CONSTANTS
  Pod,                \* the single pods of so many services
  Load, InitialTraits, InitialRequests,
  Answers,            \* sets of Prometheus queries that may be answered together
  CollectorIdleCPU, CollectorIdleNet, CollectorIdleQPS,
  Cooldown, WarmUp,
  MaxEvents,          \* bound: scrapes with unanswered queries, changes of traits, pods
                      \* that leave of themselves or that the activator waits for
  NoEntry

ASSUME ReclaimAssumption ==
  /\ Load \subseteq Sample /\ InitialRequests \in Requests
  /\ InitialTraits \subseteq Traits
  /\ Cooldown \in Nat \ {0} /\ WarmUp \in Nat \ {0} /\ MinIdleDuration \in Nat
  /\ \A queries \in Answers : queries \subseteq {"cpu", "mem", "net", "qps"}
  /\ MaxEvents \in Nat
  /\ MinSampleCount \in Nat \ {0}
  /\ NoEntry \notin Int

VARIABLES
  running,       \* [Pod -> BOOLEAN]
  load,          \* what a running pod really does
  traits, requests,     \* what the API server has of it
  deleted,       \* pods whose deletion the informer has still to report
  metrics,       \* the pod's entry in the cache, or NoEntry
  window, recent,
  scrape,        \* what the collector has still to store of a pod
  podEntry, svcEntry,   \* reclaimCooldown, by pod and by service: ages
  waking,        \* pods whose service the activator waits for
  loop,
  events,
  sinceReclaim   \* scrapes since the last success on this pod's name

apiVars == <<running, load, traits, requests, waking>>
cacheVars == <<metrics, window, recent>>
ageVars == <<podEntry, svcEntry, sinceReclaim, events>>
vars == <<apiVars, deleted, cacheVars, scrape, ageVars, loop>>

Queries == {"cpu", "mem", "net", "qps"}
Age == {NoEntry} \cup (-WarmUp .. Cooldown)
Older(age, limit) == IF age = NoEntry \/ age = limit THEN age ELSE age + 1

Counted == events < MaxEvents /\ events' = events + 1

(* An entry of the cache as syncPod makes it for a pod it does not know.   *)
NewEntry(p) ==
  [usage |-> Zero, requests |-> requests[p], traits |-> traits[p],
   idleFor |-> 0, scraped |-> FALSE]

(* todo: pods of the snapshot view still to be looked at, looked: the one  *)
(* it looks at and the samples it read, held: their window is still the    *)
(* one of the cache, decided: the action under way.                        *)
Waiting == [todo |-> {}, view |-> <<>>, looked |-> <<>>, held |-> FALSE, decided |-> <<>>]

(* A pod without a window has an empty one: the code tells no difference.  *)
Init ==
  /\ running = [p \in Pod |-> TRUE]
  /\ load \in [Pod -> Load]
  /\ traits \in [Pod -> InitialTraits]
  /\ requests = [p \in Pod |-> InitialRequests]
  /\ waking = {}
  /\ deleted = [p \in Pod |-> FALSE]
  /\ metrics = [p \in Pod |-> NewEntry(p)]
  /\ window = [p \in Pod |-> NewMetricWindow]
  /\ recent = [p \in Pod |-> <<>>]
  /\ scrape = [p \in Pod |-> NoEntry]
  /\ podEntry = [p \in Pod |-> NoEntry]
  /\ svcEntry = [p \in Pod |-> NoEntry]
  /\ loop = Waiting
  /\ events = 0
  /\ sinceReclaim = [p \in Pod |-> Cooldown]

----------------------------------------------------------------------------
(* collectTelemetry.  A failed query is not an error: its map is empty.    *)

(* A container with any of its own metrics is taken as measured, and what  *)
(* is missing as zero; network and requests keep their last value.         *)
Measured(p, queries) ==
  LET last == metrics[p].usage
      own == queries \cap {"cpu", "mem"}
      used(signal) ==
        IF own # {} THEN IF signal \in own THEN load[p][signal] ELSE 0
        ELSE IF metrics[p].scraped THEN last[signal] ELSE metrics[p].requests[signal]
      rate(signal) == IF signal \in queries THEN load[p][signal] ELSE last[signal]
  IN  [cpu |-> used("cpu"), mem |-> used("mem"), net |-> rate("net"), qps |-> rate("qps")]

Inactive(sample) ==
  /\ sample.cpu <= CollectorIdleCPU
  /\ sample.net <= CollectorIdleNet
  /\ sample.qps <= CollectorIdleQPS

TrackIdle(entry, sample, queries) ==
  [entry EXCEPT
     !.usage = sample,
     !.scraped = @ \/ queries \cap {"cpu", "mem"} # {},
     !.idleFor = IF Inactive(sample) THEN Older(@, MinIdleDuration) ELSE 0]

(* Copies of all entries, with what Prometheus said before: of a pod that  *)
(* is gone it may still have the latest series, or nothing.                *)
BeginScrape(queries) ==
  /\ \A p \in Pod : scrape[p] = NoEntry
  /\ \E lingering \in {{}, queries} :
       LET known(p) == IF running[p] THEN queries ELSE lingering
       IN  scrape' = [p \in Pod |->
             IF metrics[p] = NoEntry THEN NoEntry
             ELSE [entry   |-> TrackIdle(metrics[p], Measured(p, known(p)), known(p)),
                   sampled |-> FALSE]]
  /\ podEntry' = [p \in Pod |-> Older(podEntry[p], Cooldown)]
  /\ svcEntry' = [p \in Pod |-> Older(svcEntry[p], Cooldown)]
  /\ sinceReclaim' = [p \in Pod |-> Older(sinceReclaim[p], Cooldown)]
  /\ IF queries = Queries THEN UNCHANGED events ELSE Counted
  /\ UNCHANGED <<apiVars, deleted, cacheVars, loop>>

(* The sample goes to the window there is now, new or not.                 *)
RecordSample(p) ==
  /\ scrape[p] # NoEntry /\ ~scrape[p].sampled
  /\ \A q \in Pod \ {p} : scrape[q] # NoEntry => ~scrape[q].sampled
  /\ window' = [window EXCEPT ![p] = AddSample(@, scrape[p].entry.usage)]
  /\ recent' = [recent EXCEPT ![p] = Push(@, scrape[p].entry.usage)]
  /\ scrape' = [scrape EXCEPT ![p].sampled = TRUE]
  /\ UNCHANGED <<apiVars, deleted, metrics, ageVars, loop>>

(* The copy replaces the entry, or is one again for a pod without any.     *)
StoreEntry(p) ==
  /\ scrape[p] # NoEntry /\ scrape[p].sampled
  /\ metrics' = [metrics EXCEPT ![p] = scrape[p].entry]
  /\ scrape' = [scrape EXCEPT ![p] = NoEntry]
  /\ UNCHANGED <<apiVars, deleted, window, recent, ageVars, loop>>

----------------------------------------------------------------------------
(* The informer's handlers.                                                *)

(* syncPod, for a change, a resync or a relist.  The entry of a pod of     *)
(* this name keeps its telemetry: a relist can swallow a deletion.         *)
Sync(p) ==
  /\ running[p]
  /\ metrics' = [metrics EXCEPT ![p] =
       IF @ = NoEntry THEN NewEntry(p)
       ELSE [@ EXCEPT !.requests = requests[p], !.traits = traits[p]]]
  /\ deleted' = [deleted EXCEPT ![p] = FALSE]
  /\ UNCHANGED <<apiVars, window, recent, scrape, ageVars, loop>>

HearDelete(p) ==
  /\ deleted[p]
  /\ deleted' = [deleted EXCEPT ![p] = FALSE]
  /\ IF metrics[p] = NoEntry THEN UNCHANGED <<cacheVars, loop>>
     ELSE /\ metrics' = [metrics EXCEPT ![p] = NoEntry]
          /\ window' = [window EXCEPT ![p] = NewMetricWindow]
          /\ recent' = [recent EXCEPT ![p] = <<>>]
          /\ loop' = [loop EXCEPT !.held = @ /\ loop.looked[1] # p]
  /\ UNCHANGED <<apiVars, scrape, ageVars>>

----------------------------------------------------------------------------
(* The pods, as the API server has them.                                   *)

ChangeLoad(p) ==
  /\ running[p]
  /\ \E l \in Load \ {load[p]} : load' = [load EXCEPT ![p] = l]
  /\ UNCHANGED <<running, traits, requests, waking, deleted, cacheVars, scrape, ageVars,
                 loop>>

(* An annotation, a disruption budget or a replica count is changed.       *)
ChangeTraits(p) ==
  /\ running[p]
  /\ \E t \in InitialTraits \ {traits[p]} :
       /\ t.owner = traits[p].owner
       /\ traits' = [traits EXCEPT ![p] = t]
  /\ Counted
  /\ UNCHANGED <<running, load, requests, waking, deleted, cacheVars, scrape, podEntry,
                 svcEntry, sinceReclaim, loop>>

(* A pod of a StatefulSet has the name of the one before it.               *)
ReusesName(p) == traits[p].owner = "StatefulSet"

Depart(p) ==
  /\ running' = [running EXCEPT ![p] = FALSE]
  /\ deleted' = [deleted EXCEPT ![p] = @ \/ running[p]]
  /\ waking' = waking \ {p}

Leave(p) ==
  /\ running[p]
  /\ Depart(p)
  /\ Counted
  /\ UNCHANGED <<load, traits, requests, cacheVars, scrape, podEntry, svcEntry,
                 sinceReclaim, loop>>

Forgotten(p) ==
  /\ metrics[p] = NoEntry /\ scrape[p] = NoEntry
  /\ ~deleted[p] /\ p \notin loop.todo

(* The workload is restored or scaled up, for a request that the activator *)
(* holds or by another hand.  A new name is in no map: it takes the place  *)
(* of the old one when nothing knows that any more.                        *)
Wake(p) ==
  /\ ~running[p]
  /\ ReusesName(p) \/ Forgotten(p)
  /\ running' = [running EXCEPT ![p] = TRUE]
  /\ \E l \in Load : load' = [load EXCEPT ![p] = l]
  /\ requests' = [requests EXCEPT ![p] = InitialRequests]
  /\ \/ UNCHANGED <<waking, events>>
     \/ waking' = waking \cup {p} /\ Counted
  /\ IF ReusesName(p) THEN UNCHANGED <<podEntry, sinceReclaim>>
     ELSE /\ podEntry' = [podEntry EXCEPT ![p] = NoEntry]
          /\ sinceReclaim' = [sinceReclaim EXCEPT ![p] = Cooldown]
  /\ UNCHANGED <<traits, deleted, cacheVars, scrape, svcEntry, loop>>

(* The service is ready.  RecordCooldown stores the end of the warm-up in  *)
(* the map the loop takes for times of a reclaim.                          *)
RecordCooldown(p) ==
  /\ p \in waking
  /\ waking' = waking \ {p}
  /\ svcEntry' = [svcEntry EXCEPT ![p] = -WarmUp]
  /\ UNCHANGED <<running, load, traits, requests, deleted, cacheVars, scrape, podEntry,
                 sinceReclaim, events, loop>>

----------------------------------------------------------------------------
(* The loop.                                                               *)

BeginCycle ==
  /\ loop.todo = {}
  /\ LET all == {p \in Pod : metrics[p] # NoEntry}
     IN  /\ all # {}
         /\ loop' = [Waiting EXCEPT !.todo = all, !.view = [p \in all |-> metrics[p]]]
  /\ UNCHANGED <<apiVars, deleted, cacheVars, scrape, ageVars>>

LastReclaimed(p) == IF podEntry[p] # NoEntry THEN podEntry[p] ELSE svcEntry[p]
RecentlyReclaimed(p) == LastReclaimed(p) # NoEntry

(* Mutation of InCooldown: off by one.                                     *)
InCooldownShort(p) == RecentlyReclaimed(p) /\ LastReclaimed(p) < Cooldown - 1

(* Mutation of InCooldown: an entry never expires.                         *)
InCooldownForEver(p) == RecentlyReclaimed(p)

InCooldown(p) == RecentlyReclaimed(p) /\ LastReclaimed(p) < Cooldown

Proceed(p) ==
  IF loop.todo = {p} THEN Waiting
  ELSE [loop EXCEPT !.todo = @ \ {p}, !.looked = <<>>, !.held = FALSE, !.decided = <<>>]

(* The cooldown, the window and its statistics.  Without samples nothing   *)
(* comes of it.                                                            *)
LookAt(p) ==
  /\ p \in loop.todo
  /\ loop.looked = <<>> /\ loop.decided = <<>>
  /\ loop' = IF InCooldown(p) \/ GetSamples(window[p]) = <<>> THEN Proceed(p)
             ELSE [loop EXCEPT !.looked = <<p, GetSamples(window[p])>>, !.held = TRUE]
  /\ IF RecentlyReclaimed(p) /\ ~InCooldown(p)
       THEN /\ podEntry' = [podEntry EXCEPT ![p] = NoEntry]
            /\ svcEntry' = [svcEntry EXCEPT ![p] = NoEntry]
       ELSE UNCHANGED <<podEntry, svcEntry>>
  /\ UNCHANGED <<apiVars, deleted, cacheVars, scrape, events, sinceReclaim>>

(* Mutation of Reread: the samples of the first look serve for both.       *)
RereadNothing(p) == loop.looked[2]

(* IsConsistentlyBelowThresholds locks the window anew: it sees a sample   *)
(* added since, but not that the cache has dropped the window.             *)
Reread(p) == IF loop.held THEN GetSamples(window[p]) ELSE loop.looked[2]

(* Metrics and traits are those of the snapshot.                           *)
EvaluatePod(p) ==
  /\ loop.looked # <<>> /\ loop.looked[1] = p
  /\ UNCHANGED <<apiVars, deleted, cacheVars, scrape, ageVars>>
  /\ \E profile \in {Analyze(loop.view[p], loop.looked[2], Reread(p))} :
       \E decision \in {Evaluate(profile, loop.view[p].traits)} :
         loop' = IF Classify(profile) = "IDLE" /\ decision.action # "KEEP"
                   THEN [loop EXCEPT !.looked = <<>>, !.held = FALSE,
                                     !.decided = <<p, decision>>]
                   ELSE Proceed(p)

AtLeast(floor, v) == IF v < floor THEN floor ELSE v
CeilDiv(a, b) == (a + b - 1) \div b

(* CalculateRightSizing with its safety factor of 1.2 and its floors.      *)
RightSize(usage) ==
  [cpu |-> AtLeast(10, CeilDiv(usage.cpu * 12, 10)),
   mem |-> AtLeast(16, (usage.mem * 12) \div 10)]

Decided(p, action) ==
  loop.decided # <<>> /\ loop.decided[1] = p /\ loop.decided[2].action = action

Succeed(p) ==
  /\ podEntry' = [podEntry EXCEPT ![p] = 0]
  /\ sinceReclaim' = [sinceReclaim EXCEPT ![p] = 0]
  /\ loop' = Proceed(p)
  /\ UNCHANGED <<svcEntry, events>>

(* The pod of that name is resized, be it the successor.                   *)
ExecuteSoftReclaim(p) ==
  /\ Decided(p, "SOFT")
  /\ running[p]
  /\ requests' = [requests EXCEPT ![p] = RightSize(loop.view[p].usage)]
  /\ Succeed(p)
  /\ UNCHANGED <<running, load, traits, waking, deleted, cacheVars, scrape>>

(* A pod that is gone cannot be checkpointed, but a Deployment may be      *)
(* scaled to zero all the same, by annotation.  Other owners keep their    *)
(* pods: checkpointed only.                                                *)
ExecuteFullReclaim(p) ==
  /\ Decided(p, "FULL")
  /\ LET owner == loop.view[p].traits.owner
     IN  /\ running[p] \/ owner = "Deployment"
         /\ IF owner \in {"", "Deployment"} THEN Depart(p)
            ELSE UNCHANGED <<running, deleted, waking>>
  /\ Succeed(p)
  /\ UNCHANGED <<load, traits, requests, cacheVars, scrape>>

ExecuteFails(p) ==
  /\ loop.decided # <<>> /\ loop.decided[1] = p
  /\ loop' = Proceed(p)
  /\ UNCHANGED <<apiVars, deleted, cacheVars, scrape, ageVars>>

Execute(p) == ExecuteSoftReclaim(p) \/ ExecuteFullReclaim(p)

----------------------------------------------------------------------------
LoopStep ==
  BeginCycle \/ \E p \in Pod : LookAt(p) \/ EvaluatePod(p) \/ Execute(p) \/ ExecuteFails(p)

StepBetweenScrapes ==
  \/ LoopStep
  \/ \E p \in Pod :
       \/ RecordSample(p) \/ StoreEntry(p) \/ Sync(p) \/ HearDelete(p)
       \/ ChangeLoad(p) \/ ChangeTraits(p) \/ Leave(p) \/ Wake(p) \/ RecordCooldown(p)

Next == (\E queries \in Answers : BeginScrape(queries)) \/ StepBetweenScrapes

(* The collector's and the loop's tickers; Prometheus answers everything   *)
(* from time to time, a resync comes from time to time while the collector *)
(* waits, and an execution that is tried for ever succeeds.                *)
Fairness ==
  /\ SF_scrape(BeginScrape(Queries))
  /\ WF_loop(LoopStep)
  /\ \A p \in Pod :
       /\ WF_scrape(RecordSample(p) \/ StoreEntry(p))
       /\ SF_metrics(Sync(p) /\ scrape[p] = NoEntry)
       /\ SF_loop(Execute(p))

Spec == Init /\ [][Next]_vars
FairSpec == Spec /\ Fairness

----------------------------------------------------------------------------
Entry == [usage : Sample, requests : Requests, traits : Traits,
          idleFor : 0 .. MinIdleDuration, scraped : BOOLEAN]

(* Type correctness.                                                       *)
TypeOK ==
  /\ running \in [Pod -> BOOLEAN]
  /\ load \in [Pod -> Load]
  /\ traits \in [Pod -> Traits]
  /\ requests \in [Pod -> Requests]
  /\ waking \subseteq {p \in Pod : running[p]}
  /\ deleted \in [Pod -> BOOLEAN]
  /\ metrics \in [Pod -> Entry \cup {NoEntry}]
  /\ window \in [Pod -> MetricWindow]
  /\ recent \in [Pod -> Seq(Sample)]
  /\ scrape \in [Pod -> [entry : Entry, sampled : BOOLEAN] \cup {NoEntry}]
  /\ podEntry \in [Pod -> Age]
  /\ svcEntry \in [Pod -> Age]
  /\ sinceReclaim \in [Pod -> 0 .. Cooldown]
  /\ events \in 0 .. MaxEvents
  /\ loop.todo \subseteq DOMAIN loop.view
  /\ loop.looked # <<>> => loop.looked \in loop.todo \X Seq(Sample)
  /\ loop.decided # <<>> => loop.decided \in loop.todo \X Decision
  /\ \A p \in DOMAIN loop.view : loop.view[p] \in Entry

(* The ring buffer holds the latest samples recorded for this name since   *)
(* its entry was last dropped, oldest first and no others: head and count  *)
(* of window.go stay right when it wraps.                                  *)
WindowIsRecent == \A p \in Pod : GetSamples(window[p]) = recent[p]

Calm(samples) ==
  /\ Len(samples) >= MinSampleCount
  /\ \A i \in DOMAIN samples :
       /\ samples[i].cpu <= IdleCPUMillicores
       /\ samples[i].net <= IdleNetBytesPerSec
       /\ samples[i].qps <= IdleQPSThreshold

(* However old the snapshot is that the loop works through, and whatever   *)
(* the collector records between its two looks at the window: a pod that   *)
(* is there under a name of its own is chosen only on enough samples, not  *)
(* one of those it has by then above the idle thresholds.  (A pod that is  *)
(* gone can be chosen too, and a StatefulSet's on samples of the one       *)
(* before it: their entries and windows outlive them.)                     *)
ReclaimAfterSteadyIdleness ==
  [][\A p \in Pod :
       (/\ loop.decided = <<>> /\ loop'.decided # <<>> /\ loop'.decided[1] = p
        /\ running[p] /\ ~ReusesName(p))
          => Calm(recent[p])]_vars

(* Between two reclaims of a pod, or of pods of one name, there is the     *)
(* cooldown, whatever the activator writes into the map meanwhile.         *)
CooldownSeparatesReclaims ==
  [][\A p \in Pod :
       loop.decided # <<>> /\ loop.decided[1] = p /\ podEntry'[p] = 0
         => sinceReclaim[p] >= Cooldown]_vars

(* A full reclaim is decided only with a score above its own threshold,    *)
(* and any reclaim only of a pod nothing protects, as the snapshot has it: *)
(* the fall-back from soft to full never lowers the bar.                   *)
ReclaimIsEarned ==
  \A p \in Pod :
    /\ Decided(p, "FULL") => /\ loop.decided[2].score >= FullReclaimScoreThreshold
                             /\ FullReclaimAllowed(loop.view[p].traits)
    /\ Decided(p, "SOFT") => /\ loop.decided[2].score >= SoftReclaimScoreThreshold
                             /\ SoftReclaimAllowed(loop.view[p].traits)

(* What the loop makes of a pod that has been at its load for long.        *)
SteadyProfile(p) ==
  LET samples == [i \in 1 .. Capacity |-> load[p]]
  IN  Analyze([usage |-> load[p], requests |-> requests[p], idleFor |-> MinIdleDuration],
              samples, samples)
Reclaims(p) ==
  /\ running[p]
  /\ Inactive(load[p])
  /\ \E profile \in {SteadyProfile(p)} :
       Classify(profile) = "IDLE" /\ Evaluate(profile, traits[p]).action # "KEEP"

(* A pod that stays idle and may be reclaimed is reclaimed, although       *)
(* executions fail, queries go unanswered, cooldowns are recorded and the  *)
(* collector writes old entries back.                                      *)
SteadyIdleIsReclaimed ==
  \A p \in Pod : []<>(Reclaims(p) => sinceReclaim[p] = 0)
=============================================================================
