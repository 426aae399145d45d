------------------------------ MODULE Activator ------------------------------
(***************************************************************************)
(* The demand activator (pkg/activator): a request for a service without   *)
(* ready endpoints waits while a flight restores the service and what it   *)
(* depends on, stage by stage, and is then forwarded.  Requests, flights   *)
(* and the goroutines of a stage run concurrently; clients disconnect,     *)
(* requests time out, calls fail and reclaims put services back to sleep.  *)
(***************************************************************************)
EXTENDS SingleFlight, SequencesExt

CONSTANTS
  Declares,      \* reclaim.io/depends-on of each service
  Deployed,      \* services run by a Deployment
  MaxFaults,     \* bound on failed calls
  MaxReclaims    \* bound on reclaims

Dag == INSTANCE DependencyGraph WITH Workload <- Service

ASSUME ActivatorAssumption ==
  /\ IsFiniteSet(Service)
  /\ Declares \in [Service -> SUBSET Service]
  /\ Deployed \subseteq Service
  /\ MaxFaults \in Nat /\ MaxReclaims \in Nat

VARIABLES
  handler,       \* how far ServeHTTP got with each request
  restoration,   \* restoreWorkloadWithDependencies in the flight of a request
  body,          \* the goroutine of each workload in that flight
  instance,      \* what the endpoints of a service show
  records,       \* services with a Ready CheckpointRecord
  warm,          \* services a cooldown was recorded for
  faults, reclaims,
  calm           \* the environment: calm from beginning to end, or not

clusterVars == <<instance, records>>
budgetVars == <<faults, reclaims, calm>>
vars == <<flightVars, handler, restoration, body, clusterVars, warm, budgetVars>>

Answered == {"served", "bad gateway", "gateway timeout"}
Closed == Answered \cup {"gone"}   \* the request's context is cancelled
HandlerState == {"new", "direct", "waiting", "expired", "forward"} \cup Closed
BodyState == {"none", "list", "restore", "scale", "wait", "done", "failed"}
Instance == {"Dormant", "Starting", "Ready"}

NoGraph == Dag!BuildGraph(<<>>)
NoRestoration == [graph |-> NoGraph, todo |-> {}, stage |-> {}]

TypeOK ==
  /\ FlightTypeOK
  /\ handler \in [Request -> HandlerState]
  /\ restoration \in [Request -> [graph : Dag!Graph, todo : SUBSET Service,
                                  stage : SUBSET Service]]
  /\ body \in [Request -> [Service -> BodyState]]
  /\ instance \in [Service -> Instance]
  /\ records \in SUBSET Service
  /\ warm \in SUBSET Service
  /\ faults \in 0 .. MaxFaults /\ reclaims \in 0 .. MaxReclaims
  /\ calm \in BOOLEAN

(* A service that runs may have a record on offer: reclaims that stop half *)
(* way leave one.  In a calm environment every service is asleep and has   *)
(* its record, calls succeed, clients and timers are patient and nothing   *)
(* is put to sleep again.                                                  *)
Init ==
  /\ FlightInit
  /\ handler = [q \in Request |-> "new"]
  /\ restoration = [q \in Request |-> NoRestoration]
  /\ body = [q \in Request |-> [s \in Service |-> "none"]]
  /\ instance \in [Service -> Instance]
  /\ records \in SUBSET Service
  /\ calm \in BOOLEAN
  /\ calm => instance = [s \in Service |-> "Dormant"] /\ records = Service
  /\ warm = {}
  /\ faults = 0 /\ reclaims = 0

----------------------------------------------------------------------------
(* A call fails.                                                           *)
Fault == ~calm /\ faults < MaxFaults /\ faults' = faults + 1

(* ServeHTTP.                                                              *)
Target(q) == TargetOf[q]
Cancelled(q) == handler[q] \in Closed
Moves(q, state) == handler' = [handler EXCEPT ![q] = state]

(* A service seen ready gets the request as it is; for any other, and when *)
(* the endpoints cannot be read, the request is buffered and DoWithTimeout *)
(* called.                                                                 *)
Arrive(q) ==
  /\ handler[q] = "new"
  /\ \/ /\ instance[Target(q)] = "Ready"
        /\ Moves(q, "direct")
        /\ UNCHANGED <<flightVars, faults>>
     \/ /\ IF instance[Target(q)] = "Ready"
             THEN Fault
             ELSE UNCHANGED faults
        /\ Moves(q, "waiting") /\ StartWorker(q)
  /\ UNCHANGED <<restoration, body, clusterVars, warm, reclaims, calm>>

(* The answer of the service, or none when its endpoints are gone again.   *)
Reply(q) ==
  /\ handler[q] \in {"direct", "forward"}
  /\ Moves(q, IF instance[Target(q)] = "Ready" THEN "served" ELSE "bad gateway")
  /\ UNCHANGED <<flightVars, restoration, body, clusterVars, warm, budgetVars>>

(* Mutation of Expire: no timer for the request that leads the flight.     *)
ExpireUnlessLeading(q) ==
  /\ ~calm
  /\ handler[q] = "waiting" /\ worker[q].at # "leading"
  /\ Moves(q, "expired")
  /\ UNCHANGED <<flightVars, restoration, body, clusterVars, warm, budgetVars>>

(* The timer of DoWithTimeout fires; its select has not run yet.           *)
Expire(q) ==
  /\ ~calm
  /\ handler[q] = "waiting"
  /\ Moves(q, "expired")
  /\ UNCHANGED <<flightVars, restoration, body, clusterVars, warm, budgetVars>>

GiveUp(q) ==
  /\ handler[q] = "expired"
  /\ Moves(q, "gateway timeout")
  /\ UNCHANGED <<flightVars, restoration, body, clusterVars, warm, budgetVars>>

(* select takes the result of Do, even if the timer has fired as well.     *)
TakeResult(q) ==
  /\ handler[q] \in {"waiting", "expired"}
  /\ worker[q].at = "done"
  /\ Moves(q, IF worker[q].err = "nil" THEN "forward" ELSE "gateway timeout")
  /\ UNCHANGED <<flightVars, restoration, body, clusterVars, warm, budgetVars>>

Disconnect(q) ==
  /\ ~calm
  /\ handler[q] \in {"direct", "waiting", "expired", "forward"}
  /\ Moves(q, "gone")
  /\ UNCHANGED <<flightVars, restoration, body, clusterVars, warm, budgetVars>>

Share(q) ==
  /\ Lead(q) \/ Join(q) \/ Wake(q)
  /\ UNCHANGED <<handler, restoration, body, clusterVars, warm, budgetVars>>

----------------------------------------------------------------------------
(* discoverWorkloadGraph.  Pods come first, with their annotations.  The   *)
(* snapshot in a record is a PodSpec, read as a Pod: it has no annotations.*)
PodInfo(s) ==
  [key |-> s, deps |-> Declares[s], ready |-> instance[s] = "Ready"]
RecordInfo(s) == [key |-> s, deps |-> {}, ready |-> FALSE]

Listing(S, Info(_)) ==
  LET order == SetToSeq(S) IN [i \in DOMAIN order |-> Info(order[i])]

RunningPods == {s \in Service : instance[s] # "Dormant"}

(* A list that cannot be read counts as empty.  A target that nothing is   *)
(* known about is added.                                                   *)
Discovered(q, podsRead, recordsRead) ==
  LET pods == Listing(IF podsRead THEN RunningPods ELSE {}, PodInfo)
      recs == Listing(IF recordsRead THEN records ELSE {}, RecordInfo)
  IN Dag!BuildGraph(pods \o recs \o <<RecordInfo(Target(q))>>)

(* The workloads of a stage start their goroutines.                        *)
EnterStage(q, g, todo) ==
  LET stage == Dag!NextStage(g, todo) IN
  /\ restoration' = [restoration EXCEPT
                       ![q] = [graph |-> g, todo |-> todo, stage |-> stage]]
  /\ body' = [body EXCEPT ![q] = [s \in Service |->
                IF s \in stage THEN "list" ELSE body[q][s]]]

(* The plan of a flight; a target that became ready needs none.            *)
Plan(q) ==
  /\ worker[q].at = "leading" /\ restoration[q].todo = {}
  /\ \E podsRead, recordsRead \in BOOLEAN :
       /\ Cancelled(q) => ~podsRead /\ ~recordsRead
       /\ IF Cancelled(q) \/ (podsRead /\ recordsRead)
            THEN UNCHANGED faults
            ELSE Fault
       /\ LET g == Discovered(q, podsRead, recordsRead) IN
          IF Target(q) \in g.ready
            THEN EndFlight(q, "nil") /\ UNCHANGED <<restoration, body>>
            ELSE /\ EnterStage(q, g, Dag!UnreadySubGraph(g, Target(q)))
                 /\ UNCHANGED flightVars
  /\ UNCHANGED <<handler, clusterVars, warm, reclaims, calm>>

----------------------------------------------------------------------------
(* restoreSingleWorkload and the wait that follows, in one goroutine.      *)
Proceeds(q, s, state) == body' = [body EXCEPT ![q][s] = state]

Started(s) ==
  instance' = [instance EXCEPT ![s] = IF @ = "Dormant" THEN "Starting" ELSE @]

(* ListReady finds a record; else a Deployment at zero is scaled; else     *)
(* there is nothing to restore from.                                       *)
FindRecord(q, s) ==
  /\ body[q][s] = "list"
  /\ Proceeds(q, s,
       IF Cancelled(q) THEN "failed"
       ELSE IF s \in records THEN "restore"
       ELSE IF s \in Deployed /\ instance[s] = "Dormant" THEN "scale"
       ELSE "failed")
  /\ UNCHANGED clusterVars

(* RestorePod takes the record.  The record of a Deployment, graceful or   *)
(* of a full checkpoint, scales it to one replica; any other creates a pod *)
(* without the labels the Service selects by.                              *)
RestoreRecord(q, s) ==
  /\ body[q][s] = "restore"
  /\ s \in records /\ ~Cancelled(q)
  /\ records' = records \ {s}
  /\ IF s \in Deployed THEN Started(s) ELSE UNCHANGED instance
  /\ Proceeds(q, s, "wait")

(* Somebody else took the record, or the request is gone.                  *)
RestoreRejected(q, s) ==
  /\ body[q][s] = "restore"
  /\ s \notin records \/ Cancelled(q)
  /\ Proceeds(q, s, "failed")
  /\ UNCHANGED clusterVars

(* The claim succeeds and a later call of RestorePod does not: the scale-  *)
(* up or the creation, or the final status when the workload is started.   *)
RestoreBreaks(q, s) ==
  /\ body[q][s] = "restore"
  /\ s \in records
  /\ records' = records \ {s}
  /\ (s \in Deployed /\ Started(s)) \/ UNCHANGED instance
  /\ Proceeds(q, s, "failed")

(* The fallback; the Deployment's version tells a concurrent scale-up.     *)
ScaleFallback(q, s) ==
  /\ body[q][s] = "scale"
  /\ IF instance[s] = "Dormant" /\ ~Cancelled(q)
       THEN Started(s) /\ Proceeds(q, s, "wait")
       ELSE UNCHANGED instance /\ Proceeds(q, s, "failed")
  /\ UNCHANGED records

(* Mutation of WaitEnds: polls on when the context is cancelled.           *)
WaitEndsWhenReady(q, s) ==
  /\ body[q][s] = "wait"
  /\ instance[s] = "Ready"
  /\ Proceeds(q, s, "done")
  /\ UNCHANGED clusterVars

(* WaitUntilServiceReady.  Whether it saw the service ready makes no       *)
(* difference.  Its timer, as long as the request's and started later,     *)
(* fires when the request has been answered and the wait is over anyway.   *)
WaitEnds(q, s) ==
  /\ body[q][s] = "wait"
  /\ instance[s] = "Ready" \/ Cancelled(q)
  /\ Proceeds(q, s, "done")
  /\ UNCHANGED clusterVars

CallFails(q, s) ==
  /\ body[q][s] \in {"list", "restore", "scale"}
  /\ Proceeds(q, s, "failed")
  /\ UNCHANGED clusterVars

Restore(q, s) ==
  /\ \/ /\ \/ FindRecord(q, s) \/ RestoreRecord(q, s) \/ RestoreRejected(q, s)
           \/ ScaleFallback(q, s) \/ WaitEnds(q, s)
           \/ Cancelled(q) /\ RestoreBreaks(q, s)
        /\ UNCHANGED faults
     \/ /\ CallFails(q, s) \/ RestoreBreaks(q, s)
        /\ Fault
  /\ UNCHANGED <<flightVars, handler, restoration, warm, reclaims, calm>>

(* Mutation of StageOver: the stage is over once all are started.     *)
StageOverOnceStarted(q) ==
  /\ restoration[q].stage # {} /\ worker[q].at = "leading"
  /\ \A s \in restoration[q].stage : body[q][s] \in {"wait", "done", "failed"}

StageOver(q) ==
  /\ restoration[q].stage # {} /\ worker[q].at = "leading"
  /\ \A s \in restoration[q].stage : body[q][s] \in {"done", "failed"}

(* Mutation of EndStage: goes on to the next stage after an error.         *)
EndStageIgnoresFailure(q) ==
  LET r == restoration[q]
      rest == r.todo \ r.stage
  IN
  /\ StageOver(q)
  /\ IF rest = {}
       THEN /\ EndFlight(q, "nil")
            /\ warm' = warm \cup {Target(q)}
            /\ UNCHANGED <<restoration, body>>
       ELSE /\ EnterStage(q, r.graph, rest)
            /\ UNCHANGED <<flightVars, warm>>
  /\ UNCHANGED <<handler, clusterVars, budgetVars>>

(* wg.Wait returns: an error ends the flight; after the last stage the     *)
(* cooldown of the target is recorded.                                     *)
EndStage(q) ==
  LET r == restoration[q]
      rest == r.todo \ r.stage
      failed == \E s \in r.stage : body[q][s] = "failed"
  IN
  /\ StageOver(q)
  /\ IF failed \/ rest = {}
       THEN /\ EndFlight(q, IF failed THEN "error" ELSE "nil")
            /\ warm' = IF failed THEN warm ELSE warm \cup {Target(q)}
            /\ UNCHANGED <<restoration, body>>
       ELSE /\ EnterStage(q, r.graph, rest)
            /\ UNCHANGED <<flightVars, warm>>
  /\ UNCHANGED <<handler, clusterVars, budgetVars>>

----------------------------------------------------------------------------
(* The cluster: pods come up, idle services are reclaimed.                 *)
BecomeReady(s) ==
  /\ instance[s] = "Starting"
  /\ instance' = [instance EXCEPT ![s] = "Ready"]
  /\ UNCHANGED <<flightVars, handler, restoration, body, records, warm, budgetVars>>

Reclaim(s) ==
  /\ ~calm /\ reclaims < MaxReclaims
  /\ instance[s] = "Ready"
  /\ instance' = [instance EXCEPT ![s] = "Dormant"]
  /\ records' = records \cup {s}
  /\ reclaims' = reclaims + 1
  /\ UNCHANGED <<flightVars, handler, restoration, body, warm, faults, calm>>

Serve(q) == Arrive(q) \/ Reply(q) \/ GiveUp(q) \/ TakeResult(q)
Flight(q) == Share(q) \/ Plan(q) \/ EndStage(q) \/ \E s \in Service : Restore(q, s)

Next ==
  \/ \E q \in Request : Serve(q) \/ Expire(q) \/ Disconnect(q) \/ Flight(q)
  \/ \E s \in Service : BecomeReady(s) \/ Reclaim(s)

Spec == Init /\ [][Next]_vars

(* Every goroutine runs on, timers fire and net/http serves each accepted  *)
(* request; nothing is assumed of clients and calls that fail.  Only a     *)
(* calm cluster brings up what is started.                                 *)
Fairness ==
  /\ \A q \in Request :
       /\ WF_vars(Serve(q))
       /\ WF_vars(Expire(q))
       /\ WF_vars(Flight(q))
  /\ \A s \in Service : WF_vars(calm /\ BecomeReady(s))
FairSpec == Spec /\ Fairness
----------------------------------------------------------------------------
(* A workload that could not be started ends the restoration: the flight   *)
(* reports it and begins no further stage.                                 *)
FailureStopsRestoration ==
  \A q \in Request : \A s \in Service :
    body[q][s] = "failed" =>
      /\ s \in restoration[q].stage
      /\ worker[q].at = "done" => worker[q].err = "error"

(* The goroutine of a workload only runs when those of the unready         *)
(* workloads it depends on, as far as the plan knows, have come to an end; *)
(* workloads of a cycle run side by side.                                  *)
StagesWaitForEachOther ==
  \A q \in Request : \A s, d \in Service :
    LET plan == Dag!UnreadySubGraph(restoration[q].graph, Target(q)) IN
    /\ body[q][s] # "none" /\ d \in restoration[q].graph.children[s] \cap plan
    => \/ body[q][d] = "done"
       \/ {s, d} \subseteq restoration[q].stage

(* The cooldown of a service is recorded only after a flight that restored *)
(* its whole plan without an error.                                        *)
WarmAfterRestoration ==
  \A s \in warm : \E q \in Request :
    /\ Target(q) = s
    /\ worker[q].at = "done" /\ worker[q].err = "nil"
    /\ \A d \in Dag!UnreadySubGraph(restoration[q].graph, s) : body[q][d] = "done"

(* Every request that was taken in is answered, unless its client leaves:  *)
(* no request hangs on a flight.                                           *)
EveryRequestIsAnswered ==
  \A q \in Request : handler[q] = "waiting" ~> handler[q] \in Closed

(* In a calm environment, a dormant service is woken for everybody who     *)
(* asks for it.                                                            *)
EveryRequestIsServed ==
  \A q \in Request : calm /\ handler[q] = "waiting" ~> handler[q] = "served"

(* Every flight ends, even one whose leader gave up: its key is free for   *)
(* later requests and no goroutine waits for ever.                         *)
FlightsEnd ==
  \A q \in Request : worker[q].at = "start" ~> worker[q].at = "done"
=============================================================================
