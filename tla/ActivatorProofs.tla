--------------------------- MODULE ActivatorProofs ---------------------------
(***************************************************************************)
(* The single-flight group for any requests and services, what the         *)
(* activator owes to it, and the activator's restorations for any          *)
(* services, requests and dependencies.                                    *)
(***************************************************************************)
EXTENDS Activator, FiniteSetTheorems, NaturalsInduction, SequenceTheorems,
        WellFoundedInduction, TLAPS

(* A flight that leads, or led, knows itself as its flight; who did not    *)
(* enter Do yet has none.                                                  *)
FlightsAreNamed ==
  \A q \in Request :
    /\ worker[q].at = "leading" =>
         worker[q].flight = q /\ calls[TargetOf[q]] = q
    /\ worker[q].at \in {"none", "start"} <=> worker[q].flight = NoFlight

FlightInv ==
  /\ FlightTypeOK
  /\ FlightsAreNamed
  /\ OneFlightPerService
  /\ NoStaleFlight
  /\ OutcomeIsShared

LEMMA FlightInitInv == FlightInit => FlightInv
BY FlightAssumption DEF FlightInit, FlightInv, FlightTypeOK, FlightsAreNamed,
   OneFlightPerService, NoStaleFlight, OutcomeIsShared, Worker, Outcome

(* Only request q moves; its record is the new one.                        *)
LEMMA FlightStepKeepsType ==
  ASSUME FlightInv, NEW q \in Request, FlightStep(q)
  PROVE  FlightTypeOK'
<1> USE FlightAssumption DEF FlightInv, FlightTypeOK, Worker, Outcome
<1>1. CASE StartWorker(q)
  BY <1>1 DEF StartWorker
<1>2. CASE Lead(q)
  <2>1. calls' \in [Service -> Request \cup {NoFlight}]
    BY <1>2 DEF Lead
  <2> DEFINE leader == [worker[q] EXCEPT !.at = "leading", !.flight = q]
  <2>2. leader \in Worker
    <3>1. worker[q] \in Worker
      OBVIOUS
    <3>2. QED
      BY <3>1
  <2>3. worker' = [worker EXCEPT ![q] = leader]
    BY <1>2 DEF Lead
  <2> HIDE DEF leader
  <2>4. worker' \in [Request -> Worker]
    BY <2>2, <2>3
  <2>5. QED
    BY <2>1, <2>4
<1>3. CASE Join(q)
  <2> DEFINE follower ==
        [worker[q] EXCEPT !.at = "following", !.flight = calls[TargetOf[q]]]
  <2>1. worker[q] \in Worker /\ calls[TargetOf[q]] \in Request
    BY <1>3 DEF Join
  <2>2. follower \in Worker
    BY <2>1
  <2>3. worker' = [worker EXCEPT ![q] = follower] /\ calls' = calls
    BY <1>3 DEF Join
  <2> HIDE DEF follower
  <2>4. QED
    BY <2>2, <2>3
<1>4. CASE Wake(q)
  <2> DEFINE woken == [worker[q] EXCEPT !.at = "done", !.err = worker[worker[q].flight].err]
  <2>1. worker[q].flight \in Request
    BY <1>4 DEF Wake, FlightsAreNamed
  <2>2. worker[q] \in Worker /\ worker[worker[q].flight] \in Worker
    BY <2>1
  <2>3. woken \in Worker
    BY <2>2
  <2>4. worker' = [worker EXCEPT ![q] = woken] /\ calls' = calls
    BY <1>4 DEF Wake
  <2> HIDE DEF woken
  <2>5. QED
    BY <2>3, <2>4
<1>5. ASSUME NEW err \in Outcome, EndFlight(q, err) PROVE FlightTypeOK'
  BY <1>5 DEF EndFlight
<1>6. QED
  BY <1>1, <1>2, <1>3, <1>4, <1>5 DEF FlightStep

LEMMA FlightStepKeepsInv ==
  ASSUME FlightInv, NEW q \in Request, FlightStep(q)
  PROVE  FlightInv'
<1>1. FlightTypeOK'
  BY FlightStepKeepsType
<1> USE FlightAssumption DEF FlightInv, FlightTypeOK, Worker
<1>2. CASE StartWorker(q)
  <2>1. /\ worker[q].at = "none" /\ worker'[q].at = "start"
        /\ worker'[q].flight = NoFlight /\ worker[q].flight = NoFlight
        /\ calls' = calls
        /\ \A p \in Request \ {q} : worker'[p] = worker[p]
    BY <1>2 DEF StartWorker, FlightsAreNamed
  <2>2. FlightsAreNamed' /\ NoStaleFlight' /\ OneFlightPerService'
    BY <2>1 DEF FlightsAreNamed, NoStaleFlight, OneFlightPerService
  <2>3. OutcomeIsShared'
    BY <2>1 DEF OutcomeIsShared, FlightsAreNamed
  <2>4. QED
    BY <1>1, <2>2, <2>3
<1>3. CASE Lead(q)
  <2>1. /\ worker[q].at = "start" /\ worker'[q].at = "leading"
        /\ worker'[q].flight = q /\ worker[q].flight = NoFlight
        /\ calls[TargetOf[q]] = NoFlight /\ calls'[TargetOf[q]] = q
        /\ \A s \in Service \ {TargetOf[q]} : calls'[s] = calls[s]
        /\ \A p \in Request \ {q} : worker'[p] = worker[p]
    BY <1>3 DEF Lead, FlightsAreNamed
  <2>2. \A p \in Request \ {q} :
          worker[p].at = "leading" => TargetOf[p] # TargetOf[q]
    BY <2>1 DEF FlightsAreNamed
  <2>3. FlightsAreNamed'
    BY <2>1, <2>2 DEF FlightsAreNamed
  <2>4. NoStaleFlight'
    BY <2>1 DEF NoStaleFlight
  <2>5. OneFlightPerService'
    BY <2>1, <2>2 DEF OneFlightPerService
  <2>6. OutcomeIsShared'
    BY <2>1 DEF OutcomeIsShared, FlightsAreNamed
  <2>7. QED
    BY <1>1, <2>3, <2>4, <2>5, <2>6
<1>4. CASE Join(q)
  <2> DEFINE f == calls[TargetOf[q]]
  <2>1. /\ worker[q].at = "start" /\ worker'[q].at = "following"
        /\ worker'[q].flight = f /\ f \in Request /\ calls' = calls
        /\ \A p \in Request \ {q} : worker'[p] = worker[p]
    BY <1>4 DEF Join
  <2>2. worker[f].at = "leading" /\ TargetOf[f] = TargetOf[q] /\ f # q
    BY <2>1 DEF NoStaleFlight
  <2>3. FlightsAreNamed' /\ NoStaleFlight' /\ OneFlightPerService'
    BY <2>1, <2>2 DEF FlightsAreNamed, NoStaleFlight, OneFlightPerService
  <2>4. OutcomeIsShared'
    BY <2>1, <2>2 DEF OutcomeIsShared, FlightsAreNamed
  <2>5. QED
    BY <1>1, <2>3, <2>4
<1>5. CASE Wake(q)
  <2> DEFINE f == worker[q].flight
  <2>1. /\ worker[q].at = "following" /\ worker'[q].at = "done"
        /\ f \in Request /\ f # q /\ worker[f].at = "done" /\ calls' = calls
        /\ worker'[q].flight = f /\ worker'[q].err = worker[f].err
        /\ \A p \in Request \ {q} : worker'[p] = worker[p]
    BY <1>5 DEF Wake, FlightsAreNamed
  <2>2. FlightsAreNamed' /\ NoStaleFlight' /\ OneFlightPerService'
    BY <2>1 DEF FlightsAreNamed, NoStaleFlight, OneFlightPerService
  <2>3. OutcomeIsShared'
    BY <2>1 DEF OutcomeIsShared, FlightsAreNamed
  <2>4. QED
    BY <1>1, <2>2, <2>3
<1>6. ASSUME NEW err \in Outcome, EndFlight(q, err) PROVE FlightInv'
  <2>1. /\ worker[q].at = "leading" /\ worker'[q].at = "done"
        /\ worker[q].flight = q /\ worker'[q].flight = q
        /\ calls[TargetOf[q]] = q /\ calls'[TargetOf[q]] = NoFlight
        /\ \A s \in Service \ {TargetOf[q]} : calls'[s] = calls[s]
        /\ \A p \in Request \ {q} : worker'[p] = worker[p]
    BY <1>6 DEF EndFlight, FlightsAreNamed
  <2>2. \A p \in Request \ {q} :
          worker[p].at = "leading" => TargetOf[p] # TargetOf[q]
    BY <2>1 DEF OneFlightPerService
  <2>3. FlightsAreNamed'
    BY <2>1, <2>2 DEF FlightsAreNamed
  <2>4. NoStaleFlight'
    BY <2>1 DEF NoStaleFlight
  <2>5. OneFlightPerService'
    BY <2>1, <2>2 DEF OneFlightPerService
  <2>6. OutcomeIsShared'
    BY <2>1 DEF OutcomeIsShared
  <2>7. QED
    BY <1>1, <2>3, <2>4, <2>5, <2>6
<1>7. QED
  BY <1>2, <1>3, <1>4, <1>5, <1>6 DEF FlightStep

(* FlightInv is an invariant of every use of the group.                    *)
THEOREM FlightInvariance == FlightSpec => []FlightInv
<1>1. FlightInv /\ [FlightNext]_flightVars => FlightInv'
  <2> SUFFICES ASSUME FlightInv, [FlightNext]_flightVars PROVE FlightInv'
    OBVIOUS
  <2>1. CASE UNCHANGED flightVars
    BY <2>1 DEF flightVars, FlightInv, FlightTypeOK, FlightsAreNamed,
       OneFlightPerService, NoStaleFlight, OutcomeIsShared
  <2>2. CASE FlightNext
    BY <2>2, FlightStepKeepsInv DEF FlightNext
  <2>3. QED
    BY <2>1, <2>2
<1>2. QED
  BY <1>1, FlightInitInv, PTL DEF FlightSpec

----------------------------------------------------------------------------
(* The steps of the activator use the group as SingleFlight says.          *)
LEMMA StepUsesGroup == [Next]_vars => [FlightNext]_flightVars
<1> SUFFICES ASSUME Next, ~UNCHANGED flightVars PROVE FlightNext
  BY DEF vars
<1>1. ASSUME NEW q \in Request, Serve(q) \/ Expire(q) \/ Disconnect(q)
      PROVE  FlightStep(q)
  BY <1>1 DEF Serve, Arrive, Reply, GiveUp, TakeResult, Expire, Disconnect, FlightStep
<1>2. ASSUME NEW q \in Request, Flight(q) PROVE FlightStep(q)
  <2>1. CASE Share(q)
    BY <2>1 DEF Share, FlightStep
  <2>2. CASE Plan(q)
    BY <2>2 DEF Plan, FlightStep, Outcome
  <2>3. CASE EndStage(q)
    BY <2>3 DEF EndStage, FlightStep, Outcome
  <2>4. CASE \E s \in Service : Restore(q, s)
    BY <2>4 DEF Restore
  <2>5. QED
    BY <1>2, <2>1, <2>2, <2>3, <2>4 DEF Flight
<1>3. \A s \in Service : ~(BecomeReady(s) \/ Reclaim(s))
  BY DEF BecomeReady, Reclaim
<1>4. QED
  BY <1>1, <1>2, <1>3 DEF Next, FlightNext

(* The activator implements SingleFlight.                                  *)
THEOREM ActivatorUsesGroup == Spec => FlightSpec
<1>1. Init => FlightInit
  BY DEF Init
<1>2. QED
  BY <1>1, StepUsesGroup, PTL DEF Spec, FlightSpec

(* All callers of a flight get its outcome.                                *)
THEOREM FlightsAreShared == Spec => []OutcomeIsShared
<1>1. FlightInv => OutcomeIsShared
  BY DEF FlightInv
<1>2. QED
  BY <1>1, ActivatorUsesGroup, FlightInvariance, PTL

(* Two requests never restore the same service at the same time.           *)
THEOREM FlightsAreSingle == Spec => []OneFlightPerService
<1>1. FlightInv => OneFlightPerService
  BY DEF FlightInv
<1>2. QED
  BY <1>1, ActivatorUsesGroup, FlightInvariance, PTL

(* The key of a service never names a flight that is over.                 *)
THEOREM FlightsAreCurrent == Spec => []NoStaleFlight
<1>1. FlightInv => NoStaleFlight
  BY DEF FlightInv
<1>2. QED
  BY <1>1, ActivatorUsesGroup, FlightInvariance, PTL

----------------------------------------------------------------------------
(* What a flight knows of its own plan.                                    *)
PlanOf(q) == Dag!UnreadySubGraph(restoration[q].graph, Target(q))
Behind(q) == PlanOf(q) \ restoration[q].todo

BodyTypes ==
  /\ body \in [Request -> [Service -> BodyState]]
  /\ restoration = [q \in Request |-> restoration[q]]
  /\ \A q \in Request :
       restoration[q] = [graph |-> restoration[q].graph, todo |-> restoration[q].todo,
                         stage |-> restoration[q].stage]

(* Who does not lead, or did not, has no plan; before there is a plan no   *)
(* goroutine runs.                                                         *)
OnlyLeadersPlan ==
  \A q \in Request :
    /\ worker[q].at \in {"none", "start", "following"} => restoration[q].todo = {}
    /\ restoration[q].todo = {} =>
         restoration[q].stage = {} /\ \A s \in Service : body[q][s] = "none"

(* The current stage is the one the graph gives, what is behind it was     *)
(* restored after its own dependencies, what is ahead was not touched.     *)
StagesInOrder ==
  \A q \in Request :
    restoration[q].todo # {} =>
      /\ restoration[q].todo \subseteq PlanOf(q)
      /\ restoration[q].stage = Dag!NextStage(restoration[q].graph, restoration[q].todo)
      /\ \A s \in Behind(q) :
           /\ body[q][s] = "done"
           /\ restoration[q].graph.children[s] \cap PlanOf(q) \subseteq Behind(q)
      /\ \A s \in Service \ (Behind(q) \cup restoration[q].stage) : body[q][s] = "none"
      /\ \A s \in restoration[q].stage : body[q][s] # "none"

(* A flight that is over reports what became of its last stage.            *)
OutcomesAreTrue ==
  \A q \in Request :
    worker[q].at = "done" /\ restoration[q].todo # {} =>
      /\ \A s \in restoration[q].stage :
           /\ body[q][s] \in {"done", "failed"}
           /\ body[q][s] = "failed" => worker[q].err = "error"
      /\ worker[q].err = "nil" => restoration[q].stage = restoration[q].todo

RestorationInv ==
  BodyTypes /\ OnlyLeadersPlan /\ StagesInOrder /\ OutcomesAreTrue

(* The invariant speaks of what the requests hold.                         *)
LEMMA StutterKeepsRestoration ==
  ASSUME RestorationInv, UNCHANGED <<worker, restoration, body>>
  PROVE  RestorationInv'
BY DEF RestorationInv, BodyTypes, OnlyLeadersPlan, StagesInOrder, OutcomesAreTrue,
   PlanOf, Behind, Target

LEMMA RestorationInit == Init => RestorationInv
<1> SUFFICES ASSUME Init PROVE RestorationInv
  OBVIOUS
<1>1. /\ restoration = [q \in Request |-> NoRestoration]
      /\ body = [q \in Request |-> [s \in Service |-> "none"]]
  BY DEF Init
<1>2. \A q \in Request : restoration[q].todo = {} /\ restoration[q].stage = {}
  BY <1>1 DEF NoRestoration
<1>3. BodyTypes
  <2>1. restoration = [q \in Request |-> restoration[q]]
    BY <1>1
  <2>2. body \in [Request -> [Service -> BodyState]]
    BY <1>1 DEF BodyState
  <2>3. QED
    BY <1>1, <2>1, <2>2 DEF BodyTypes, NoRestoration
<1>4. OnlyLeadersPlan /\ StagesInOrder /\ OutcomesAreTrue
  BY <1>1, <1>2 DEF OnlyLeadersPlan, StagesInOrder, OutcomesAreTrue
<1>5. QED
  BY <1>3, <1>4 DEF RestorationInv

(* The target is always in the plan, and a stage is a part of what is left *)
(* that is not empty.                                                      *)
LEMMA PlanFacts ==
  ASSUME NEW g, NEW w \in Service
  PROVE  w \in Dag!UnreadySubGraph(g, w) /\ Dag!UnreadySubGraph(g, w) \subseteq Service
BY DEF Dag!UnreadySubGraph, Dag!Subtree

LEMMA StageFacts ==
  ASSUME NEW g, NEW todo, todo # {}
  PROVE  /\ Dag!NextStage(g, todo) \subseteq todo /\ Dag!NextStage(g, todo) # {}
         /\ \/ Dag!NextStage(g, todo) = todo
            \/ \A s \in Dag!NextStage(g, todo) : g.children[s] \cap todo = {}
BY DEF Dag!NextStage, Dag!Free

(* A request that starts, leads, joins or wakes has no plan yet, or none.  *)
LEMMA ShareKeepsRestoration ==
  ASSUME RestorationInv, FlightInv, NEW q \in Request,
         StartWorker(q) \/ Lead(q) \/ Join(q) \/ Wake(q),
         UNCHANGED <<restoration, body>>
  PROVE  RestorationInv'
<1>1. /\ worker[q].at \in {"none", "start", "following"}
      /\ \A p \in Request \ {q} : worker'[p] = worker[p]
  BY DEF StartWorker, Lead, Join, Wake, FlightInv, FlightTypeOK
<1>2. restoration[q].todo = {}
  BY <1>1 DEF RestorationInv, OnlyLeadersPlan
<1>3. BodyTypes' /\ StagesInOrder'
  BY DEF RestorationInv, BodyTypes, StagesInOrder, PlanOf, Behind, Target
<1>4. OnlyLeadersPlan'
  BY <1>1, <1>2 DEF RestorationInv, OnlyLeadersPlan
<1>5. OutcomesAreTrue'
  BY <1>1, <1>2 DEF RestorationInv, OutcomesAreTrue
<1>6. QED
  BY <1>3, <1>4, <1>5 DEF RestorationInv

(* A stage that is entered: what was left but for the stage before it.     *)
LEMMA EnterStageKeepsRestoration ==
  ASSUME RestorationInv, NEW q \in Request, NEW g, NEW todo,
         worker[q].at = "leading", UNCHANGED worker,
         EnterStage(q, g, todo), todo # {},
         todo \subseteq Dag!UnreadySubGraph(g, Target(q)),
         Target(q) \in Service,
         \A s \in Dag!UnreadySubGraph(g, Target(q)) \ todo :
           /\ body[q][s] = "done"
           /\ g.children[s] \cap Dag!UnreadySubGraph(g, Target(q))
                \subseteq Dag!UnreadySubGraph(g, Target(q)) \ todo,
         \A s \in todo \cup (Service \ Dag!UnreadySubGraph(g, Target(q))) :
           body[q][s] = "none"
  PROVE  RestorationInv'
<1> DEFINE stage == Dag!NextStage(g, todo)
           plan == Dag!UnreadySubGraph(g, Target(q))
<1>1. plan \subseteq Service /\ stage \subseteq todo /\ stage # {}
  BY PlanFacts, StageFacts
<1>2. /\ restoration'[q] = [graph |-> g, todo |-> todo, stage |-> stage]
      /\ restoration' = [p \in Request |-> restoration'[p]]
      /\ \A p \in Request \ {q} : restoration'[p] = restoration[p]
  BY DEF EnterStage, RestorationInv, BodyTypes
<1>3. /\ body' \in [Request -> [Service -> BodyState]]
      /\ \A s \in Service : body'[q][s] = IF s \in stage THEN "list" ELSE body[q][s]
      /\ \A p \in Request \ {q} : body'[p] = body[p]
  BY DEF EnterStage, RestorationInv, BodyTypes, BodyState
<1> HIDE DEF stage, plan
<1>4. PlanOf(q)' = plan /\ Behind(q)' = plan \ todo
  BY <1>2 DEF PlanOf, Behind, Target, plan
<1>5. BodyTypes'
  BY <1>2, <1>3 DEF BodyTypes, RestorationInv
<1>6. OnlyLeadersPlan'
  BY <1>2, <1>3 DEF OnlyLeadersPlan, RestorationInv
<1>7. OutcomesAreTrue'
  BY <1>2, <1>3 DEF OutcomesAreTrue, RestorationInv
<1>8. StagesInOrder'
  <2>1. ASSUME NEW p \in Request \ {q} PROVE PlanOf(p)' = PlanOf(p) /\ Behind(p)' = Behind(p)
    BY <1>2, <2>1 DEF PlanOf, Behind, Target
  <2>2. ASSUME NEW s \in plan \ todo
        PROVE  body'[q][s] = "done" /\ g.children[s] \cap plan \subseteq plan \ todo
    BY <1>1, <1>3, <2>2 DEF plan
  <2>3. \A s \in Service \ ((plan \ todo) \cup stage) : body'[q][s] = "none"
    BY <1>1, <1>3 DEF plan
  <2>4. \A s \in stage : body'[q][s] # "none"
    BY <1>1, <1>3 DEF plan
  <2>5. todo \subseteq plan /\ stage = Dag!NextStage(g, todo)
    BY DEF plan, stage
  <2>6. QED
    BY <1>2, <1>3, <1>4, <2>1, <2>2, <2>3, <2>4, <2>5 DEF StagesInOrder, RestorationInv
<1>9. QED
  BY <1>5, <1>6, <1>7, <1>8 DEF RestorationInv

(* A flight that ends, with a plan or without one.                         *)
LEMMA EndFlightKeepsRestoration ==
  ASSUME RestorationInv, FlightInv, NEW q \in Request, NEW err \in Outcome,
         EndFlight(q, err), UNCHANGED <<restoration, body>>,
         restoration[q].todo # {} =>
           /\ \A s \in restoration[q].stage : body[q][s] \in {"done", "failed"}
           /\ err = "error" \/ \A s \in restoration[q].stage : body[q][s] = "done"
           /\ err = "nil" => restoration[q].stage = restoration[q].todo
  PROVE  RestorationInv'
<1>1. /\ worker'[q].at = "done" /\ worker'[q].err = err
      /\ \A p \in Request \ {q} : worker'[p] = worker[p]
  BY DEF EndFlight, FlightInv, FlightTypeOK, Worker
<1>2. BodyTypes' /\ StagesInOrder'
  BY DEF RestorationInv, BodyTypes, StagesInOrder, PlanOf, Behind, Target
<1>3. OnlyLeadersPlan'
  BY <1>1 DEF RestorationInv, OnlyLeadersPlan
<1>4. OutcomesAreTrue'
  BY <1>1 DEF RestorationInv, OutcomesAreTrue
<1>5. QED
  BY <1>2, <1>3, <1>4 DEF RestorationInv

LEMMA PlanKeepsRestoration ==
  ASSUME RestorationInv, FlightInv, NEW q \in Request, Plan(q)
  PROVE  RestorationInv'
<1>1. restoration[q].todo = {} /\ worker[q].at = "leading" /\ Target(q) \in Service
  BY FlightAssumption DEF Plan, Target
<1>2. \A s \in Service : body[q][s] = "none"
  BY <1>1 DEF RestorationInv, OnlyLeadersPlan
<1>3. PICK podsRead, recordsRead \in BOOLEAN :
        LET g == Discovered(q, podsRead, recordsRead) IN
        IF Target(q) \in g.ready
          THEN EndFlight(q, "nil") /\ UNCHANGED <<restoration, body>>
          ELSE /\ EnterStage(q, g, Dag!UnreadySubGraph(g, Target(q)))
               /\ UNCHANGED flightVars
  BY DEF Plan
<1> DEFINE g == Discovered(q, podsRead, recordsRead)
<1>4. CASE Target(q) \in g.ready
  BY <1>1, <1>3, <1>4, EndFlightKeepsRestoration DEF Outcome
<1>5. CASE Target(q) \notin g.ready
  <2>1. EnterStage(q, g, Dag!UnreadySubGraph(g, Target(q))) /\ UNCHANGED worker
    BY <1>3, <1>5 DEF flightVars
  <2> HIDE DEF g
  <2>2. /\ Target(q) \in Dag!UnreadySubGraph(g, Target(q))
        /\ Dag!UnreadySubGraph(g, Target(q)) \subseteq Service
    BY <1>1, PlanFacts
  <2>3. QED
    BY <1>1, <1>2, <2>1, <2>2, EnterStageKeepsRestoration
<1>6. QED
  BY <1>4, <1>5

LEMMA EndStageKeepsRestoration ==
  ASSUME RestorationInv, FlightInv, NEW q \in Request, EndStage(q)
  PROVE  RestorationInv'
<1> DEFINE r == restoration[q]
           rest == r.todo \ r.stage
           failed == \E s \in r.stage : body[q][s] = "failed"
<1>1. /\ r.stage # {} /\ worker[q].at = "leading" /\ Target(q) \in Service
      /\ \A s \in r.stage : body[q][s] \in {"done", "failed"}
  BY FlightAssumption DEF EndStage, StageOver, Target
<1>2. /\ r.todo # {} /\ r.todo \subseteq PlanOf(q)
      /\ r.stage = Dag!NextStage(r.graph, r.todo) /\ r.stage \subseteq r.todo
  BY <1>1, StageFacts DEF RestorationInv, OnlyLeadersPlan, StagesInOrder
<1>3. CASE failed \/ rest = {}
  <2>1. EndFlight(q, IF failed THEN "error" ELSE "nil") /\ UNCHANGED <<restoration, body>>
    BY <1>3 DEF EndStage
  <2>2. ~failed => r.stage = r.todo
    BY <1>2, <1>3
  <2>3. QED
    BY <1>1, <2>1, <2>2, EndFlightKeepsRestoration DEF Outcome
<1>4. CASE ~failed /\ rest # {}
  <2>1. EnterStage(q, r.graph, rest) /\ UNCHANGED worker
    BY <1>4 DEF EndStage, flightVars
  <2>2. \A s \in r.stage : r.graph.children[s] \cap r.todo = {} /\ body[q][s] = "done"
    BY <1>1, <1>2, <1>4, StageFacts
  <2>3. ASSUME NEW s \in PlanOf(q) \ rest
        PROVE  body[q][s] = "done" /\ r.graph.children[s] \cap PlanOf(q) \subseteq PlanOf(q) \ rest
    <3>1. CASE s \in r.stage
      BY <2>2, <3>1
    <3>2. CASE s \in Behind(q)
      BY <1>2, <3>2 DEF RestorationInv, StagesInOrder, Behind
    <3>3. QED
      BY <2>3, <3>1, <3>2 DEF Behind
  <2>4. \A s \in rest \cup (Service \ PlanOf(q)) : body[q][s] = "none"
    <3>1. rest \subseteq Service
      BY <1>1, <1>2, PlanFacts DEF PlanOf
    <3>2. QED
      BY <1>2, <3>1 DEF RestorationInv, StagesInOrder, Behind
  <2>5. rest # {} /\ rest \subseteq PlanOf(q)
    BY <1>2, <1>4
  <2> HIDE DEF rest
  <2>6. QED
    BY <1>1, <2>1, <2>3, <2>4, <2>5, EnterStageKeepsRestoration DEF PlanOf
<1>5. QED
  BY <1>3, <1>4

(* A goroutine that works is one of the current stage, and goes on to      *)
(* another state of work or to its end.                                    *)
Working == {"list", "restore", "scale", "wait"}

LEMMA RestoreMovesOne ==
  ASSUME RestorationInv, NEW q \in Request, NEW s \in Service, Restore(q, s)
  PROVE  /\ body[q][s] \in Working
         /\ \E state \in (BodyState \ {"none"}) : Proceeds(q, s, state)
         /\ UNCHANGED <<flightVars, restoration>>
BY DEF Restore, FindRecord, RestoreRecord, RestoreRejected, ScaleFallback, WaitEnds,
   RestoreBreaks, CallFails, Working, BodyState

LEMMA RestoreKeepsRestoration ==
  ASSUME RestorationInv, NEW q \in Request, NEW s \in Service, Restore(q, s)
  PROVE  RestorationInv'
<1>1. PICK state \in BodyState \ {"none"} : Proceeds(q, s, state)
  BY RestoreMovesOne
<1>2. /\ body' \in [Request -> [Service -> BodyState]]
      /\ body'[q][s] = state
      /\ \A d \in Service \ {s} : body'[q][d] = body[q][d]
      /\ \A p \in Request \ {q} : body'[p] = body[p]
  BY <1>1 DEF Proceeds, RestorationInv, BodyTypes
<1>3. UNCHANGED <<worker, restoration>> /\ body[q][s] \in Working
  BY RestoreMovesOne DEF flightVars
<1>4. restoration[q].todo # {}
  BY <1>3 DEF RestorationInv, OnlyLeadersPlan, Working
<1>5. s \in restoration[q].stage /\ s \notin Behind(q)
  BY <1>3, <1>4 DEF RestorationInv, StagesInOrder, Working
<1>6. worker[q].at # "done"
  BY <1>3, <1>4, <1>5 DEF RestorationInv, OutcomesAreTrue, Working
<1>7. \A p \in Request : PlanOf(p)' = PlanOf(p) /\ Behind(p)' = Behind(p)
  BY <1>3 DEF PlanOf, Behind, Target
<1>8. BodyTypes' /\ OnlyLeadersPlan' /\ OutcomesAreTrue'
  <2>1. BodyTypes'
    BY <1>2, <1>3 DEF RestorationInv, BodyTypes
  <2>2. OnlyLeadersPlan'
    BY <1>2, <1>3, <1>4 DEF RestorationInv, OnlyLeadersPlan
  <2>3. OutcomesAreTrue'
    BY <1>2, <1>3, <1>6 DEF RestorationInv, OutcomesAreTrue
  <2>4. QED
    BY <2>1, <2>2, <2>3
<1>9. StagesInOrder'
  <2> SUFFICES ASSUME NEW p \in Request, restoration[p].todo # {}
               PROVE  /\ \A d \in Behind(p) : body'[p][d] = "done"
                      /\ \A d \in Service \ (Behind(p) \cup restoration[p].stage) :
                           body'[p][d] = "none"
                      /\ \A d \in restoration[p].stage : body'[p][d] # "none"
    BY <1>3, <1>7 DEF StagesInOrder, RestorationInv
  <2>1. Behind(p) \subseteq Service /\ restoration[p].stage \subseteq Service
    BY PlanFacts, StageFacts, FlightAssumption DEF Behind, PlanOf, Target, RestorationInv, StagesInOrder
  <2>2. QED
    BY <1>1, <1>2, <1>5, <2>1 DEF RestorationInv, StagesInOrder
<1>10. QED
  BY <1>8, <1>9 DEF RestorationInv

(* The requests, the cluster and the budgets leave the flights alone.      *)
LEMMA NextKeepsRestoration ==
  ASSUME RestorationInv, FlightInv, [Next]_vars PROVE RestorationInv'
<1>1. CASE UNCHANGED vars
  BY <1>1, StutterKeepsRestoration DEF vars, flightVars
<1>2. ASSUME NEW q \in Request, Serve(q) \/ Expire(q) \/ Disconnect(q)
      PROVE  RestorationInv'
  <2>1. UNCHANGED <<restoration, body>> /\ (StartWorker(q) \/ UNCHANGED worker)
    BY <1>2 DEF Serve, Arrive, Reply, GiveUp, TakeResult, Expire, Disconnect, flightVars
  <2>2. QED
    BY <2>1, StutterKeepsRestoration, ShareKeepsRestoration
<1>3. ASSUME NEW q \in Request, Flight(q) PROVE RestorationInv'
  BY <1>3, ShareKeepsRestoration, PlanKeepsRestoration, EndStageKeepsRestoration,
     RestoreKeepsRestoration DEF Flight, Share
<1>4. ASSUME NEW s \in Service, BecomeReady(s) \/ Reclaim(s) PROVE RestorationInv'
  BY <1>4, StutterKeepsRestoration DEF BecomeReady, Reclaim, flightVars
<1>5. QED
  BY <1>1, <1>2, <1>3, <1>4 DEF Next

LEMMA FlightsHold == Spec => []FlightInv
BY ActivatorUsesGroup, FlightInvariance, PTL

(* The invariant of every restoration, with that of the group.             *)
THEOREM RestorationInvariance == Spec => []RestorationInv
BY RestorationInit, NextKeepsRestoration, FlightsHold, PTL DEF Spec

(* A workload that could not be started ends the restoration: the flight   *)
(* reports it and begins no further stage.                                 *)
THEOREM FailuresStopRestorations == Spec => []FailureStopsRestoration
<1>1. RestorationInv => FailureStopsRestoration
  <2> SUFFICES ASSUME RestorationInv, NEW q \in Request, NEW s \in Service,
                      body[q][s] = "failed"
               PROVE  /\ s \in restoration[q].stage
                      /\ worker[q].at = "done" => worker[q].err = "error"
    BY DEF FailureStopsRestoration
  <2>1. restoration[q].todo # {}
    BY DEF RestorationInv, OnlyLeadersPlan
  <2>2. s \in restoration[q].stage
    BY <2>1 DEF RestorationInv, StagesInOrder
  <2>3. QED
    BY <2>1, <2>2 DEF RestorationInv, OutcomesAreTrue
<1>2. QED
  BY <1>1, RestorationInvariance, PTL

(* The goroutine of a workload runs only when those of the unready         *)
(* workloads it depends on are done, those of a cycle excepted.            *)
THEOREM StagesWait == Spec => []StagesWaitForEachOther
<1>1. RestorationInv => StagesWaitForEachOther
  <2> SUFFICES ASSUME RestorationInv, NEW q \in Request, NEW s \in Service,
                      NEW d \in Service, body[q][s] # "none",
                      d \in restoration[q].graph.children[s] \cap PlanOf(q)
               PROVE  body[q][d] = "done" \/ {s, d} \subseteq restoration[q].stage
    BY DEF StagesWaitForEachOther, PlanOf
  <2>1. restoration[q].todo # {}
    BY DEF RestorationInv, OnlyLeadersPlan
  <2>2. s \in Behind(q) \cup restoration[q].stage
    BY <2>1 DEF RestorationInv, StagesInOrder
  <2>3. CASE d \in Behind(q)
    BY <2>1, <2>3 DEF RestorationInv, StagesInOrder
  <2>4. CASE d \in restoration[q].todo
    <3>1. s \notin Behind(q)
      BY <2>1, <2>4 DEF RestorationInv, StagesInOrder, Behind
    <3>2. s \in restoration[q].stage
      BY <2>2, <3>1
    <3>3. restoration[q].stage = restoration[q].todo
      BY <2>1, <2>4, <3>2, StageFacts DEF RestorationInv, StagesInOrder
    <3>4. QED
      BY <2>4, <3>2, <3>3
  <2>5. QED
    BY <2>3, <2>4 DEF Behind
<1>2. QED
  BY <1>1, RestorationInvariance, PTL

(* What a request holds when its flight is over stays as it is.            *)
LEMMA FinishedStays ==
  ASSUME RestorationInv, FlightInv, [Next]_vars, NEW q \in Request, worker[q].at = "done"
  PROVE  UNCHANGED <<worker[q], restoration[q], body[q]>>
<1>1. CASE UNCHANGED vars
  BY <1>1 DEF vars, flightVars
<1>2. ASSUME NEW p \in Request, Serve(p) \/ Expire(p) \/ Disconnect(p) \/ Share(p)
      PROVE  UNCHANGED <<worker[q], restoration[q], body[q]>>
  <2>1. /\ UNCHANGED <<restoration, body>>
        /\ StartWorker(p) \/ Lead(p) \/ Join(p) \/ Wake(p) \/ UNCHANGED worker
    BY <1>2 DEF Serve, Arrive, Reply, GiveUp, TakeResult, Expire, Disconnect, Share, flightVars
  <2>2. UNCHANGED worker[q]
    BY <2>1 DEF StartWorker, Lead, Join, Wake, FlightInv, FlightTypeOK
  <2>3. QED
    BY <2>1, <2>2
<1>3. ASSUME NEW p \in Request, Plan(p) \/ EndStage(p)
      PROVE  UNCHANGED <<worker[q], restoration[q], body[q]>>
  <2>1. worker[p].at = "leading"
    BY <1>3 DEF Plan, EndStage, StageOver
  <2>2. \/ UNCHANGED <<restoration, body>> /\ \E err \in Outcome : EndFlight(p, err)
        \/ UNCHANGED worker /\ \E g, todo : EnterStage(p, g, todo)
    BY <1>3 DEF Plan, EndStage, Outcome, flightVars
  <2>3. QED
    BY <2>1, <2>2 DEF EndFlight, EnterStage, FlightInv, FlightTypeOK, RestorationInv, BodyTypes
<1>4. ASSUME NEW p \in Request, NEW s \in Service, Restore(p, s)
      PROVE  UNCHANGED <<worker[q], restoration[q], body[q]>>
  <2>1. UNCHANGED <<worker, restoration>> /\ body[p][s] \in Working
    BY <1>4, RestoreMovesOne DEF flightVars
  <2>2. restoration[p].todo # {}
    BY <2>1 DEF RestorationInv, OnlyLeadersPlan, Working
  <2>3. s \in restoration[p].stage
    BY <2>1, <2>2 DEF RestorationInv, StagesInOrder, Working
  <2>4. p # q
    BY <2>1, <2>2, <2>3 DEF RestorationInv, OutcomesAreTrue, Working
  <2>5. QED
    BY <1>4, <2>1, <2>4, RestoreMovesOne DEF Proceeds, RestorationInv, BodyTypes
<1>5. ASSUME NEW s \in Service, BecomeReady(s) \/ Reclaim(s)
      PROVE  UNCHANGED <<worker[q], restoration[q], body[q]>>
  BY <1>5 DEF BecomeReady, Reclaim, flightVars
<1>6. QED
  BY <1>1, <1>2, <1>3, <1>4, <1>5 DEF Next, Flight

(* The flight that ends after its last stage has restored its whole plan.  *)
LEMMA LastStageRestoresAll ==
  ASSUME RestorationInv, FlightInv, NEW q \in Request, EndStage(q), warm' # warm
  PROVE  /\ warm' = warm \cup {Target(q)}
         /\ worker'[q].at = "done" /\ worker'[q].err = "nil"
         /\ UNCHANGED <<restoration, body>>
         /\ \A d \in PlanOf(q) : body[q][d] = "done"
<1> DEFINE r == restoration[q]
<1>1. /\ EndFlight(q, "nil") /\ UNCHANGED <<restoration, body>>
      /\ warm' = warm \cup {Target(q)}
      /\ r.todo \subseteq r.stage /\ r.stage # {}
      /\ \A s \in r.stage : body[q][s] = "done"
  BY DEF EndStage, StageOver
<1>2. \A d \in Behind(q) : body[q][d] = "done"
  BY <1>1 DEF RestorationInv, OnlyLeadersPlan, StagesInOrder
<1>3. worker'[q].at = "done" /\ worker'[q].err = "nil"
  BY <1>1 DEF EndFlight, FlightInv, FlightTypeOK, Worker
<1>4. QED
  BY <1>1, <1>2, <1>3 DEF Behind

(* A cooldown is recorded only after a flight that restored its whole plan *)
(* without an error.                                                       *)
THEOREM CooldownFollowsRestoration == Spec => []WarmAfterRestoration
<1>1. Init => WarmAfterRestoration
  BY DEF Init, WarmAfterRestoration
<1>2. RestorationInv /\ FlightInv /\ WarmAfterRestoration /\ [Next]_vars
        => WarmAfterRestoration'
  <2> SUFFICES ASSUME RestorationInv, FlightInv, WarmAfterRestoration, [Next]_vars,
                      NEW s \in warm'
               PROVE  \E q \in Request :
                        /\ Target(q) = s
                        /\ worker'[q].at = "done" /\ worker'[q].err = "nil"
                        /\ \A d \in PlanOf(q)' : body'[q][d] = "done"
    BY DEF WarmAfterRestoration, PlanOf, Target
  <2>1. CASE s \in warm
    <3>1. PICK q \in Request :
            /\ Target(q) = s
            /\ worker[q].at = "done" /\ worker[q].err = "nil"
            /\ \A d \in PlanOf(q) : body[q][d] = "done"
      BY <2>1 DEF WarmAfterRestoration, PlanOf
    <3>2. UNCHANGED <<worker[q], restoration[q], body[q]>>
      BY <3>1, FinishedStays
    <3>3. QED
      BY <3>1, <3>2 DEF PlanOf, Target
  <2>2. CASE s \notin warm
    <3>1. PICK q \in Request : EndStage(q)
      BY <2>2 DEF Next, vars, Serve, Arrive, Reply, GiveUp, TakeResult, Expire, Disconnect,
         Flight, Share, Plan, Restore, BecomeReady, Reclaim
    <3>2. QED
      BY <2>2, <3>1, LastStageRestoresAll DEF PlanOf, Target
  <2>3. QED
    BY <2>1, <2>2
<1>3. QED
  BY <1>1, <1>2, RestorationInvariance, FlightsHold, PTL DEF Spec
(* A flight that moves on to another stage has less left of its plan.      *)
PlansShrink ==
  [][\A q \in Request :
       restoration[q].todo # {} /\ restoration'[q] # restoration[q] =>
         /\ restoration'[q].todo \subseteq restoration[q].todo
         /\ restoration'[q].todo # restoration[q].todo]_vars

(* Why restoreWorkloadWithDependencies ends, whatever cycles the services  *)
(* declare: there are finitely many, and no stage is entered again.        *)
THEOREM FlightsMakeProgress == Spec => PlansShrink
<1> DEFINE Shrink ==
      \A q \in Request :
        restoration[q].todo # {} /\ restoration'[q] # restoration[q] =>
          /\ restoration'[q].todo \subseteq restoration[q].todo
          /\ restoration'[q].todo # restoration[q].todo
<1>1. RestorationInv /\ [Next]_vars => [Shrink]_vars
  <2> SUFFICES ASSUME RestorationInv, Next,
                      NEW q \in Request, restoration[q].todo # {},
                      restoration'[q] # restoration[q]
               PROVE  /\ restoration'[q].todo \subseteq restoration[q].todo
                      /\ restoration'[q].todo # restoration[q].todo
    OBVIOUS
  <2>1. PICK p \in Request : Plan(p) \/ EndStage(p)
    <3>1. \A s \in Service : ~(BecomeReady(s) \/ Reclaim(s))
      BY DEF BecomeReady, Reclaim
    <3>2. \A p \in Request : ~(Serve(p) \/ Expire(p) \/ Disconnect(p) \/ Share(p))
      BY DEF Serve, Arrive, Reply, GiveUp, TakeResult, Expire, Disconnect, Share
    <3>3. \A p \in Request : \A s \in Service : ~Restore(p, s)
      BY DEF Restore
    <3>4. QED
      BY <3>1, <3>2, <3>3 DEF Next, Flight
  <2>2. PICK g, todo : EnterStage(p, g, todo)
                         /\ (EndStage(p) => todo = restoration[p].todo \ restoration[p].stage)
                         /\ (Plan(p) => restoration[p].todo = {})
    BY <2>1 DEF Plan, EndStage, StageOver
  <2>3. p = q
    BY <2>2 DEF EnterStage, RestorationInv, BodyTypes
  <2>4. /\ restoration'[q].todo = restoration[q].todo \ restoration[q].stage
        /\ restoration[q].stage # {} /\ EndStage(q)
    <3>1. EndStage(q) /\ restoration[q].stage # {}
      BY <2>1, <2>2, <2>3 DEF EndStage, StageOver
    <3>2. restoration'[q] = [graph |-> g, todo |-> todo, stage |-> Dag!NextStage(g, todo)]
      BY <2>2, <2>3 DEF EnterStage, RestorationInv, BodyTypes
    <3>3. QED
      BY <2>2, <2>3, <3>1, <3>2
  <2>5. restoration[q].stage \subseteq restoration[q].todo
    BY StageFacts DEF RestorationInv, StagesInOrder
  <2>6. QED
    BY <2>4, <2>5
<1>2. QED
  BY <1>1, RestorationInvariance, PTL DEF Spec, PlansShrink

----------------------------------------------------------------------------
(* What the discovery finds: the lists of pods and records come in some    *)
(* order, and the graph does not depend on it.                             *)

(* SetToSeq lists every element.                                           *)
LEMMA ListingIsComplete ==
  ASSUME NEW S, IsFiniteSet(S)
  PROVE  /\ Cardinality(S) \in Nat
         /\ SetToSeq(S) \in [1 .. Cardinality(S) -> S]
         /\ \A s \in S : \E i \in 1 .. Cardinality(S) : SetToSeq(S)[i] = s
<1> DEFINE D == 1 .. Cardinality(S)
<1>1. Cardinality(S) \in Nat /\ ExistsBijection(D, S)
  BY FS_CardinalityType
<1>2. \E f \in [D -> S] : IsInjective(f)
  BY <1>1 DEF ExistsBijection, Bijection, Injection
<1>3. SetToSeq(S) \in [D -> S] /\ IsInjective(SetToSeq(S))
  BY <1>2 DEF SetToSeq
<1>4. SetToSeq(S) \in Injection(D, S)
  BY <1>3 DEF Injection
<1>5. Cardinality(D) = Cardinality(S)
  BY <1>1, FS_Interval
<1>6. SetToSeq(S) \in Surjection(D, S)
  BY <1>4, <1>5, FS_Injection
<1>7. QED
  BY <1>1, <1>3, <1>6 DEF Surjection

(* The list that BuildGraph gets: first the pods that were read, then the  *)
(* records and the target, without dependencies and not ready.             *)
Seen(podsRead) == IF podsRead THEN RunningPods ELSE {}

IsListOf(list, m, P) ==
  /\ DOMAIN list \subseteq Nat
  /\ \A i \in DOMAIN list :
       IF i <= m THEN list[i].key \in P /\ list[i] = PodInfo(list[i].key)
                 ELSE list[i] = RecordInfo(list[i].key)
  /\ \A s \in P : \E i \in DOMAIN list : i <= m /\ list[i].key = s

LEMMA FunctionIsSeq ==
  ASSUME NEW S, NEW k \in Nat, NEW f \in [1 .. k -> S]
  PROVE  f \in Seq(S) /\ Len(f) = k
<1>1. f \in Seq(S)
  BY SeqDef
<1>2. DOMAIN f = 1 .. k /\ DOMAIN f = 1 .. Len(f) /\ Len(f) \in Nat
  BY <1>1, LenProperties
<1>3. QED
  BY <1>1, <1>2

(* Two lists and an element at the end.                                    *)
LEMMA ThreeLists ==
  ASSUME NEW S, NEW m \in Nat, NEW n \in Nat, NEW f \in [1 .. m -> S],
         NEW g \in [1 .. n -> S], NEW e \in S
  PROVE  LET list == f \o g \o <<e>>
         IN  /\ DOMAIN list = 1 .. m + n + 1
             /\ \A i \in 1 .. m : list[i] = f[i]
             /\ \A i \in m + 1 .. m + n : list[i] = g[i - m]
             /\ list[m + n + 1] = e
<1> DEFINE both == f \o g
           last == <<e>>
<1>1. f \in Seq(S) /\ Len(f) = m /\ g \in Seq(S) /\ Len(g) = n
  BY FunctionIsSeq
<1>2. /\ both \in Seq(S) /\ Len(both) = m + n
      /\ \A i \in 1 .. m + n : both[i] = IF i <= m THEN f[i] ELSE g[i - m]
  BY <1>1, ConcatProperties
<1>3. last \in Seq(S) /\ Len(last) = 1 /\ last[1] = e
  OBVIOUS
<1> HIDE DEF both, last
<1>4. /\ both \o last \in Seq(S) /\ Len(both \o last) = m + n + 1
      /\ \A i \in 1 .. m + n + 1 :
           (both \o last)[i] = IF i <= m + n THEN both[i] ELSE last[i - (m + n)]
  <2>1. /\ both \o last \in Seq(S) /\ Len(both \o last) = Len(both) + Len(last)
        /\ \A i \in 1 .. Len(both) + Len(last) :
             (both \o last)[i] = IF i <= Len(both) THEN both[i] ELSE last[i - Len(both)]
    BY <1>2, <1>3, ConcatProperties
  <2>2. QED
    BY <1>2, <1>3, <2>1
<1>5. DOMAIN (both \o last) = 1 .. m + n + 1
  BY <1>4, LenProperties
<1>6. /\ \A i \in 1 .. m : (both \o last)[i] = f[i]
      /\ \A i \in m + 1 .. m + n : (both \o last)[i] = g[i - m]
      /\ (both \o last)[m + n + 1] = e
  BY <1>2, <1>3, <1>4
<1>7. QED
  BY <1>5, <1>6 DEF both, last

LEMMA ListOfPodsAndRecords ==
  ASSUME NEW P, NEW R, NEW x, IsFiniteSet(P), IsFiniteSet(R)
  PROVE  IsListOf(Listing(P, PodInfo) \o Listing(R, RecordInfo) \o <<RecordInfo(x)>>,
                  Cardinality(P), P)
<1> DEFINE m == Cardinality(P)
           n == Cardinality(R)
           pods == Listing(P, PodInfo)
           recs == Listing(R, RecordInfo)
           list == pods \o recs \o <<RecordInfo(x)>>
<1>1. /\ m \in Nat /\ n \in Nat
      /\ SetToSeq(P) \in [1 .. m -> P] /\ SetToSeq(R) \in [1 .. n -> R]
      /\ \A s \in P : \E i \in 1 .. m : SetToSeq(P)[i] = s
  BY ListingIsComplete
<1>2. /\ pods = [i \in 1 .. m |-> PodInfo(SetToSeq(P)[i])]
      /\ recs = [i \in 1 .. n |-> RecordInfo(SetToSeq(R)[i])]
  BY <1>1 DEF Listing
<1>3. \A s : PodInfo(s).key = s /\ RecordInfo(s).key = s
  BY DEF PodInfo, RecordInfo
<1> DEFINE Info == {PodInfo(s) : s \in P} \cup {RecordInfo(s) : s \in R \cup {x}}
<1>4. pods \in [1 .. m -> Info] /\ recs \in [1 .. n -> Info] /\ RecordInfo(x) \in Info
  BY <1>1, <1>2
<1>5. /\ DOMAIN list = 1 .. m + n + 1
      /\ \A i \in 1 .. m : list[i] = pods[i]
      /\ \A i \in m + 1 .. m + n : list[i] = recs[i - m]
      /\ list[m + n + 1] = RecordInfo(x)
  <2>1. m \in Nat /\ n \in Nat
    BY <1>1
  <2> DEFINE e == RecordInfo(x)
  <2>2. e \in Info
    BY <1>4
  <2>3. list = pods \o recs \o <<e>>
    OBVIOUS
  <2> HIDE DEF pods, recs, Info, m, n, e
  <2>4. /\ DOMAIN (pods \o recs \o <<e>>) = 1 .. m + n + 1
        /\ \A i \in 1 .. m : (pods \o recs \o <<e>>)[i] = pods[i]
        /\ \A i \in m + 1 .. m + n : (pods \o recs \o <<e>>)[i] = recs[i - m]
        /\ (pods \o recs \o <<e>>)[m + n + 1] = e
    BY <1>4, <2>1, <2>2, ThreeLists, SMTT(60)
  <2>5. e = RecordInfo(x)
    BY DEF e
  <2> HIDE DEF list
  <2>6. QED
    BY <2>3, <2>4, <2>5
<1>6. \A i \in 1 .. m : list[i] = PodInfo(SetToSeq(P)[i]) /\ SetToSeq(P)[i] \in P
  BY <1>1, <1>2, <1>5
<1>7. ASSUME NEW i \in m + 1 .. m + n + 1
      PROVE  \E s : list[i] = RecordInfo(s)
  <2>1. CASE i = m + n + 1
    BY <1>5, <2>1
  <2>2. CASE i # m + n + 1
    <3>1. i \in m + 1 .. m + n /\ i - m \in 1 .. n
      BY <1>1, <2>2
    <3>2. list[i] = recs[i - m]
      BY <1>5, <3>1
    <3> HIDE DEF list, m, n, recs
    <3>3. recs[i - m] = RecordInfo(SetToSeq(R)[i - m])
      BY <1>2, <3>1
    <3>4. QED
      BY <3>2, <3>3
  <2>3. QED
    BY <2>1, <2>2
<1> HIDE DEF list, m, n, pods, recs, Info
<1>8. ASSUME NEW i \in DOMAIN list
      PROVE  IF i <= m THEN list[i].key \in P /\ list[i] = PodInfo(list[i].key)
                       ELSE list[i] = RecordInfo(list[i].key)
  BY <1>1, <1>3, <1>5, <1>6, <1>7
<1>9. \A s \in P : \E i \in DOMAIN list : i <= m /\ list[i].key = s
  BY <1>1, <1>3, <1>5, <1>6
<1>10. IsListOf(list, m, P)
  BY <1>1, <1>5, <1>8, <1>9 DEF IsListOf
<1>11. QED
  BY <1>10 DEF list, m, pods, recs

LEMMA LeastNumber ==
  ASSUME NEW T, T \subseteq Nat, T # {}
  PROVE  \E n \in T : \A k \in T : n <= k
<1>1. PICK n \in T : \A k \in T : ~ (<<k, n>> \in OpToRel(<, Nat))
  BY NatLessThanWellFounded, WFMin
<1>2. \A k \in T : ~ (k < n)
  BY <1>1 DEF OpToRel
<1>3. QED
  BY <1>2

(* The first description of a workload: that of its pod, if it has one.    *)
LEMMA FirstDescription ==
  ASSUME NEW list, NEW m \in Nat, NEW P, IsListOf(list, m, P), NEW s,
         s \in {list[i].key : i \in DOMAIN list}
  PROVE  Dag!FirstInfo(list, s) = IF s \in P THEN PodInfo(s) ELSE RecordInfo(s)
<1> DEFINE T == {i \in DOMAIN list : list[i].key = s}
           first == CHOOSE i \in DOMAIN list :
                      /\ list[i].key = s
                      /\ \A j \in DOMAIN list : list[j].key = s => i <= j
<1>1. T \subseteq Nat /\ T # {}
  BY DEF IsListOf
<1>2. PICK n \in T : \A k \in T : n <= k
  <2> HIDE DEF T
  <2>1. QED
    BY <1>1, LeastNumber
<1>3. /\ first \in DOMAIN list /\ list[first].key = s
      /\ \A j \in DOMAIN list : list[j].key = s => first <= j
  BY <1>2
<1>4. Dag!FirstInfo(list, s) = list[first]
  BY DEF Dag!FirstInfo
<1> HIDE DEF first
<1>5. CASE s \in P
  <2>1. PICK i \in DOMAIN list : i <= m /\ list[i].key = s
    BY <1>5 DEF IsListOf
  <2>2. first <= m
    <3>1. first \in Nat /\ i \in Nat /\ first <= i
      BY <1>3, <2>1 DEF IsListOf
    <3>2. QED
      BY <2>1, <3>1
  <2>3. QED
    BY <1>3, <1>4, <1>5, <2>2 DEF IsListOf
<1>6. CASE s \notin P
  BY <1>3, <1>4, <1>6 DEF IsListOf
<1>7. QED
  BY <1>5, <1>6

(* discoverWorkloadGraph and BuildGraph: whatever the order of the lists,  *)
(* a workload depends on what its running pod declares, and one without a  *)
(* pod on nothing; only pods make it ready.                                *)
THEOREM DiscoveryFollowsPods ==
  ASSUME records \subseteq Service, NEW q \in Request,
         NEW podsRead \in BOOLEAN, NEW recordsRead \in BOOLEAN
  PROVE  Discovered(q, podsRead, recordsRead) =
           [children |-> [s \in Service |->
                            IF s \in Seen(podsRead) THEN Declares[s] ELSE {}],
            ready    |-> {s \in Seen(podsRead) : instance[s] = "Ready"}]
<1> DEFINE P == Seen(podsRead)
           R == IF recordsRead THEN records ELSE {}
           list == Listing(P, PodInfo) \o Listing(R, RecordInfo) \o <<RecordInfo(Target(q))>>
           m == Cardinality(P)
<1>1. P \subseteq Service /\ IsFiniteSet(P) /\ IsFiniteSet(R) /\ m \in Nat
  <2>1. P \subseteq Service /\ R \subseteq Service
    BY DEF Seen, RunningPods
  <2> HIDE DEF P, R
  <2>2. IsFiniteSet(P) /\ IsFiniteSet(R)
    BY <2>1, ActivatorAssumption, FS_Subset
  <2>3. QED
    BY <2>1, <2>2, FS_CardinalityType
<1>2. Discovered(q, podsRead, recordsRead) = Dag!BuildGraph(list)
  BY DEF Discovered, Seen
<1>3. IsListOf(list, m, P)
  <2> HIDE DEF P, R
  <2>1. QED
    BY <1>1, ListOfPodsAndRecords
<1> HIDE DEF P, R, list, m
<1> DEFINE listed == {list[i].key : i \in DOMAIN list}
<1>4. P \subseteq listed
  BY <1>3 DEF IsListOf
<1>5. ASSUME NEW s \in listed
      PROVE  Dag!FirstInfo(list, s).deps = IF s \in P THEN Declares[s] ELSE {}
  <2>1. Dag!FirstInfo(list, s) = IF s \in P THEN PodInfo(s) ELSE RecordInfo(s)
    BY <1>1, <1>3, FirstDescription
  <2>2. QED
    BY <2>1 DEF PodInfo, RecordInfo
<1>6. {list[i].key : i \in {j \in DOMAIN list : list[j].ready}}
        = {s \in P : instance[s] = "Ready"}
  <2>1. ASSUME NEW i \in DOMAIN list
        PROVE  list[i].ready <=> i <= m /\ instance[list[i].key] = "Ready"
    <3>1. \A s : (PodInfo(s).ready <=> instance[s] = "Ready") /\ ~RecordInfo(s).ready
      BY DEF PodInfo, RecordInfo
    <3>2. CASE i <= m
      BY <1>3, <3>1, <3>2 DEF IsListOf
    <3>3. CASE ~(i <= m)
      BY <1>3, <3>1, <3>3 DEF IsListOf
    <3>4. QED
      BY <3>2, <3>3
  <2>2. \A i \in DOMAIN list : i <= m => list[i].key \in P
    BY <1>3 DEF IsListOf
  <2>3. \A s \in P : \E i \in DOMAIN list : i <= m /\ list[i].key = s
    BY <1>3 DEF IsListOf
  <2>4. QED
    BY <2>1, <2>2, <2>3
<1>7. [s \in Service |-> IF s \in listed THEN Dag!FirstInfo(list, s).deps ELSE {}]
        = [s \in Service |-> IF s \in P THEN Declares[s] ELSE {}]
  BY <1>4, <1>5
<1>8. Dag!BuildGraph(list) =
        [children |-> [s \in Service |-> IF s \in P THEN Declares[s] ELSE {}],
         ready    |-> {s \in P : instance[s] = "Ready"}]
  BY <1>6, <1>7 DEF Dag!BuildGraph
<1>9. QED
  BY <1>2, <1>8 DEF P

----------------------------------------------------------------------------
(* Type correctness.                                                       *)

LEMMA DiscoveredIsGraph ==
  ASSUME records \subseteq Service, NEW q \in Request,
         NEW podsRead \in BOOLEAN, NEW recordsRead \in BOOLEAN
  PROVE  Discovered(q, podsRead, recordsRead) \in Dag!Graph
<1>1. Seen(podsRead) \subseteq Service
  BY DEF Seen, RunningPods
<1>2. QED
  BY <1>1, DiscoveryFollowsPods, ActivatorAssumption DEF Dag!Graph

(* The type of a restoration.                                              *)
Restoration == [graph : Dag!Graph, todo : SUBSET Service, stage : SUBSET Service]

LEMMA EnterStageIsTyped ==
  ASSUME restoration \in [Request -> Restoration], NEW q, NEW g \in Dag!Graph,
         NEW todo \in SUBSET Service, EnterStage(q, g, todo)
  PROVE  restoration' \in [Request -> Restoration]
<1> DEFINE r == [graph |-> g, todo |-> todo, stage |-> Dag!NextStage(g, todo)]
<1>1. Dag!NextStage(g, todo) \subseteq todo
  BY DEF Dag!NextStage, Dag!Free
<1>2. r \in Restoration
  BY <1>1 DEF Restoration
<1>3. restoration' = [restoration EXCEPT ![q] = r]
  BY DEF EnterStage
<1> HIDE DEF r
<1>4. QED
  BY <1>2, <1>3

(* The cluster and the budgets.                                            *)
ClusterTypes ==
  /\ instance \in [Service -> Instance] /\ records \in SUBSET Service
  /\ faults \in 0 .. MaxFaults /\ reclaims \in 0 .. MaxReclaims /\ calm \in BOOLEAN

LEMMA BudgetsAreKept ==
  ASSUME ClusterTypes
  PROVE  /\ Fault => faults' \in 0 .. MaxFaults
         /\ reclaims < MaxReclaims => reclaims + 1 \in 0 .. MaxReclaims
BY ActivatorAssumption DEF ClusterTypes, Fault

LEMMA RestoreKeepsCluster ==
  ASSUME ClusterTypes, NEW q \in Request, NEW s \in Service, Restore(q, s)
  PROVE  ClusterTypes'
<1>1. UNCHANGED instance \/ Started(s)
  BY DEF Restore, FindRecord, RestoreRecord, RestoreRejected, ScaleFallback, WaitEnds,
     RestoreBreaks, CallFails, clusterVars
<1>2. instance' \in [Service -> Instance]
  BY <1>1 DEF Started, ClusterTypes, Instance
<1>3. records' = records \/ records' = records \ {s}
  BY DEF Restore, FindRecord, RestoreRecord, RestoreRejected, ScaleFallback, WaitEnds,
     RestoreBreaks, CallFails, clusterVars
<1>4. UNCHANGED <<reclaims, calm>> /\ (UNCHANGED faults \/ Fault)
  BY DEF Restore
<1>5. QED
  BY <1>2, <1>3, <1>4, BudgetsAreKept DEF ClusterTypes

(* One step of a request or of the cluster.                                *)
LEMMA ServeIsTyped ==
  ASSUME TypeOK, NEW q \in Request, Serve(q) \/ Expire(q) \/ Disconnect(q)
  PROVE  /\ handler' \in [Request -> HandlerState] /\ ClusterTypes'
         /\ UNCHANGED <<restoration, warm>>
<1>1. \E state \in HandlerState : Moves(q, state)
  BY DEF Serve, Arrive, Reply, Expire, GiveUp, TakeResult, Disconnect, HandlerState, Closed,
     Answered
<1>2. handler' \in [Request -> HandlerState]
  BY <1>1 DEF Moves, TypeOK
<1>3. /\ UNCHANGED <<restoration, clusterVars, warm, reclaims, calm>>
      /\ UNCHANGED faults \/ Fault
  BY DEF Serve, Arrive, Reply, Expire, GiveUp, TakeResult, Disconnect, budgetVars
<1>4. ClusterTypes
  BY DEF TypeOK, ClusterTypes
<1>5. QED
  BY <1>2, <1>3, <1>4, BudgetsAreKept DEF ClusterTypes, clusterVars

LEMMA FlightIsTyped ==
  ASSUME TypeOK, NEW q \in Request, Flight(q)
  PROVE  /\ handler' = handler /\ ClusterTypes'
         /\ restoration' \in [Request -> Restoration] /\ warm' \in SUBSET Service
<1>1. /\ ClusterTypes /\ restoration \in [Request -> Restoration] /\ warm \in SUBSET Service
      /\ Target(q) \in Service
  BY FlightAssumption DEF TypeOK, ClusterTypes, Restoration, Target
<1>2. CASE Share(q)
  BY <1>1, <1>2 DEF Share, ClusterTypes, clusterVars, budgetVars
<1>3. CASE Plan(q)
  <2>1. UNCHANGED <<handler, instance, records, warm, reclaims, calm>>
        /\ (UNCHANGED faults \/ Fault)
    BY <1>3 DEF Plan, clusterVars
  <2>2. ClusterTypes'
    BY <1>1, <2>1, BudgetsAreKept DEF ClusterTypes
  <2>3. PICK podsRead \in BOOLEAN, recordsRead \in BOOLEAN :
          LET g == Discovered(q, podsRead, recordsRead)
          IN  \/ UNCHANGED restoration
              \/ EnterStage(q, g, Dag!UnreadySubGraph(g, Target(q)))
    BY <1>3 DEF Plan
  <2>4. restoration' \in [Request -> Restoration]
    <3> DEFINE g == Discovered(q, podsRead, recordsRead)
    <3>1. g \in Dag!Graph
      BY <1>1, DiscoveredIsGraph DEF ClusterTypes
    <3> HIDE DEF g
    <3>2. Dag!UnreadySubGraph(g, Target(q)) \in SUBSET Service
      BY <1>1, PlanFacts
    <3>3. UNCHANGED restoration \/ EnterStage(q, g, Dag!UnreadySubGraph(g, Target(q)))
      BY <2>3 DEF g
    <3>4. QED
      BY <1>1, <3>1, <3>2, <3>3, EnterStageIsTyped
  <2>5. QED
    BY <1>1, <2>1, <2>2, <2>4
<1>4. CASE EndStage(q)
  <2>1. /\ UNCHANGED <<handler, clusterVars, budgetVars>>
        /\ warm' = warm \/ warm' = warm \cup {Target(q)}
        /\ \/ UNCHANGED restoration
           \/ EnterStage(q, restoration[q].graph, restoration[q].todo \ restoration[q].stage)
    BY <1>4 DEF EndStage
  <2>2. /\ restoration[q].graph \in Dag!Graph
        /\ restoration[q].todo \ restoration[q].stage \in SUBSET Service
    BY <1>1 DEF Restoration
  <2>3. restoration' \in [Request -> Restoration]
    BY <1>1, <2>1, <2>2, EnterStageIsTyped
  <2>4. QED
    BY <1>1, <2>1, <2>3 DEF ClusterTypes, clusterVars, budgetVars
<1>5. ASSUME NEW s \in Service, Restore(q, s)
      PROVE  ClusterTypes' /\ UNCHANGED <<handler, restoration, warm>>
  BY <1>1, <1>5, RestoreKeepsCluster DEF Restore
<1>6. QED
  BY <1>1, <1>2, <1>3, <1>4, <1>5 DEF Flight

(* Type correctness of requests, flights, goroutines and the cluster: the  *)
(* discovered graph is one, and stages are sets of services.               *)
THEOREM ActivatorTypeCorrect == Spec => []TypeOK
<1>1. Init => TypeOK
  <2> SUFFICES ASSUME Init PROVE TypeOK
    OBVIOUS
  <2>1. NoGraph \in Dag!Graph
    BY DEF NoGraph, Dag!BuildGraph, Dag!Graph
  <2>2. NoRestoration \in Restoration
    BY <2>1 DEF NoRestoration, Restoration
  <2>3. restoration \in [Request -> Restoration]
    BY <2>2 DEF Init
  <2>4. FlightTypeOK
    BY FlightInitInv DEF Init, FlightInv
  <2>5. handler \in [Request -> HandlerState] /\ body \in [Request -> [Service -> BodyState]]
    BY DEF Init, HandlerState, BodyState
  <2>6. faults \in 0 .. MaxFaults /\ reclaims \in 0 .. MaxReclaims
    BY ActivatorAssumption DEF Init
  <2>7. QED
    BY <2>3, <2>4, <2>5, <2>6 DEF Init, TypeOK, Restoration
<1>2. TypeOK /\ FlightInv' /\ RestorationInv' /\ [Next]_vars => TypeOK'
  <2> SUFFICES ASSUME TypeOK, FlightInv', RestorationInv', [Next]_vars PROVE TypeOK'
    OBVIOUS
  <2>1. FlightTypeOK' /\ body' \in [Request -> [Service -> BodyState]]
    BY DEF FlightInv, RestorationInv, BodyTypes
  <2>2. SUFFICES /\ handler' \in [Request -> HandlerState] /\ ClusterTypes'
                 /\ restoration' \in [Request -> Restoration] /\ warm' \in SUBSET Service
    BY <2>1, <2>2 DEF TypeOK, ClusterTypes, Restoration
  <2>3. /\ handler \in [Request -> HandlerState] /\ ClusterTypes
        /\ restoration \in [Request -> Restoration] /\ warm \in SUBSET Service
    BY DEF TypeOK, ClusterTypes, Restoration
  <2>4. CASE UNCHANGED vars
    BY <2>3, <2>4 DEF vars, clusterVars, budgetVars, ClusterTypes
  <2>5. CASE \E q \in Request : Serve(q) \/ Expire(q) \/ Disconnect(q)
    BY <2>3, <2>5, ServeIsTyped
  <2>6. CASE \E q \in Request : Flight(q)
    BY <2>3, <2>6, FlightIsTyped
  <2>7. ASSUME NEW s \in Service, BecomeReady(s) \/ Reclaim(s)
        PROVE  ClusterTypes' /\ UNCHANGED <<handler, restoration, warm>>
    <3>1. instance' \in [Service -> Instance]
      BY <2>3, <2>7 DEF BecomeReady, Reclaim, ClusterTypes, Instance
    <3>2. QED
      BY <2>3, <2>7, <3>1, BudgetsAreKept DEF BecomeReady, Reclaim, ClusterTypes, budgetVars
  <2>8. QED
    BY <2>3, <2>4, <2>5, <2>6, <2>7 DEF Next
<1>3. QED
  BY <1>1, <1>2, FlightsHold, RestorationInvariance, PTL DEF Spec
=============================================================================
