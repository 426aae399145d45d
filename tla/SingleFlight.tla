---------------------------- MODULE SingleFlight ----------------------------
(***************************************************************************)
(* SingleFlightGroup (pkg/activator/buffer.go): concurrent calls of Do     *)
(* with one key share one execution of fn.  DoWithTimeout runs Do in a     *)
(* goroutine of its own, the worker of a request, which outlives the       *)
(* request when that gives up.  A request makes one call, so a flight goes *)
(* by the request that leads it.                                           *)
(***************************************************************************)
EXTENDS Naturals

CONSTANTS
  Request,
  Service,    \* the keys
  TargetOf,   \* the service each request asks for
  NoFlight

ASSUME FlightAssumption ==
  /\ TargetOf \in [Request -> Service]
  /\ NoFlight \notin Request

VARIABLES
  calls,    \* g.calls: the flight registered under each key
  worker    \* the goroutine running Do for each request

flightVars == <<calls, worker>>

Outcome == {"nil", "error"}
Worker == [at : {"none", "start", "leading", "following", "done"},
           flight : Request \cup {NoFlight},
           err : Outcome]

FlightTypeOK ==
  /\ calls \in [Service -> Request \cup {NoFlight}]
  /\ worker \in [Request -> Worker]

FlightInit ==
  /\ calls = [s \in Service |-> NoFlight]
  /\ worker = [q \in Request |->
                 [at |-> "none", flight |-> NoFlight, err |-> "nil"]]
----------------------------------------------------------------------------
(* DoWithTimeout starts the goroutine.                                     *)
StartWorker(q) ==
  /\ worker[q].at = "none"
  /\ worker' = [worker EXCEPT ![q].at = "start"]
  /\ UNCHANGED calls

(* Mutation of Lead: registers over a flight that is in progress.          *)
LeadUnchecked(q) ==
  /\ worker[q].at = "start"
  /\ calls' = [calls EXCEPT ![TargetOf[q]] = q]
  /\ worker' = [worker EXCEPT ![q].at = "leading", ![q].flight = q]

(* The first critical section of Do: look up the key and register.         *)
Lead(q) ==
  /\ worker[q].at = "start"
  /\ calls[TargetOf[q]] = NoFlight
  /\ calls' = [calls EXCEPT ![TargetOf[q]] = q]
  /\ worker' = [worker EXCEPT ![q].at = "leading", ![q].flight = q]

(* The same, when the key is taken.                                        *)
Join(q) ==
  /\ worker[q].at = "start"
  /\ calls[TargetOf[q]] # NoFlight
  /\ worker' = [worker EXCEPT ![q].at = "following",
                              ![q].flight = calls[TargetOf[q]]]
  /\ UNCHANGED calls

(* Mutation of EndFlight: only a flight that went well is removed.         *)
EndFlightKeepsFailed(q, err) ==
  /\ worker[q].at = "leading"
  /\ calls' = IF err = "nil"
                THEN [calls EXCEPT ![TargetOf[q]] = NoFlight] ELSE calls
  /\ worker' = [worker EXCEPT ![q].at = "done", ![q].err = err]

(* fn returns; the deferred function removes the flight and releases the   *)
(* callers that wait for it.                                               *)
EndFlight(q, err) ==
  /\ worker[q].at = "leading"
  /\ calls' = [calls EXCEPT ![TargetOf[q]] = NoFlight]
  /\ worker' = [worker EXCEPT ![q].at = "done", ![q].err = err]

(* Mutation of Wake: forgets the error of the flight.                      *)
WakeWithoutError(q) ==
  /\ worker[q].at = "following"
  /\ worker[worker[q].flight].at = "done"
  /\ worker' = [worker EXCEPT ![q].at = "done"]
  /\ UNCHANGED calls

(* wg.Wait returns.                                                        *)
Wake(q) ==
  /\ worker[q].at = "following"
  /\ worker[worker[q].flight].at = "done"
  /\ worker' = [worker EXCEPT ![q].at = "done",
                              ![q].err = worker[worker[q].flight].err]
  /\ UNCHANGED calls

FlightStep(q) ==
  \/ StartWorker(q) \/ Lead(q) \/ Join(q) \/ Wake(q)
  \/ \E err \in Outcome : EndFlight(q, err)

FlightNext == \E q \in Request : FlightStep(q)

FlightSpec == FlightInit /\ [][FlightNext]_flightVars
----------------------------------------------------------------------------
(* At any time at most one restoration of a service is under way, and it   *)
(* is the one new callers join.                                            *)
OneFlightPerService ==
  \A p, q \in Request :
    /\ worker[p].at = "leading"
    /\ worker[q].at = "leading"
    /\ TargetOf[p] = TargetOf[q]
    => p = q /\ calls[TargetOf[p]] = p

(* A key is taken only while its flight is under way: a flight that ended  *)
(* does not keep later callers from starting another.                      *)
NoStaleFlight ==
  \A s \in Service :
    calls[s] # NoFlight =>
      /\ worker[calls[s]].at = "leading"
      /\ TargetOf[calls[s]] = s

(* Who joins a flight gets its outcome, and it is a flight for the same    *)
(* service.                                                                *)
OutcomeIsShared ==
  \A q \in Request :
    LET f == worker[q].flight IN
    f # NoFlight =>
      /\ TargetOf[f] = TargetOf[q]
      /\ worker[f].flight = f
      /\ worker[f].at \in {"leading", "done"}
      /\ worker[q].at = "done" =>
           worker[f].at = "done" /\ worker[q].err = worker[f].err
=============================================================================
