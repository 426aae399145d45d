\* Requests for one service, fair threads.
CONSTANTS
  api = api
  cache = cache
  r1 = r1
  r2 = r2
  r3 = r3
  NoFlight = NoFlight
  Service = {api}
  Declares <- NoDependencies
  Request = {r1, r2}
  TargetOf <- AllForApi
  Deployed = {api}
  MaxFaults = 1
  MaxReclaims = 1
SPECIFICATION FairSpec
CHECK_DEADLOCK FALSE
INVARIANTS
  OneFlightPerService
  NoStaleFlight
  OutcomeIsShared
PROPERTIES
  EveryRequestIsAnswered
  EveryRequestIsServed
  FlightsEnd
