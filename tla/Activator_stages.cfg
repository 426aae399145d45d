\* A request for a service and one for what it depends on.
CONSTANTS
  api = api
  cache = cache
  r1 = r1
  r2 = r2
  r3 = r3
  NoFlight = NoFlight
  Service = {api, cache}
  Declares <- ApiNeedsCache
  Request = {r1, r3}
  TargetOf <- OneForCache
  Deployed = {cache}
  MaxFaults = 1
  MaxReclaims = 1
SPECIFICATION Spec
CHECK_DEADLOCK FALSE
INVARIANTS
  FailureStopsRestoration
  StagesWaitForEachOther
  WarmAfterRestoration
