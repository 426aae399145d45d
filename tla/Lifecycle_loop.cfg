\* The demand loop alone, crashes at any point, a failed call, fair threads.
CONSTANTS
  bare = bare
  web = web
  db = db
  Workload = {bare}
  OwnerKind <- AllBare
  MaxReplicas = 1
  loop = loop
  rest = rest
  Restorer = {loop}
  DemandLoop = {loop}
  Demand = {bare}
  Reclaimer = Reclaimer
  Watchdog = Watchdog
  NoRecord = NoRecord
  NoPod = NoPod
  OptIn = {}
  Graceful = {}
  MinReplicas = 1
  PendingTimeout = 1
  MaxTime = 2
  MaxFaults = 1
  MaxCrashes = 2
SPECIFICATION FairSpec
CHECK_DEADLOCK FALSE
INVARIANTS
  AtMostOneReplacement
PROPERTIES
  DemandIsMet
