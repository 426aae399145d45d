\* One bare pod, the demand loop and a direct caller, one fault.
CONSTANTS
  bare = bare
  web = web
  db = db
  Workload = {bare}
  OwnerKind <- AllBare
  MaxReplicas = 1
  loop = loop
  rest = rest
  Restorer = {loop, rest}
  DemandLoop = {loop}
  Demand = {bare}
  Reclaimer = Reclaimer
  Watchdog = Watchdog
  NoRecord = NoRecord
  NoPod = NoPod
  OptIn = {}
  Graceful = {}
  MinReplicas = 1
  PendingTimeout = 1
  MaxTime = 1
  MaxFaults = 1
  MaxCrashes = 0
SPECIFICATION Spec
CHECK_DEADLOCK FALSE
INVARIANTS
  TypeOK
  ReleasedWorkloadHasCheckpoint
  RestoredRecordNamesItsPod
PROPERTIES
  LastClaimDecides
  PhasesImplemented
