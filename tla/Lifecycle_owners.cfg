\* A graceful Deployment and a StatefulSet, both restorers.
CONSTANTS
  bare = bare
  web = web
  db = db
  Workload = {web, db}
  OwnerKind <- ByKind
  MaxReplicas = 2
  loop = loop
  rest = rest
  Restorer = {loop, rest}
  DemandLoop = {loop}
  Demand = {web, db}
  Reclaimer = Reclaimer
  Watchdog = Watchdog
  NoRecord = NoRecord
  NoPod = NoPod
  OptIn = {web, db}
  Graceful = {web}
  MinReplicas = 1
  PendingTimeout = 1
  MaxTime = 0
  MaxFaults = 1
  MaxCrashes = 0
SPECIFICATION Spec
CHECK_DEADLOCK FALSE
INVARIANTS
  ReleasedWorkloadHasCheckpoint
