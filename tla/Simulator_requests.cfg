\* A single pod that depends on a Deployment, whose pod is the third name.
CONSTANTS
  job = job
  jobCopy = jobCopy
  db = db
  dbPod = dbPod
  dbCopy = dbCopy
  Pod = {job, jobCopy, dbPod, dbCopy}
  Deployment = {db}
  Key = {job, dbPod, db}
  Owner <- MCOwner
  RestoredName <- MCRestoredName
  Checkpointed = {job, dbPod}
  Candidates = {job, dbPod}
  DependsOn <- MCDependsOn
  Protected = {}
  RecordTargets = {db}
  Request = {r1, r2}
  NoOwner = NoOwner
  NoKey = NoKey
  NoEntry = NoEntry
  MaxRequests = 2
  MaxFaults = 1
SPECIFICATION Spec
CHECK_DEADLOCK FALSE
INVARIANTS
  TypeOK
  SnapshotsAreKept
  TransitionalStatesEnd
PROPERTIES
  ReclaimedUntilRestored
