\* A copy of a pod that has its node by now is handed over.
CONSTANTS
  solo = solo
  r1 = r1
  r2 = r2
  app = app
  disk = disk
  flash = flash
  Name = {solo, r1, r2}
  Node = {disk, flash}
  NoOwner = NoOwner
  NoNode = NoNode
  NoPod = NoPod
  Deployment = {app}
  Owner <- MCOwner
  Containers <- MCContainers
  InitContainers <- MCInitContainers
  Selector <- MCSelector
  Labels <- MCLabels
  Allocatable <- MCAllocatable
  Telemetry <- MCTelemetry
  HeadroomSafetyBuffer = 105
  TargetUtilizationCeiling = 850
  WeightCPU = 50
  WeightMemory = 50
  ReclaimedNodeBonus = 15
  QueueCapacity = 1
  EnableDefaultSchedulerHandover = TRUE
  HandoverMaxRetries = 2
  MaxTimers = 1
  MaxArrivals = 1
  MaxFaults = 1
SPECIFICATION Spec
CHECK_DEADLOCK FALSE
PROPERTIES
  HandoverSparesPlacedPods
