\* One pod, the collector, the loop and the activator; queries may fail.
CONSTANTS
  p = p
  Pod = {p}
  NoEntry = NoEntry
  Capacity = 2
  Load <- MCLoad
  InitialTraits <- MCTraits
  InitialRequests <- MCRequests
  Answers <- MCOutages
  CPUIdleThreshold = 300
  MemoryIdleThreshold = 1000
  QPSIdleThreshold = 2
  NetIdleThreshold = 15360
  IdleCPUMillicores = 20
  IdleNetBytesPerSec = 15360
  IdleQPSThreshold = 2
  CollectorIdleCPU = 20
  CollectorIdleNet = 10240
  CollectorIdleQPS = 0
  MinIdleDuration = 2
  MinSampleCount = 2
  FullReclaimScoreThreshold = 592700
  SoftReclaimScoreThreshold = 336100
  WeightCPU = 200
  WeightMemory = 226
  WeightBenefit = 409
  WeightPriority = 64
  WeightState = 98
  WeightReplica = 3
  MaxPriorityForReclaim = 100000
  MinReplicasRequired = 1
  BenefitMaxCPU = 2000
  BenefitMaxMem = 4096
  Cooldown = 2
  WarmUp = 1
  MaxEvents = 1
SPECIFICATION FairSpec
INVARIANTS
  WindowIsRecent
  ReclaimIsEarned
PROPERTIES
  ReclaimAfterSteadyIdleness
  CooldownSeparatesReclaims
  SteadyIdleIsReclaimed
