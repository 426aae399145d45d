\* Every graph of three workloads.
CONSTANTS
  api = api
  cache = cache
  store = store
  Workload = {api, cache, store}
  Target = api
SPECIFICATION FairSpec
CHECK_DEADLOCK FALSE
INVARIANTS
  EachWorkloadOnce
  DependenciesFirst
  OnlyCyclesAreGrouped
PROPERTIES
  CountersFindNextStage
  ResolverReturns
