\* Store on one grid, load on another, with a crash at any moment.
SPECIFICATION FairIoSpec
CONSTANTS
  Machines <- MCMachines
  Concurrencies <- MCConcurrencies
  Glb <- MCGlb
  StoreJobs <- MCStoreJobs
  LoadJobs <- MCLoadJobs
  MaxRetry = 2
  MaxFaults = 1
INVARIANTS
  AtMostConcurrent
  SameSum
  NobodyForgotten
  FileInGlobalOrder
  LoadRestores
  ErrorSeenByAll
  PartsInPlaceOtherwise
  StopsForAReason
PROPERTY EndsUnlessAppendFailed
CHECK_DEADLOCK FALSE
