\* The file system fails in SerialIO::store on four nodes.
SPECIFICATION FairIoSpec
CONSTANTS
  Machines <- MCMachines
  Concurrencies <- MCConcurrencies
  Glb <- MCGlb
  StoreJobs <- FourNodes
  LoadJobs = {}
  MaxRetry = 2
  MaxFaults = 1
PROPERTY ErrorEnds
CHECK_DEADLOCK FALSE
