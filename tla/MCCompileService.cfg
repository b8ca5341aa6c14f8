SPECIFICATION Spec
CONSTANTS
  Requests = {r1, r2, r3}
  IPs = {a, b}
  NoIP = NoIP
  Unknown = Unknown
  MaxTotals <- MCOneOrAnyInTotal
  MaxPerIPs <- MCOnePerIP
  Ids = {i1, i2}
  Streams <- MCStreams
  MaxOut = 0
  Cap = 0
  FaultSets <- MCTaskOrDeleteFaults
  MaxCrashes = 0
CHECK_DEADLOCK FALSE
SYMMETRY Symmetry
INVARIANTS TypeOK RunningWithinLimits ContainersHoldSlots EveryExecutionStored
