SPECIFICATION FairSpec
CONSTANTS
  Requests = {r1, r2}
  IPs = {a}
  NoIP = NoIP
  Unknown = Unknown
  MaxTotals <- MCOneInTotal
  MaxPerIPs <- MCUnlimited
  Ids = {i1, i2}
  Streams <- MCStreams
  MaxOut = 0
  Cap = 0
  FaultSets <- MCNoneOrLateFaults
  MaxCrashes = 1
CHECK_DEADLOCK FALSE
INVARIANTS RecordsTrue IdleMeansFree
PROPERTIES EveryRequestServed LeftBehind
