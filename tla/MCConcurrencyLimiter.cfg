SPECIFICATION Spec
CONSTANTS
  Calls = {c1, c2, c3, c4}
  IPs = {a, b}
  NoIP = NoIP
  Unknown = Unknown
  MaxTotals <- MCMaxTotals
  MaxPerIPs <- MCMaxPerIPs
INVARIANTS Accounting Limits
PROPERTY PoolSpec
