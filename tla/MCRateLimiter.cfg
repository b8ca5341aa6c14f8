SPECIFICATION Spec
CONSTANTS
  Callers = {c1, c2}
  IPs = {a}
  Configs <- MCConfigs
  Minute = 2
  MaxDelay = 1
  MaxClock = 33
  Windows <- MCWindows
CHECK_DEADLOCK FALSE
INVARIANTS TypeOK WindowBound IdleBucketsGo
PROPERTY DenialsEarned
