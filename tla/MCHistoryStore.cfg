SPECIFICATION FairSpec
CONSTANTS
  Executions = {e1, e2}
  Failures = {f1}
  IPs = {a}
  NULL = NULL
  OldSchemas <- MCOldSchemas
  Retention = 3
  Period = 2
  MaxRun = 1
  MaxClock = 8
  MaxFailures = 1
  MaxCrashes = 1
CHECK_DEADLOCK FALSE
INVARIANTS TypeOK SchemaReady RetentionEnforced
PROPERTIES RowsKept ComesUp
