SPECIFICATION Spec
CONSTANTS
  MaxTokens = 2
  Levels = {"all", "error"}
  Limits = {2, 4}
  DefaultLimit = 2
  MaxLimit = 3
  FallbackLimit = 1
  MaxRequests = 3
  MaxLogs = 3
  HistorySize = 2
  MaxFailures = 1
  EventSets <- MCEventSets
CHECK_DEADLOCK FALSE
INVARIANTS TypeOK OneTimer RowsAgree PageAgrees
PROPERTY BouncedOnlyWhenExpired LogSettles
