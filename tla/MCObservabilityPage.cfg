SPECIFICATION ObsSpec
CONSTANTS
  Hour = 2
  Retention = 5
  DayLength = 3
  Start = 6
  MaxClock = 7
  MaxRows = 2
  MaxRun = 1
  IPs = {"a", ""}
  NoIP = ""
  Executions <- MCExecutions
  RecentLimit = 1
  CustomTimes = {6}
  MaxFetches = 2
  MaxFailedFetches = 1
  ObsEventSets <- MCObsEventSets
  Widths = {0, 71, 600}
  Heights = {0, 63, 320}
CHECK_DEADLOCK FALSE
INVARIANTS NumbersAgree PictureFits
PROPERTY RangeSettles
