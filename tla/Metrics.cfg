SPECIFICATION Spec
CONSTANTS
  Splits <- MCSplits
  Live = TRUE
  LatencyWindow = 1
  LatencyCap = 2
  DegradedWindow = 1
  MaxClock = 2
  MaxEvents = 3
INVARIANT HealthTellsHistory
PROPERTY StatsDescribeWindow
CHECK_DEADLOCK FALSE
