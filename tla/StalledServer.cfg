SPECIFICATION StalledSpec
CONSTANTS
  RingCap = 2
  Hold = 1
  PauseEnabled = TRUE
  MaxLevel = 1
  MaxFrames = 2
  MaxFailures = 0
  MaxConns = 2
PROPERTIES
  CancelEndsSession
CHECK_DEADLOCK FALSE
