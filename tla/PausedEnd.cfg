SPECIFICATION Spec
CONSTANTS
  RingCap = 2
  Hold = 2
  PauseEnabled = TRUE
  MaxLevel = 1
  MaxFrames = 4
  MaxFailures = 0
  MaxConns = 2
INVARIANTS
  PausedEndIsSilent
CHECK_DEADLOCK FALSE
