SPECIFICATION Spec
CONSTANTS
  RingCap = 2
  Hold = 1
  PauseEnabled = TRUE
  MaxLevel = 1
  MaxFrames = 3
  MaxFailures = 0
  MaxConns = 2
INVARIANTS
  OldConnectionIsSilent
CHECK_DEADLOCK FALSE
