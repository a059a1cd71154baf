SPECIFICATION FairSpec
CONSTANTS
  Levels = {1, 2}
  Settings <- MCSettings
  Startup <- MCStartup
  Admins = {a1}
  MonitorBuffer = 1
  MaxFrames = 3
  MaxChanges = 1
INVARIANTS GateMatchesReference AuditTellsGate MonitorHearsOriginal
PROPERTIES FramesReachEngine
CHECK_DEADLOCK FALSE
