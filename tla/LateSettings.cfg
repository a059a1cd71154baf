SPECIFICATION Spec
CONSTANTS
  Levels = {1, 2}
  Settings <- MCSettings
  Startup <- MCStartup
  Admins = {a1}
  MonitorBuffer = 1
  MaxFrames = 2
  MaxChanges = 1
INVARIANTS SettingsToldFirst
CHECK_DEADLOCK FALSE
