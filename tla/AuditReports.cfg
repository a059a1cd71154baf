SPECIFICATION Spec
CONSTANTS
  Lines = {"a"}
  Markers = {"music"}
  Diagnostics = {"gate"}
  BufCap = 1
  MaxWrites = 2
  MaxRecords = 2
INVARIANTS
  ReportedOnce
CHECK_DEADLOCK FALSE
