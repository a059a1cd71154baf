SPECIFICATION FairSpec
CONSTANTS
  Lines = {"a"}
  Markers = {"music", "silence"}
  Diagnostics = {"gate"}
  BufCap = 2
  MaxWrites = 3
  MaxRecords = 1
INVARIANTS AuditMirrorsTranscript CompactionIsExact RetirementIsReported
PROPERTIES LinesReachTheFile
CHECK_DEADLOCK FALSE
