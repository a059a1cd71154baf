SPECIFICATION Spec
CONSTANTS
  Kinds = {"device", "file", "blocked"}
  Listeners = {l1}
  PipeCap = 2
  AuxCap = 1
  Backlog = 1
  MaxProcs = 2
  MaxUnits = 4
PROPERTY CloseReturns
CHECK_DEADLOCK FALSE
