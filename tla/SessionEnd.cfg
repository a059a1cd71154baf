SPECIFICATION Spec
CONSTANTS
  Kinds = {"device"}
  Listeners = {}
  PipeCap = 2
  AuxCap = 1
  Backlog = 1
  MaxProcs = 2
  MaxUnits = 4
INVARIANT SessionEndIsLast
CHECK_DEADLOCK FALSE
