SPECIFICATION Spec
CONSTANTS
  Devices = {a, b}
  Objects = {x}
  Shared = {x}
  PageLimit = 2
  BatchLimit = 1
  MaxEdits = 2
  MaxFailures = 1
  None = None
  Allowed = {"lost answer"}
SYMMETRY Symmetry
INVARIANT CaughtUpAgrees
CHECK_DEADLOCK FALSE
