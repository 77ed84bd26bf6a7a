SPECIFICATION Spec
CONSTANTS
  Devices = {a, b}
  Objects = {x}
  Shared = {x}
  PageLimit = 2
  BatchLimit = 1
  MaxEdits = 3
  MaxFailures = 1
  None = None
  Allowed = {"lost answer"}
SYMMETRY Symmetry
INVARIANTS TypeOK NoEditLost
PROPERTIES NoBlindOverwrite
CHECK_DEADLOCK FALSE
