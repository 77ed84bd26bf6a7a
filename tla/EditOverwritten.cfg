SPECIFICATION Spec
CONSTANTS
  Devices = {a, b}
  Objects = {x}
  Shared = {x}
  PageLimit = 2
  BatchLimit = 1
  MaxEdits = 2
  MaxFailures = 0
  None = None
  Allowed = {"edit during apply"}
SYMMETRY Symmetry
INVARIANT NoEditLost
CHECK_DEADLOCK FALSE
