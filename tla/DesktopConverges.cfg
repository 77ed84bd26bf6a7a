SPECIFICATION FairSpec
CONSTANTS
  Devices = {a, b}
  Objects = {x, y}
  Shared = {x}
  PageLimit = 2
  BatchLimit = 2
  MaxEdits = 2
  MaxFailures = 1
  None = None
  Allowed = {}
INVARIANT CaughtUpAgrees
PROPERTY Settles
CHECK_DEADLOCK FALSE
