SPECIFICATION FairSpec
CONSTANTS
  a = a  b = b
  photo = photo
  Devices = {a, b}
  Attachments = {photo}
  Maker <- MakerOf
  Parts = 2
  MaxEdits = 3
  MaxFailures = 1
  None = None
INVARIANTS TypeOK QueuedIsHeld ReferenceResolves
PROPERTIES TombstoneFirst ImplementsUploads Settles
CHECK_DEADLOCK FALSE
