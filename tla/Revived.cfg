SPECIFICATION Spec
CONSTANTS
  a = a  b = b
  photo = photo
  Devices = {a, b}
  Attachments = {photo}
  Maker <- MakerOf
  Parts = 1
  MaxEdits = 2
  MaxFailures = 0
  None = None
PROPERTIES StaysDeleted
CHECK_DEADLOCK FALSE
