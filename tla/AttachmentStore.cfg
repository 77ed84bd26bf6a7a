CONSTANTS
  x = x  y = y
  long = long  other = other  small = small  huge = huge
  Handlers = {h1, h2}
  Ids = {x, y}
  Files = {long, other, small, huge}
  Name <- NameOf
  Length <- LengthOf
  Asked <- MixedRequests
  Quota = 2
  MaxFailures = 2
  None = None
  ChunkBytes = 4
  FrameOverhead = 3
  PartBytes = 5
  MaxAttachmentBytes = 20
  MaxImportedBytes = 20
  MaxRangeBytes = 3

SPECIFICATION Spec
SYMMETRY HandlerSymmetry

INVARIANTS
  TypeOK
  QuotaHeld
  CompleteHasObject
  PartsHaveFiles
  NothingLeftBehind
PROPERTIES
  CompleteStays
  ImplementsUploads

CHECK_DEADLOCK FALSE
