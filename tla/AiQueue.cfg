CONSTANTS
  Items = {p, q}
  MaxEdits = 2
  MaxErrors = 1
  None = None

SPECIFICATION Spec
SYMMETRY Symmetry

INVARIANTS
  TypeOK
  JobOfEachRecord
  
  CompleteHasMetadata
  NothingBlocksPush
  IndexInStep
  NoJobLeftBehind

CHECK_DEADLOCK FALSE
