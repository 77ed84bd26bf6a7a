CONSTANTS
  Accounts = {anna}
  Registered = {}
  Handlers = {h1, h2}
  MaxDevices = 2
  MaxExpiries = 2
  MaxLost = 1
  None = None

SPECIFICATION FairSpec

INVARIANTS
  TypeOK
  OneLiveSession
  SignedOutForCause
  CredentialUsable
  NothingLeftSignedIn
PROPERTIES
  RevokedGetsNoSession
  RevokedSignsOut

CHECK_DEADLOCK FALSE
