CONSTANTS
  d1 = d1  d2 = d2
  a = a  b = b  new = new
  k1 = k1  k2 = k2  k3 = k3  k4 = k4
  Handlers = {h1, h2}
  Devices = {d1, d2}
  Objects = {a, b, new}
  Existing = {a, b}
  Keys = {k1, k2, k3, k4}
  Requests <- SeparateRequests
  NoRequest = NoRequest
  PageLimit = 1
  MaxCursor = 3

SPECIFICATION Spec

INVARIANT NoChangeSkipped

CHECK_DEADLOCK FALSE
