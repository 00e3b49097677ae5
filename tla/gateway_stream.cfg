SPECIFICATION Spec
CONSTANTS
  b1 = b1
  b2 = b2
  bad = bad
  r1 = r1
  r2 = r2
  Backends = {b1, b2}
  Malformed = bad
  Configurations <- Lists
  Requests = {r1, r2}
  MaxAccepted = 3
  MaxChunks = 1
PROPERTY
  StreamsBoundedByContext
CHECK_DEADLOCK FALSE
