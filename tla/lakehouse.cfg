SPECIFICATION Spec
CONSTANTS
  c1 = c1
  c2 = c2
  Calls = {c1, c2}
  Scores <- AroundThresholds
  MaxBegun <- ThreeOfEach
  MaxIngested = 2
SYMMETRY Symmetric
INVARIANTS
  TypeOK
  ReadyBucketsAreVersioned
  EveryCopyEarned
PROPERTIES
  NothingLost
  NoStalePromotion
CHECK_DEADLOCK FALSE
