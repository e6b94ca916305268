SPECIFICATION Spec
CONSTANTS
  Message = {m1, m2, m3}
  NoMessage = NoMessage
  CacheMax = 1
  InFlightMax = 2
CHECK_DEADLOCK FALSE
INVARIANTS
  TypeOK
  SpansSettled
  ComesBackWhole
PROPERTY ClosedEnds
