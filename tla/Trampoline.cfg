SPECIFICATION Spec
CONSTANT N = 3
CHECK_DEADLOCK FALSE
INVARIANTS
  TypeOK
  HooksNest
  DataReachesExit
  HooksUnfelt
