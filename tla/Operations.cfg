SPECIFICATION Spec
CONSTANTS
  Libraries <- AllLibraries
  MaxOps = 4
INVARIANTS Connected Told Measured
CHECK_DEADLOCK FALSE
