SPECIFICATION LifecycleSpec
CONSTANTS
  MaxRuns = 2
  Absent = Absent
  Torn = Torn
INVARIANTS
  LifecycleTypeOK
  FilesSafe
  BuildSeesThisRun
