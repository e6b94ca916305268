SPECIFICATION Spec
CONSTANTS
  Inv = {i1}
  Environments <- MCEnvironments
  MaxSpans = 2
  MaxCalls = 2
  MaxNow = 1
INVARIANTS Settled Agree Private
