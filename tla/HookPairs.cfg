SPECIFICATION Spec
CONSTANTS
  Hooks <- MCHooks
  Common <- MCCommon
  Routers <- RouterHooks
  MaxDepth = 3
  MaxCalls = 3
  EndsOthers <- MCEndsOthers
  LeavesOpen <- MCLeavesOpen
  LosesErrors <- MCLosesErrors
  Unasked <- MCUnasked
INVARIANTS Confined Settled RouteShown
PROPERTY Nested
CHECK_DEADLOCK FALSE
