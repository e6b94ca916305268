SPECIFICATION Spec
CONSTANT N = 1
CHECK_DEADLOCK FALSE
INVARIANT SkipHonoured
