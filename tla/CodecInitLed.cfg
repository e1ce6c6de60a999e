CONSTANT MaxRestarts = 0
SPECIFICATION Spec
INVARIANT LedOnError
CHECK_DEADLOCK FALSE
