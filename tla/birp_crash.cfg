SPECIFICATION Spec
CONSTANTS
    MaxWords = 7
INVARIANTS RefusedReturns
CHECK_DEADLOCK FALSE
