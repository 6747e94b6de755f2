SPECIFICATION Spec
CONSTANTS
    MaxWords = 7
INVARIANTS UsageAccepted
CHECK_DEADLOCK FALSE
