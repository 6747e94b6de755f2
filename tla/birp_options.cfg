SPECIFICATION Spec
CONSTANTS
    MaxWords = 7
INVARIANTS Accepts Decodes
CHECK_DEADLOCK FALSE
