SPECIFICATION Spec
CONSTANTS
    MaxWords = 7
INVARIANTS HelpAsked
CHECK_DEADLOCK FALSE
