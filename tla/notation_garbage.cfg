SPECIFICATION Spec
CONSTANTS
    Arguments <- CommandLine
    MaxArguments = 1
    Moves <- GameMoves
    InputLanguages <- Tongues
    MaxNodes = 1
    VARIATION_MAX = 1
    NB_MOVE_TO_DISP = 2
INVARIANTS ErrorsFail
CHECK_DEADLOCK FALSE
