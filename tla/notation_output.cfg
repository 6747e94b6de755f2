SPECIFICATION Spec
CONSTANTS
    Arguments <- CommandLine
    MaxArguments = 2
    Moves <- GameMoves
    InputLanguages <- Tongues
    MaxNodes = 3
    VARIATION_MAX = 2
    NB_MOVE_TO_DISP = 2
INVARIANTS Numbered Legible Nested Diagrams Framed
CHECK_DEADLOCK FALSE
