SPECIFICATION Spec
CONSTANTS
    Setup <- StudySetup
    Tokens <- StudyTokens
    MaxTokens = 6
    Careful = TRUE
INVARIANTS Backtracked LineAlive Material ReadBack SameTurn
CHECK_DEADLOCK FALSE
