SPECIFICATION Spec
CONSTANTS
    Setup <- KnightsSetup
    Tokens <- KnightsTokens
    MaxTokens = 2
    Careful = TRUE
INVARIANT OriginTold
CHECK_DEADLOCK FALSE
