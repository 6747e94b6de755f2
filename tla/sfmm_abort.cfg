SPECIFICATION Spec
CONSTANTS
  Page = 512
  MaxPages = 2
  Sizes = {24, 40}
  Resizes = {}
  Aligns = {}
  Values = {32}
  Careful = TRUE
  MaxCalls = 5
INVARIANT ValidAccepted
CHECK_DEADLOCK FALSE
