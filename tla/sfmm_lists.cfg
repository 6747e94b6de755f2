SPECIFICATION Spec
CONSTANTS
  Page = 512
  MaxPages = 2
  Sizes = {24, 56}
  Resizes = {}
  Aligns = {}
  Values = {}
  Careful = FALSE
  MaxCalls = 5
INVARIANT Listed
CHECK_DEADLOCK FALSE
