SPECIFICATION Spec
CONSTANTS
  Page = 160
  MaxPages = 2
  Sizes = {24, 56}
  Resizes = {0, 104}
  Aligns = {16, 32}
  Values = {0}
  Careful = TRUE
  MaxCalls = 7
INVARIANTS Coalesced Listed Separate
PROPERTIES PayloadKept HeldKept
CHECK_DEADLOCK FALSE
