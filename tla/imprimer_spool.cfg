SPECIFICATION Spec
CONSTANTS
    a = a
    b = b
    c = c
    Names = {alice, bob}
    Types = {a, b, c}
    Edges <- Chain
    MAX_PRINTERS = 2
    MAX_JOBS = 2
    MaxChildren = 1
    MaxLapses = 1
INVARIANTS NoFault HeadOfLine
PROPERTIES ServedJustly Refused Printout
CHECK_DEADLOCK FALSE
