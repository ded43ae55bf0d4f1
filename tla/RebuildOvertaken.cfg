CONSTANTS
    Grids = {g1, g2}
    FirstGrid = g1
    Negative = {}
    None = none
    Workers = {w1, w2}
    Started = TRUE
    MaxEdits = 1
    MaxHints = 2
    MaxSwitches = 0
    MaxSets = 0
    MaxFailures = 0
    MaxPanics = 0
    MaxRefusals = 0
    MaxClaims = 0
SYMMETRY Symmetric
VIEW View
SPECIFICATION Spec
INVARIANTS AppliedInForce
CHECK_DEADLOCK FALSE
