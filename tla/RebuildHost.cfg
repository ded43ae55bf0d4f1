CONSTANTS
    Grids = {g1, g2}
    FirstGrid = g1
    Negative = {g2}
    None = none
    Workers = {w1, w2}
    Started = TRUE
    MaxEdits = 1
    MaxHints = 1
    MaxSwitches = 2
    MaxSets = 0
    MaxFailures = 1
    MaxPanics = 1
    MaxRefusals = 0
    MaxClaims = 1
SYMMETRY Symmetric
VIEW View
SPECIFICATION Spec
INVARIANTS TypeOK AnsweredWhenQuiet
PROPERTY InForceIsLatest
CHECK_DEADLOCK FALSE
