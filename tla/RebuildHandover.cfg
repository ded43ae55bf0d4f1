CONSTANTS
    Grids = {g1, g2}
    FirstGrid = g1
    Negative = {g2}
    None = none
    Workers = {w1}
    Started = FALSE
    MaxEdits = 0
    MaxHints = 3
    MaxSwitches = 0
    MaxSets = 2
    MaxFailures = 1
    MaxPanics = 1
    MaxRefusals = 1
    MaxClaims = 1
CONSTRAINT Stories
VIEW View
SPECIFICATION FairSpec
PROPERTIES RebuildsEnd FollowerCatchesUp
CHECK_DEADLOCK FALSE
