CONSTANTS
    Cli = cli
    Players = {p1}
    None = none
    Torn = torn
    Budgets <- Sleeper
SPECIFICATION Spec
INVARIANT AheadOfTheFile
CHECK_DEADLOCK FALSE
