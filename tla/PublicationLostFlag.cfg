CONSTANTS
    CountSize = 9
    Parts = 2
    None = None
    Workers = {w1}
    NetSize = 2
    Budgets <- LostFlag
SPECIFICATION Spec
INVARIANTS ShownWhenQuiet
