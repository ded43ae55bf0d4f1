CONSTANTS
    CountSize = 9
    Parts = 2
    None = None
    Workers = {w1}
    NetSize = 2
    Budgets <- Mixed
SPECIFICATION FairSpec
INVARIANTS TypeOK CurrentIsAsPublished CurrentWhenQuiet AckAfterState
PROPERTIES NeverOlder CatchesUp
