CONSTANTS
    CountSize = 4
    Parts = 1
    None = none
    Other = other
    Conns = {c1, c2}
    OutboxSize = 2
    PipeSize = 1
    InboxSize = 1
    Budgets <- Stories
SPECIFICATION FairSpec
INVARIANTS TypeOK StreamWhole SyncBarrier
PROPERTY StreamRegained
CHECK_DEADLOCK FALSE
