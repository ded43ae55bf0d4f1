CONSTANTS
    Kinds = {"Fifo", "ToEnd"}
    QueueChunks = 3
    PacedQueueChunks = 2
    CounterSize = 8
    MaxChunks = 5
    MaxDiscards = 1
    MaxSwitches = 2
SPECIFICATION FairSpec
INVARIANTS TypeOK SkippedAccounts CountMatches PacedHoldsBack FileWhole
PROPERTIES ReadsOnUndiscarded DropEnds FileDelivered
CHECK_DEADLOCK FALSE
