CONSTANTS
    Kinds = {"Fifo"}
    QueueChunks = 3
    PacedQueueChunks = 2
    CounterSize = 8
    MaxChunks = 5
    MaxDiscards = 1
    MaxSwitches = 1
SPECIFICATION FairSpec
PROPERTY ReadsOn
CHECK_DEADLOCK FALSE
