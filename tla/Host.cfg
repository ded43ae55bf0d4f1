CONSTANTS
    None = none
    Service = FALSE
    QueueSize = 1
    MaxStreams = 2
    MaxEvents = 2
SPECIFICATION FairSpec
INVARIANTS TypeOK EpochIsOneStream ShownIsOpen
PROPERTIES OutputComesBack RequestsServed
