CONSTANTS
    Frame = {f1, f2}
    Silence = Silence
    Skipped = Skipped
    Capacity = 3
    MaxBatch = 2
    MaxFrames = 6
SPECIFICATION FairSpec
INVARIANTS IInv RaceFree InOrder
PROPERTIES ImplementsQueue PublishedFramesLeave
