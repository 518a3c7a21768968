CONSTANTS
    SampleBytes = 1
    WINDOW_QUEUE_DEPTH = 2
    WINDOW_SIZE = 2
    FIFO_DRAIN_BATCH = 3
    MaxSample = 8
SPECIFICATION FairSpec
INVARIANTS OneOwner HandedGapless
PROPERTY ImplementsStream
