CONSTANTS
    SampleBytes = 2
    WINDOW_QUEUE_DEPTH = 2
    WINDOW_SIZE = 2
    FIFO_DRAIN_BATCH = 2
    MaxSample = 0
    FIFO_SIZE = 5
    READ_CHUNK = 1
    MaxProduced = 14
    MaxBusErrors = 1
SPECIFICATION FirmwareFairSpec
INVARIANTS ReadsWholeSamples GaplessUnlessSilent LossIsLogged
PROPERTY FifoDrained
