CONSTANTS
    SampleBytes = 2
    WINDOW_QUEUE_DEPTH = 2
    WINDOW_SIZE = 2
    FIFO_DRAIN_BATCH = 2
    MaxSample = 0
    FIFO_SIZE = 5
    READ_CHUNK = 2
    MaxProduced = 14
    MaxBusErrors = 0
SPECIFICATION FirmwareSpec
INVARIANT WindowsConsecutive
