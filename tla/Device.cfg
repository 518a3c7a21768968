\* One sample per window, two buffers, two windows, an outbox of one, one failure of the
\* network; no item grows old enough to expire.
CONSTANTS
    SampleBytes = 1
    WINDOW_QUEUE_DEPTH = 2
    WINDOW_SIZE = 1
    FIFO_DRAIN_BATCH = 1
    MaxSample = 2
    MsgIds = {i1}
    MaxWindow = 2
    OUTBOX_WINDOWS = 1
    SEND_BUFFER = 1
    RETRANSMIT = 1
    RECONNECT = 0
    EXPIRE = 2
    KEEPALIVE = 2
    MaxAge = 2
    MaxFailures = 1
    i1 = i1
SPECIFICATION DeviceSpec
PROPERTIES BufferReturns Delivered
