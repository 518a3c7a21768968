\* Three windows, an outbox that holds two, ids that are used again, and one network
\* failure; an item expires at the third tick.
CONSTANTS
    MsgIds = {i1, i2}
    MaxWindow = 3
    OUTBOX_WINDOWS = 2
    SEND_BUFFER = 2
    RETRANSMIT = 1
    RECONNECT = 1
    EXPIRE = 2
    KEEPALIVE = 2
    MaxAge = 3
    MaxFailures = 1
    i1 = i1
    i2 = i2
SPECIFICATION MqttSpec
INVARIANTS NoSilentLoss StateAgrees
SYMMETRY MsgIdSymmetry
