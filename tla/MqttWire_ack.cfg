\* An acknowledgement cut in the middle of an id with two high bytes.
SPECIFICATION MqttWireSpec
CONSTANTS
    OUT_BUFFER = 40
    IN_BUFFER = 12
    MAX_CONNECTIONS = 1
    Requests <- OnePing
    Sessions <- AckSessions
INVARIANT OneMessage
CHECK_DEADLOCK FALSE
