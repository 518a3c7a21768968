\* A message too large for the buffer, which ends inside its id.
SPECIFICATION MqttWireSpec
CONSTANTS
    OUT_BUFFER = 40
    IN_BUFFER = 12
    MAX_CONNECTIONS = 1
    Requests <- OnePing
    Sessions <- IdSessions
INVARIANT PiecesOfPayload
CHECK_DEADLOCK FALSE
