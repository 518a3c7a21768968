\* Packets cut into reads in every way, with timeouts, errors and one reconnection.
SPECIFICATION MqttWireSpec
CONSTANTS
    OUT_BUFFER = 40
    IN_BUFFER = 12
    MAX_CONNECTIONS = 2
    Requests <- MCRequests
    Sessions <- MCSessions
INVARIANTS PacketsAsSent PiecesOfPayload RequestReadable
PROPERTY PacketsAnswered
CHECK_DEADLOCK FALSE
