\* Calls of every kind, one connection that breaks, clean and persistent sessions.
SPECIFICATION SessionSpec
CONSTANTS
    MAX_CALLS = 2
    MAX_INCOMING = 1
    MAX_BREAKS = 1
    IN_FLIGHT = 2
    Sessions <- MCSessions
    Operations <- MCOperations
INVARIANTS NeverTwice AtLeastOnce EventsTrue KeptOrder
PROPERTY Answered
CHECK_DEADLOCK FALSE
