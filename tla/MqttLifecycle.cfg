\* Two starts, three other calls, one failure of the network.
SPECIFICATION LifecycleSpec
CONSTANTS
    MAX_STARTS = 2
    MAX_CALLS = 3
    MAX_FAILURES = 1
    DefaultPort <- MCDefaultPort
    UserConfigs <- MCUserConfigs
INVARIANTS StoppedMeansEnded PortAsAsked
PROPERTIES ConnectsWhenInvited EndsWhenAsked
CHECK_DEADLOCK FALSE
