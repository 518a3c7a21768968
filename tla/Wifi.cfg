CONSTANTS
    WIFI_INITIAL_BACKOFF = 1
    WIFI_MAX_BACKOFF = 5
    MaxFailures = 5
    MaxRefused = 1
SPECIFICATION FairSpec
INVARIANTS ExactlyOneRecovery BitFollowsLink DelayDoubles
PROPERTY ComesBack
\* A station that is up and stays up has nothing to do.
CHECK_DEADLOCK FALSE
