CONSTANTS
    MaxWindow = 4
    Malformed = {2}
    Odd = {4}
    MAX_INFLIGHT = 2
    MAX_QUEUED = 3
    MaxDuplicates = 1
    MaxBreaks = 2
    MaxStoreErrors = 1
SPECIFICATION FairSpec
CONSTRAINT FewConnections
INVARIANTS NothingLost OncePerDelivery FirstRowsInOrder
PROPERTY HandledUnlessOdd
\* With every window handled and the last failure over, nothing is left to do.
CHECK_DEADLOCK FALSE
