\* Synchronous and asynchronous sends and timers.
SPECIFICATION FairSpec
CONSTANTS
    Programs <- MCPrograms
    MaxAlerts = 2
    MaxBeats = 2
    MaxRequests = 1
INVARIANT Contiguous
INVARIANT NothingStale
INVARIANT BeatsInOrder
PROPERTY AllSent
CHECK_DEADLOCK FALSE
