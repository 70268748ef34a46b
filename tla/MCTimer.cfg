\* Three timers, programs of one thread and of several.
SPECIFICATION FairSpec
CONSTANTS
    Timers <- Three
    Expire <- Spread
    Programs = {FALSE, TRUE}
    Calls <- AllCalls
    Epoch = 4
    MaxTime = 6
CHECK_DEADLOCK FALSE
INVARIANT TypeOK
INVARIANT NeverAborts
INVARIANT Sorted
INVARIANT WakesInTime
PROPERTY InOrder
PROPERTY Fires
