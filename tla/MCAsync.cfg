\* Three jobs, every call, one fork.
SPECIFICATION FairSpec
CONSTANTS
    Jobs <- ThreeJobs
    Calls <- AllCalls
    MaxForks = 1
CHECK_DEADLOCK FALSE
INVARIANT TypeOK
INVARIANT RunInOrder
INVARIANT NoLostWakeup
INVARIANT ExitDrains
PROPERTY JobsRun
PROPERTY ExitReturns
PROPERTY TimersServed
