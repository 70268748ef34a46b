\* Both modes, one fragment per message, crashes between system calls.
SPECIFICATION FairSpec
CONSTANTS
    MaxMsg = 3
    Parts <- MCPartsOne
    Body = 1
    Modes = {FALSE, TRUE}
    Faults = {"crash"}
    MaxCrashes = 2
    MaxUnits = 6
    NoMsg = NoMsg
INVARIANT Aligned
INVARIANT DeliveredWhole
INVARIANT LossBounded
INVARIANT CountExact
INVARIANT RecoveryOpens
PROPERTY ImplementsQueue
PROPERTY AckedDelivered
CHECK_DEADLOCK FALSE
