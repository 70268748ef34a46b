\* Both modes, fragments, short writes and a crash.
SPECIFICATION FairSpec
CONSTANTS
    MaxMsg = 2
    Parts <- MCPartsTwo
    Body = 1
    Modes = {FALSE, TRUE}
    Faults = {"crash", "short_data", "short_journal"}
    MaxCrashes = 1
    MaxUnits = 6
    NoMsg = NoMsg
INVARIANT TypeOK
PROPERTY FlushEnds
CHECK_DEADLOCK FALSE
