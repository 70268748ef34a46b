\* Identifiers as fast as get_current_time gives them.
SPECIFICATION Spec
CONSTANTS
    UUIDS_PER_TICK = 10
    TimeOffset = 1
    ClockSeq = 4
    MaxClock = 3
    MaxIdents = 40
CHECK_DEADLOCK FALSE
INVARIANT Increasing
