\* Two threads without modifications, one thread with them.
SPECIFICATION Spec
CONSTANTS
    t1 = t1
    t2 = t2
    Threads = {t1, t2}
    Programs <- MCPrograms
    Indexes = {0, 1}
    MAX_DEPTH = 2
    Hash <- MCHash
    MaxPaths = 4
    MaxHandles = 2
INVARIANT RefcountExact
INVARIANT FoundByName
CHECK_DEADLOCK FALSE
