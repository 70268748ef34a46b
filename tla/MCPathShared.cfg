\* One thread that modifies and copies paths and takes further references.
SPECIFICATION Spec
CONSTANTS
    t1 = t1
    t2 = t2
    Threads = {t1, t2}
    Programs <- MCSharing
    Indexes = {0, 1}
    MAX_DEPTH = 2
    Hash <- MCHash
    MaxPaths = 4
    MaxHandles = 3
PROPERTY ModifiesOwn
CHECK_DEADLOCK FALSE
