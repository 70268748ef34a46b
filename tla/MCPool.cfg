SPECIFICATION FairSpec
CONSTANTS
    a = a
    b = b
    m1 = m1
    m2 = m2
    Cnx = {a, b}
    Msg = {m1, m2}
    Nobody = Nobody
    Freed = Freed
    Strings <- Several
    FAILOVER = TRUE
    RECONNECT = TRUE
    INITIAL_EXPIRATION_TIME = 1
    MAXIMUM_EXPIRATION_TIME = 3
    Calls = {"set_dead"}
    Faults = {"refused"}
    MaxFails = 2
INVARIANT TypeOK
INVARIANT NothingTwice
INVARIANT NeverOvercounts
INVARIANT Retried
INVARIANT FlushedWhenUp
PROPERTY Flushed
