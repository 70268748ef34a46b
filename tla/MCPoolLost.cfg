SPECIFICATION Spec
CONSTANTS
    a = a
    b = b
    m1 = m1
    m2 = m2
    Cnx = {a, b}
    Msg = {m1, m2}
    Nobody = Nobody
    Freed = Freed
    Strings <- One
    FAILOVER = TRUE
    RECONNECT = TRUE
    INITIAL_EXPIRATION_TIME = 1
    MAXIMUM_EXPIRATION_TIME = 1
    Calls = {"init", "set_string", "set_alive", "add"}
    Faults = {"late", "unread", "profile", "callback"}
    MaxFails = 1
SYMMETRY Symmetry
INVARIANT NothingLost
CHECK_DEADLOCK FALSE
