SPECIFICATION Spec
CONSTANTS
    Robots = {r1, r2}
    Sessions = {s1, s2}
    QueueSize = 1
    MaxMessages = 2
    MaxLosses = 1
    Faults = {"clean_close", "status_message", "db_error"}
    None = None
SYMMETRY Symmetry
INVARIANTS
    TypeOK
    QueuesMatchSessions
    RegisteredIsServed
PROPERTIES
    ImplementsFeed
CHECK_DEADLOCK FALSE
