SPECIFICATION FairSpec
CONSTANTS
    Robots = {r1, r2}
    Sessions = {s1}
    QueueSize = 1
    MaxMessages = 1
    MaxLosses = 1
    Faults = {"clean_close"}
    None = None
PROPERTIES
    ListenerRecovers
CHECK_DEADLOCK FALSE
