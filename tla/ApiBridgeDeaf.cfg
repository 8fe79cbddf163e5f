SPECIFICATION Spec
CONSTANTS
    Robots = {r1, r2}
    Sessions = {s1}
    QueueSize = 1
    MaxMessages = 1
    MaxLosses = 2
    Faults = {"reconnect_loss"}
    None = None
INVARIANTS
    RegisteredIsServed
CHECK_DEADLOCK FALSE
