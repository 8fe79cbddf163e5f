SPECIFICATION FairSpec
CONSTANTS
    MaxCommands = 1
    MaxLosses = 2
    Faults = {"reconnect_loss"}
PROPERTIES
    Recovers
CHECK_DEADLOCK FALSE
