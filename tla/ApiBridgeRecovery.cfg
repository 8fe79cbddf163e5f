SPECIFICATION FairSpec
CONSTANTS
    Robots = {r1, r2}
    Sessions = {s1}
    QueueSize = 2
    MaxMessages = 2
    MaxLosses = 2
    Faults = {"reconnect_loss"}
    None = None
INVARIANTS
    SubscribedIsTruthful
PROPERTIES
    ListenerRecovers
    FeedbackFlows
CHECK_DEADLOCK FALSE
