SPECIFICATION FairSpec
CONSTANTS
    MaxCommands = 3
    MaxLosses = 1
    Faults = {}
INVARIANTS
    TypeOK
    ExecutesAtMostOnce
    RepliesAreTrue
    AnswersInOrder
    WorksOnCompleteConnections
PROPERTIES
    ImplementsService
    Recovers
    CommandsConclude
CHECK_DEADLOCK FALSE
