SPECIFICATION Spec
CONSTANTS
    Users = {a}
    Teachers = {a}
    Seeded = {a}
    Robots = {r}
    Commands <- MCCommands
    Lifetime = 1
    MaxTime = 0
    MaxJoining = 0
    None = None
    Failed = Failed
    Waiting = Waiting
    MaxId = 1100
    Methods = {"execute_sequence", "home", "grip"}
PROPERTIES
    CommandsArriveWhole
