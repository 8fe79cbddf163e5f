SPECIFICATION Spec
CONSTANTS
    Users = {a, b}
    Teachers = {a}
    Seeded = {a}
    Robots = {r}
    Commands <- MCCommands
    Lifetime = 1
    MaxTime = 1
    MaxJoining = 2
    None = None
    Failed = Failed
    Waiting = Waiting
    MaxId = 1100
    Methods = {"execute_sequence", "home", "grip"}
INVARIANTS
    TypeOK
    UniqueUserNames
    ShownUserOwnsToken
    AdminPageIsForTeachers
    SocketFollowsLogin
PROPERTIES
    
    PageAppears
    ConnectSettles
