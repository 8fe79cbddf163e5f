SPECIFICATION FairSpec
CONSTANTS
    Identities = {i1, i2, i3}
    Faults = {}
    None = None
INVARIANTS
    TypeOK
    OneRobotPerController
    OperatesApproved
PROPERTIES
    IdentityIsKept
    RegisteredConnects
