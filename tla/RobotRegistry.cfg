SPECIFICATION Spec
CONSTANTS
    ExternalIds = {e1, e2}
    RobotIds = {r1, r2}
    Passwords = {p1, p2}
    Names = {n1}
    InputStatus = {"approved", "disabled", "unknown to the CHECK"}
    Workers = {w1, w2}
    None = None
SYMMETRY Symmetry
INVARIANTS
    TypeOK
    UniqueExternalIds
    HistoryFollowsRow
    AnsweredRegistrationIsStored
    NothingReturnsToPending
    TokenOnlyIfEverApproved
PROPERTIES
    LifecycleUnderRaces
    SettledIsFinal
    CredentialsNeverChange
