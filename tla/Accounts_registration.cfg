SPECIFICATION Spec
CONSTANTS
    UserIds = {u1, u2}
    Emails = {e1}
    Requests = {r1, r2}
    JobIds = {j1}
    Grace = 1
    Horizon = 0
    Faults = {"request", "worker", "job"}
    NoUser = NoUser
    NoEmail = NoEmail
SYMMETRY Symmetry
INVARIANTS
    TypeOK
    OneAccountPerEmail
    SessionsAreVerified
PROPERTIES
    LifecycleSpec
CHECK_DEADLOCK FALSE
