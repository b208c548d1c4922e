SPECIFICATION FairSpec
CONSTANTS
    UserIds = {u1}
    Emails = {e1}
    Requests = {r1, r2}
    JobIds = {j1}
    Grace = 1
    Horizon = 1
    Faults = {}
    NoUser = NoUser
    NoEmail = NoEmail
INVARIANTS
    PurgeScheduled
PROPERTIES
    NoEarlyPurge
    DeletionCompletes
CHECK_DEADLOCK FALSE
