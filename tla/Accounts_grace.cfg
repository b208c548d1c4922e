SPECIFICATION Spec
CONSTANTS
    UserIds = {u1}
    Emails = {e1}
    Requests = {r1}
    JobIds = {j1, j2}
    Grace = 1
    Horizon = 1
    Faults = {}
    NoUser = NoUser
    NoEmail = NoEmail
PROPERTIES
    WholeGracePeriod
CHECK_DEADLOCK FALSE
