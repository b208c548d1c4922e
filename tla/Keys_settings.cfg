SPECIFICATION Spec
CONSTANTS
    Passwords = {p1, p2}
    Hints = {h}
    Requests = {r1, r2}
    Logins = {c}
    Bodies <- SomeBodies
    Empty = Empty
    None = None
    Signup = Signup
CHECK_DEADLOCK FALSE
INVARIANTS
    TypeOK
    PasswordUnlocksVault
    LoginOpensVault
PROPERTIES
    RequestsEnd
    SettingsSpec
