SPECIFICATION Spec
CONSTANTS
    Digits = {0, 1}
    OtpLength = 3
    Second = 3
    Ttl = 6
    Cooldown = 3
    MaxAge = 1
    None = None
INVARIANTS
    TypeOK
    TypedInOrder
    ClocksHonest
PROPERTY ResendReturns
