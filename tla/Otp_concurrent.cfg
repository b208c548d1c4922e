SPECIFICATION Spec
CONSTANTS
    Codes = {c1, c2, c3}
    Issuers = {i1, i2}
    Verifiers = {v1, v2}
    Ttl = 3
    Cooldown = 1
    MaxTime = 4
    NoCode = NoCode
SYMMETRY Symmetry
INVARIANTS
    TypeOK
    CooldownMeansCode
    CodesPerCooldown
    UsesOverlap
PROPERTY SlotSpec
CHECK_DEADLOCK FALSE
