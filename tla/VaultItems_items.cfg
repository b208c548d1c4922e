SPECIFICATION Spec
CONSTANTS
    Items = {x1, x2}
    Vaults = {v1, v2}
    Requests = {r1, r2}
    Blobs = {b1, b2}
    Bodies <- NonEmptyBodies
    Empty = Empty
    Null = Null
    NoRow = NoRow
    NoVault = NoVault
    Gone = Gone
SYMMETRY Symmetry
CHECK_DEADLOCK FALSE
INVARIANTS
    TypeOK
    PairsStayTogether
PROPERTIES
    NoLostUpdate
    OwnersOnly
    StoreSpec
