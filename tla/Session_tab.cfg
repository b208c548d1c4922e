SPECIFICATION Spec
CONSTANTS
    Accounts = {a1, a2}
    Tabs = {t1}
    Slots = {m1, m2}
    NoAccount = NoAccount
    NoFetch = NoFetch
SYMMETRY Symmetry
INVARIANTS
    TypeOK
    CalmItemsOpen
    CalmTabAgrees
