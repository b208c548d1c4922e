SPECIFICATION Spec
CONSTANTS
    Accounts = {a1, a2}
    Tabs = {t1, t2}
    Slots = {m1}
    NoAccount = NoAccount
    NoFetch = NoFetch
SYMMETRY Symmetry
INVARIANT CalmItemsOpen
