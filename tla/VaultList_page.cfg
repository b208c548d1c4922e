SPECIFICATION FairSpec
CONSTANTS
    Ids = {x1}
    Titles = {t1, t2}
    Fetches = {s1, s2}
    NoItem = NoItem
INVARIANTS
    TypeOK
    QuietPageIsServer
PROPERTIES
    OnlyReloadsRetitle
    SpinnerStops
