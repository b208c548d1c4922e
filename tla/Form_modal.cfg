SPECIFICATION Spec
CONSTANTS
    Types = {"login", "note"}
    Texts = {"", " ", "a"}
    Stored = {"", "a"}
    Generated = "a"
    Pools = {"lower"}
    Patient = TRUE
    None = None
INVARIANTS
    TypeOK
    ShownIsSaved
