\* Two commands at once, two settings in every layer, hand edits and failures.
SPECIFICATION Spec
CONSTANTS
    None = None
    Proc = {p1, p2}
    Key = {"apiHost", "concurrency"}
    Texts <- Mixed
    Starts <- Layers
    Faults = {"crash", "unwritable", "unreadable", "hand"}
SYMMETRY Symmetry
INVARIANTS
    TypeOK
    MostSpecificWins
    SavedLoads
PROPERTIES
    BrokenKept
    OverrideNotSaved
    OthersKept
