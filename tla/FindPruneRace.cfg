\* ls beside an upload.
SPECIFICATION Spec
CONSTANTS
    Proc = {p1, p2}
    Token = {t1, t2}
    NoToken = NoToken
    Batch = 2
    Commands = {"upload", "ls"}
    Faults = {"expire"}
SYMMETRY Symmetry
CHECK_DEADLOCK FALSE
PROPERTIES
    PruneDropsOnlyDead
