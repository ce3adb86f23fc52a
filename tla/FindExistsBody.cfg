\* ls behind a portal that answers 200 with a page of its own.
SPECIFICATION Spec
CONSTANTS
    Proc = {p1}
    Token = {t1, t2}
    NoToken = NoToken
    Batch = 2
    Commands = {"upload", "ls"}
    Faults = {"unusable"}
SYMMETRY Symmetry
CHECK_DEADLOCK FALSE
PROPERTIES
    PruneDropsOnlyDead
