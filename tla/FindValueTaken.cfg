SPECIFICATION Spec
CONSTANTS
    None = None
    Argvs <- Swallowed
    Commands = {"upload", "ls"}
    Options = {"title", "bundle", "b", "c"}
    Valued = {"title", "c"}
    Faults = {}
CHECK_DEADLOCK FALSE
INVARIANTS
    ValueKept
