SPECIFICATION Spec
CONSTANTS
    None = None
    Argvs <- JustUpload
    Commands = {"upload", "ls"}
    Options = {"title", "bundle", "b", "c"}
    Valued = {"title", "c"}
    Faults = {"output"}
CHECK_DEADLOCK FALSE
INVARIANTS
    LostOutputReported
