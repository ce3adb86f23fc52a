\* Every line of up to four words, and `upload` with up to five.
SPECIFICATION Spec
CONSTANTS
    None = None
    Argvs <- Lines
    Commands = {"upload", "ls"}
    Options = {"title", "bundle", "b", "c"}
    Valued = {"title", "c"}
    Faults = {"config", "output"}
CHECK_DEADLOCK FALSE
INVARIANTS
    TypeOK
    WordsKept
    PositionalsExact
