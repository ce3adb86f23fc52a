\* Two commands side by side without a lock, and every fault.
SPECIFICATION Spec
CONSTANTS
    Proc = {p1, p2}
    Token = {t1, t2}
    NoToken = NoToken
    Batch = 1
    Commands = {"upload", "ls", "rm", "import", "export"}
    Faults = {"network", "crash", "unwritable", "garble", "expire", "unreadable", "unusable"}
SYMMETRY Symmetry
CHECK_DEADLOCK FALSE
INVARIANTS
    TypeOK
    ClaimedGone
PROPERTIES
    MalformedShelfKept
    RowLossHasCause
    SessionLossHasCause
