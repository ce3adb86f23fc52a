\* The same path is queued twice: both jobs may resume the one session.
SPECIFICATION Spec
CONSTANTS
    Token = {t1, t2, t3}
    NoToken = NoToken
    NoSession = NoSession
    Job = {j1, j2}
    File = {f1}
    source <- OnePath
    SingleShot = {}
    NumChunks = 2
    MaxVersion = 1
    Concurrency = 2
    MaxRetries = 0
    MaxReconcile = 0
    MaxRuns = 2
    Faults = {"interrupt"}
    ServerErrors = {}
    BadBodies = {}
SYMMETRY TokenSymmetry
CHECK_DEADLOCK FALSE
INVARIANTS
    ConfirmedHeld
PROPERTIES
    OpenSessionKept
