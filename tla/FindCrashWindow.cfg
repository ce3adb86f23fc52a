\* A crash between the two writes of a successful upload.
SPECIFICATION Spec
CONSTANTS
    Token = {t1}
    NoToken = NoToken
    NoSession = NoSession
    Job = {j1}
    File = {j1}
    source <- OwnFiles
    SingleShot = {}
    NumChunks = 1
    MaxVersion = 1
    Concurrency = 1
    MaxRetries = 1
    MaxReconcile = 1
    MaxRuns = 1
    Faults = {"crash"}
    ServerErrors = {}
    BadBodies = {}
CHECK_DEADLOCK FALSE
INVARIANTS
    CrashKeepsDeleteToken
