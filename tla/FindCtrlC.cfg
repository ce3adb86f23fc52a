\* Nothing goes wrong but a Ctrl+C; the upload is then resumed.
SPECIFICATION Spec
CONSTANTS
    Token = {t1}
    NoToken = NoToken
    NoSession = NoSession
    Job = {j1}
    File = {j1}
    source <- OwnFiles
    SingleShot = {}
    NumChunks = 1
    MaxVersion = 1
    Concurrency = 1
    MaxRetries = 1
    MaxReconcile = 1
    MaxRuns = 2
    Faults = {"interrupt"}
    ServerErrors = {}
    BadBodies = {}
CHECK_DEADLOCK FALSE
INVARIANTS
    InterruptKeepsProgress
