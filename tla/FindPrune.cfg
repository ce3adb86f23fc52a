\* Ctrl+C, then three hours before the next run.
SPECIFICATION Spec
CONSTANTS
    Token = {t1}
    NoToken = NoToken
    NoSession = NoSession
    Job = {j1}
    File = {j1}
    source <- OwnFiles
    SingleShot = {}
    NumChunks = 1
    MaxVersion = 1
    Concurrency = 1
    MaxRetries = 1
    MaxReconcile = 1
    MaxRuns = 2
    Faults = {"interrupt", "age"}
    ServerErrors = {}
    BadBodies = {}
CHECK_DEADLOCK FALSE
PROPERTIES
    PrunedMeansGone
