\* A lost complete answer, then a metadata request the server errs on.
SPECIFICATION Spec
CONSTANTS
    Token = {t1}
    NoToken = NoToken
    NoSession = NoSession
    Job = {j1}
    File = {j1}
    source <- OwnFiles
    SingleShot = {}
    NumChunks = 1
    MaxVersion = 1
    Concurrency = 1
    MaxRetries = 2
    MaxReconcile = 1
    MaxRuns = 1
    Faults = {"network"}
    ServerErrors = {"5xx"}
    BadBodies = {}
CHECK_DEADLOCK FALSE
INVARIANTS
    ExpiredMeansUnpublished
