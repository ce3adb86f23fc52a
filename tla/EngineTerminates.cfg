\* One file against a server that errs, forgets and loses chunks without end.
SPECIFICATION FairSpec
CONSTANTS
    Token = {t1}
    NoToken = NoToken
    NoSession = NoSession
    Job = {j1}
    File = {j1}
    source <- OwnFiles
    SingleShot = {}
    NumChunks = 2
    MaxVersion = 1
    Concurrency = 1
    MaxRetries = 2
    MaxReconcile = 2
    MaxRuns = 1
    Faults = {"network", "interrupt", "loop", "loss", "expire"}
    ServerErrors = {"503", "5xx", "4xx"}
    BadBodies = {}
CHECK_DEADLOCK FALSE
PROPERTIES
    Terminates
