\* Two files share one slot: every answer, network error, retry, failed start
\* and abort path of the engine.
SPECIFICATION Spec
CONSTANTS
    Token = {t1, t2, t3}
    NoToken = NoToken
    NoSession = NoSession
    Job = {j1, j2}
    File = {j1, j2}
    source <- OwnFiles
    SingleShot = {j2}
    NumChunks = 1
    MaxVersion = 1
    Concurrency = 1
    MaxRetries = 1
    MaxReconcile = 1
    MaxRuns = 1
    Faults = {"network", "interrupt", "start", "disk"}
    ServerErrors = {"503", "4xx"}
    BadBodies = {"init", "status"}
SYMMETRY TokenSymmetry
CHECK_DEADLOCK FALSE
INVARIANTS
    TypeOK
    InFlightExact
    NoDoubleUpload
    SuccessRecorded
