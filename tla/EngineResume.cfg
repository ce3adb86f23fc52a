\* One file, two chunks, two runs with crashes, Ctrl+C, edits and expiry.
SPECIFICATION Spec
CONSTANTS
    Token = {t1, t2}
    NoToken = NoToken
    NoSession = NoSession
    Job = {j1}
    File = {j1}
    source <- OwnFiles
    SingleShot = {}
    NumChunks = 2
    MaxVersion = 2
    Concurrency = 1
    MaxRetries = 1
    MaxReconcile = 1
    MaxRuns = 2
    Faults = {"network", "crash", "interrupt", "edit", "expire", "age"}
    ServerErrors = {"4xx", "5xx"}
    BadBodies = {}
SYMMETRY TokenSymmetry
CHECK_DEADLOCK FALSE
INVARIANTS
    ConfirmedHeld
    ResumeUnmixed
    ProgressSaved
PROPERTIES
    OpenSessionKept
