\* One run under an unreliable network, Ctrl+C and expiry: where
\* the delete token of a published file is at every moment.
SPECIFICATION Spec
CONSTANTS
    Token = {t1, t2}
    NoToken = NoToken
    NoSession = NoSession
    Job = {j1, j2}
    File = {j1, j2}
    source <- OwnFiles
    SingleShot = {}
    NumChunks = 1
    MaxVersion = 1
    Concurrency = 2
    MaxRetries = 1
    MaxReconcile = 1
    MaxRuns = 1
    Faults = {"network", "interrupt", "expire"}
    ServerErrors = {}
    BadBodies = {}
SYMMETRY TokenSymmetry
CHECK_DEADLOCK FALSE
INVARIANTS
    DeleteTokenKept
