\* An upload while sessions.json is malformed.
SPECIFICATION Spec
CONSTANTS
    Proc = {p1}
    Token = {t1, t2}
    NoToken = NoToken
    Batch = 2
    Commands = {"upload"}
    Faults = {"garble"}
SYMMETRY Symmetry
CHECK_DEADLOCK FALSE
PROPERTIES
    MalformedSessionsKept
