\* An upload while shelf.json cannot be opened.
SPECIFICATION Spec
CONSTANTS
    Proc = {p1}
    Token = {t1, t2}
    NoToken = NoToken
    Batch = 2
    Commands = {"upload"}
    Faults = {"unreadable"}
SYMMETRY Symmetry
CHECK_DEADLOCK FALSE
PROPERTIES
    RecordAdds
