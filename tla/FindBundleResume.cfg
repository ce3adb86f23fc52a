SPECIFICATION Spec
CONSTANTS
    a = a
    b = b
    Stdin = Stdin
    Path = {a, b}
    Args <- TwoFiles
    Modes = {"always"}
    Bundles = {TRUE}
    Coll = {1, 2}
    Tok = {1, 2, 3}
    MaxRuns = 2
    Faults = {"interrupt"}
CHECK_DEADLOCK FALSE
PROPERTIES
    OneLink
