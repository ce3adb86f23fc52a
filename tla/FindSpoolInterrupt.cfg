SPECIFICATION Spec
CONSTANTS
    a = a
    b = b
    Stdin = Stdin
    Path = {a, b}
    Args <- WithStdin
    Modes = {"never"}
    Bundles = {FALSE}
    Coll = {1}
    Tok = {1, 2}
    MaxRuns = 1
    Faults = {"interrupt"}
CHECK_DEADLOCK FALSE
INVARIANTS
    InterruptedExit
