\* Two runs with two files or stdin (also asked for twice), bundled or not; the second may resume.
SPECIFICATION Spec
CONSTANTS
    a = a
    b = b
    Stdin = Stdin
    Path = {a, b}
    Args <- Lists
    Modes = {"ask"}
    Bundles = {TRUE, FALSE}
    Coll = {1, 2}
    Tok = {1, 2, 3}
    MaxRuns = 2
    Faults = {"crash", "interrupt", "unwritable", "expiry"}
CHECK_DEADLOCK FALSE
INVARIANTS
    TypeOK
    MembersClaimable
PROPERTIES
    WholeBundle
    SeparateClaimable
    TempGone
