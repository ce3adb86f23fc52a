SPECIFICATION Spec
CONSTANTS
    a = a
    b = b
    n1 = n1
    n2 = n2
    NoFile = NoFile
    Proc = {p1}
    Link = {a, b}
    Name = {n1, n2}
    NameOf <- OwnNames
    Size <- EmptyToo
    Jobs <- Both
    Sized = TRUE
    Forces = {TRUE, FALSE}
    Inode = {1, 2, 3, 4, 5}
    Faults = {"drop", "crash", "interrupt", "ignore range", "unwritable", "append"}
INVARIANTS
    TypeOK
    TargetWhole
    SuccessIsWhole
PROPERTIES
    NoForceNoLoss
    PartKept
