SPECIFICATION Spec
CONSTANTS
    a = a
    b = b
    n1 = n1
    n2 = n2
    NoFile = NoFile
    Proc = {p1}
    Link = {a, b}
    Name = {n1}
    NameOf <- SameName
    Size <- Sizes
    Jobs <- Collection
    Sized = TRUE
    Forces = {FALSE}
    Inode = {1, 2, 3}
    Faults = {"drop"}
INVARIANTS
    TargetWhole
