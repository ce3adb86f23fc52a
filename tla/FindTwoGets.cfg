SPECIFICATION Spec
CONSTANTS
    a = a
    b = b
    n1 = n1
    n2 = n2
    NoFile = NoFile
    Proc = {p1, p2}
    Link = {a, b}
    Name = {n1}
    NameOf <- SameName
    Size <- Sizes
    Jobs <- Single
    Sized = TRUE
    Forces = {FALSE}
    Inode = {1, 2, 3, 4}
    Faults = {}
INVARIANTS
    TargetWhole
