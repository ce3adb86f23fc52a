\* A command dies between the last byte and the rename, and the next one
\* empties the complete .part file; the last member of a collection is
\* interrupted.  Each property fails on its own.
SPECIFICATION Spec
CONSTANTS
    a = a
    b = b
    n1 = n1
    n2 = n2
    NoFile = NoFile
    Proc = {p1}
    Link = {a, b}
    Name = {n1, n2}
    NameOf <- OwnNames
    Size <- EmptyToo
    Jobs <- Both
    Sized = TRUE
    Forces = {TRUE, FALSE}
    Inode = {1, 2, 3, 4, 5}
    Faults = {"crash", "interrupt"}
INVARIANTS
    InterruptedExit
PROPERTIES
    LaterRunResumes
