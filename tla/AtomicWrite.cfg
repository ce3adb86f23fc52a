\* Two writers and a reader, two images, three temporary files in all.
SPECIFICATION Spec
CONSTANTS
    Writer = {w1, w2}
    Image = {a, b}
    Absent = Absent
    Torn = Torn
    Stamp = {0}
    Attempts = 4
    MaxWrites = 3
    Faults = {"io", "crash", "power"}
SYMMETRY Symmetry
CHECK_DEADLOCK FALSE
INVARIANTS
    TypeOK
    NeverTorn
    ReadsWhole
PROPERTIES
    Implements
